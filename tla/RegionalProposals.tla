-------------------------- MODULE RegionalProposals --------------------------
(***************************************************************************)
(* The regional proposals of one event (v2/regional_proposals.py,          *)
(* v2/platform_regional_ops.py).  A simulation update sets the hazard      *)
(* level and, unless a supervisor run is under way, has the planning agent *)
(* reconcile the queue of pending proposals with what the language model   *)
(* now asks for; v3 reconciles on request.  Commanders edit, approve and   *)
(* reject, one proposal or a whole package; an approval is followed by its *)
(* notification bundle.                                                    *)
(*                                                                         *)
(* One step is one read or one write of the database.  Every write stores  *)
(* the whole row, made from the copy that was read before the language     *)
(* model was asked.                                                        *)
(***************************************************************************)
EXTENDS Naturals, Sequences, FiniteSets, SequencesExt

CONSTANTS ActionTypes,
          Hashes,          \* versions of what the model asks for one action
          Levels,          \* hazard levels simulations report
          Callers,
          Allowed,         \* what each thread does
          MaxProposals, MaxSimulations, MaxReconciles, MaxRestarts

ProposalAssumption ==
    /\ IsFiniteSet(ActionTypes) /\ Levels \subseteq {"low", "orange", "red"}
    /\ Allowed \in [Callers -> SUBSET {"simulate", "other_run", "generate",
                                       "edit", "approve", "reject", "warn"}]
    /\ {MaxProposals, MaxSimulations, MaxReconciles, MaxRestarts} \subseteq Nat

VARIABLES
    simulation, \* number and level of the latest simulation update
    level,      \* overall_risk_level of the event's hazard state
    proposals,  \* v2_action_proposals of the event, as they were inserted
    bundles,    \* how often each proposal got a notification bundle
    calls,      \* what each thread is doing
    reconciles, \* reconciliations begun: orders rows by created_at
    crashes,
    interlaced, \* two reconciliations were under way at the same time
    clobbered,  \* rows overwritten from a copy that was out of date
    missed,     \* a level no reconciliation has read: its update found a run
    cut         \* approvals that were cut off before their bundle

ghosts == <<interlaced, clobbered, missed, cut>>
proposalVars == <<simulation, level, proposals, bundles, calls, reconciles,
                  crashes, interlaced, clobbered, missed, cut>>

HighRisk == {"orange", "red"}
NoKey == <<"none", 0>>
New == 0
NoCall == [at |-> "idle", level |-> "low", previous |-> "none", key |-> NoKey,
           born |-> 0, writes |-> <<>>, queue |-> <<>>, decision |-> "none"]

Reconciling(t) == calls[t].at \in {"plan", "write", "attach"}

(* A run of the supervisor is under way, or its mark was not taken away.   *)
SupervisorRuns == \E t \in Callers : calls[t].at \in {"running", "planning", "after"}
                                     \/ (Reconciling(t) /\ calls[t].decision = "run")

Call(t, c) == calls' = [calls EXCEPT ![t] = c]
May(t, job) == job \in Allowed[t] /\ calls[t].at = "idle"

Write(i, row) == [row |-> i, base |-> IF i = New THEN row ELSE proposals[i], to |-> row]

Store(w) ==
    IF w.row = New
    THEN /\ proposals' = Append(proposals, w.to)
         /\ bundles' = Append(bundles, 0)
         /\ UNCHANGED clobbered
    ELSE /\ proposals' = [proposals EXCEPT ![w.row] = w.to]
         /\ clobbered' = IF proposals[w.row] = w.base THEN clobbered
                         ELSE clobbered \cup {w.row}
         /\ UNCHANGED bundles

-----------------------------------------------------------------------------
(* What a reconciliation writes *)

Newer(i, j) == \/ proposals[i].born > proposals[j].born
               \/ proposals[i].born = proposals[j].born /\ i >= j
Newest(is) == IF is = {} THEN New ELSE CHOOSE i \in is : \A j \in is : Newer(i, j)
OfType(type) == {i \in DOMAIN proposals : proposals[i].type = type}
Pending == {i \in DOMAIN proposals : proposals[i].status = "pending"}

(* _resolve_risk_stage_key: the stage of the newest proposal goes on while *)
(* it has a pending one; a new stage is named by the level and the update. *)
StageKey(c) ==
    LET newest == Newest(DOMAIN proposals) IN
    IF \/ newest = New
       \/ c.previous \notin HighRisk
       \/ c.previous = "orange" /\ c.level = "red"
       \/ \A i \in Pending : proposals[i].stage # proposals[newest].stage
    THEN c.key ELSE proposals[newest].stage

Flag(i) == Write(i, [proposals[i] EXCEPT !.flagged = TRUE])
Settle(i, status) == Write(i, [proposals[i] EXCEPT !.status = status])
Create(type, hash, key, born) ==
    Write(New, [type |-> type, hash |-> hash, stage |-> key, status |-> "pending",
                edited |-> FALSE, flagged |-> FALSE, born |-> born])

(* Seeded faults: a proposal of an earlier stage stays; an edit does not   *)
(* count.                                                                  *)
Desired_beside(type, hash, key, born) ==
    LET p == Newest(OfType(type) \cap Pending) IN
    IF p # New /\ proposals[p].stage = key THEN <<>>
    ELSE <<Create(type, hash, key, born)>>
Desired_over_edits(type, hash, key, born) ==
    LET p == Newest(OfType(type) \cap Pending) IN
    IF p # New /\ proposals[p].stage = key /\ proposals[p].hash = hash THEN <<>>
    ELSE (IF p = New THEN <<>> ELSE <<Settle(p, "superseded")>>)
         \o <<Create(type, hash, key, born)>>

(* The writes for one action the model asks for. *)
Desired(type, hash, key, born) ==
    LET p == Newest(OfType(type) \cap Pending)  last == Newest(OfType(type))
        create == Create(type, hash, key, born) IN
    IF p # New /\ proposals[p].stage = key
    THEN CASE proposals[p].hash = hash -> <<>>
           [] proposals[p].hash # hash /\ proposals[p].edited -> <<Flag(p)>>
           [] OTHER -> <<Settle(p, "superseded"), create>>
    ELSE IF /\ last # New /\ proposals[last].status \in {"rejected", "approved"}
            /\ proposals[last].stage = key /\ proposals[last].hash = hash
         THEN <<>>
         ELSE IF p = New THEN <<create>> ELSE <<Settle(p, "superseded"), create>>

(* The write for a pending action the model no longer asks for. *)
Removed(type) ==
    LET p == Newest(OfType(type) \cap Pending) IN
    IF p = New THEN <<>>
    ELSE <<IF proposals[p].edited THEN Flag(p) ELSE Settle(p, "superseded")>>

(* The writes of one action follow each other, the actions come in some    *)
(* order.                                                                  *)
Grouped(groups) == SetToSeq(groups \ {<<>>})

(* asked: what the model asks for, a version for some of the types.        *)
Reconciliation(asked, key, born) ==
    Grouped({Desired(type, asked[type], key, born) : type \in DOMAIN asked})
    \o Grouped({Removed(type) : type \in ActionTypes \ DOMAIN asked})

(* The next write, and those after it. *)
First(writes) == Head(Head(writes))
Left(writes) ==
    IF Len(Head(writes)) = 1 THEN Tail(writes) ELSE <<Tail(Head(writes))>> \o Tail(writes)

-----------------------------------------------------------------------------
(* Simulation updates and supervisor runs *)

(* ingest_simulation_update: the record of the update, then the hazard     *)
(* state; the run it asks for is left out when one is under way.           *)
simulate(t, l) ==
    /\ May(t, "simulate") /\ simulation.n < MaxSimulations
    /\ simulation' = [n |-> simulation.n + 1, level |-> l]
    /\ Call(t, [NoCall EXCEPT !.at = "hazard", !.level = l,
                              !.previous = simulation.level])
    /\ UNCHANGED <<level, proposals, bundles, reconciles, crashes, ghosts>>

set_hazard(t) ==
    /\ calls[t].at = "hazard"
    /\ level' = calls[t].level
    /\ missed' = TRUE
    /\ Call(t, [calls[t] EXCEPT !.at = "trigger"])
    /\ UNCHANGED <<simulation, proposals, bundles, reconciles, crashes, interlaced,
                   clobbered, cut>>

process_trigger(t) ==
    /\ calls[t].at = "trigger"
    /\ Call(t, IF SupervisorRuns THEN NoCall
               ELSE [NoCall EXCEPT !.at = "planning", !.decision = "run",
                                   !.previous = calls[t].previous])
    /\ UNCHANGED <<simulation, level, proposals, bundles, reconciles, crashes, ghosts>>

(* A run that a sweep or another trigger asked for reconciles nothing.     *)
other_run(t) ==
    /\ May(t, "other_run") /\ ~SupervisorRuns
    /\ Call(t, [NoCall EXCEPT !.at = "running"])
    /\ UNCHANGED <<simulation, level, proposals, bundles, reconciles, crashes, ghosts>>

run_over(t) ==
    /\ calls[t].at \in {"running", "after"}
    /\ Call(t, NoCall)
    /\ UNCHANGED <<simulation, level, proposals, bundles, reconciles, crashes, ghosts>>

(* v3's generate_proposals asks only at a high level, without a run.       *)
generate_proposals(t) ==
    /\ May(t, "generate") /\ level \in HighRisk
    /\ Call(t, [NoCall EXCEPT !.at = "planning", !.decision = "request"])
    /\ UNCHANGED <<simulation, level, proposals, bundles, reconciles, crashes, ghosts>>

-----------------------------------------------------------------------------
(* reconcile_regional_proposals *)

read_level(t) ==
    /\ calls[t].at = "planning" /\ simulation.n > 0 /\ reconciles < MaxReconciles
    /\ Call(t, [calls[t] EXCEPT !.at = "plan", !.level = level,
                                !.key = <<level, simulation.n>>,
                                !.born = reconciles + 1])
    /\ reconciles' = reconciles + 1
    /\ missed' = FALSE
    /\ interlaced' = (interlaced \/ \E u \in Callers : Reconciling(u))
    /\ UNCHANGED <<simulation, level, proposals, bundles, crashes, clobbered, cut>>

(* The reconciliation is over; in a run other agents follow. *)
Done(t) == IF calls[t].decision = "run" THEN [NoCall EXCEPT !.at = "after"] ELSE NoCall

(* At a low level every pending proposal is withdrawn. *)
withdraw(t) ==
    /\ calls[t].at = "plan" /\ calls[t].level \notin HighRisk
    /\ Call(t, [NoCall EXCEPT !.at = "write", !.decision = calls[t].decision,
                              !.writes = Grouped({<<Settle(i, "withdrawn")>> : i \in Pending})])
    /\ UNCHANGED <<simulation, level, proposals, bundles, reconciles, crashes, ghosts>>

(* At a high level the model is asked; when it fails nothing is written.   *)
plan(t, asked) ==
    LET c == calls[t]  key == StageKey(c)
        writes == Reconciliation(asked, key, c.born) IN
    /\ c.at = "plan" /\ c.level \in HighRisk
    /\ Len(proposals) + Cardinality({n \in DOMAIN writes : Last(writes[n]).row = New})
          <= MaxProposals
    /\ Call(t, [NoCall EXCEPT !.at = "write", !.decision = c.decision,
                              !.key = key, !.writes = writes])
    /\ UNCHANGED <<simulation, level, proposals, bundles, reconciles, crashes, ghosts>>

model_fails(t) ==
    /\ calls[t].at = "plan" /\ calls[t].level \in HighRisk
    /\ Call(t, Done(t))
    /\ UNCHANGED <<simulation, level, proposals, bundles, reconciles, crashes, ghosts>>

write(t) ==
    LET c == calls[t] IN
    /\ c.at \in {"write", "attach"} /\ c.writes # <<>>
    /\ Store(First(c.writes))
    /\ Call(t, [c EXCEPT !.writes = Left(@)])
    /\ UNCHANGED <<simulation, level, reconciles, crashes, interlaced, missed, cut>>

(* The pending proposals are read again; those of the stage are stored     *)
(* with the summary of the package, which the model is asked for.          *)
read_package(t) ==
    LET c == calls[t]  package == {i \in Pending : proposals[i].stage = c.key} IN
    /\ c.at = "write" /\ c.writes = <<>>
    /\ Call(t, IF c.key = NoKey THEN Done(t)
               ELSE [c EXCEPT !.at = "attach",
                       !.writes = Grouped({<<Write(i, proposals[i])>> : i \in package})])
    /\ UNCHANGED <<simulation, level, proposals, bundles, reconciles, crashes, ghosts>>

reconciled(t) ==
    /\ calls[t].at = "attach" /\ calls[t].writes = <<>>
    /\ Call(t, Done(t))
    /\ UNCHANGED <<simulation, level, proposals, bundles, reconciles, crashes, ghosts>>

-----------------------------------------------------------------------------
(* Commanders *)

(* One proposal, or what a package holds that is pending. *)
open_case(t, job, queue) ==
    /\ May(t, job) /\ job \in {"edit", "approve", "reject"}
    /\ Call(t, [NoCall EXCEPT !.at = "case", !.queue = queue, !.decision = job])
    /\ UNCHANGED <<simulation, level, proposals, bundles, reconciles, crashes, ghosts>>

Package(key) == SetToSeq({i \in Pending : proposals[i].stage = key})

Resolution(row, decision) ==
    CASE decision = "edit" -> [row EXCEPT !.edited = TRUE, !.flagged = FALSE]
      [] decision = "approve" -> [row EXCEPT !.status = "approved"]
      [] decision = "reject" -> [row EXCEPT !.status = "rejected"]

(* Seeded fault: the status is not looked at. *)
read_case_unguarded(t) ==
    LET c == calls[t]  i == Head(c.queue) IN
    /\ c.at = "case" /\ c.queue # <<>>
    /\ Call(t, [c EXCEPT !.at = "resolve",
                  !.writes = <<<<Write(i, Resolution(proposals[i], c.decision))>>>>])
    /\ UNCHANGED <<simulation, level, proposals, bundles, reconciles, crashes, ghosts>>

(* The guard of every handler: only pending proposals.  A refused one ends *)
(* the package.                                                            *)
read_case(t) ==
    LET c == calls[t]  i == Head(c.queue) IN
    /\ c.at = "case" /\ c.queue # <<>>
    /\ Call(t, IF proposals[i].status # "pending" THEN NoCall
               ELSE [c EXCEPT !.at = "resolve",
                       !.writes = <<<<Write(i, Resolution(proposals[i], c.decision))>>>>])
    /\ UNCHANGED <<simulation, level, proposals, bundles, reconciles, crashes, ghosts>>

(* Seeded fault: only the last proposal of a package gets its bundle. *)
resolve_last(t) ==
    LET c == calls[t] IN
    /\ c.at = "resolve"
    /\ Store(First(c.writes))
    /\ Call(t, IF c.decision = "approve" /\ Len(c.queue) = 1
               THEN [c EXCEPT !.at = "bundle", !.writes = <<>>]
               ELSE [c EXCEPT !.at = "case", !.writes = <<>>, !.queue = Tail(@)])
    /\ UNCHANGED <<simulation, level, reconciles, crashes, interlaced, missed, cut>>

(* The texts of the notifications are asked for before anything is stored. *)
bundle_fails(t) ==
    /\ calls[t].at = "resolve" /\ calls[t].decision = "approve"
    /\ Call(t, NoCall)
    /\ UNCHANGED <<simulation, level, proposals, bundles, reconciles, crashes, ghosts>>

resolve(t) ==
    LET c == calls[t] IN
    /\ c.at = "resolve"
    /\ Store(First(c.writes))
    /\ Call(t, IF c.decision = "approve"
               THEN [c EXCEPT !.at = "bundle", !.writes = <<>>]
               ELSE [c EXCEPT !.at = "case", !.writes = <<>>, !.queue = Tail(@)])
    /\ UNCHANGED <<simulation, level, reconciles, crashes, interlaced, missed, cut>>

(* The notification drafts and execution logs. *)
save_bundle(t) ==
    LET c == calls[t] IN
    /\ c.at = "bundle"
    /\ bundles' = [bundles EXCEPT ![Head(c.queue)] = @ + 1]
    /\ Call(t, [c EXCEPT !.at = "case", !.queue = Tail(@)])
    /\ UNCHANGED <<simulation, level, proposals, reconciles, crashes, ghosts>>

close_case(t) ==
    /\ calls[t].at = "case" /\ calls[t].queue = <<>>
    /\ Call(t, NoCall)
    /\ UNCHANGED <<simulation, level, proposals, bundles, reconciles, crashes, ghosts>>

(* v3's generate_warnings makes the bundle an approval does not have yet.  *)
generate_warnings(t, i) ==
    /\ May(t, "warn")
    /\ proposals[i].status = "approved" /\ bundles[i] = 0
    /\ Call(t, [NoCall EXCEPT !.at = "bundle", !.queue = <<i>>, !.decision = "warn"])
    /\ UNCHANGED <<simulation, level, proposals, bundles, reconciles, crashes, ghosts>>

restart ==
    /\ crashes < MaxRestarts
    /\ crashes' = crashes + 1
    /\ calls' = [t \in Callers |-> NoCall]
    /\ cut' = cut \cup {Head(calls[t].queue) :
                           t \in {u \in Callers : calls[u].at = "bundle"}}
    /\ missed' = (missed \/ \E t \in Callers : Reconciling(t))
    /\ UNCHANGED <<simulation, level, proposals, bundles, reconciles, interlaced,
                   clobbered>>

-----------------------------------------------------------------------------
ProposalInit ==
    /\ simulation = [n |-> 0, level |-> "none"] /\ level = "low"
    /\ proposals = <<>> /\ bundles = <<>>
    /\ calls = [t \in Callers |-> NoCall]
    /\ reconciles = 0 /\ crashes = 0
    /\ interlaced = FALSE /\ clobbered = {} /\ missed = FALSE /\ cut = {}

Requests == UNION {[types -> Hashes] : types \in SUBSET ActionTypes}

ProposalNext ==
    \/ \E t \in Callers :
          \/ \E l \in Levels : simulate(t, l)
          \/ set_hazard(t) \/ process_trigger(t) \/ other_run(t) \/ run_over(t)
          \/ generate_proposals(t) \/ read_level(t) \/ withdraw(t)
          \/ \E asked \in Requests : plan(t, asked)
          \/ model_fails(t) \/ write(t) \/ read_package(t) \/ reconciled(t)
          \/ \E job \in {"edit", "approve", "reject"}, i \in Pending :
                open_case(t, job, <<i>>)
          \/ \E job \in {"approve", "reject"}, i \in Pending :
                open_case(t, job, Package(proposals[i].stage))
          \/ read_case(t) \/ bundle_fails(t) \/ resolve(t) \/ save_bundle(t) \/ close_case(t)
          \/ \E i \in DOMAIN proposals : generate_warnings(t, i)
    \/ restart

ProposalSpec == ProposalInit /\ [][ProposalNext]_proposalVars

-----------------------------------------------------------------------------
(* Properties *)

(* Type correctness: every row belongs to a stage of high risk that some   *)
(* simulation began, and no bundle is due for a row that does not exist.   *)
ProposalTypeOK ==
    /\ DOMAIN bundles = DOMAIN proposals
    /\ \A i \in DOMAIN proposals :
          /\ proposals[i].stage \in HighRisk \X (1..simulation.n)
          /\ proposals[i].status \in
               {"pending", "approved", "rejected", "superseded", "withdrawn"}
    /\ \A t \in Callers : \A n \in DOMAIN calls[t].queue :
          calls[t].queue[n] \in DOMAIN proposals

(* A proposal that was approved, rejected, superseded or withdrawn stays   *)
(* so, unless a thread stores a copy that it read before.                  *)
ResolvedStays ==
    \A i \in DOMAIN proposals :
        proposals[i].status # "pending" /\ proposals'[i] # proposals[i] =>
            i \in clobbered'

(* The commander sees one pending proposal of an action at most, except    *)
(* while a reconciliation is under way - unless two of them overlapped or  *)
(* a stale copy brought a settled one back.                                *)
OnePendingPerAction ==
    ~interlaced /\ (\A t \in Callers : ~Reconciling(t)) =>
        \A i, j \in Pending \ clobbered :
            proposals[i].type = proposals[j].type => i = j

(* An action is not asked for again in the version and the stage in which  *)
(* the commander decided it last.                                          *)
NotAskedAgain ==
    Len(proposals') > Len(proposals) /\ ~interlaced /\ clobbered = {} =>
        LET new == Last(proposals')  last == Newest(OfType(new.type)) IN
        ~ /\ last # New /\ proposals[last].status \in {"approved", "rejected"}
          /\ proposals[last].stage = new.stage /\ proposals[last].hash = new.hash

(* An edit of the commander is never replaced within its stage; a newer    *)
(* version only raises the flag - unless the edit came after the           *)
(* reconciliation had read the row.                                        *)
EditsAreKept ==
    \A i \in DOMAIN proposals :
        /\ proposals[i].status = "pending" /\ proposals[i].edited
        /\ proposals'[i].status = "superseded"
        => \/ i \in clobbered'
           \/ \E t \in Callers : calls[t].writes # <<>>
                                 /\ calls[t].key # proposals[i].stage

(* A low level leaves no proposal pending once a reconciliation has read   *)
(* it - unless it overlapped another, was handed to a run under way, or a  *)
(* stale copy brought a withdrawn proposal back.                           *)
LowMeansWithdrawn ==
    /\ level = "low" /\ ~missed /\ ~interlaced
    /\ \A t \in Callers : ~Reconciling(t)
    => Pending \subseteq clobbered

(* Notifications are made of approved proposals only, and every approval   *)
(* gets its own - unless a stale copy took the approval back, or the       *)
(* process stopped in between.                                             *)
ApprovalsAreCarriedOut ==
    \A i \in DOMAIN proposals :
        /\ bundles[i] > 0 => proposals[i].status = "approved" \/ i \in clobbered
        /\ proposals[i].status = "approved" /\ bundles[i] = 0 =>
              \/ i \in cut \cup clobbered
              \/ \E t \in Callers : calls[t].at = "bundle" /\ Head(calls[t].queue) = i

(* The queue has the proposals of the current level, each action once.     *)
QueueIsOrderly == ProposalTypeOK /\ OnePendingPerAction /\ LowMeansWithdrawn

(* What a commander decided or edited is neither undone, asked for again   *)
(* nor replaced.                                                           *)
DecisionsStand == ResolvedStays /\ NotAskedAgain /\ EditsAreKept
CommandersPrevail == [][DecisionsStand]_proposalVars
=============================================================================
