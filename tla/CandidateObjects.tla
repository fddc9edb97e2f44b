--------------------------- MODULE CandidateObjects ---------------------------
(***************************************************************************)
(* From a warning to the objects a task may be drafted on: the revisions   *)
(* of the warning of one event, the registry of risk objects of its area,  *)
(* the candidates screened from it, their verification by hand and the     *)
(* frozen lists (flood_system/response_workflow/service.py).               *)
(*                                                                         *)
(* As in TaskLifecycle a handler reads, and leaves in candidateCalls[p]    *)
(* the repository calls it still makes, each a transaction; handlers of    *)
(* several threads interleave between them and a process may stop there.   *)
(* A "read" step in the middle of a handler is one of those calls.  The    *)
(* import of the registry is the exception: one transaction holds all.     *)
(* The timeline entries each handler appends are TimelineChain's matter.   *)
(***************************************************************************)
EXTENDS Naturals, Sequences, FiniteSets, SequencesExt

CONSTANTS
  Objects,       \* risk objects of the area
  Masters,       \* contents a registry import may bring
  Lapsing,       \* the masters whose registry_valid_until lies ahead
  Unusable,      \* contents whose registry_status is not "active"
  Profiles,      \* objects with a legacy v2 profile (content "profile")
  ByHand,        \* contents an officer may enter
  Warnings,      \* contents of a warning
  FirstWarning,  \* the one the event was created with
  Called_off,    \* the warnings whose lifecycle is revoked or expired
  Threads,       \* request threads
  MayCall,       \* the handlers each thread calls in this instance
  NoContent,     \* no registry record
  MaxAlerts, MaxImports, MaxRuns, MaxLists, MaxDrafts, MaxObjectVersion, MaxStops

Contents == Masters \cup {"profile"}
Manual == 0      \* candidate_run_id of an object nobody screened

ASSUME CandidateAssumption ==
  /\ IsFiniteSet(Objects)
  /\ Lapsing \subseteq Masters
  /\ NoContent \notin Contents /\ Profiles \subseteq Objects
  /\ ByHand \subseteq Contents
  /\ Called_off \subseteq Warnings /\ FirstWarning \in Warnings
  /\ \A n \in {MaxAlerts, MaxImports, MaxRuns, MaxLists, MaxDrafts,
               MaxObjectVersion, MaxStops} : n \in Nat

VARIABLES
  responseEvent,   \* [closed, alert]: status and current_alert_version of the event row
  alerts,          \* response_alert_snapshots, by version
  registry,        \* response_risk_object_registry: [version, content] per object
  registryHistory, \* response_risk_object_registry_versions
  lapsed,          \* the contents whose validity has ended
  object,          \* response_event_objects: the row of each object
  objectHistory,   \* response_risk_object_versions: <<object, version>>
  runs,            \* response_candidate_runs, in the order they were saved
  runIds,          \* candidate run identifiers handed out
  lists,           \* response_candidate_object_lists, by version
  drafts,          \* tasks created: what each rested on
  handling,        \* the handler each thread runs
  candidateCalls,  \* transactions it still has to run
  stops,           \* processes stopped
  disturbed        \* what has gone wrong so far: see Accidents

situation == <<responseEvent, alerts, registry, registryHistory, object, objectHistory,
               runs, lists, drafts>>
candidateVars == <<situation, lapsed, runIds, handling, candidateCalls, stops, disturbed>>

Untouched == [status |-> "absent", stale |-> FALSE, version |-> 0, run |-> Manual,
              content |-> NoContent, verifiedUnder |-> 0]
Unregistered == [version |-> 0, content |-> NoContent]

Usable(c) == c \notin Unusable \cup lapsed

(***************************************************************************)
(* Transactions.                                                           *)
(***************************************************************************)
AlertWrite(w)      == [kind |-> "alert", version |-> Len(alerts) + 1, warning |-> w]
EventWrite(row)    == [kind |-> "event", row |-> row]
StalingRead        == [kind |-> "staling"]
\* A row is written to response_event_objects, and its version on record by
\* the next transaction; the number of the run is stamped on it without one.
ObjectWrite(o, row)  == [kind |-> "object", object |-> o, row |-> row, versioned |-> TRUE]
RunStamp(o, row, run) ==
  [kind |-> "object", object |-> o, row |-> [row EXCEPT !.run = run], versioned |-> FALSE]
VersionWrite(o, row) == [kind |-> "version", object |-> o, version |-> row.version]
AddRead(o, c, run) == [kind |-> "add", object |-> o, content |-> c, run |-> run]
RunWrite(run)      == [kind |-> "run", run |-> run]
ImportWrite(records, staleRuns, rows) ==
  [kind |-> "import", records |-> records, runs |-> staleRuns, rows |-> rows]
ListWrite(list)    == [kind |-> "list", list |-> list]
TaskWrite(draft)   == [kind |-> "draft", draft |-> draft]

Idle(p) == candidateCalls[p] = <<>>
Reply(p, handler, calls) ==
  /\ handler \in MayCall[p]
  /\ handling' = [handling EXCEPT ![p] = handler]
  /\ candidateCalls' = [candidateCalls EXCEPT ![p] = calls]
  /\ UNCHANGED <<situation, lapsed, stops>>
Kept == UNCHANGED runIds

OpenEvent == ~responseEvent.closed

\* The event has a row of the object.
OnRecord(o) == object[o].version > 0

(***************************************************************************)
(* What the handlers compute.                                              *)
(***************************************************************************)
Staled(row) == [row EXCEPT !.stale = TRUE, !.version = row.version + 1]

\* The row add_risk_objects stores over the one it read.
\* Seeded fault: a stale row keeps its old verification.
AddedKeepingStatus(row, c) ==
  [row EXCEPT !.status = IF row.version = 0 THEN "pending" ELSE row.status,
              !.stale = ~Usable(c), !.version = row.version + 1,
              !.run = Manual, !.content = c]
Added(row, c) ==
  [row EXCEPT !.status = IF row.version = 0 \/ row.stale THEN "pending" ELSE row.status,
              !.stale = ~Usable(c), !.version = row.version + 1,
              !.run = Manual, !.content = c]

\* The registry records a screening considers, with their versions.
Screened == [o \in {x \in Objects : registry[x].version > 0 /\ Usable(registry[x].content)}
               |-> registry[o].version]

\* The objects a screening may select from and the content each brings: the
\* registry, or the legacy profiles where it holds no usable record.
Selectable == IF DOMAIN Screened # {} THEN DOMAIN Screened ELSE Profiles
ContentFor(o) == IF DOMAIN Screened # {} THEN registry[o].content ELSE "profile"

Frozenable(o) == object[o].status = "confirmed" /\ ~object[o].stale
\* Seeded fault: only the run's warning revision is compared.
RunOfLatestAlert(o) ==
  object[o].run = Manual \/ \E r \in Range(runs) : r.id = object[o].run /\ r.alert = Len(alerts)
RunCurrent(o) ==
  \/ object[o].run = Manual
  \/ \E r \in Range(runs) :
       r.id = object[o].run /\ r.status = "completed" /\ r.alert = Len(alerts)

(***************************************************************************)
(* Handlers.                                                               *)
(***************************************************************************)
\* append_alert; an alert equal to the last one is answered without a write.
append_alert(p) ==
  /\ Idle(p) /\ OpenEvent /\ Len(alerts) < MaxAlerts
  /\ \E w \in Warnings \ {Last(alerts)} :
       Reply(p, "append_alert", <<AlertWrite(w), EventWrite([responseEvent EXCEPT !.alert = Len(alerts) + 1]),
                  StalingRead>>)
  /\ Kept

\* A batch of objects entered by hand.  A payload marked duplicate_of becomes
\* the content the canonical row has.
add_risk_objects(p) ==
  /\ Idle(p) /\ OpenEvent
  /\ \E o \in Objects :
       /\ object[o].version < MaxObjectVersion
       /\ \E c \in ByHand \cup ({object[o].content} \ {NoContent}) :
            Reply(p, "add_risk_objects", <<AddRead(o, c, Manual)>>)
  /\ Kept

\* The candidates kept after the spatial test, the score and the requested
\* number may be any of the selectable ones.
discover_risk_objects(p) ==
  /\ Idle(p) /\ OpenEvent /\ runIds < MaxRuns
  /\ Last(alerts) \notin Called_off
  /\ \E chosen \in SUBSET Selectable :
       /\ \A o \in chosen : object[o].version < MaxObjectVersion
       /\ LET id == runIds + 1
              adds == SetToSeq({AddRead(o, ContentFor(o), id) : o \in chosen})
          IN Reply(p, "discover_risk_objects", Append(adds, RunWrite([id |-> id, alert |-> Len(alerts),
                                             status |-> "completed", screened |-> Screened])))
  /\ runIds' = runIds + 1

verify_risk_object(p) ==
  /\ Idle(p) /\ OpenEvent
  /\ \E o \in Objects, decision \in {"confirmed", "excluded"} :
       /\ OnRecord(o) /\ object[o].version < MaxObjectVersion
       /\ Usable(object[o].content)
       /\ LET row == [object[o] EXCEPT !.status = decision, !.stale = FALSE,
                                       !.version = @ + 1, !.verifiedUnder = Len(alerts)]
          IN Reply(p, "verify_risk_object", <<ObjectWrite(o, row)>>)
  /\ Kept

\* _commit_risk_object_registry_import: only records whose content differs
\* are written; they stale every run and the rows of their objects.
Incoming == UNION {[some -> Masters] : some \in (SUBSET Objects) \ {{}}}
Changed(incoming) == {o \in DOMAIN incoming : incoming[o] # registry[o].content}
StaledRuns(changed) == {r \in Range(runs) : r.status # "stale"}
import_risk_object_registry(p) ==
  /\ Idle(p)
  /\ \E incoming \in Incoming :
       LET changed == Changed(incoming)
           touched == {o \in changed : OpenEvent /\ OnRecord(o) /\ ~object[o].stale}
       IN /\ changed # {}
          /\ \A o \in changed : registry[o].version < MaxImports
          /\ \A o \in touched : object[o].version < MaxObjectVersion
          /\ Reply(p, "import_risk_object_registry", <<ImportWrite(
                 [o \in changed |-> [version |-> registry[o].version + 1, content |-> incoming[o]]],
                 IF OpenEvent THEN {r.id : r \in StaledRuns(changed)} ELSE {},
                 [o \in touched |-> Staled(object[o])])>>)
  /\ Kept

\* expected_version guards nothing a caller leaves out, and the unique
\* version settles a race; a list equal to the latest one is answered as is.
freeze_candidate_object_list(p) ==
  /\ Idle(p) /\ OpenEvent /\ Len(lists) < MaxLists
  /\ \E selected \in (SUBSET Objects) \ {{}} :
       /\ \A o \in selected : Frozenable(o) /\ RunCurrent(o)
       /\ LET list == [version |-> Len(lists) + 1, alert |-> Len(alerts),
                       rows |-> [o \in selected |-> object[o]]]
          IN /\ lists # <<>> => [Last(lists) EXCEPT !.version = @ + 1] # list
             /\ Reply(p, "freeze_candidate_object_list", <<ListWrite(list)>>)
  /\ Kept

\* _resolve_candidate_object_list, and the binding create_task demands.
OnLatestList(o) == /\ Last(lists).alert = Len(alerts)
                   /\ o \in DOMAIN Last(lists).rows
                   /\ Last(lists).rows[o] = object[o]

\* create_task, also at the end of generate_task_draft (EvidencePackage).
create_task(p) ==
  /\ Idle(p) /\ OpenEvent /\ Cardinality(drafts) < MaxDrafts
  /\ \E o \in Objects :
       /\ Frozenable(o)
       /\ lists # <<>> => OnLatestList(o)
       /\ Reply(p, "create_task", <<TaskWrite([object |-> o, row |-> object[o], alert |-> Len(alerts),
                                list |-> Len(lists), registered |-> registry[o]])>>)
  /\ Kept

\* close_event asks for a task; that all are finished is TaskLifecycle's
\* matter, where tasks go on from the draft.
close_event(p) ==
  /\ Idle(p) /\ OpenEvent /\ drafts # {}
  /\ Reply(p, "close_event", <<EventWrite([responseEvent EXCEPT !.closed = TRUE])>>)
  /\ Kept

(***************************************************************************)
(* The transactions, in the order a handler runs them.                     *)
(***************************************************************************)
Next_call(p, kind) == candidateCalls[p] # <<>> /\ Head(candidateCalls[p]).kind = kind
Continue(p, calls) ==
  /\ candidateCalls' = [candidateCalls EXCEPT ![p] = calls]
  /\ handling' = [handling EXCEPT ![p] = IF calls = <<>> THEN "none" ELSE @]
Rest(p) == Tail(candidateCalls[p])
Same(except) == /\ UNCHANGED <<lapsed, runIds, stops>> /\ except

\* UNIQUE(event_id, version): the handler that comes second ends here.
save_alert_snapshot(p) ==
  /\ Next_call(p, "alert")
  /\ LET call == Head(candidateCalls[p])
     IN IF call.version <= Len(alerts)
        THEN UNCHANGED alerts /\ Continue(p, <<>>)
        ELSE alerts' = Append(alerts, call.warning) /\ Continue(p, Rest(p))
  /\ Same(UNCHANGED <<responseEvent, registry, registryHistory, object, objectHistory,
                      runs, lists, drafts>>)

save_response_event(p) ==
  /\ Next_call(p, "event")
  /\ responseEvent' = Head(candidateCalls[p]).row
  /\ Continue(p, Rest(p))
  /\ Same(UNCHANGED <<alerts, registry, registryHistory, object, objectHistory,
                      runs, lists, drafts>>)

\* list_event_risk_objects in append_alert: the rows marked are those read now.
staling(p) ==
  /\ Next_call(p, "staling")
  /\ LET marked == SetToSeq({o \in Objects : OnRecord(o) /\ ~object[o].stale})
     IN Continue(p, [i \in 1..Len(marked) |-> ObjectWrite(marked[i], Staled(object[marked[i]]))])
  /\ Same(UNCHANGED situation)

\* One turn of the loop of add_risk_objects.  A screening stamps its number
\* on the rows it got back, after all of them and before it saves the run.
add(p) ==
  /\ Next_call(p, "add")
  /\ LET call == Head(candidateCalls[p])
         row  == Added(object[call.object], call.content)
         more == IF call.run = Manual THEN Rest(p)
                 ELSE Append(Append(Front(Rest(p)), RunStamp(call.object, row, call.run)),
                             Last(Rest(p)))
     IN Continue(p, <<ObjectWrite(call.object, row)>> \o more)
  /\ Same(UNCHANGED situation)

save_event_risk_object(p) ==
  /\ Next_call(p, "object")
  /\ LET call == Head(candidateCalls[p])
     IN /\ object' = [object EXCEPT ![call.object] = call.row]
        /\ Continue(p, IF call.versioned
                       THEN <<VersionWrite(call.object, call.row)>> \o Rest(p) ELSE Rest(p))
  /\ Same(UNCHANGED <<responseEvent, alerts, registry, registryHistory, objectHistory,
                      runs, lists, drafts>>)

\* UNIQUE(event_id, object_id, version).
save_risk_object_version(p) ==
  /\ Next_call(p, "version")
  /\ LET key == <<Head(candidateCalls[p]).object, Head(candidateCalls[p]).version>>
     IN IF key \in objectHistory
        THEN UNCHANGED objectHistory /\ Continue(p, <<>>)
        ELSE objectHistory' = objectHistory \cup {key} /\ Continue(p, Rest(p))
  /\ Same(UNCHANGED <<responseEvent, alerts, registry, registryHistory, object,
                      runs, lists, drafts>>)

save_candidate_run(p) ==
  /\ Next_call(p, "run")
  /\ runs' = Append(runs, Head(candidateCalls[p]).run)
  /\ Continue(p, Rest(p))
  /\ Same(UNCHANGED <<responseEvent, alerts, registry, registryHistory, object, objectHistory,
                      lists, drafts>>)

\* commit_risk_object_registry_import.  A record or row version on record
\* already undoes the whole transaction.
ImportConflict(call) ==
  \/ \E o \in DOMAIN call.records :
       \E h \in registryHistory : h.object = o /\ h.version = call.records[o].version
  \/ \E o \in DOMAIN call.rows : <<o, call.rows[o].version>> \in objectHistory
commit_risk_object_registry_import(p) ==
  /\ Next_call(p, "import")
  /\ LET call == Head(candidateCalls[p])
     IN IF ImportConflict(call)
        THEN UNCHANGED <<registry, registryHistory, object, objectHistory, runs>>
        ELSE /\ registry' = [o \in Objects |-> IF o \in DOMAIN call.records
                                               THEN call.records[o] ELSE registry[o]]
             /\ registryHistory' = registryHistory \cup
                  {[object |-> o, version |-> call.records[o].version,
                    content |-> call.records[o].content] : o \in DOMAIN call.records}
             /\ object' = [o \in Objects |-> IF o \in DOMAIN call.rows
                                             THEN call.rows[o] ELSE object[o]]
             /\ objectHistory' = objectHistory \cup
                  {<<o, call.rows[o].version>> : o \in DOMAIN call.rows}
             /\ runs' = [i \in DOMAIN runs |-> IF runs[i].id \in call.runs
                                               THEN [runs[i] EXCEPT !.status = "stale"]
                                               ELSE runs[i]]
  /\ Continue(p, Rest(p))
  /\ Same(UNCHANGED <<responseEvent, alerts, lists, drafts>>)

\* PRIMARY KEY(list_id, version).
save_candidate_object_list(p) ==
  /\ Next_call(p, "list")
  /\ LET list == Head(candidateCalls[p]).list
     IN lists' = IF list.version <= Len(lists) THEN lists ELSE Append(lists, list)
  /\ Continue(p, Rest(p))
  /\ Same(UNCHANGED <<responseEvent, alerts, registry, registryHistory, object, objectHistory,
                      runs, drafts>>)

save_response_task(p) ==
  /\ Next_call(p, "draft")
  /\ drafts' = drafts \cup {Head(candidateCalls[p]).draft}
  /\ Continue(p, Rest(p))
  /\ Same(UNCHANGED <<responseEvent, alerts, registry, registryHistory, object, objectHistory,
                      runs, lists>>)

\* The process stops: the transactions not yet run are lost.
stop(p) ==
  /\ ~Idle(p) /\ stops < MaxStops
  /\ Continue(p, <<>>)
  /\ stops' = stops + 1
  /\ UNCHANGED <<situation, lapsed, runIds>>

\* Time passes the registry_valid_until of a content.
lapse ==
  /\ \E c \in Lapsing \ lapsed : lapsed' = lapsed \cup {c}
  /\ UNCHANGED <<situation, runIds, handling, candidateCalls, stops>>

(***************************************************************************)
(* What has come between the steps of a handler.  Not state of the code:   *)
(* the properties say by it which promises which accident voids.           *)
(***************************************************************************)
Together(handler, others) ==
  \E p, q \in Threads : p # q /\ handling[p] = handler /\ handling[q] \in others

\* append_alert ends, by a stop or a version on record, before the objects
\* are marked.
CutOff(p) ==
  /\ handling[p] = "append_alert" /\ handling'[p] = "none"
  /\ Head(candidateCalls[p]).kind # "alert"
  /\ stops' # stops \/ Len(candidateCalls[p]) > 1

Decisions == {"add_risk_objects", "discover_risk_objects", "verify_risk_object",
              "freeze_candidate_object_list", "create_task"}

\* A handler that read an older row writes it over the newer one.
Overwritten == \E o \in Objects : object'[o].version < object[o].version

Accidents ==
  {d \in {"cut off", "overwritten", "import beside", "alert beside"} :
     \/ d = "cut off" /\ \E p \in Threads : CutOff(p)
     \/ d = "overwritten" /\ Overwritten
     \/ /\ d = "import beside"
        /\ Together("import_risk_object_registry",
                    Decisions \cup {"import_risk_object_registry", "append_alert"})'
     \/ /\ d = "alert beside"
        /\ Together("append_alert", Decisions \cup {"append_alert", "close_event"})'}

(***************************************************************************)
(* Specification.                                                          *)
(***************************************************************************)
\* create_event has stored the event and its first warning.
CandidateInit ==
  /\ responseEvent = [closed |-> FALSE, alert |-> 1]
  /\ alerts = <<FirstWarning>>
  /\ registry = [o \in Objects |-> Unregistered]
  /\ registryHistory = {}
  /\ lapsed = {}
  /\ object = [o \in Objects |-> Untouched]
  /\ objectHistory = {}
  /\ runs = <<>>
  /\ runIds = 0
  /\ lists = <<>>
  /\ drafts = {}
  /\ handling = [p \in Threads |-> "none"]
  /\ candidateCalls = [p \in Threads |-> <<>>]
  /\ stops = 0
  /\ disturbed = {}

Handler(p) ==
  \/ append_alert(p)
  \/ add_risk_objects(p)
  \/ discover_risk_objects(p)
  \/ verify_risk_object(p)
  \/ import_risk_object_registry(p)
  \/ freeze_candidate_object_list(p)
  \/ create_task(p)
  \/ close_event(p)

Transaction(p) ==
  \/ save_alert_snapshot(p)
  \/ save_response_event(p)
  \/ staling(p)
  \/ add(p)
  \/ save_event_risk_object(p)
  \/ save_risk_object_version(p)
  \/ save_candidate_run(p)
  \/ commit_risk_object_registry_import(p)
  \/ save_candidate_object_list(p)
  \/ save_response_task(p)

CandidateNext ==
  /\ \/ \E p \in Threads : Handler(p) \/ Transaction(p) \/ stop(p)
     \/ lapse
  /\ disturbed' = disturbed \cup Accidents

CandidateSpec == CandidateInit /\ [][CandidateNext]_candidateVars
=============================================================================
