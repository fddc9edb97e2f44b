--------------------------- MODULE EvidencePackage ---------------------------
(***************************************************************************)
(* The evidence behind a task drafted by machine: what was retrieved, the  *)
(* conflicts found in it, the revisions people make of the package, and    *)
(* the rules that bind a task to it (flood_system/response_workflow/       *)
(* service.py and evidence_governance.py).                                 *)
(*                                                                         *)
(* A source is abstracted to the task fields it supports with a score of   *)
(* at least 0.18, the roles it covers, and the decision key and value in   *)
(* its metadata.  The warning, the object and the three contracts that     *)
(* every package holds are abstracted to the fields and roles they give.   *)
(* Handlers read, and leave their repository calls in evidenceCalls[p].    *)
(***************************************************************************)
EXTENDS Naturals, Sequences, FiniteSets

CONSTANTS
  Sources,      \* documents that may be retrieved or supplied
  Retrievals,   \* the sets of documents retrieval, or an editor, may come up with
  Fields,       \* the task fields of TASK_FIELD_QUERIES
  Required,     \* REQUIRED_TASK_FIELDS
  Roles,        \* evidence roles
  GivenFields,  \* fields the warning, the object and the contracts support
  GivenRoles,   \* roles the warning and the object cover
  Supports,     \* <<source, field>>
  Covers,       \* <<source, role>>
  DecisionKey,  \* the field a source's decision is about, or NoField
  DecisionValue,
  Superseded,   \* sources whose status is superseded, expired or invalid
  Explicit,     \* [field, sources]: pairs that name each other in conflicts_with
  Contradicts,  \* [field, sources]: pairs an NLI model calls contradictory
  NoField,
  Editors,      \* request threads
  AiTasks,      \* identifiers of tasks generated_by_ai
  MaxPackages, MaxPackageVersion

EvidenceAssumption ==
  /\ Retrievals \subseteq SUBSET Sources
  /\ Required \subseteq Fields /\ GivenFields \subseteq Fields
  /\ GivenRoles \subseteq Roles
  /\ Supports \subseteq Sources \X Fields /\ Covers \subseteq Sources \X Roles
  /\ DecisionKey \in [Sources -> Fields \cup {NoField}]
  /\ Superseded \subseteq Sources
  /\ \A c \in Explicit \cup Contradicts : c.field \in Fields /\ c.sources \subseteq Sources
  /\ {MaxPackages, MaxPackageVersion} \subseteq Nat

VARIABLES
  packages,       \* response_evidence_packages: the versions of each package
  packageIds,     \* package identifiers handed out
  aiTask,         \* the AI tasks: status, and the evidence each is bound to
  evidenceCalls   \* transactions each thread still has to run

evidenceVars == <<packages, packageIds, aiTask, evidenceCalls>>
Packages == 1..MaxPackages
NoTask == [status |-> "absent", package |-> 0, hash |-> <<>>, evidence |-> {}]

(***************************************************************************)
(* What a package holds.                                                   *)
(***************************************************************************)
\* build_field_evidence_map: the fields some source of the package supports.
Sourced(evidence) == GivenFields \cup {f \in Fields : \E s \in evidence : <<s, f>> \in Supports}
CoversRoles(evidence) ==
  Roles = GivenRoles \cup {r \in Roles : \E s \in evidence : <<s, r>> \in Covers}

\* _analyze_evidence_conflicts.  Sources that decide one key differently,
\* pairs that name each other, and, when the model answers, pairs it finds
\* contradictory.  The identifier of a conflict holds all its sources, so one
\* more source is another conflict.
Deciding(evidence, f) == {s \in evidence \ Superseded : DecisionKey[s] = f}
RuleConflicts(evidence) ==
  {[by |-> "decision", field |-> f, sources |-> Deciding(evidence, f)] :
     f \in {g \in Fields : Cardinality({DecisionValue[s] : s \in Deciding(evidence, g)}) > 1}}
  \cup {[by |-> "explicit", field |-> c.field, sources |-> c.sources] :
          c \in {d \in Explicit : d.sources \subseteq evidence}}
Conflicts(evidence, modelAnswers) ==
  RuleConflicts(evidence) \cup
    {[by |-> "nli", field |-> c.field, sources |-> c.sources] :
       c \in {d \in Contradicts : modelAnswers /\ d.sources \subseteq evidence}}

\* A package holds its conflicts with the sources chosen to settle each.
Open(conflicts) == {c \in DOMAIN conflicts : conflicts[c] = {}}
States(evidence, open) ==
  [f \in Fields |-> IF \E c \in open : c.field = f THEN "CONFLICTED"
                    ELSE IF f \in Sourced(evidence) THEN "SUPPORTED" ELSE "MISSING"]
\* A conflicted field does not count as missing.
Blocking(states) == {f \in Required : states[f] = "MISSING"}

\* content_hash covers the evidence, the conflicts and the previous hash.
ContentHash(version, evidence, conflicts) == <<version, evidence, conflicts>>
Version(version, frozen, evidence, conflicts, states, blocking) ==
  [version |-> version, parent |-> version - 1,
   status |-> IF frozen THEN "frozen" ELSE "needs_review",
   evidence |-> evidence, conflicts |-> conflicts, states |-> states,
   blocking |-> blocking, hash |-> ContentHash(version, evidence, conflicts)]

PackageWrite(k, v) == [kind |-> "package", package |-> k, rec |-> v]
AiTaskWrite(t, rec) == [kind |-> "task", task |-> t, rec |-> rec]

Free(p) == evidenceCalls[p] = <<>>
Answer(p, calls) ==
  /\ evidenceCalls' = [evidenceCalls EXCEPT ![p] = calls]
  /\ UNCHANGED <<packages, aiTask>>
NoNewPackage == UNCHANGED packageIds

Stored(k) == packages[k] # <<>>
Latest(k) == packages[k][Len(packages[k])]
Recorded(k) == {packages[k][n] : n \in DOMAIN packages[k]}
Revisable(k) == Stored(k) /\ Latest(k).version < MaxPackageVersion

(***************************************************************************)
(* Handlers.                                                               *)
(***************************************************************************)
\* generate_task_draft: retrieval may return any documents, with or without a
\* plan clause and an action in them.  A complete package is frozen at once
\* and a task bound to it, unless a task with that key exists.
generate_task_draft(p) ==
  /\ Free(p) /\ packageIds < MaxPackages
  /\ \E evidence \in Retrievals, modelAnswers \in BOOLEAN, actionable \in BOOLEAN :
       LET found    == Conflicts(evidence, modelAnswers)
           states   == States(evidence, found)
           blocking == Blocking(states)
           complete == /\ CoversRoles(evidence) /\ actionable /\ found = {}
                       /\ Required \subseteq Sourced(evidence)
           k        == packageIds + 1
           v        == Version(1, complete, evidence, [c \in found |-> {}], states, blocking)
           bound    == [status |-> "draft", package |-> k, hash |-> v.hash, evidence |-> evidence]
           known    == \E t \in AiTasks : aiTask[t].hash = v.hash
           new      == {t \in AiTasks : aiTask[t].status = "absent"}
       IN \/ /\ ~complete \/ known
             /\ Answer(p, <<PackageWrite(k, v)>>)
          \/ /\ complete /\ ~known /\ new # {}
             /\ Answer(p, <<PackageWrite(k, v), AiTaskWrite(CHOOSE t \in new : TRUE, bound)>>)
  /\ packageIds' = packageIds + 1

\* create_task from outside, bound to a package version the client has seen.
create_ai_task(p) ==
  /\ Free(p)
  /\ \E t \in AiTasks, k \in Packages : \E v \in Recorded(k) :
       /\ aiTask[t].status = "absent"
       /\ Answer(p, <<AiTaskWrite(t, [status |-> "draft", package |-> k, hash |-> v.hash,
                                      evidence |-> v.evidence])>>)
  /\ NoNewPackage

\* update_task may replace source_evidence, and nothing else of the binding.
update_ai_task(p) ==
  /\ Free(p)
  /\ \E t \in AiTasks, evidence \in Retrievals :
       /\ aiTask[t].status = "draft" /\ aiTask[t].evidence # evidence
       /\ Answer(p, <<AiTaskWrite(t, [aiTask[t] EXCEPT !.evidence = evidence])>>)
  /\ NoNewPackage

\* resolve_evidence_conflict looks neither at the status of the package nor
\* at the roles covered, and takes the missing fields as they were found.
Settled(conflicts, target) == Open(conflicts) = {}
resolve_evidence_conflict(p) ==
  /\ Free(p)
  /\ \E k \in Packages : Revisable(k) /\ \E target \in DOMAIN Latest(k).conflicts :
       \E chosen \in (SUBSET target.sources) \ {{}} :
         LET current   == Latest(k)
             conflicts == [current.conflicts EXCEPT ![target] = chosen]
             states    == IF \E c \in Open(conflicts) : c.field = target.field
                          THEN current.states
                          ELSE [current.states EXCEPT ![target.field] = "SUPPORTED"]
         IN Answer(p, <<PackageWrite(k, Version(current.version + 1,
                          Settled(conflicts, target) /\ current.blocking = {},
                          current.evidence, conflicts, states, current.blocking))>>)
  /\ NoNewPackage

\* _revise_evidence_package: everything is computed again; a conflict found
\* again keeps the choice made for it.
KeptChoice(old, c) == IF c \in DOMAIN old THEN old[c] ELSE {}
Revised(k, evidence, modelAnswers, freeze) ==
  LET current   == Latest(k)
      found     == Conflicts(evidence, modelAnswers)
      conflicts == [c \in found |-> KeptChoice(current.conflicts, c)]
      states    == States(evidence, Open(conflicts))
      complete  == Blocking(states) = {} /\ Open(conflicts) = {} /\ CoversRoles(evidence)
  IN [complete |-> complete,
      rec |-> Version(current.version + 1, freeze /\ complete, evidence, conflicts,
                      states, Blocking(states))]

\* supplement_evidence_package, and freeze_evidence_package with no evidence
\* of its own; asked to freeze, both refuse an incomplete package.
revise(p) ==
  /\ Free(p)
  /\ \E k \in Packages : Revisable(k) /\ Latest(k).status # "frozen" /\
       \E more \in SUBSET (Sources \ Latest(k).evidence), modelAnswers, freeze \in BOOLEAN :
         LET new == Revised(k, Latest(k).evidence \cup more, modelAnswers, freeze)
         IN /\ more # {} \/ freeze
            /\ freeze => new.complete
            /\ Answer(p, <<PackageWrite(k, new.rec)>>)
  /\ NoNewPackage

\* The two evidence rules of _evaluate_task_rules, run when the task is
\* submitted and again when it is decided.
\* Seeded fault: only the status of the latest version is looked at, not
\* whether it is the version the task was bound to.
LatestFrozen(t) == Stored(aiTask[t].package) /\ Latest(aiTask[t].package).status = "frozen"
PackageFrozen(t) ==
  /\ Stored(aiTask[t].package)
  /\ LET latest == Latest(aiTask[t].package)
     IN /\ latest.status = "frozen" /\ Open(latest.conflicts) = {}
        /\ latest.blocking = {} /\ latest.hash = aiTask[t].hash
EvidenceBound(t) ==
  \A f \in Required \ GivenFields :
    \E s \in aiTask[t].evidence \cap Latest(aiTask[t].package).evidence : <<s, f>> \in Supports

\* submit_task and the approval in decide_task.
NextStatus(status) == IF status = "draft" THEN "pending_review" ELSE "approved"
evaluate(p) ==
  /\ Free(p)
  /\ \E t \in AiTasks :
       /\ aiTask[t].status \in {"draft", "pending_review"}
       /\ PackageFrozen(t) /\ EvidenceBound(t)
       /\ Answer(p, <<AiTaskWrite(t, [aiTask[t] EXCEPT !.status = NextStatus(aiTask[t].status)])>>)
  /\ NoNewPackage

(***************************************************************************)
(* Transactions.                                                           *)
(***************************************************************************)
\* save_evidence_package: PRIMARY KEY(package_id, version).  The revision
\* that comes second ends in an error.
InsertedIn(versions, rec) == IF rec.version <= Len(versions) THEN versions ELSE Append(versions, rec)
save_evidence_package(p) ==
  /\ ~Free(p) /\ Head(evidenceCalls[p]).kind = "package"
  /\ LET call == Head(evidenceCalls[p])
     IN packages' = [packages EXCEPT ![call.package] = InsertedIn(@, call.rec)]
  /\ evidenceCalls' = [evidenceCalls EXCEPT ![p] = Tail(@)]
  /\ UNCHANGED <<packageIds, aiTask>>

save_ai_task(p) ==
  /\ ~Free(p) /\ Head(evidenceCalls[p]).kind = "task"
  /\ LET call == Head(evidenceCalls[p]) IN aiTask' = [aiTask EXCEPT ![call.task] = call.rec]
  /\ evidenceCalls' = [evidenceCalls EXCEPT ![p] = Tail(@)]
  /\ UNCHANGED <<packageIds, packages>>

(***************************************************************************)
(* Specification.                                                          *)
(***************************************************************************)
EvidenceInit ==
  /\ packages = [k \in Packages |-> <<>>]
  /\ packageIds = 0
  /\ aiTask = [t \in AiTasks |-> NoTask]
  /\ evidenceCalls = [p \in Editors |-> <<>>]

EvidenceNext ==
  \E p \in Editors :
    \/ generate_task_draft(p)
    \/ create_ai_task(p)
    \/ update_ai_task(p)
    \/ resolve_evidence_conflict(p)
    \/ revise(p)
    \/ evaluate(p)
    \/ save_evidence_package(p)
    \/ save_ai_task(p)

EvidenceSpec == EvidenceInit /\ [][EvidenceNext]_evidenceVars

(***************************************************************************)
(* Properties.                                                             *)
(***************************************************************************)
\* Packages are version chains: version n was computed from version n - 1,
\* and no revision was computed from a version another one had overtaken.
EvidenceTypeOK ==
  /\ packageIds \in 0..MaxPackages
  /\ \A k \in Packages : \A n \in 1..Len(packages[k]) :
       /\ packages[k][n].version = n /\ packages[k][n].parent = n - 1
       /\ packages[k][n].status \in {"frozen", "needs_review"}
       /\ packages[k][n].states \in [Fields -> {"SUPPORTED", "CONFLICTED", "MISSING"}]
  /\ \A t \in AiTasks : aiTask[t].status \in
       {"absent", "draft", "pending_review", "approved"}

\* Nothing is frozen over a contradiction nobody settled: every conflict the
\* deterministic rules find in a frozen version's evidence was decided by
\* choosing among exactly its sources, and no required field is missing.
FrozenIsSettled ==
  \A k \in Packages : \A v \in Recorded(k) : v.status = "frozen" =>
    /\ \A c \in RuleConflicts(v.evidence) : 
         c \in DOMAIN v.conflicts /\ v.conflicts[c] # {} /\ v.conflicts[c] \subseteq c.sources
    /\ \A f \in Required : v.states[f] # "MISSING"

\* An approved AI task binds a version that is on record, was frozen, and
\* holds for each required field a source the task itself carries, also when
\* the package was revised or the task edited between submission and decision.
ApprovedIsGrounded ==
  \A t \in AiTasks : aiTask[t].status = "approved" =>
    \E v \in Recorded(aiTask[t].package) :
      /\ v.hash = aiTask[t].hash /\ v.status = "frozen" /\ Open(v.conflicts) = {}
      /\ \A f \in Required : f \in Sourced(v.evidence \cap aiTask[t].evidence)

\* The evidence an approved task stands on is a settled, frozen version.
EvidenceHolds == EvidenceTypeOK /\ FrozenIsSettled /\ ApprovedIsGrounded
=============================================================================
