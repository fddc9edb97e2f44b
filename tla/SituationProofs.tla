--------------------------- MODULE SituationProofs ---------------------------
(***************************************************************************)
(* Proofs about what a task draft rests on and is told of.                 *)
(*                                                                         *)
(* EvidencePackage: the evidence an approved task stands on is a settled,  *)
(* frozen version of its package.  The properties speak of what is stored. *)
(* What makes them inductive is what must hold of every write a thread     *)
(* still has to make: a version is sound by itself, follows on a stored    *)
(* one or is already overtaken, and an approval has the version it was     *)
(* given for on record.                                                    *)
(*                                                                         *)
(* TimelineChain: a chain of entries breaks by overlapping writers only.   *)
(* What makes it inductive is where an entry that is composed and not yet  *)
(* saved will stand among those that are stored.                           *)
(*                                                                         *)
(* CandidateSafety: what a screening and a verification said of an object  *)
(* still holds of the warning and the registry when a task is drafted on   *)
(* it.  What makes it inductive is what must hold of every transaction a   *)
(* handler has left, in which order they come, who may be at work beside   *)
(* whom, and that no write still waiting brings back a row a list has lost.*)
(*                                                                         *)
(* For any documents, conflicts, roles, editors, tasks, events, writers,   *)
(* objects, contents, warnings and threads.                                *)
(***************************************************************************)
EXTENDS CandidateSafety, EvidencePackage, TimelineChain, FiniteSetTheorems, SequenceTheorems,
        TLAPS

(***************************************************************************)
(* Evidence packages: the inductive invariant.                             *)
(***************************************************************************)
Verdicts == {"SUPPORTED", "CONFLICTED", "MISSING"}
ConflictSet == [by : {"decision", "explicit", "nli"}, field : Fields, sources : SUBSET Sources]
ConflictMaps == UNION {[C -> SUBSET Sources] : C \in SUBSET ConflictSet}
Hashes == Nat \X (SUBSET Sources) \X ConflictMaps
Versions ==
  [version : Nat, parent : Nat, status : {"frozen", "needs_review"},
   evidence : SUBSET Sources, conflicts : ConflictMaps, states : [Fields -> Verdicts],
   blocking : SUBSET Required, hash : Hashes]
TaskRecords ==
  [status : {"absent", "draft", "pending_review", "approved"}, package : 0..MaxPackages,
   hash : Hashes \cup {<<>>}, evidence : SUBSET Sources]
PackageCalls == [kind : {"package"}, package : Packages, rec : Versions]
TaskCalls == [kind : {"task"}, task : AiTasks, rec : TaskRecords]
Calls == PackageCalls \cup TaskCalls

\* What a version shows of itself, stored or not yet.
Sound(v) ==
  /\ v.version >= 1 /\ v.parent = v.version - 1
  /\ RuleConflicts(v.evidence) \subseteq DOMAIN v.conflicts
  /\ \A c \in DOMAIN v.conflicts : v.conflicts[c] \subseteq c.sources
  /\ \A f \in Required : v.states[f] = "MISSING" => f \in v.blocking
  /\ v.status = "frozen" => Open(v.conflicts) = {} /\ v.blocking = {}

\* The version an approval was given for is on record.
Grounded(rec) ==
  \E v \in Recorded(rec.package) :
    /\ v.hash = rec.hash /\ v.status = "frozen" /\ Open(v.conflicts) = {}
    /\ \A f \in Required : f \in Sourced(v.evidence \cap rec.evidence)
TaskOK(rec) ==
  /\ rec.status # "absent" => rec.package \in Packages
  /\ rec.status = "approved" => Grounded(rec)

CallOK(c) ==
  \/ /\ c \in PackageCalls /\ Sound(c.rec)
     /\ c.rec.version <= Len(packages[c.package]) + 1
  \/ c \in TaskCalls /\ TaskOK(c.rec)

Types ==
  /\ packageIds \in 0..MaxPackages
  /\ packages \in [Packages -> Seq(Versions)]
  /\ aiTask \in [AiTasks -> TaskRecords]
  /\ evidenceCalls \in [Editors -> Seq(Calls)]
Chained ==
  \A k \in Packages : \A n \in 1..Len(packages[k]) :
    packages[k][n].version = n /\ Sound(packages[k][n])
TasksOK == \A t \in AiTasks : TaskOK(aiTask[t])
QueuesOK == \A p \in Editors : \A i \in 1..Len(evidenceCalls[p]) : CallOK(evidenceCalls[p][i])
IInv == Types /\ Chained /\ TasksOK /\ QueuesOK

(***************************************************************************)
(* Versions.                                                               *)
(***************************************************************************)
\* The latest version is recorded, and the others come before it.
LEMMA LatestIsRecorded ==
  ASSUME IInv, NEW k \in Packages, Stored(k)
  PROVE  /\ Latest(k) \in Recorded(k) /\ Latest(k) \in Versions
         /\ Latest(k).version = Len(packages[k]) /\ Sound(Latest(k))
<1>1. packages[k] \in Seq(Versions) BY DEF IInv, Types
<1>2. Len(packages[k]) \in 1..Len(packages[k]) BY <1>1, EmptySeq DEF Stored
<1>3. Latest(k) \in Versions BY <1>1, <1>2, ElementOfSeq DEF Latest
<1>4. Latest(k).version = Len(packages[k]) /\ Sound(Latest(k))
  BY <1>2 DEF IInv, Chained, Latest
<1>5. DOMAIN packages[k] = 1..Len(packages[k]) BY <1>1
<1> QED BY <1>2, <1>3, <1>4, <1>5 DEF Recorded, Latest

\* Conflicts found in evidence are conflicts, the rules' among them.
LEMMA ConflictsAreConflicts ==
  ASSUME EvidenceAssumption, NEW evidence \in SUBSET Sources, NEW modelAnswers \in BOOLEAN
  PROVE  /\ Conflicts(evidence, modelAnswers) \in SUBSET ConflictSet
         /\ RuleConflicts(evidence) \subseteq Conflicts(evidence, modelAnswers)
<1>1. \A f \in Fields : Deciding(evidence, f) \in SUBSET Sources BY DEF Deciding
<1>2. RuleConflicts(evidence) \subseteq ConflictSet
  <2>1. \A f \in Fields : [by |-> "decision", field |-> f, sources |-> Deciding(evidence, f)]
                           \in ConflictSet
    BY <1>1 DEF ConflictSet
  <2>2. \A c \in Explicit : [by |-> "explicit", field |-> c.field, sources |-> c.sources]
                             \in ConflictSet
    BY DEF ConflictSet, EvidenceAssumption
  <2> QED BY <2>1, <2>2, Zenon DEF RuleConflicts
<1>3. \A c \in Conflicts(evidence, modelAnswers) :
        c \in RuleConflicts(evidence) \/ c \in ConflictSet
  BY DEF Conflicts, ConflictSet, EvidenceAssumption
<1>4. RuleConflicts(evidence) \subseteq Conflicts(evidence, modelAnswers) BY DEF Conflicts
<1> QED BY <1>2, <1>3, <1>4

\* The state of a field, and the missing ones among the required.
LEMMA StatesAreVerdicts ==
  ASSUME NEW evidence, NEW open, EvidenceAssumption
  PROVE  /\ States(evidence, open) \in [Fields -> Verdicts]
         /\ Blocking(States(evidence, open)) \in SUBSET Required
         /\ \A f \in Required : States(evidence, open)[f] = "MISSING"
                                  => f \in Blocking(States(evidence, open))
BY DEF States, Blocking, Verdicts

\* A version computed from such parts is a version, and sound.
LEMMA VersionIsSound ==
  ASSUME NEW n \in Nat \ {0}, NEW frozen \in BOOLEAN, NEW evidence \in SUBSET Sources,
         NEW conflicts \in ConflictMaps, NEW states \in [Fields -> Verdicts],
         NEW blocking \in SUBSET Required,
         RuleConflicts(evidence) \subseteq DOMAIN conflicts,
         \A c \in DOMAIN conflicts : conflicts[c] \subseteq c.sources,
         \A f \in Required : states[f] = "MISSING" => f \in blocking,
         frozen => Open(conflicts) = {} /\ blocking = {}
  PROVE  /\ Version(n, frozen, evidence, conflicts, states, blocking) \in Versions
         /\ Sound(Version(n, frozen, evidence, conflicts, states, blocking))
         /\ Version(n, frozen, evidence, conflicts, states, blocking).version = n
<1> DEFINE v == Version(n, frozen, evidence, conflicts, states, blocking)
<1>1. <<n, evidence, conflicts>> \in Hashes BY DEF Hashes
<1>2. n - 1 \in Nat OBVIOUS
<1>3. v \in Versions BY <1>1, <1>2 DEF Version, Versions, ContentHash
<1>4. /\ v.version = n /\ v.parent = n - 1 /\ v.evidence = evidence
      /\ v.conflicts = conflicts /\ v.states = states /\ v.blocking = blocking
      /\ v.status = "frozen" => frozen
  BY DEF Version
<1>5. Sound(v) BY <1>4 DEF Sound
<1> QED BY <1>3, <1>4, <1>5

(***************************************************************************)
(* Handlers and transactions.                                              *)
(***************************************************************************)
\* A handler reads and leaves its writes; those in order keep the invariant.
LEMMA HandlerKeeps ==
  ASSUME IInv, NEW p \in Editors, NEW calls \in Seq(Calls), Answer(p, calls),
         \A i \in 1..Len(calls) : CallOK(calls[i]),
         packageIds' \in 0..MaxPackages
  PROVE  IInv'
<1>1. packages' = packages /\ aiTask' = aiTask BY DEF Answer
<1>2. evidenceCalls' = [evidenceCalls EXCEPT ![p] = calls] BY DEF Answer
<1>3. Types' BY <1>1, <1>2 DEF IInv, Types
<1>4. \A v : Sound(v)' = Sound(v) BY DEF Sound
<1>5. Chained' BY <1>1, <1>4 DEF IInv, Chained
<1>6. \A c : CallOK(c)' = CallOK(c)
  BY <1>1 DEF CallOK, TaskOK, Grounded, Recorded, Sound
<1>7. TasksOK' BY <1>1 DEF IInv, TasksOK, TaskOK, Grounded, Recorded
<1>8. QueuesOK'
  <2> SUFFICES ASSUME NEW q \in Editors, NEW i \in 1..Len(evidenceCalls'[q])
               PROVE  CallOK(evidenceCalls'[q][i])
    BY <1>6 DEF QueuesOK
  <2>1. CASE q = p BY <2>1, <1>2 DEF IInv, Types
  <2>2. CASE q # p BY <2>2, <1>2 DEF IInv, Types, QueuesOK
  <2> QED BY <2>1, <2>2
<1> QED BY <1>3, <1>5, <1>7, <1>8 DEF IInv

\* Records only grow, so what was on record stays there.
LEMMA StaysOnRecord ==
  ASSUME Types, Types',
         \A k \in Packages : /\ Len(packages[k]) <= Len(packages'[k])
                             /\ \A n \in 1..Len(packages[k]) : packages'[k][n] = packages[k][n]
  PROVE  /\ \A rec \in TaskRecords : TaskOK(rec) => TaskOK(rec)'
         /\ \A c \in Calls : CallOK(c) => CallOK(c)'
<1>1. \A k \in Packages : Recorded(k) \subseteq Recorded(k)'
  <2> SUFFICES ASSUME NEW k \in Packages, NEW n \in DOMAIN packages[k]
               PROVE  packages[k][n] \in {packages'[k][m] : m \in DOMAIN packages'[k]}
    BY DEF Recorded
  <2>1. /\ DOMAIN packages[k] = 1..Len(packages[k]) /\ Len(packages[k]) \in Nat
        /\ DOMAIN packages'[k] = 1..Len(packages'[k]) /\ Len(packages'[k]) \in Nat
    BY LenProperties DEF Types
  <2>2. n \in DOMAIN packages'[k] /\ packages'[k][n] = packages[k][n] BY <2>1
  <2> QED BY <2>2
<1>2. \A rec \in TaskRecords : TaskOK(rec) => TaskOK(rec)'
  <2> SUFFICES ASSUME NEW rec \in TaskRecords, TaskOK(rec) PROVE TaskOK(rec)'
    OBVIOUS
  <2>1. ASSUME rec.status = "approved" PROVE Grounded(rec)'
    BY <2>1, <1>1 DEF TaskOK, Grounded
  <2> QED BY <2>1 DEF TaskOK
<1>3. \A c \in Calls : CallOK(c) => CallOK(c)'
  <2> SUFFICES ASSUME NEW c \in Calls, CallOK(c) PROVE CallOK(c)'
    OBVIOUS
  <2>1. CASE c \in TaskCalls /\ TaskOK(c.rec)
    BY <2>1, <1>2 DEF CallOK, TaskCalls
  <2>2. CASE c \in PackageCalls /\ Sound(c.rec) /\ c.rec.version <= Len(packages[c.package]) + 1
    <3>1. c.package \in Packages /\ c.rec.version \in Nat
      BY <2>2 DEF PackageCalls, Versions
    <3>2. Len(packages[c.package]) \in Nat /\ Len(packages'[c.package]) \in Nat
      BY <3>1, LenProperties DEF Types
    <3>3. Len(packages[c.package]) <= Len(packages'[c.package]) BY <3>1
    <3>4. c.rec.version <= Len(packages'[c.package]) + 1 BY <2>2, <3>1, <3>2, <3>3
    <3>5. Sound(c.rec)' BY <2>2 DEF Sound
    <3> QED BY <2>2, <3>4, <3>5 DEF CallOK
  <2> QED BY <2>1, <2>2 DEF CallOK
<1> QED BY <1>2, <1>3

\* What a transaction leaves of its thread's queue is still in order.
LEMMA RestOfQueue ==
  ASSUME IInv, NEW p \in Editors, ~Free(p),
         evidenceCalls' = [evidenceCalls EXCEPT ![p] = Tail(@)]
  PROVE  /\ evidenceCalls' \in [Editors -> Seq(Calls)]
         /\ Head(evidenceCalls[p]) \in Calls /\ CallOK(Head(evidenceCalls[p]))
         /\ \A q \in Editors : \A i \in 1..Len(evidenceCalls'[q]) :
              evidenceCalls'[q][i] \in Calls /\ CallOK(evidenceCalls'[q][i])
<1>1. evidenceCalls[p] \in Seq(Calls) /\ evidenceCalls[p] # <<>>
  BY DEF IInv, Types, Free
<1>2. /\ Head(evidenceCalls[p]) \in Calls /\ Tail(evidenceCalls[p]) \in Seq(Calls)
      /\ Head(evidenceCalls[p]) = evidenceCalls[p][1] /\ 1 \in 1..Len(evidenceCalls[p])
  BY <1>1, EmptySeq
<1>3. CallOK(Head(evidenceCalls[p])) BY <1>2 DEF IInv, QueuesOK
<1>4. evidenceCalls' \in [Editors -> Seq(Calls)] BY <1>2 DEF IInv, Types
<1>5. ASSUME NEW q \in Editors, NEW i \in 1..Len(evidenceCalls'[q])
      PROVE  evidenceCalls'[q][i] \in Calls /\ CallOK(evidenceCalls'[q][i])
  <2>1. CASE q = p
    <3>1. evidenceCalls'[q] = Tail(evidenceCalls[p]) BY <2>1 DEF IInv, Types
    <3>2. /\ i + 1 \in 1..Len(evidenceCalls[p])
          /\ evidenceCalls'[q][i] = evidenceCalls[p][i + 1]
      <4>1. /\ Len(Tail(evidenceCalls[p])) = Len(evidenceCalls[p]) - 1
            /\ \A j \in 1..Len(Tail(evidenceCalls[p])) :
                 Tail(evidenceCalls[p])[j] = evidenceCalls[p][j + 1]
        BY <1>1, HeadTailProperties
      <4>2. Len(evidenceCalls[p]) \in Nat BY <1>1, LenProperties
      <4>3. i \in 1..(Len(evidenceCalls[p]) - 1) BY <3>1, <4>1
      <4>4. i + 1 \in 1..Len(evidenceCalls[p]) BY <4>2, <4>3
      <4>5. evidenceCalls'[q][i] = Tail(evidenceCalls[p])[i] BY <3>1
      <4>6. i \in 1..Len(Tail(evidenceCalls[p])) BY <3>1
      <4> QED BY <4>1, <4>4, <4>5, <4>6
    <3> QED BY <1>1, <3>2, ElementOfSeq DEF IInv, QueuesOK
  <2>2. CASE q # p
    <3>1. evidenceCalls'[q] = evidenceCalls[q] /\ evidenceCalls[q] \in Seq(Calls)
      BY <2>2 DEF IInv, Types
    <3> QED BY <3>1, ElementOfSeq DEF IInv, QueuesOK
  <2> QED BY <2>1, <2>2
<1> QED BY <1>2, <1>3, <1>4, <1>5

\* save_evidence_package: the second of two revisions changes nothing.
LEMMA PackageSaveKeeps ==
  ASSUME IInv, NEW p \in Editors, save_evidence_package(p)
  PROVE  IInv'
<1> DEFINE call == Head(evidenceCalls[p])
           k == call.package
<1>1. /\ ~Free(p) /\ call.kind = "package" /\ UNCHANGED <<packageIds, aiTask>>
      /\ packages' = [packages EXCEPT ![k] = InsertedIn(@, call.rec)]
      /\ evidenceCalls' = [evidenceCalls EXCEPT ![p] = Tail(@)]
  BY DEF save_evidence_package
<1>2. /\ evidenceCalls' \in [Editors -> Seq(Calls)] /\ call \in Calls /\ CallOK(call)
      /\ \A q \in Editors : \A i \in 1..Len(evidenceCalls'[q]) :
           evidenceCalls'[q][i] \in Calls /\ CallOK(evidenceCalls'[q][i])
  <2> HIDE DEF call
  <2> QED BY <1>1, RestOfQueue DEF call
<1> HIDE DEF call
<1>3. /\ k \in Packages /\ call.rec \in Versions /\ Sound(call.rec)
      /\ call.rec.version <= Len(packages[k]) + 1 /\ call.rec.version \in Nat
  BY <1>1, <1>2 DEF CallOK, PackageCalls, TaskCalls, Versions
<1>4. packages[k] \in Seq(Versions) /\ Len(packages[k]) \in Nat
  BY <1>3, LenProperties DEF IInv, Types
<1> DEFINE new == InsertedIn(packages[k], call.rec)
<1>5. \/ new = packages[k]
      \/ new = Append(packages[k], call.rec) /\ call.rec.version = Len(packages[k]) + 1
  BY <1>3, <1>4 DEF InsertedIn
<1>6. /\ new \in Seq(Versions) /\ Len(new) \in Nat /\ Len(packages[k]) <= Len(new)
      /\ \A n \in 1..Len(packages[k]) : new[n] = packages[k][n]
      /\ \A n \in 1..Len(new) : \/ n \in 1..Len(packages[k])
                                \/ n = call.rec.version /\ new[n] = call.rec
  <2> HIDE DEF new
  <2>1. CASE new = packages[k] BY <2>1, <1>4
  <2>2. CASE new = Append(packages[k], call.rec) /\ call.rec.version = Len(packages[k]) + 1
    <3>1. /\ new \in Seq(Versions) /\ Len(new) = Len(packages[k]) + 1
          /\ \A n \in 1..Len(packages[k]) : new[n] = packages[k][n]
          /\ new[Len(packages[k]) + 1] = call.rec
      BY <2>2, <1>3, <1>4, AppendProperties
    <3> QED BY <2>2, <3>1, <1>4
  <2> QED BY <2>1, <2>2, <1>5
<1>7. packages' = [packages EXCEPT ![k] = new] BY <1>1
<1> HIDE DEF new, k
<1>8. Types' BY <1>1, <1>2, <1>3, <1>6, <1>7 DEF IInv, Types
<1>9. \A v : Sound(v)' = Sound(v) BY DEF Sound
<1>10. Chained'
  <2> SUFFICES ASSUME NEW j \in Packages, NEW n \in 1..Len(packages'[j])
               PROVE  packages'[j][n].version = n /\ Sound(packages'[j][n])
    BY <1>9 DEF Chained
  <2>1. CASE j # k BY <2>1, <1>7 DEF IInv, Types, Chained
  <2>2. CASE j = k
    <3>1. packages'[j] = new BY <2>2, <1>3, <1>7 DEF IInv, Types
    <3> QED BY <2>2, <3>1, <1>3, <1>6 DEF IInv, Chained
  <2> QED BY <2>1, <2>2
<1>11. \A j \in Packages : /\ Len(packages[j]) <= Len(packages'[j])
                           /\ \A n \in 1..Len(packages[j]) : packages'[j][n] = packages[j][n]
  <2> SUFFICES ASSUME NEW j \in Packages
               PROVE  /\ Len(packages[j]) <= Len(packages'[j])
                      /\ \A n \in 1..Len(packages[j]) : packages'[j][n] = packages[j][n]
    OBVIOUS
  <2>1. Len(packages[j]) \in Nat BY LenProperties DEF IInv, Types
  <2>2. CASE j # k BY <2>1, <2>2, <1>7 DEF IInv, Types
  <2>3. CASE j = k
    <3>1. packages'[j] = new BY <2>3, <1>3, <1>7 DEF IInv, Types
    <3> QED BY <2>3, <3>1, <1>6
  <2> QED BY <2>2, <2>3
<1>12. /\ \A rec \in TaskRecords : TaskOK(rec) => TaskOK(rec)'
       /\ \A c \in Calls : CallOK(c) => CallOK(c)'
  BY <1>8, <1>11, StaysOnRecord DEF IInv
<1>13. TasksOK'
  <2> SUFFICES ASSUME NEW t \in AiTasks PROVE TaskOK(aiTask[t])'
    BY DEF TasksOK
  <2>1. aiTask[t] \in TaskRecords /\ TaskOK(aiTask[t]) BY DEF IInv, Types, TasksOK
  <2>2. aiTask'[t] = aiTask[t] BY <1>1
  <2> QED BY <2>1, <2>2, <1>12
<1>14. QueuesOK'
  BY <1>2, <1>12 DEF QueuesOK
<1> QED BY <1>8, <1>10, <1>13, <1>14 DEF IInv

\* save_ai_task: last write wins, each of them was in order.
LEMMA TaskSaveKeeps ==
  ASSUME IInv, NEW p \in Editors, save_ai_task(p)
  PROVE  IInv'
<1> DEFINE call == Head(evidenceCalls[p])
<1>1. /\ ~Free(p) /\ call.kind = "task" /\ UNCHANGED <<packageIds, packages>>
      /\ aiTask' = [aiTask EXCEPT ![call.task] = call.rec]
      /\ evidenceCalls' = [evidenceCalls EXCEPT ![p] = Tail(@)]
  BY DEF save_ai_task
<1>2. /\ evidenceCalls' \in [Editors -> Seq(Calls)] /\ call \in Calls /\ CallOK(call)
      /\ \A q \in Editors : \A i \in 1..Len(evidenceCalls'[q]) :
           evidenceCalls'[q][i] \in Calls /\ CallOK(evidenceCalls'[q][i])
  <2> HIDE DEF call
  <2> QED BY <1>1, RestOfQueue DEF call
<1> HIDE DEF call
<1>3. call.task \in AiTasks /\ call.rec \in TaskRecords /\ TaskOK(call.rec)
  BY <1>1, <1>2 DEF CallOK, PackageCalls, TaskCalls
<1>4. Types' BY <1>1, <1>2, <1>3 DEF IInv, Types
<1>5. /\ \A v : Sound(v)' = Sound(v)
      /\ \A c : CallOK(c)' = CallOK(c)
  BY <1>1 DEF Sound, CallOK, TaskOK, Grounded, Recorded
<1>6. Chained' BY <1>1, <1>5 DEF IInv, Chained
<1>7. TasksOK'
  <2> SUFFICES ASSUME NEW t \in AiTasks PROVE TaskOK(aiTask'[t])
    BY <1>1 DEF TasksOK, TaskOK, Grounded, Recorded
  <2> QED BY <1>1, <1>3 DEF IInv, Types, TasksOK
<1>8. QueuesOK' BY <1>2, <1>5 DEF QueuesOK
<1> QED BY <1>4, <1>6, <1>7, <1>8 DEF IInv

\* The writes a handler leaves.
LEMMA PackageWriteOK ==
  ASSUME NEW k \in Packages, NEW v \in Versions, Sound(v),
         v.version <= Len(packages[k]) + 1
  PROVE  PackageWrite(k, v) \in Calls /\ CallOK(PackageWrite(k, v))
BY DEF PackageWrite, PackageCalls, Calls, CallOK
LEMMA TaskWriteOK ==
  ASSUME NEW t \in AiTasks, NEW rec \in TaskRecords, TaskOK(rec)
  PROVE  AiTaskWrite(t, rec) \in Calls /\ CallOK(AiTaskWrite(t, rec))
BY DEF AiTaskWrite, TaskCalls, Calls, CallOK

LEMMA OneWriteKeeps ==
  ASSUME IInv, NEW p \in Editors, NEW c \in Calls, CallOK(c), Answer(p, <<c>>), NoNewPackage
  PROVE  IInv'
<1>1. /\ <<c>> \in Seq(Calls) /\ Len(<<c>>) = 1 /\ <<c>>[1] = c
  OBVIOUS
<1>2. packageIds' \in 0..MaxPackages BY DEF IInv, Types, NoNewPackage
<1>3. \A i \in 1..Len(<<c>>) : CallOK(<<c>>[i]) BY <1>1
<1> QED BY <1>1, <1>2, <1>3, HandlerKeeps

\* A new draft is frozen only with nothing missing and nothing in conflict.
LEMMA DraftKeeps ==
  ASSUME EvidenceAssumption, IInv, NEW p \in Editors, generate_task_draft(p)
  PROVE  IInv'
<1>1. packageIds \in 0..MaxPackages /\ packageIds < MaxPackages /\ packageIds' = packageIds + 1
      /\ MaxPackages \in Nat
  BY DEF generate_task_draft, IInv, Types, EvidenceAssumption
<1> DEFINE k == packageIds + 1
<1>2. k \in Packages /\ packageIds' \in 0..MaxPackages BY <1>1 DEF Packages
<1>3. PICK evidence \in Retrievals, modelAnswers \in BOOLEAN, actionable \in BOOLEAN :
        LET found    == Conflicts(evidence, modelAnswers)
            states   == States(evidence, found)
            blocking == Blocking(states)
            complete == /\ CoversRoles(evidence) /\ actionable /\ found = {}
                        /\ Required \subseteq Sourced(evidence)
            v        == Version(1, complete, evidence, [c \in found |-> {}], states, blocking)
            bound    == [status |-> "draft", package |-> k, hash |-> v.hash, evidence |-> evidence]
            known    == \E t \in AiTasks : aiTask[t].hash = v.hash
            new      == {t \in AiTasks : aiTask[t].status = "absent"}
        IN \/ /\ ~complete \/ known
              /\ Answer(p, <<PackageWrite(k, v)>>)
           \/ /\ complete /\ ~known /\ new # {}
              /\ Answer(p, <<PackageWrite(k, v), AiTaskWrite(CHOOSE t \in new : TRUE, bound)>>)
  BY DEF generate_task_draft
<1> DEFINE found    == Conflicts(evidence, modelAnswers)
           states   == States(evidence, found)
           blocking == Blocking(states)
           complete == /\ CoversRoles(evidence) /\ actionable /\ found = {}
                       /\ Required \subseteq Sourced(evidence)
           conflicts == [c \in found |-> {}]
           v        == Version(1, complete, evidence, conflicts, states, blocking)
           bound    == [status |-> "draft", package |-> k, hash |-> v.hash, evidence |-> evidence]
           new      == {t \in AiTasks : aiTask[t].status = "absent"}
           first    == CHOOSE t \in new : TRUE
<1>4. evidence \in SUBSET Sources BY DEF EvidenceAssumption
<1>5. found \in SUBSET ConflictSet /\ RuleConflicts(evidence) \subseteq found
  BY <1>4, ConflictsAreConflicts
<1>6. /\ states \in [Fields -> Verdicts] /\ blocking \in SUBSET Required
      /\ \A f \in Required : states[f] = "MISSING" => f \in blocking
  BY StatesAreVerdicts
<1>7. complete => blocking = {}
  BY DEF States, Blocking, EvidenceAssumption
<1>8. /\ conflicts \in ConflictMaps /\ DOMAIN conflicts = found
      /\ \A c \in DOMAIN conflicts : conflicts[c] \subseteq c.sources
      /\ complete => Open(conflicts) = {}
  <2>1. conflicts \in [found -> SUBSET Sources] /\ DOMAIN conflicts = found OBVIOUS
  <2>2. conflicts \in ConflictMaps BY <2>1, <1>5 DEF ConflictMaps
  <2> QED BY <2>1, <2>2 DEF Open
<1>9. v \in Versions /\ Sound(v) /\ v.version = 1
  <2> HIDE DEF found, states, blocking, conflicts
  <2>1. complete \in BOOLEAN BY DEF CoversRoles
  <2> HIDE DEF complete
  <2> QED BY <2>1, <1>4, <1>5, <1>6, <1>7, <1>8, VersionIsSound
<1>10. \/ Answer(p, <<PackageWrite(k, v)>>)
       \/ new # {} /\ Answer(p, <<PackageWrite(k, v), AiTaskWrite(first, bound)>>)
  BY <1>3, Zenon
<1> HIDE DEF v, new
<1>11. Len(packages[k]) \in Nat BY <1>2, LenProperties DEF IInv, Types
<1>12. PackageWrite(k, v) \in Calls /\ CallOK(PackageWrite(k, v))
  BY <1>2, <1>9, <1>11, PackageWriteOK
<1>13. CASE Answer(p, <<PackageWrite(k, v)>>)
  <2>1. <<PackageWrite(k, v)>> \in Seq(Calls) /\ Len(<<PackageWrite(k, v)>>) = 1
    BY <1>12
  <2>2. \A i \in 1..Len(<<PackageWrite(k, v)>>) : CallOK(<<PackageWrite(k, v)>>[i])
    BY <2>1, <1>12
  <2> QED BY <1>2, <1>13, <2>1, <2>2, HandlerKeeps
<1>14. CASE new # {} /\ Answer(p, <<PackageWrite(k, v), AiTaskWrite(first, bound)>>)
  <2> DEFINE calls == <<PackageWrite(k, v), AiTaskWrite(first, bound)>>
  <2>1. first \in AiTasks BY <1>14 DEF new
  <2>2. bound \in TaskRecords
    BY <1>1, <1>4, <1>9 DEF TaskRecords, Versions
  <2>3. TaskOK(bound) BY <1>2 DEF TaskOK
  <2>4. AiTaskWrite(first, bound) \in Calls /\ CallOK(AiTaskWrite(first, bound))
    BY <2>1, <2>2, <2>3, TaskWriteOK
  <2>5. calls \in Seq(Calls) /\ Len(calls) = 2 BY <1>12, <2>4
  <2>6. \A i \in 1..Len(calls) : CallOK(calls[i]) BY <2>4, <2>5, <1>12
  <2> QED BY <1>2, <1>14, <2>5, <2>6, HandlerKeeps
<1> QED BY <1>10, <1>13, <1>14

\* A task bound from outside holds a version on record; an edited draft keeps
\* its binding.
LEMMA BindingKeeps ==
  ASSUME IInv, NEW p \in Editors, create_ai_task(p)
  PROVE  IInv'
<1>1. PICK t \in AiTasks, k \in Packages : \E v \in Recorded(k) :
        Answer(p, <<AiTaskWrite(t, [status |-> "draft", package |-> k, hash |-> v.hash,
                                    evidence |-> v.evidence])>>)
  BY DEF create_ai_task
<1>2. PICK v \in Recorded(k) :
        Answer(p, <<AiTaskWrite(t, [status |-> "draft", package |-> k, hash |-> v.hash,
                                    evidence |-> v.evidence])>>)
  BY <1>1
<1> DEFINE rec == [status |-> "draft", package |-> k, hash |-> v.hash, evidence |-> v.evidence]
<1>3. v \in Versions
  <2>1. packages[k] \in Seq(Versions) BY DEF IInv, Types
  <2> QED BY <2>1, LenProperties DEF Recorded
<1>4. k \in 0..MaxPackages BY DEF Packages
<1>5. rec \in TaskRecords BY <1>3, <1>4 DEF TaskRecords, Versions
<1>6. TaskOK(rec) BY DEF TaskOK
<1>7. NoNewPackage BY DEF create_ai_task
<1> QED BY <1>2, <1>5, <1>6, <1>7, TaskWriteOK, OneWriteKeeps

LEMMA EditKeeps ==
  ASSUME EvidenceAssumption, IInv, NEW p \in Editors, update_ai_task(p)
  PROVE  IInv'
<1>1. PICK t \in AiTasks, evidence \in Retrievals :
        /\ aiTask[t].status = "draft"
        /\ Answer(p, <<AiTaskWrite(t, [aiTask[t] EXCEPT !.evidence = evidence])>>)
  BY DEF update_ai_task
<1> DEFINE rec == [aiTask[t] EXCEPT !.evidence = evidence]
<1>2. aiTask[t] \in TaskRecords /\ TaskOK(aiTask[t]) BY DEF IInv, Types, TasksOK
<1>3. /\ rec \in TaskRecords /\ rec.status = "draft"
      /\ rec.package = aiTask[t].package
  BY <1>1, <1>2 DEF TaskRecords, EvidenceAssumption
<1>4. TaskOK(rec) BY <1>1, <1>2, <1>3 DEF TaskOK
<1>5. NoNewPackage BY DEF update_ai_task
<1> QED BY <1>1, <1>3, <1>4, <1>5, TaskWriteOK, OneWriteKeeps

\* A decision freezes a package only when it was the last one open and no
\* field was missing.
LEMMA ResolveKeeps ==
  ASSUME EvidenceAssumption, IInv, NEW p \in Editors, resolve_evidence_conflict(p)
  PROVE  IInv'
<1>1. PICK k \in Packages : Revisable(k) /\ \E target \in DOMAIN Latest(k).conflicts :
        \E chosen \in (SUBSET target.sources) \ {{}} :
          LET current   == Latest(k)
              conflicts == [current.conflicts EXCEPT ![target] = chosen]
              states    == IF \E c \in Open(conflicts) : c.field = target.field
                           THEN current.states
                           ELSE [current.states EXCEPT ![target.field] = "SUPPORTED"]
          IN Answer(p, <<PackageWrite(k, Version(current.version + 1,
                           Settled(conflicts, target) /\ current.blocking = {},
                           current.evidence, conflicts, states, current.blocking))>>)
  BY DEF resolve_evidence_conflict
<1> DEFINE current == Latest(k)
<1>2. PICK target \in DOMAIN current.conflicts : \E chosen \in (SUBSET target.sources) \ {{}} :
          LET conflicts == [current.conflicts EXCEPT ![target] = chosen]
              states    == IF \E c \in Open(conflicts) : c.field = target.field
                           THEN current.states
                           ELSE [current.states EXCEPT ![target.field] = "SUPPORTED"]
          IN Answer(p, <<PackageWrite(k, Version(current.version + 1,
                           Settled(conflicts, target) /\ current.blocking = {},
                           current.evidence, conflicts, states, current.blocking))>>)
  BY <1>1
<1>2a. PICK chosen \in (SUBSET target.sources) \ {{}} :
          LET conflicts == [current.conflicts EXCEPT ![target] = chosen]
              states    == IF \E c \in Open(conflicts) : c.field = target.field
                           THEN current.states
                           ELSE [current.states EXCEPT ![target.field] = "SUPPORTED"]
          IN Answer(p, <<PackageWrite(k, Version(current.version + 1,
                           Settled(conflicts, target) /\ current.blocking = {},
                           current.evidence, conflicts, states, current.blocking))>>)
  BY <1>2
<1> DEFINE conflicts == [current.conflicts EXCEPT ![target] = chosen]
           states    == IF \E c \in Open(conflicts) : c.field = target.field
                        THEN current.states
                        ELSE [current.states EXCEPT ![target.field] = "SUPPORTED"]
           frozen    == Settled(conflicts, target) /\ current.blocking = {}
           v         == Version(current.version + 1, frozen, current.evidence, conflicts,
                                states, current.blocking)
<1>3. /\ current \in Versions /\ current.version = Len(packages[k]) /\ Sound(current)
  BY <1>1, LatestIsRecorded DEF Revisable
<1> HIDE DEF current
<1>4. /\ current.version \in Nat /\ current.evidence \in SUBSET Sources
      /\ current.states \in [Fields -> Verdicts] /\ current.blocking \in SUBSET Required
      /\ current.conflicts \in ConflictMaps
  BY <1>3 DEF Versions
<1>5. PICK C \in SUBSET ConflictSet : current.conflicts \in [C -> SUBSET Sources]
  BY <1>4 DEF ConflictMaps
<1>6. /\ chosen \in SUBSET Sources /\ conflicts \in [C -> SUBSET Sources]
      /\ \A c \in C : conflicts[c] \subseteq c.sources
  <2>1. target \in C /\ target.sources \in SUBSET Sources BY <1>5 DEF ConflictSet
  <2>2. \A c \in C : current.conflicts[c] \subseteq c.sources BY <1>3, <1>5 DEF Sound
  <2> QED BY <2>1, <2>2, <1>5
<1>7. conflicts \in ConflictMaps /\ DOMAIN conflicts = C
  BY <1>6 DEF ConflictMaps
<1>8. states \in [Fields -> Verdicts] BY <1>4 DEF Verdicts
<1>9. \A f \in Required : states[f] = "MISSING" => f \in current.blocking
  BY <1>3, <1>4 DEF Sound, EvidenceAssumption
<1>10. RuleConflicts(current.evidence) \subseteq C BY <1>3, <1>5 DEF Sound
<1>11. frozen \in BOOLEAN /\ (frozen => Open(conflicts) = {} /\ current.blocking = {})
  BY DEF Settled
<1>12. v \in Versions /\ Sound(v) /\ v.version = current.version + 1
  <2>1. current.version + 1 \in Nat \ {0} BY <1>4
  <2> HIDE DEF conflicts, states, frozen
  <2> QED BY <2>1, <1>4, <1>6, <1>7, <1>8, <1>9, <1>10, <1>11, VersionIsSound
<1>13. Answer(p, <<PackageWrite(k, v)>>) BY <1>2a DEF current
<1> HIDE DEF v
<1>14. PackageWrite(k, v) \in Calls /\ CallOK(PackageWrite(k, v))
  BY <1>3, <1>4, <1>12, PackageWriteOK
<1>15. NoNewPackage BY DEF resolve_evidence_conflict
<1> QED BY <1>13, <1>14, <1>15, OneWriteKeeps

\* A revision is computed from the evidence and frozen only when complete.
LEMMA ReviseKeeps ==
  ASSUME EvidenceAssumption, IInv, NEW p \in Editors, revise(p)
  PROVE  IInv'
<1>1. PICK k \in Packages : Revisable(k) /\
        \E more \in SUBSET (Sources \ Latest(k).evidence), modelAnswers, freeze \in BOOLEAN :
          Answer(p, <<PackageWrite(k, Revised(k, Latest(k).evidence \cup more, modelAnswers,
                                              freeze).rec)>>)
  BY DEF revise
<1> DEFINE current == Latest(k)
<1>2. PICK more \in SUBSET (Sources \ current.evidence), modelAnswers \in BOOLEAN,
           freeze \in BOOLEAN :
        Answer(p, <<PackageWrite(k, Revised(k, current.evidence \cup more, modelAnswers,
                                            freeze).rec)>>)
  BY <1>1
<1> DEFINE evidence  == current.evidence \cup more
           found     == Conflicts(evidence, modelAnswers)
           conflicts == [c \in found |-> KeptChoice(current.conflicts, c)]
           states    == States(evidence, Open(conflicts))
           complete  == Blocking(states) = {} /\ Open(conflicts) = {} /\ CoversRoles(evidence)
           frozen    == freeze /\ complete
           v         == Version(current.version + 1, frozen, evidence, conflicts, states,
                                Blocking(states))
<1>3. Revised(k, evidence, modelAnswers, freeze).rec = v BY DEF Revised
<1>4. /\ current \in Versions /\ current.version = Len(packages[k]) /\ Sound(current)
  BY <1>1, LatestIsRecorded DEF Revisable
<1> HIDE DEF current
<1>5. /\ current.version \in Nat /\ current.evidence \in SUBSET Sources
      /\ current.conflicts \in ConflictMaps
  BY <1>4 DEF Versions
<1>6. evidence \in SUBSET Sources BY <1>5
<1>7. found \in SUBSET ConflictSet /\ RuleConflicts(evidence) \subseteq found
  BY <1>6, ConflictsAreConflicts
<1>8. /\ states \in [Fields -> Verdicts] /\ Blocking(states) \in SUBSET Required
      /\ \A f \in Required : states[f] = "MISSING" => f \in Blocking(states)
  BY StatesAreVerdicts
<1>9. \A c \in found : /\ KeptChoice(current.conflicts, c) \in SUBSET Sources
                       /\ KeptChoice(current.conflicts, c) \subseteq c.sources
  BY <1>4, <1>5 DEF KeptChoice, ConflictMaps, Sound
<1>10. /\ conflicts \in ConflictMaps /\ DOMAIN conflicts = found
       /\ \A c \in DOMAIN conflicts : conflicts[c] \subseteq c.sources
  <2> HIDE DEF found
  <2>1. conflicts \in [found -> SUBSET Sources] /\ DOMAIN conflicts = found BY <1>9
  <2>2. conflicts \in ConflictMaps BY <2>1, <1>7 DEF ConflictMaps
  <2> QED BY <2>1, <2>2, <1>9
<1>11. v \in Versions /\ Sound(v) /\ v.version = current.version + 1
  <2>1. frozen \in BOOLEAN BY DEF CoversRoles
  <2>2. frozen => Open(conflicts) = {} /\ Blocking(states) = {} OBVIOUS
  <2>3. current.version + 1 \in Nat \ {0} BY <1>5
  <2> HIDE DEF evidence, found, conflicts, states, frozen
  <2> QED BY <2>1, <2>2, <2>3, <1>6, <1>7, <1>8, <1>10, VersionIsSound
<1>12. Answer(p, <<PackageWrite(k, v)>>) BY <1>2, <1>3 DEF current
<1> HIDE DEF v
<1>13. PackageWrite(k, v) \in Calls /\ CallOK(PackageWrite(k, v))
  BY <1>4, <1>5, <1>11, PackageWriteOK
<1>14. NoNewPackage BY DEF revise
<1> QED BY <1>12, <1>13, <1>14, OneWriteKeeps

\* The evidence rules at the decision: the latest version is the one bound.
LEMMA EvaluateKeeps ==
  ASSUME EvidenceAssumption, IInv, NEW p \in Editors, evaluate(p)
  PROVE  IInv'
<1>1. PICK t \in AiTasks :
        /\ aiTask[t].status \in {"draft", "pending_review"}
        /\ PackageFrozen(t) /\ EvidenceBound(t)
        /\ Answer(p, <<AiTaskWrite(t, [aiTask[t] EXCEPT !.status = NextStatus(aiTask[t].status)])>>)
  BY DEF evaluate
<1> DEFINE rec == [aiTask[t] EXCEPT !.status = NextStatus(aiTask[t].status)]
           k   == aiTask[t].package
<1>2. aiTask[t] \in TaskRecords /\ TaskOK(aiTask[t]) BY DEF IInv, Types, TasksOK
<1>3. /\ rec \in TaskRecords /\ rec.package = k /\ rec.hash = aiTask[t].hash
      /\ rec.evidence = aiTask[t].evidence
  BY <1>1, <1>2 DEF TaskRecords, NextStatus
<1>4. k \in Packages /\ Stored(k) BY <1>1, <1>2 DEF TaskOK, PackageFrozen
<1>5. Latest(k) \in Recorded(k) BY <1>4, LatestIsRecorded
<1>6. /\ Latest(k).hash = rec.hash /\ Latest(k).status = "frozen"
      /\ Open(Latest(k).conflicts) = {}
  BY <1>1, <1>3 DEF PackageFrozen
<1>7. \A f \in Required : f \in Sourced(Latest(k).evidence \cap rec.evidence)
  BY <1>1, <1>3 DEF EvidenceBound, Sourced, EvidenceAssumption
<1>8. Grounded(rec) BY <1>3, <1>5, <1>6, <1>7 DEF Grounded
<1>9. TaskOK(rec) BY <1>3, <1>4, <1>8 DEF TaskOK
<1>10. NoNewPackage BY DEF evaluate
<1> QED BY <1>1, <1>3, <1>9, <1>10, TaskWriteOK, OneWriteKeeps

(***************************************************************************)
(* The theorems.                                                           *)
(***************************************************************************)
\* The invariant holds whichever handlers revise packages, edit tasks and decide
\* (_revise_evidence_package, resolve_evidence_conflict, _evaluate_task_rules).
THEOREM InductiveInvariant == ASSUME EvidenceAssumption PROVE EvidenceSpec => []IInv
<1>1. EvidenceInit => IInv
  <2> SUFFICES ASSUME EvidenceInit PROVE IInv
    OBVIOUS
  <2>1. 0 \in 0..MaxPackages BY DEF EvidenceAssumption
  <2>2. NoTask \in TaskRecords /\ NoTask.status = "absent"
    BY <2>1 DEF NoTask, TaskRecords
  <2>3. /\ packages \in [Packages -> Seq(Versions)] /\ \A k \in Packages : packages[k] = <<>>
        /\ evidenceCalls \in [Editors -> Seq(Calls)] /\ \A p \in Editors : evidenceCalls[p] = <<>>
    BY EmptySeq DEF EvidenceInit
  <2>4. Types BY <2>1, <2>2, <2>3 DEF Types, EvidenceInit
  <2>5. Chained /\ QueuesOK BY <2>3 DEF Chained, QueuesOK
  <2>6. TasksOK BY <2>2 DEF EvidenceInit, TasksOK, TaskOK
  <2> QED BY <2>4, <2>5, <2>6 DEF IInv
<1>2. IInv /\ [EvidenceNext]_evidenceVars => IInv'
  <2> SUFFICES ASSUME IInv, [EvidenceNext]_evidenceVars PROVE IInv'
    OBVIOUS
  <2>1. CASE UNCHANGED evidenceVars
    <3>1. UNCHANGED <<packages, packageIds, aiTask, evidenceCalls>> BY <2>1 DEF evidenceVars
    <3>2. /\ \A v : Sound(v)' = Sound(v) /\ \A rec : TaskOK(rec)' = TaskOK(rec)
          /\ \A c : CallOK(c)' = CallOK(c)
      BY <3>1 DEF Sound, TaskOK, Grounded, Recorded, CallOK
    <3> QED BY <3>1, <3>2 DEF IInv, Types, Chained, TasksOK, QueuesOK
  <2>2. CASE EvidenceNext
    <3>1. PICK p \in Editors :
            \/ generate_task_draft(p) \/ create_ai_task(p) \/ update_ai_task(p)
            \/ resolve_evidence_conflict(p) \/ revise(p) \/ evaluate(p)
            \/ save_evidence_package(p) \/ save_ai_task(p)
      BY <2>2 DEF EvidenceNext
    <3> QED BY <3>1, DraftKeeps, BindingKeeps, EditKeeps, ResolveKeeps, ReviseKeeps,
               EvaluateKeeps, PackageSaveKeeps, TaskSaveKeeps
  <2> QED BY <2>1, <2>2
<1> QED BY <1>1, <1>2, PTL DEF EvidenceSpec

\* Package versions form a chain, nothing is frozen over an open contradiction
\* or a missing field, and what an approval was given for is on record, frozen,
\* with a source of the task for each required field (_evaluate_task_rules).
THEOREM EvidenceSafe == ASSUME EvidenceAssumption PROVE EvidenceSpec => []EvidenceHolds
<1>1. IInv => EvidenceHolds
  <2> SUFFICES ASSUME IInv PROVE EvidenceHolds
    OBVIOUS
  <2>1. ASSUME NEW k \in Packages, NEW n \in 1..Len(packages[k])
        PROVE  /\ packages[k][n] \in Versions /\ Sound(packages[k][n])
               /\ packages[k][n].version = n
    BY <2>1, ElementOfSeq DEF IInv, Types, Chained
  <2>2. ASSUME NEW k \in Packages, NEW v \in Recorded(k) PROVE v \in Versions /\ Sound(v)
    BY <2>1, LenProperties DEF Recorded, IInv, Types
  <2>3. EvidenceTypeOK
    <3>1. \A k \in Packages : \A n \in 1..Len(packages[k]) :
            /\ packages[k][n].version = n /\ packages[k][n].parent = n - 1
            /\ packages[k][n].status \in {"frozen", "needs_review"}
            /\ packages[k][n].states \in [Fields -> {"SUPPORTED", "CONFLICTED", "MISSING"}]
      BY <2>1 DEF Sound, Versions, Verdicts
    <3>2. \A t \in AiTasks : aiTask[t].status \in {"absent", "draft", "pending_review", "approved"}
      BY DEF IInv, Types, TaskRecords
    <3> QED BY <3>1, <3>2 DEF EvidenceTypeOK, IInv, Types
  <2>4. FrozenIsSettled
    <3> SUFFICES ASSUME NEW k \in Packages, NEW v \in Recorded(k), v.status = "frozen"
                 PROVE  /\ \A c \in RuleConflicts(v.evidence) :
                             c \in DOMAIN v.conflicts /\ v.conflicts[c] # {}
                             /\ v.conflicts[c] \subseteq c.sources
                        /\ \A f \in Required : v.states[f] # "MISSING"
      BY DEF FrozenIsSettled
    <3> QED BY <2>2 DEF Sound, Open
  <2>5. ApprovedIsGrounded
    BY DEF IInv, TasksOK, TaskOK, Grounded, ApprovedIsGrounded
  <2> QED BY <2>3, <2>4, <2>5 DEF EvidenceHolds
<1> QED BY <1>1, InductiveInvariant, PTL

(***************************************************************************)
(* The timeline.                                                           *)
(***************************************************************************)
Entries == [id : Nat \ {0}, previous : Nat]
Composed == [id : Nat \ {0}, event : Events, previous : Nat]

TimelineTypes ==
  /\ timeline \in [Events -> Seq(Entries)]
  /\ entryIds \in Nat
  /\ recording \in [Writers -> Composed \cup {NoEntry}]
  /\ overlapped \subseteq Events

\* No identifier is handed out twice: all there are came before the next.
IdsHandedOut ==
  /\ \A e \in Events : \A i \in 1..Len(timeline[e]) : timeline[e][i].id <= entryIds
  /\ \A w \in Writers : recording[w].id <= entryIds

\* The entry composed for an event whose entries never overlapped is the only one and
\* continues the chain as it is stored.
Continues(w) ==
  LET entry == recording[w]  e == entry.event IN
    e \in Events \ overlapped =>
      /\ \A v \in Writers : recording[v].event = e => v = w
      /\ \A i \in 1..Len(timeline[e]) : timeline[e][i].id < entry.id
      /\ entry.previous = PreviousHash(e)

ChainInvariant ==
  /\ TimelineTypes
  /\ IdsHandedOut
  /\ \A w \in Writers : Continues(w)
  /\ ChainsBreakByOverlapOnly

LEMMA ClearEntry ==
  ASSUME NEW entry \in Composed \cup {NoEntry}, entry # NoEntry
  PROVE  entry \in Composed
BY DEF NoEntry

LEMMA StoredEntries ==
  ASSUME TimelineTypes, NEW e \in Events
  PROVE  /\ timeline[e] \in Seq(Entries) /\ Len(timeline[e]) \in Nat
         /\ \A i \in 1..Len(timeline[e]) :
              timeline[e][i].id \in Nat /\ timeline[e][i].previous \in Nat
<1>1. timeline[e] \in Seq(Entries)
  BY DEF TimelineTypes
<1>2. \A i \in 1..Len(timeline[e]) : timeline[e][i] \in Entries
  BY <1>1
<1> QED BY <1>1, <1>2 DEF Entries

LEMMA LastHash ==
  ASSUME TimelineTypes, NEW e \in Events
  PROVE  PreviousHash(e) \in Nat
<1>1. timeline[e] \in Seq(Entries)
  BY DEF TimelineTypes
<1>2. CASE timeline[e] = <<>>
  BY <1>2 DEF PreviousHash, Genesis
<1>3. CASE timeline[e] # <<>>
  <2>1. timeline[e][Len(timeline[e])] \in Entries
    BY <1>1, <1>3
  <2> QED BY <1>3, <2>1 DEF PreviousHash, Entries
<1> QED BY <1>2, <1>3

\* What is inserted in a row of entries leaves a row of entries.
LEMMA InsertedEntries ==
  ASSUME NEW s \in Seq(Entries), NEW k \in 0..Len(s), NEW entry \in Entries
  PROVE  /\ Inserted(s, k, entry) \in Seq(Entries)
         /\ Len(Inserted(s, k, entry)) = Len(s) + 1
         /\ \A i \in 1..(Len(s) + 1) :
              Inserted(s, k, entry)[i] =
                IF i <= k THEN s[i] ELSE IF i = k + 1 THEN entry ELSE s[i - 1]
<1>1. \A i \in 1..(Len(s) + 1) :
        (IF i <= k THEN s[i] ELSE IF i = k + 1 THEN entry ELSE s[i - 1]) \in Entries
  OBVIOUS
<1>2. Inserted(s, k, entry) \in [1..(Len(s) + 1) -> Entries]
  BY <1>1 DEF Inserted
<1> QED BY <1>2 DEF Inserted

LEMMA ChainStart == TimelineInit => ChainInvariant
<1> SUFFICES ASSUME TimelineInit PROVE ChainInvariant
  OBVIOUS
<1> USE DEF TimelineInit, NoEntry
<1>1. \A e \in Events : timeline[e] = <<>> /\ Len(timeline[e]) = 0
  OBVIOUS
<1>2. TimelineTypes
  BY <1>1 DEF TimelineTypes
<1>3. IdsHandedOut
  BY <1>1 DEF IdsHandedOut
<1>4. \A w \in Writers : Continues(w)
  BY TimelineAssumption DEF Continues
<1>5. ChainsBreakByOverlapOnly
  BY <1>1 DEF ChainsBreakByOverlapOnly, Linked
<1> QED BY <1>2, <1>3, <1>4, <1>5 DEF ChainInvariant

LEMMA ComposeKeeps ==
  ASSUME ChainInvariant, NEW w \in Writers, compose(w)
  PROVE  ChainInvariant'
<1>1. PICK e \in Events :
        /\ recording' = [recording EXCEPT ![w] =
             [id |-> entryIds + 1, event |-> e, previous |-> PreviousHash(e)]]
        /\ overlapped' = IF \E v \in Writers : recording[v].event = e
                         THEN overlapped \cup {e} ELSE overlapped
  BY DEF compose
<1>2. entryIds' = entryIds + 1 /\ UNCHANGED <<timeline, reports>> /\ recording[w] = NoEntry
  BY DEF compose, Clear
<1>3. PreviousHash(e) \in Nat
  BY LastHash DEF ChainInvariant
<1>4. /\ recording[w].event = "none"
      /\ recording'[w].id = entryIds + 1 /\ recording'[w].event = e
      /\ recording'[w].previous = PreviousHash(e)
      /\ \A v \in Writers \ {w} : recording'[v] = recording[v]
  BY <1>1, <1>2 DEF ChainInvariant, TimelineTypes, NoEntry
<1>5. TimelineTypes'
  <2>1. recording'[w] \in Composed
    BY <1>1, <1>3 DEF ChainInvariant, TimelineTypes, Composed
  <2> QED BY <1>1, <1>2, <1>4, <2>1 DEF ChainInvariant, TimelineTypes
<1>6. IdsHandedOut'
  <2>1. \A d \in Events : \A i \in 1..Len(timeline[d]) :
          timeline[d][i].id \in Nat /\ timeline[d][i].id <= entryIds
    BY StoredEntries DEF ChainInvariant, TimelineTypes, IdsHandedOut
  <2>2. \A v \in Writers : recording[v].id \in Nat /\ recording[v].id <= entryIds
    BY DEF ChainInvariant, TimelineTypes, IdsHandedOut, Composed, NoEntry
  <2>3. entryIds \in Nat
    BY DEF ChainInvariant, TimelineTypes
  <2> QED BY <1>2, <1>4, <2>1, <2>2, <2>3 DEF IdsHandedOut
<1>7. ASSUME NEW v \in Writers PROVE Continues(v)'
  <2>1. CASE v = w
    <3>1. ASSUME e \notin overlapped' PROVE \A u \in Writers : recording'[u].event = e => u = w
      BY <1>1, <1>4, <3>1
    <3>2. \A i \in 1..Len(timeline[e]) : timeline[e][i].id < entryIds + 1
      BY StoredEntries DEF ChainInvariant, TimelineTypes, IdsHandedOut
    <3>3. PreviousHash(e)' = PreviousHash(e)
      BY <1>2 DEF PreviousHash
    <3> QED BY <1>2, <1>4, <2>1, <3>1, <3>2, <3>3 DEF Continues
  <2>2. CASE v # w
    <3> SUFFICES ASSUME recording[v].event \in Events \ overlapped'
                 PROVE  Continues(v)'
      BY <1>4, <2>2 DEF Continues
    <3>1. recording[v].event # e /\ recording[v].event \in Events \ overlapped
      BY <1>1, <2>2
    <3>2. Continues(v)
      BY DEF ChainInvariant
    <3>3. \A d \in Events : PreviousHash(d)' = PreviousHash(d)
      BY <1>2 DEF PreviousHash
    <3>4. \A u \in Writers : recording'[u].event = recording[v].event => u = v
      BY <1>4, <3>1, <3>2 DEF Continues
    <3> QED BY <1>2, <1>4, <2>2, <3>1, <3>2, <3>3, <3>4 DEF Continues
  <2> QED BY <2>1, <2>2
<1>8. ChainsBreakByOverlapOnly'
  BY <1>1, <1>2 DEF ChainInvariant, ChainsBreakByOverlapOnly, Linked
<1> QED BY <1>5, <1>6, <1>7, <1>8 DEF ChainInvariant

\* Whoever is done with an entry, stored or lost, disturbs no other.
LEMMA StoreKeeps ==
  ASSUME ChainInvariant, NEW w \in Writers, save_timeline_entry(w)
  PROVE  ChainInvariant'
<1> DEFINE entry == recording[w]
           e == entry.event
<1>0. PICK row : row = [id |-> entry.id, previous |-> entry.previous]
  OBVIOUS
<1>1. entry \in Composed /\ e \in Events /\ row \in Entries /\ timeline[e] \in Seq(Entries)
  BY <1>0, ClearEntry DEF ChainInvariant, TimelineTypes, save_timeline_entry, Clear, Composed, Entries
<1>2. PICK k \in 0..Len(timeline[e]) :
        /\ \A i \in (k + 1)..Len(timeline[e]) : timeline[e][i].id > entry.id
        /\ timeline' = [timeline EXCEPT ![e] = Inserted(timeline[e], k, row)]
  BY <1>0, <1>1 DEF save_timeline_entry, ChainInvariant, TimelineTypes
<1>3. /\ recording' = [recording EXCEPT ![w] = NoEntry]
      /\ UNCHANGED <<entryIds, reports, overlapped>>
  BY DEF save_timeline_entry
<1>4. PICK s : s = Inserted(timeline[e], k, row)
  OBVIOUS
<1>5. /\ s \in Seq(Entries) /\ Len(s) = Len(timeline[e]) + 1
      /\ \A i \in 1..(Len(timeline[e]) + 1) :
           s[i] = IF i <= k THEN timeline[e][i]
                  ELSE IF i = k + 1 THEN row ELSE timeline[e][i - 1]
  <2>1. PICK old : old = timeline[e]
    OBVIOUS
  <2>2. old \in Seq(Entries) /\ k \in 0..Len(old) /\ row \in Entries /\ s = Inserted(old, k, row)
    BY <1>1, <1>2, <1>4, <2>1
  <2>3. /\ s \in Seq(Entries) /\ Len(s) = Len(old) + 1
        /\ \A i \in 1..(Len(old) + 1) :
             s[i] = IF i <= k THEN old[i] ELSE IF i = k + 1 THEN row ELSE old[i - 1]
    BY <2>2, InsertedEntries
  <2> QED BY <2>1, <2>3
<1>6. timeline'[e] = s /\ \A d \in Events \ {e} : timeline'[d] = timeline[d]
  BY <1>1, <1>2, <1>4 DEF ChainInvariant, TimelineTypes
<1>7. recording'[w] = NoEntry /\ \A v \in Writers \ {w} : recording'[v] = recording[v]
  BY <1>3 DEF ChainInvariant, TimelineTypes
<1>8. TimelineTypes'
  BY <1>1, <1>3, <1>5, <1>6, <1>2, <1>4 DEF ChainInvariant, TimelineTypes
<1>9. IdsHandedOut'
  <2>1. \A i \in 1..Len(s) : s[i].id <= entryIds
    <3>1. /\ \A i \in 1..Len(timeline[e]) : timeline[e][i].id <= entryIds
          /\ row.id <= entryIds
      BY <1>0, <1>1 DEF ChainInvariant, IdsHandedOut
    <3>2. Len(timeline[e]) \in Nat
      BY <1>1
    <3>3. ASSUME NEW i \in 1..Len(s) PROVE s[i].id <= entryIds
      <4>1. CASE i <= k
        <5>1. i \in 1..Len(timeline[e]) /\ s[i] = timeline[e][i]
          BY <1>2, <1>5, <3>2, <4>1
        <5> QED BY <3>1, <5>1
      <4>2. CASE i = k + 1
        <5>1. s[i] = row
          BY <1>2, <1>5, <3>2, <4>2
        <5> QED BY <3>1, <5>1
      <4>3. CASE i > k + 1
        <5>1. PICK n \in Nat : n = Len(timeline[e]) BY <3>2
        <5>2. i \in 1..(n + 1) /\ k \in 0..n BY <1>2, <1>5, <5>1
        <5>3. i - 1 \in 1..n /\ ~(i <= k) /\ i # k + 1 BY <4>3, <5>2
        <5>4. s[i] = timeline[e][i - 1] BY <1>5, <5>1, <5>2, <5>3
        <5> QED BY <3>1, <5>1, <5>3, <5>4
      <4> QED BY <1>2, <4>1, <4>2, <4>3
    <3> QED BY <3>3
  <2>2. \A v \in Writers : recording'[v].id <= entryIds
    BY <1>7 DEF ChainInvariant, IdsHandedOut, TimelineTypes, NoEntry
  <2> QED BY <1>3, <1>6, <2>1, <2>2 DEF ChainInvariant, IdsHandedOut, TimelineTypes, NoEntry
<1>10. CASE e \in overlapped
  <2>1. ASSUME NEW v \in Writers PROVE Continues(v)'
    <3>1. Continues(v) /\ recording'[v] \in {recording[v], NoEntry}
      BY <1>7 DEF ChainInvariant
    <3>2. \A d \in Events \ {e} : PreviousHash(d)' = PreviousHash(d)
      BY <1>6 DEF PreviousHash
    <3>3. \A u \in Writers : recording'[u].event \in Events => recording'[u] = recording[u]
      BY <1>7, TimelineAssumption DEF NoEntry
    <3> QED BY <1>3, <1>6, <1>10, <3>1, <3>2, <3>3 DEF Continues, NoEntry
  <2>2. ChainsBreakByOverlapOnly'
    <3>1. ASSUME NEW d \in Events, d \notin overlapped'
          PROVE  Linked(timeline[d])' /\ reports'[d] # "failed"
      <4>1. d # e /\ Linked(timeline[d]) /\ reports[d] # "failed"
        BY <1>3, <1>10, <3>1 DEF ChainInvariant, ChainsBreakByOverlapOnly
      <4>2. Linked(timeline'[d])
        BY <1>6, <4>1
      <4> QED BY <1>3, <4>1, <4>2 DEF Linked
    <3> QED BY <3>1 DEF ChainsBreakByOverlapOnly
  <2> QED BY <1>8, <1>9, <2>1, <2>2 DEF ChainInvariant
<1>11. CASE e \notin overlapped
  <2>1. /\ \A v \in Writers : recording[v].event = e => v = w
        /\ \A i \in 1..Len(timeline[e]) : timeline[e][i].id < entry.id
        /\ entry.previous = PreviousHash(e)
    BY <1>1, <1>11 DEF ChainInvariant, Continues
  <2>2. k = Len(timeline[e])
    <3>1. entry.id \in Nat /\ \A i \in 1..Len(timeline[e]) : timeline[e][i].id \in Nat
      BY <1>1, StoredEntries DEF Composed, ChainInvariant
    <3>2. Len(timeline[e]) \in Nat
      BY <1>1
    <3>3. ASSUME k < Len(timeline[e]) PROVE FALSE
      <4>1. k + 1 \in (k + 1)..Len(timeline[e]) /\ k + 1 \in 1..Len(timeline[e])
        BY <1>2, <3>2, <3>3
      <4> QED BY <1>2, <2>1, <3>1, <4>1
    <3> QED BY <1>2, <3>2, <3>3
  <2>3. ASSUME NEW v \in Writers PROVE Continues(v)'
    <3>1. Continues(v) /\ recording'[v] \in {recording[v], NoEntry}
      BY <1>7 DEF ChainInvariant
    <3>2. \A d \in Events \ {e} : PreviousHash(d)' = PreviousHash(d)
      BY <1>6 DEF PreviousHash
    <3>3. \A u \in Writers : recording'[u].event \in Events => recording'[u] = recording[u]
      BY <1>7, TimelineAssumption DEF NoEntry
    <3>4. \A u \in Writers : recording'[u].event # e
      BY <1>1, <1>7, <2>1, TimelineAssumption DEF NoEntry
    <3> QED BY <1>3, <1>6, <3>1, <3>2, <3>3, <3>4 DEF Continues, NoEntry
  <2>4. Linked(timeline[e])
    BY <1>1, <1>11 DEF ChainInvariant, ChainsBreakByOverlapOnly
  <2>5. Linked(s)
    <3> SUFFICES ASSUME NEW i \in 1..Len(s)
                 PROVE  s[i].previous = IF i = 1 THEN Genesis ELSE s[i - 1].id
      BY DEF Linked
    <3>1. CASE i <= Len(timeline[e])
      <4>1. s[i] = timeline[e][i] /\ (i # 1 => s[i - 1] = timeline[e][i - 1])
        BY <1>1, <1>5, <2>2, <3>1
      <4>2. i \in 1..Len(timeline[e])
        BY <1>1, <3>1
      <4> QED BY <2>4, <4>1, <4>2 DEF Linked
    <3>2. CASE i = Len(timeline[e]) + 1
      <4>1. s[i].previous = PreviousHash(e)
        BY <1>0, <1>5, <2>1, <2>2, <3>2
      <4>2. CASE i = 1
        BY <1>1, <3>2, <4>1, <4>2 DEF PreviousHash
      <4>3. CASE i # 1
        BY <1>0, <1>1, <1>5, <2>2, <3>2, <4>1, <4>3 DEF PreviousHash
      <4> QED BY <4>2, <4>3
    <3>3. Len(timeline[e]) \in Nat
      BY <1>1
    <3> QED BY <1>5, <3>1, <3>2, <3>3
  <2>6. ChainsBreakByOverlapOnly'
    <3>1. ASSUME NEW d \in Events, d \notin overlapped'
          PROVE  Linked(timeline[d])' /\ reports'[d] # "failed"
      <4>1. Linked(timeline[d]) /\ reports[d] # "failed"
        BY <1>3, <3>1 DEF ChainInvariant, ChainsBreakByOverlapOnly
      <4>2. Linked(timeline'[d])
        <5>1. CASE d = e
          BY <1>6, <2>5, <5>1
        <5>2. CASE d # e
          BY <1>6, <4>1, <5>2
        <5> QED BY <5>1, <5>2
      <4> QED BY <1>3, <4>1, <4>2 DEF Linked
    <3> QED BY <3>1 DEF ChainsBreakByOverlapOnly
  <2> QED BY <1>8, <1>9, <2>3, <2>6 DEF ChainInvariant
<1> QED BY <1>10, <1>11

LEMMA LoseKeeps ==
  ASSUME ChainInvariant, NEW w \in Writers, lose(w)
  PROVE  ChainInvariant'
<1>1. /\ recording' = [recording EXCEPT ![w] = NoEntry]
      /\ UNCHANGED <<timeline, entryIds, reports, overlapped>>
  BY DEF lose
<1>2. recording'[w] = NoEntry /\ \A v \in Writers \ {w} : recording'[v] = recording[v]
  BY <1>1 DEF ChainInvariant, TimelineTypes
<1>3. TimelineTypes'
  BY <1>1 DEF ChainInvariant, TimelineTypes
<1>4. IdsHandedOut'
  <2>1. entryIds \in Nat /\ IdsHandedOut BY DEF ChainInvariant, TimelineTypes
  <2>2. NoEntry.id <= entryIds BY <2>1 DEF NoEntry
  <2>3. \A v \in Writers : recording'[v].id <= entryIds BY <1>2, <2>1, <2>2 DEF IdsHandedOut
  <2>4. \A e \in Events : \A i \in 1..Len(timeline[e]) : timeline[e][i].id <= entryIds
    BY <2>1 DEF IdsHandedOut
  <2> QED BY <1>1, <2>3, <2>4 DEF IdsHandedOut
<1>5. ASSUME NEW v \in Writers PROVE Continues(v)'
  <2>1. Continues(v)
    BY DEF ChainInvariant
  <2>2. \A d \in Events : PreviousHash(d)' = PreviousHash(d)
    BY <1>1 DEF PreviousHash
  <2>3. \A u \in Writers : recording'[u].event \in Events => recording'[u] = recording[u]
    BY <1>2, TimelineAssumption DEF NoEntry
  <2> QED BY <1>1, <2>1, <2>2, <2>3 DEF Continues
<1>6. ChainsBreakByOverlapOnly'
  BY <1>1 DEF ChainInvariant, ChainsBreakByOverlapOnly, Linked
<1> QED BY <1>3, <1>4, <1>5, <1>6 DEF ChainInvariant

LEMMA VerifyKeeps ==
  ASSUME ChainInvariant, NEW e \in Events, verify_timeline_integrity(e)
  PROVE  ChainInvariant'
<1>1. UNCHANGED <<timeline, entryIds, recording, overlapped>>
  BY DEF verify_timeline_integrity
<1>2. TimelineTypes' /\ IdsHandedOut'
  BY <1>1 DEF ChainInvariant, TimelineTypes, IdsHandedOut
<1>3. \A w \in Writers : Continues(w)'
  BY <1>1 DEF ChainInvariant, Continues, PreviousHash
<1>4. ChainsBreakByOverlapOnly'
  <2> SUFFICES ASSUME NEW d \in Events \ overlapped
               PROVE  Linked(timeline[d]) /\ reports'[d] # "failed"
    BY <1>1 DEF ChainsBreakByOverlapOnly, Linked
  <2>1. Linked(timeline[d]) /\ reports[d] # "failed"
    BY DEF ChainInvariant, ChainsBreakByOverlapOnly
  <2>2. reports'[d] \in {reports[d], "verified"}
    BY <2>1 DEF verify_timeline_integrity
  <2> QED BY <2>1, <2>2
<1> QED BY <1>2, <1>3, <1>4 DEF ChainInvariant

LEMMA ChainStep == ChainInvariant /\ [TimelineNext]_timelineVars => ChainInvariant'
<1> SUFFICES ASSUME ChainInvariant, [TimelineNext]_timelineVars PROVE ChainInvariant'
  OBVIOUS
<1>1. CASE UNCHANGED timelineVars
  BY <1>1 DEF timelineVars, ChainInvariant, TimelineTypes, IdsHandedOut, Continues, PreviousHash,
     ChainsBreakByOverlapOnly, Linked
<1>2. CASE TimelineNext
  BY <1>2, ComposeKeeps, StoreKeeps, LoseKeeps, VerifyKeeps DEF TimelineNext
<1> QED BY <1>1, <1>2

(***************************************************************************)
(* The chain of an event fails its check only where two of its entries     *)
(* were composed at once, for any number of events, writers and entries.   *)
(***************************************************************************)
THEOREM ChainSafe == TimelineSpec => []ChainsBreakByOverlapOnly
<1>1. ChainInvariant => ChainsBreakByOverlapOnly
  BY DEF ChainInvariant
<1> QED BY ChainStart, ChainStep, <1>1, PTL DEF TimelineSpec

(***************************************************************************)
(* Candidate objects: the inductive invariant.                             *)
(***************************************************************************)
Statuses == {"absent", "pending", "confirmed", "excluded"}
Rows == [status : Statuses, stale : BOOLEAN, version : Nat, run : Nat,
         content : Contents \cup {NoContent}, verifiedUnder : Nat]
RowMaps == UNION {[some -> Rows] : some \in SUBSET Objects}
RegistryRecords == [version : Nat, content : Masters \cup {NoContent}]
RecordMaps == UNION {[some -> RegistryRecords] : some \in SUBSET Objects}
RunRecords == [id : Nat, alert : Nat, status : {"completed", "stale"},
               screened : UNION {[some -> Nat] : some \in SUBSET Objects}]
ListRecords == [version : Nat, alert : Nat, rows : RowMaps]
DraftRecords == [object : Objects, row : Rows, alert : Nat, list : Nat,
                 registered : RegistryRecords]
EventRows == [closed : BOOLEAN, alert : Nat]

AlertCalls   == [kind : {"alert"}, version : Nat, warning : Warnings]
EventCalls   == [kind : {"event"}, row : EventRows]
StalingCalls == [kind : {"staling"}]
ObjectCalls  == [kind : {"object"}, object : Objects, row : Rows, versioned : BOOLEAN]
VersionCalls == [kind : {"version"}, object : Objects, version : Nat]
AddCalls     == [kind : {"add"}, object : Objects, content : Contents, run : Nat]
RunCalls     == [kind : {"run"}, run : RunRecords]
ImportCalls  == [kind : {"import"}, records : RecordMaps, runs : SUBSET Nat, rows : RowMaps]
ListCalls    == [kind : {"list"}, list : ListRecords]
DraftCalls   == [kind : {"draft"}, draft : DraftRecords]
DecisionCalls == ObjectCalls \cup VersionCalls \cup AddCalls \cup RunCalls \cup ListCalls
                 \cup DraftCalls
CandidateCallSet == AlertCalls \cup EventCalls \cup StalingCalls \cup ImportCalls
                    \cup DecisionCalls

HandlerNames == Decisions \cup {"none", "append_alert", "close_event",
                                "import_risk_object_registry"}

CandidateTypes ==
  /\ responseEvent \in EventRows
  /\ alerts \in Seq(Warnings)
  /\ registry \in [Objects -> RegistryRecords]
  /\ registryHistory \subseteq [object : Objects, version : Nat \ {0}, content : Masters]
  /\ object \in [Objects -> Rows]
  /\ runs \in Seq(RunRecords) /\ runIds \in Nat
  /\ lists \in Seq(ListRecords)
  /\ drafts \subseteq DraftRecords /\ stops \in Nat
  /\ handling \in [Threads -> HandlerNames]
  /\ candidateCalls \in [Threads -> Seq(CandidateCallSet)]

\* What is still to be written, by which handler.
Waiting(p) == Range(candidateCalls[p])
Marking(calls) ==
  \A c \in Range(calls) :
    c \in VersionCalls \/ (c \in ObjectCalls /\ c.row.stale)
Revising(calls) ==
  \/ /\ Len(calls) = 3 /\ calls[1] \in AlertCalls /\ calls[2] \in EventCalls
     /\ calls[3] \in StalingCalls
     /\ calls[2].row.alert = calls[1].version /\ ~calls[2].row.closed
  \/ /\ Len(calls) = 2 /\ calls[1] \in EventCalls /\ calls[2] \in StalingCalls
     /\ calls[1].row.alert <= Len(alerts) /\ ~calls[1].row.closed
  \/ Len(calls) = 1 /\ calls[1] \in StalingCalls
  \/ Len(calls) > 0 /\ Marking(calls)
Ordered(handler, calls) ==
  /\ handler = "none" <=> calls = <<>>
  /\ handler = "append_alert" => Revising(calls)
  /\ handler = "import_risk_object_registry" => Len(calls) = 1 /\ calls[1] \in ImportCalls
  /\ handler = "close_event" =>
       /\ Len(calls) = 1 /\ calls[1] \in EventCalls /\ calls[1].row.closed
       /\ calls[1].row.alert <= Len(alerts)
  /\ handler \in Decisions =>
       /\ \A c \in Range(calls) : c \in DecisionCalls
       /\ (\E c \in Range(calls) : c \in AddCalls /\ c.run # Manual) =>
            calls[Len(calls)] \in RunCalls
CallsAreOrdered == \A p \in Threads : Ordered(handling[p], candidateCalls[p])

\* The registry and its history.
RegistryIsOnRecord ==
  /\ \A h \in registryHistory : h.version <= registry[h.object].version
  /\ \A o \in Objects : \A n \in 1..registry[o].version :
       \E h \in registryHistory : h.object = o /\ h.version = n
  /\ \A g, h \in registryHistory :
       g.object = h.object =>
         /\ g.version = h.version => g = h
         /\ g.version = h.version + 1 => g.content # h.content
  /\ \A h \in registryHistory :
       h.version = registry[h.object].version => h.content = registry[h.object].content

\* Every run that is saved or about to be.
KnownRuns ==
  Range(runs) \cup {c.run : c \in {d \in UNION {Waiting(p) : p \in Threads} : d \in RunCalls}}
\* What a row of a screening says of an object is what the screening saw.
RunExplains(r, o, content) ==
  IF DOMAIN r.screened = {} THEN content = "profile"
  ELSE /\ o \in DOMAIN r.screened
       /\ [object |-> o, version |-> r.screened[o], content |-> content] \in registryHistory
Explained(run, o, content) ==
  run # Manual => \A r \in KnownRuns : r.id = run => RunExplains(r, o, content)
RowOK(o, row) == WellFormed(row) /\ Explained(row.run, o, row.content)

Imported(c) ==
  /\ \A o \in DOMAIN c.records :
       /\ c.records[o].content \in Masters
       /\ c.records[o].version \in 1..(registry[o].version + 1)
       /\ c.records[o].version = registry[o].version + 1 =>
            c.records[o].content # registry[o].content
  /\ \A o \in DOMAIN c.rows : c.rows[o].stale /\ c.rows[o].version > 0 /\ RowOK(o, c.rows[o])
IsGrounded(d) ==
  d.list > 0 /\ disturbed = {} =>
    /\ d.row.verifiedUnder = d.alert
    /\ d.row.run # Manual /\ d.row.content # "profile" => d.row.content = d.registered.content
AreConfirmed(rows) == \A o \in DOMAIN rows : rows[o].status = "confirmed" /\ ~rows[o].stale

CandidateCallOK(c) ==
  /\ c \in AlertCalls  => c.version \in 1..(Len(alerts) + 1)
  /\ c \in EventCalls  => c.row.alert >= 1
  /\ c \in ObjectCalls => c.row.version > 0 /\ RowOK(c.object, c.row)
  /\ c \in AddCalls    => c.run <= runIds /\ Explained(c.run, c.object, c.content)
  /\ c \in RunCalls    => c.run.id <= runIds
  /\ c \in ImportCalls => Imported(c)
  /\ c \in ListCalls   => AreConfirmed(c.list.rows)
  /\ c \in DraftCalls  => IsGrounded(c.draft)

StoredOK ==
  /\ responseEvent.alert \in 1..Len(alerts)
  /\ \A o \in Objects : RowOK(o, object[o])
  /\ \A r \in Range(runs) : r.id <= runIds
  /\ \A l \in Range(lists) : AreConfirmed(l.rows)
  /\ \A d \in drafts : IsGrounded(d)
CallsOK == \A p \in Threads : \A c \in Waiting(p) : CandidateCallOK(c)

\* Who may be at work beside whom, unless it is on record that they were.
Apart ==
  \A p, q \in Threads : p # q =>
    /\ "import beside" \notin disturbed /\ handling[p] = "import_risk_object_registry" =>
         handling[q] \in {"none", "close_event"}
    /\ "alert beside" \notin disturbed /\ handling[p] = "append_alert" =>
         handling[q] \in {"none", "import_risk_object_registry"}
ClosedForGood == responseEvent.closed /\ \A p \in Threads : handling[p] # "append_alert"

\* Runs that count as completed saw the registry as it is.
SawRegistry(r) ==
  \A o \in Objects :
    /\ o \in DOMAIN r.screened => registry[o].version = r.screened[o]
    /\ registry[o].version > 0 /\ Usable(registry[o].content) => o \in DOMAIN r.screened
RunsAreFresh ==
  "import beside" \notin disturbed =>
    /\ ClosedForGood \/ \A r \in Range(runs) : r.status = "completed" => SawRegistry(r)
    /\ \A p \in Threads : \A c \in Waiting(p) :
         /\ c \in RunCalls => SawRegistry(c.run)
         /\ c \in ImportCalls =>
              ClosedForGood \/ \A r \in Range(runs) : r.status = "completed" => r.id \in c.runs

\* An object that counts as confirmed was verified under the latest warning,
\* or the handler that appended it has its row still to mark.
OfLatest(row) == row.status = "confirmed" /\ ~row.stale => row.verifiedUnder = Len(alerts)
ConfirmationsFollow ==
  {"cut off", "alert beside"} \cap disturbed = {} =>
    /\ (\A p \in Threads : handling[p] = "append_alert" => candidateCalls[p][1] \in AlertCalls) =>
         \A o \in Objects : OfLatest(object[o])
    /\ (\A p \in Threads : handling[p] # "append_alert") =>
         \A p \in Threads : \A c \in Waiting(p) : c \in ObjectCalls => OfLatest(c.row)
    /\ \A p \in Threads : handling[p] = "append_alert" /\ Marking(candidateCalls[p]) =>
         \A o \in Objects : Frozenable(o) =>
           \E c \in Waiting(p) : c \in ObjectCalls /\ c.object = o

\* A listed row that no longer has the content of the registry is not the
\* stored one, and no write still to be made brings it back.
Outdated(o, row) ==
  /\ object[o] # row
  /\ \A p \in Threads : \A c \in Waiting(p) :
       /\ c \in ObjectCalls /\ c.object = o => c.row.version > row.version
       /\ c \in ImportCalls /\ o \in DOMAIN c.rows => c.rows[o].version > row.version
ListHolds(list) ==
  \A o \in DOMAIN list.rows :
    /\ list.rows[o].version <= object[o].version
    /\ list.rows[o].run # Manual /\ list.rows[o].content # "profile" =>
         list.rows[o].content = registry[o].content \/ Outdated(o, list.rows[o])
ListsHold ==
  /\ "alert beside" \notin disturbed /\ responseEvent.closed =>
       \A p \in Threads : handling[p] # "append_alert"
  /\ disturbed = {} /\ OpenEvent =>
       /\ \A l \in Range(lists) : ListHolds(l)
       /\ \A p \in Threads : \A c \in Waiting(p) :
            /\ c \in ListCalls => ListHolds(c.list)
            /\ c \in ImportCalls =>
                 /\ \A o \in DOMAIN c.records :
                      OnRecord(o) /\ ~object[o].stale => o \in DOMAIN c.rows
                 /\ \A o \in DOMAIN c.rows : c.rows[o].version = object[o].version + 1

CandidateInv ==
  /\ CandidateTypes
  /\ CallsAreOrdered
  /\ RegistryIsOnRecord
  /\ StoredOK
  /\ CallsOK
  /\ Apart
  /\ RunsAreFresh
  /\ ConfirmationsFollow
  /\ ListsHold

(***************************************************************************)
(* Candidate objects: sequences of calls.                                  *)
(***************************************************************************)
\* A finite set lists as a sequence that holds each of its elements and no other.
LEMMA ListedSet ==
  ASSUME NEW S, IsFiniteSet(S)
  PROVE  SetToSeq(S) \in Seq(S) /\ Range(SetToSeq(S)) = S
<1> DEFINE n == Cardinality(S)
           f == SetToSeq(S)
<1>1. n \in Nat /\ ExistsBijection(1..n, S) BY FS_CardinalityType
<1>2. \E g \in [1..n -> S] : IsInjective(g)
  <2>1. PICK g \in Bijection(1..n, S) : TRUE BY <1>1 DEF ExistsBijection
  <2> QED BY <2>1 DEF Bijection, Injection
<1>3. f \in [1..n -> S] /\ IsInjective(f) BY <1>2 DEF SetToSeq
<1>4. f \in Injection(1..n, S) BY <1>3 DEF Injection, IsInjective
<1>5. Cardinality(1..n) = n
  <2>1. Cardinality(1..n) = IF 1 > n THEN 0 ELSE n - 1 + 1 BY <1>1, FS_Interval
  <2> QED BY <2>1, <1>1
<1>6. f \in Surjection(1..n, S) BY <1>4, <1>5, FS_Injection
<1>7. Range(f) = S BY <1>3, <1>6 DEF Range, Surjection
<1>8. f \in Seq(S) BY <1>1, <1>3, SeqDef
<1> QED BY <1>7, <1>8

\* What is in a sequence is at one of its places.
LEMMA InRange ==
  ASSUME NEW S, NEW s \in Seq(S)
  PROVE  /\ Len(s) \in Nat
         /\ Range(s) \subseteq S
         /\ \A i \in 1..Len(s) : s[i] \in Range(s)
         /\ \A x \in Range(s) : \E i \in 1..Len(s) : x = s[i]
<1>1. Len(s) \in Nat /\ DOMAIN s = 1..Len(s) /\ s \in [1..Len(s) -> S] BY LenProperties
<1> QED BY <1>1 DEF Range

\* The head and the rest of a sequence of calls.
LEMMA HeadAndRest ==
  ASSUME NEW S, NEW s \in Seq(S), s # <<>>
  PROVE  /\ Head(s) = s[1] /\ Head(s) \in Range(s)
         /\ Tail(s) \in Seq(S) /\ Len(Tail(s)) = Len(s) - 1 /\ Len(s) >= 1
         /\ \A i \in 1..(Len(s) - 1) : Tail(s)[i] = s[i + 1]
         /\ Range(Tail(s)) \subseteq Range(s)
         /\ \A x \in Range(s) : x = Head(s) \/ x \in Range(Tail(s))
<1>1. /\ Tail(s) \in Seq(S) /\ Len(Tail(s)) = Len(s) - 1
      /\ \A i \in 1..Len(Tail(s)) : Tail(s)[i] = s[i + 1]
  BY HeadTailProperties
<1>2. Len(s) \in Nat \ {0} BY EmptySeq
<1>3. Head(s) = s[1] BY DEF Head
<1>4. PICK n \in Nat : n = Len(s) /\ n >= 1 BY <1>2
<1>5. Len(Tail(s)) = n - 1 BY <1>1, <1>4
<1>6. Head(s) \in Range(s) BY <1>3, <1>4, InRange
<1>7. Range(Tail(s)) \subseteq Range(s)
  <2> SUFFICES ASSUME NEW x \in Range(Tail(s)) PROVE x \in Range(s)
    OBVIOUS
  <2>1. PICK i \in 1..(n - 1) : x = Tail(s)[i] BY <1>1, <1>5, InRange
  <2>2. x = s[i + 1] /\ i + 1 \in 1..n BY <2>1, <1>1, <1>5, <1>4
  <2> QED BY <2>2, <1>4, InRange
<1>8. \A x \in Range(s) : x = Head(s) \/ x \in Range(Tail(s))
  <2> SUFFICES ASSUME NEW x \in Range(s), x # Head(s) PROVE x \in Range(Tail(s))
    OBVIOUS
  <2>1. PICK i \in 1..n : x = s[i] BY <1>4, InRange
  <2>2. i - 1 \in 1..(n - 1) /\ (i - 1) + 1 = i BY <2>1, <1>3, <1>4
  <2>3. x = Tail(s)[i - 1] BY <2>1, <2>2, <1>1, <1>5
  <2> QED BY <2>3, <2>2, <1>1, <1>5, InRange
<1> QED BY <1>1, <1>3, <1>4, <1>6, <1>7, <1>8

\* A call put in front.
LEMMA PutInFront ==
  ASSUME NEW S, NEW s \in Seq(S), NEW x \in S
  PROVE  /\ <<x>> \o s \in Seq(S) /\ <<x>> \o s # <<>>
         /\ Len(<<x>> \o s) = Len(s) + 1 /\ (<<x>> \o s)[1] = x
         /\ \A i \in 1..Len(s) : (<<x>> \o s)[i + 1] = s[i]
         /\ Range(<<x>> \o s) = {x} \cup Range(s)
<1>1. <<x>> \in Seq(S) /\ Len(<<x>>) = 1 /\ <<x>>[1] = x OBVIOUS
<1>2. PICK n \in Nat : n = Len(s) BY LenProperties
<1> DEFINE t == <<x>> \o s
<1>3. /\ t \in Seq(S) /\ Len(t) = 1 + n
      /\ \A i \in 1..(1 + n) : t[i] = IF i <= 1 THEN <<x>>[i] ELSE s[i - 1]
  BY <1>1, <1>2, ConcatProperties
<1> HIDE DEF t
<1>4. t[1] = x BY <1>1, <1>3, <1>2
<1>5. \A i \in 1..n : t[i + 1] = s[i]
  <2> TAKE i \in 1..n
  <2>1. i + 1 \in 1..(1 + n) /\ ~(i + 1 <= 1) /\ (i + 1) - 1 = i BY <1>2
  <2> QED BY <2>1, <1>3
<1>6. Range(t) = {x} \cup Range(s)
  <2>1. ASSUME NEW y \in Range(t) PROVE y = x \/ y \in Range(s)
    <3>1. PICK i \in 1..(1 + n) : y = t[i] BY <1>3, InRange
    <3>2. CASE i = 1 BY <3>1, <3>2, <1>4
    <3>3. CASE i # 1
      <4>1. i - 1 \in 1..n /\ (i - 1) + 1 = i BY <3>3, <3>1, <1>2
      <4>2. y = s[i - 1] BY <4>1, <3>1, <1>5
      <4> QED BY <4>1, <4>2, <1>2, InRange
    <3> QED BY <3>2, <3>3
  <2>2. x \in Range(t)
    <3>1. 1 \in 1..(1 + n) BY <1>2
    <3> QED BY <3>1, <1>3, <1>4, InRange
  <2>3. ASSUME NEW y \in Range(s) PROVE y \in Range(t)
    <3>1. PICK i \in 1..n : y = s[i] BY <1>2, InRange
    <3>2. i + 1 \in 1..(1 + n) /\ t[i + 1] = y BY <3>1, <1>2, <1>5
    <3> QED BY <3>2, <1>3, InRange
  <2> QED BY <2>1, <2>2, <2>3
<1>7. t # <<>> BY <1>3, <1>2
<1> QED BY <1>2, <1>3, <1>4, <1>5, <1>6, <1>7 DEF t

\* A call appended.
LEMMA PutAtEnd ==
  ASSUME NEW S, NEW s \in Seq(S), NEW x \in S
  PROVE  /\ Append(s, x) \in Seq(S) /\ Append(s, x) # <<>>
         /\ Len(Append(s, x)) = Len(s) + 1 /\ Append(s, x)[Len(s) + 1] = x
         /\ \A i \in 1..Len(s) : Append(s, x)[i] = s[i]
         /\ Range(Append(s, x)) = Range(s) \cup {x}
<1>1. PICK n \in Nat : n = Len(s) BY LenProperties
<1> DEFINE t == Append(s, x)
<1>2. /\ t \in Seq(S) /\ t # <<>> /\ Len(t) = n + 1
      /\ \A i \in 1..n : t[i] = s[i]
      /\ t[n + 1] = x
  BY <1>1, AppendProperties
<1> HIDE DEF t
<1>3. \A y \in Range(t) : y = x \/ y \in Range(s)
  <2> TAKE y \in Range(t)
  <2>1. PICK i \in 1..(n + 1) : y = t[i] BY <1>2, InRange
  <2>2. CASE i = n + 1 BY <2>1, <2>2, <1>2
  <2>3. CASE i # n + 1
    <3>1. i \in 1..n BY <2>1, <2>3, <1>1
    <3> QED BY <3>1, <2>1, <1>1, <1>2, InRange
  <2> QED BY <2>2, <2>3
<1>4. \A y \in Range(s) : y \in Range(t)
  <2> TAKE y \in Range(s)
  <2>1. PICK i \in 1..n : y = s[i] BY <1>1, InRange
  <2>2. i \in 1..(n + 1) /\ t[i] = y BY <2>1, <1>1, <1>2
  <2> QED BY <2>2, <1>2, InRange
<1>5. x \in Range(t)
  <2>1. n + 1 \in 1..(n + 1) BY <1>1
  <2> QED BY <2>1, <1>2, InRange
<1> QED BY <1>1, <1>2, <1>3, <1>4, <1>5 DEF t

\* All calls but the last.
LEMMA AllButLast ==
  ASSUME NEW S, NEW s \in Seq(S), s # <<>>
  PROVE  /\ Front(s) \in Seq(S) /\ Len(Front(s)) = Len(s) - 1
         /\ Range(Front(s)) \subseteq Range(s)
         /\ Last(s) = s[Len(s)] /\ Last(s) \in Range(s)
<1>1. PICK n \in Nat : n = Len(s) /\ n >= 1 BY EmptySeq
<1>2. \A i \in 1..(n - 1) : s[i] \in S
  <2> TAKE i \in 1..(n - 1)
  <2>1. i \in 1..n BY <1>1
  <2> QED BY <2>1, <1>1, ElementOfSeq
<1>3. /\ SubSeq(s, 1, n - 1) \in Seq(S)
      /\ Len(SubSeq(s, 1, n - 1)) = n - 1
      /\ \A i \in 1..(n - 1) : SubSeq(s, 1, n - 1)[i] = s[i]
  <2>1. n - 1 \in Int /\ 1 \in Int /\ (n - 1) - 1 + 1 = n - 1 BY <1>1
  <2>2. /\ SubSeq(s, 1, n - 1) \in Seq(S)
        /\ Len(SubSeq(s, 1, n - 1)) = IF 1 <= n - 1 THEN (n - 1) - 1 + 1 ELSE 0
        /\ \A i \in 1..((n - 1) - 1 + 1) : SubSeq(s, 1, n - 1)[i] = s[1 + i - 1]
    BY <2>1, <1>2, SubSeqProperties
  <2>3. \A i \in 1..(n - 1) : 1 + i - 1 = i BY <1>1
  <2> QED BY <2>1, <2>2, <2>3, <1>1
<1>4. Front(s) = SubSeq(s, 1, n - 1) BY <1>1 DEF Front
<1>5. \A y \in Range(Front(s)) : y \in Range(s)
  <2> TAKE y \in Range(Front(s))
  <2>0. Front(s) \in Seq(S) /\ Len(Front(s)) = n - 1 BY <1>3, <1>4
  <2>1. PICK i \in 1..(n - 1) : y = Front(s)[i] BY <2>0, InRange, Zenon
  <2>2. i \in 1..n /\ s[i] = y BY <2>1, <1>1, <1>3, <1>4
  <2> QED BY <2>2, <1>1, InRange
<1>6. Last(s) = s[n] /\ n \in 1..n BY <1>1 DEF Last
<1>7. Last(s) \in Range(s) BY <1>1, <1>6, InRange
<1> QED BY <1>1, <1>3, <1>4, <1>5, <1>6, <1>7

\* No call, and a single one.
LEMMA NoneInRange == Range(<<>>) = {}
<1>1. DOMAIN <<>> = 1..0 OBVIOUS
<1>2. 1..0 = {} OBVIOUS
<1> QED BY <1>1, <1>2 DEF Range

\* A single call is the only one.
LEMMA OneInRange ==
  ASSUME NEW S, NEW s \in Seq(S), Len(s) = 1
  PROVE  Range(s) = {s[1]}
<1>1. DOMAIN s = {1}
  <2>1. DOMAIN s = 1..1 BY LenProperties
  <2>2. 1..1 = {1} OBVIOUS
  <2> QED BY <2>1, <2>2
<1> QED BY <1>1 DEF Range

(***************************************************************************)
(* Candidate objects: calls, rows and what a step leaves of them.          *)
(***************************************************************************)
\* The kind of a call says what it holds.
LEMMA CallKinds ==
  ASSUME NEW c \in CandidateCallSet
  PROVE  /\ c.kind = "alert" <=> c \in AlertCalls
         /\ c.kind = "event" <=> c \in EventCalls
         /\ c.kind = "staling" <=> c \in StalingCalls
         /\ c.kind = "object" <=> c \in ObjectCalls
         /\ c.kind = "version" <=> c \in VersionCalls
         /\ c.kind = "add" <=> c \in AddCalls
         /\ c.kind = "run" <=> c \in RunCalls
         /\ c.kind = "import" <=> c \in ImportCalls
         /\ c.kind = "list" <=> c \in ListCalls
         /\ c.kind = "draft" <=> c \in DraftCalls
<1>1. \A x \in AlertCalls : x.kind = "alert" BY DEF AlertCalls
<1>2. \A x \in EventCalls : x.kind = "event" BY DEF EventCalls
<1>3. \A x \in StalingCalls : x.kind = "staling" BY DEF StalingCalls
<1>4. \A x \in ObjectCalls : x.kind = "object" BY DEF ObjectCalls
<1>5. \A x \in VersionCalls : x.kind = "version" BY DEF VersionCalls
<1>6. \A x \in AddCalls : x.kind = "add" BY DEF AddCalls
<1>7. \A x \in RunCalls : x.kind = "run" BY DEF RunCalls
<1>8. \A x \in ImportCalls : x.kind = "import" BY DEF ImportCalls
<1>9. \A x \in ListCalls : x.kind = "list" BY DEF ListCalls
<1>10. \A x \in DraftCalls : x.kind = "draft" BY DEF DraftCalls
<1>11. \/ c \in AlertCalls \/ c \in EventCalls \/ c \in StalingCalls \/ c \in ObjectCalls
       \/ c \in VersionCalls \/ c \in AddCalls \/ c \in RunCalls \/ c \in ImportCalls
       \/ c \in ListCalls \/ c \in DraftCalls
  BY DEF CandidateCallSet, DecisionCalls
<1> QED BY <1>1, <1>2, <1>3, <1>4, <1>5, <1>6, <1>7, <1>8, <1>9, <1>10, <1>11

\* What the calls hold.
LEMMA CallParts ==
  /\ \A c \in AlertCalls : c.version \in Nat /\ c.warning \in Warnings
  /\ \A c \in EventCalls : c.row \in EventRows /\ c.row.closed \in BOOLEAN /\ c.row.alert \in Nat
  /\ \A c \in ObjectCalls : c.object \in Objects /\ c.row \in Rows /\ c.versioned \in BOOLEAN
  /\ \A c \in AddCalls : c.object \in Objects /\ c.content \in Contents /\ c.run \in Nat
  /\ \A c \in RunCalls : c.run \in RunRecords /\ c.run.id \in Nat
  /\ \A c \in ListCalls : c.list \in ListRecords
  /\ \A c \in DraftCalls : c.draft \in DraftRecords
<1>1. \A c \in AlertCalls : c.version \in Nat /\ c.warning \in Warnings BY DEF AlertCalls
<1>2. \A c \in EventCalls : c.row \in EventRows BY DEF EventCalls
<1>3. \A row \in EventRows : row.closed \in BOOLEAN /\ row.alert \in Nat BY DEF EventRows
<1>4. \A c \in ObjectCalls : c.object \in Objects /\ c.row \in Rows /\ c.versioned \in BOOLEAN
  BY DEF ObjectCalls
<1>5. \A c \in AddCalls : c.object \in Objects /\ c.content \in Contents /\ c.run \in Nat
  BY DEF AddCalls
<1>6. \A c \in RunCalls : c.run \in RunRecords BY DEF RunCalls
<1>7. \A r \in RunRecords : r.id \in Nat BY DEF RunRecords
<1>8. \A c \in ListCalls : c.list \in ListRecords BY DEF ListCalls
<1>9. \A c \in DraftCalls : c.draft \in DraftRecords BY DEF DraftCalls
<1> QED BY <1>1, <1>2, <1>3, <1>4, <1>5, <1>6, <1>7, <1>8, <1>9

\* What an import call holds.
LEMMA ImportParts ==
  ASSUME NEW c \in ImportCalls
  PROVE  /\ DOMAIN c.records \subseteq Objects /\ DOMAIN c.rows \subseteq Objects
         /\ \A o \in DOMAIN c.records : c.records[o] \in RegistryRecords
         /\ \A o \in DOMAIN c.rows : c.rows[o] \in Rows
<1>1. c.records \in RecordMaps /\ c.rows \in RowMaps BY DEF ImportCalls
<1>2. PICK A \in SUBSET Objects : c.records \in [A -> RegistryRecords] BY <1>1 DEF RecordMaps
<1>3. PICK B \in SUBSET Objects : c.rows \in [B -> Rows] BY <1>1 DEF RowMaps
<1> QED BY <1>2, <1>3

\* The rows handlers compute from a row.
LEMMA RowsFromRows ==
  ASSUME NEW row \in Rows
  PROVE  /\ Staled(row) \in Rows /\ Staled(row).stale /\ Staled(row).status = row.status
         /\ Staled(row).version = row.version + 1 /\ Staled(row).run = row.run
         /\ Staled(row).content = row.content /\ Staled(row).verifiedUnder = row.verifiedUnder
         /\ row.version \in Nat /\ row.run \in Nat /\ row.verifiedUnder \in Nat
         /\ row.stale \in BOOLEAN /\ row.status \in Statuses
<1>0. /\ row.version \in Nat /\ row.run \in Nat /\ row.verifiedUnder \in Nat
      /\ row.stale \in BOOLEAN /\ row.status \in Statuses
  BY DEF Rows
<1>1. PICK n \in Nat : n = row.version + 1 BY <1>0
<1>2. Staled(row) = [row EXCEPT !.stale = TRUE, !.version = n] BY <1>1 DEF Staled
<1>3. [row EXCEPT !.stale = TRUE, !.version = n] \in Rows BY <1>1 DEF Rows
<1> QED BY <1>0, <1>1, <1>2, <1>3 DEF Rows

\* The row add_risk_objects stores: a stale one loses its verification.
LEMMA AddedRow ==
  ASSUME NEW row \in Rows, NEW c \in Contents
  PROVE  /\ Added(row, c) \in Rows
         /\ Added(row, c).version = row.version + 1 /\ Added(row, c).run = Manual
         /\ Added(row, c).content = c /\ Added(row, c).verifiedUnder = row.verifiedUnder
         /\ Added(row, c).status = "pending"
            \/ (row.version # 0 /\ row.stale = FALSE /\ Added(row, c).status = row.status)
<1>0. /\ row.version \in Nat /\ row.run \in Nat /\ row.verifiedUnder \in Nat
      /\ row.stale \in BOOLEAN /\ row.status \in Statuses
  BY DEF Rows
<1>1. PICK s \in Statuses :
        /\ s = IF row.version = 0 \/ row.stale THEN "pending" ELSE row.status
        /\ s = "pending" \/ (row.version # 0 /\ row.stale = FALSE /\ s = row.status)
  BY <1>0 DEF Statuses
<1>2. PICK b \in BOOLEAN : b = ~Usable(c) OBVIOUS
<1>3. Added(row, c) = [row EXCEPT !.status = s, !.stale = b, !.version = row.version + 1,
                                  !.run = Manual, !.content = c]
  BY <1>1, <1>2 DEF Added
<1>4. row.version + 1 \in Nat /\ Manual \in Nat /\ c \in Contents \cup {NoContent}
  BY <1>0 DEF Manual
<1> QED BY <1>1, <1>2, <1>3, <1>4 DEF Rows

\* The row a run stamps its number on.
LEMMA StampedRow ==
  ASSUME NEW row \in Rows, NEW run \in Nat
  PROVE  /\ [row EXCEPT !.run = run] \in Rows /\ [row EXCEPT !.run = run].run = run
         /\ [row EXCEPT !.run = run].status = row.status
         /\ [row EXCEPT !.run = run].stale = row.stale
         /\ [row EXCEPT !.run = run].version = row.version
         /\ [row EXCEPT !.run = run].content = row.content
         /\ [row EXCEPT !.run = run].verifiedUnder = row.verifiedUnder
BY DEF Rows

\* The calls of one thread change, and the handler it runs; the others' stay.
Moved(p, calls) ==
  /\ candidateCalls' \in [Threads -> Seq(CandidateCallSet)]
  /\ handling' \in [Threads -> HandlerNames]
  /\ candidateCalls'[p] = calls
  /\ \A q \in Threads : q # p => /\ candidateCalls'[q] = candidateCalls[q]
                                 /\ handling'[q] = handling[q]

\* A handler going on moves no other.
LEMMA ContinueMoves ==
  ASSUME CandidateTypes, NEW p \in Threads, NEW calls \in Seq(CandidateCallSet),
         Continue(p, calls)
  PROVE  /\ Moved(p, calls)
         /\ handling'[p] = IF calls = <<>> THEN "none" ELSE handling[p]
<1>1. handling \in [Threads -> HandlerNames] /\ candidateCalls \in [Threads -> Seq(CandidateCallSet)]
  BY DEF CandidateTypes
<1>2. PICK h \in HandlerNames : h = IF calls = <<>> THEN "none" ELSE handling[p]
  BY <1>1 DEF HandlerNames
<1>3. candidateCalls' = [candidateCalls EXCEPT ![p] = calls] /\ handling' = [handling EXCEPT ![p] = h]
  BY <1>2 DEF Continue
<1> QED BY <1>1, <1>2, <1>3 DEF Moved

\* A handler that starts moves no other.
LEMMA Replies ==
  ASSUME CandidateTypes, NEW p \in Threads, NEW calls \in Seq(CandidateCallSet),
         NEW handler \in HandlerNames, Reply(p, handler, calls)
  PROVE  Moved(p, calls) /\ handling'[p] = handler
<1>1. handling \in [Threads -> HandlerNames] /\ candidateCalls \in [Threads -> Seq(CandidateCallSet)]
  BY DEF CandidateTypes
<1>2. /\ candidateCalls' = [candidateCalls EXCEPT ![p] = calls]
      /\ handling' = [handling EXCEPT ![p] = handler]
  BY DEF Reply
<1> QED BY <1>1, <1>2 DEF Moved

\* The call a thread makes next, and what is left after it.
LEMMA NextCall ==
  ASSUME CandidateTypes, NEW p \in Threads, candidateCalls[p] # <<>>
  PROVE  /\ Head(candidateCalls[p]) \in CandidateCallSet
         /\ Head(candidateCalls[p]) = candidateCalls[p][1]
         /\ Head(candidateCalls[p]) \in Waiting(p)
         /\ Rest(p) \in Seq(CandidateCallSet) /\ Range(Rest(p)) \subseteq Waiting(p)
         /\ \A c \in Waiting(p) : c = Head(candidateCalls[p]) \/ c \in Range(Rest(p))
         /\ Len(candidateCalls[p]) \in Nat /\ Len(candidateCalls[p]) >= 1
         /\ Len(Rest(p)) = Len(candidateCalls[p]) - 1
         /\ \A i \in 1..(Len(candidateCalls[p]) - 1) : Rest(p)[i] = candidateCalls[p][i + 1]
<1>1. candidateCalls[p] \in Seq(CandidateCallSet) BY DEF CandidateTypes
<1>2. Head(candidateCalls[p]) \in CandidateCallSet BY <1>1, HeadTailProperties
<1>3. Len(candidateCalls[p]) \in Nat BY <1>1, LenProperties
<1> QED BY <1>1, <1>2, <1>3, HeadAndRest DEF Rest, Waiting

\* What is waiting to be called is a call.
LEMMA WaitingCalls ==
  ASSUME CandidateTypes, NEW p \in Threads, NEW c \in Waiting(p)
  PROVE  c \in CandidateCallSet
<1>1. candidateCalls[p] \in Seq(CandidateCallSet) BY DEF CandidateTypes
<1> QED BY <1>1, InRange DEF Waiting

\* What no step takes back.
Growing ==
  /\ \A r \in KnownRuns' :
       r.id > runIds \/ \E k \in KnownRuns : k.id = r.id /\ k.screened = r.screened
  /\ registryHistory \subseteq registryHistory'
  /\ runIds' \in Nat /\ runIds <= runIds'
  /\ Len(alerts') \in Nat /\ Len(alerts) <= Len(alerts')
  /\ disturbed \subseteq disturbed'
  /\ \A o \in Objects :
       \/ registry'[o] = registry[o]
       \/ registry'[o] \in RegistryRecords /\ registry'[o].version = registry[o].version + 1

\* The runs known after a step: those known before, and the ones it computes.
LEMMA RunsKnown ==
  ASSUME CandidateTypes, NEW p \in Threads, NEW calls, Moved(p, calls),
         \A c \in Range(calls) : c \in RunCalls => c \in Waiting(p) \/ c.run.id > runIds,
         \A r \in Range(runs') : \E k \in KnownRuns : k.id = r.id /\ k.screened = r.screened
  PROVE  \A r \in KnownRuns' :
           r.id > runIds \/ \E k \in KnownRuns : k.id = r.id /\ k.screened = r.screened
<1> SUFFICES ASSUME NEW r \in KnownRuns', r \notin Range(runs')
             PROVE  r.id > runIds \/ \E k \in KnownRuns : k.id = r.id /\ k.screened = r.screened
  OBVIOUS
<1>0. PICK q \in Threads : \E d \in Range(candidateCalls'[q]) : d \in RunCalls /\ r = d.run
  BY DEF KnownRuns, Waiting
<1>1. PICK c \in Range(candidateCalls'[q]) : c \in RunCalls /\ r = c.run BY <1>0
<1>2. ASSUME c \in Waiting(q) PROVE r \in KnownRuns BY <1>1, <1>2 DEF KnownRuns
<1>3. CASE q # p
  <2>1. c \in Waiting(q) BY <1>1, <1>3 DEF Moved, Waiting
  <2> QED BY <2>1, <1>2
<1>4. CASE q = p
  <2>1. c \in Range(calls) BY <1>1, <1>4 DEF Moved
  <2> QED BY <2>1, <1>1, <1>2, <1>4
<1> QED BY <1>3, <1>4

\* What a screening saw explains the rows it left for good.
LEMMA ExplainedStays ==
  ASSUME Growing, runIds \in Nat, NEW run \in 0..runIds, NEW o, NEW content,
         Explained(run, o, content)
  PROVE  Explained(run, o, content)'
<1> SUFFICES ASSUME run # Manual, NEW r \in KnownRuns', r.id = run
             PROVE  RunExplains(r, o, content)'
  BY DEF Explained
<1>1. PICK k \in KnownRuns : k.id = r.id /\ k.screened = r.screened BY DEF Growing
<1>2. RunExplains(k, o, content) BY <1>1 DEF Explained
<1>3. registryHistory \subseteq registryHistory' BY DEF Growing
<1> QED BY <1>1, <1>2, <1>3 DEF RunExplains

\* What a row says stays so as more is stored.
LEMMA RowStays ==
  ASSUME Growing, CandidateTypes, NEW o, NEW row, RowOK(o, row)
  PROVE  RowOK(o, row)'
<1>1. WellFormed(row) /\ Explained(row.run, o, row.content) BY DEF RowOK
<1>2. runIds \in Nat /\ runIds' \in Nat /\ runIds <= runIds' BY DEF Growing, CandidateTypes
<1>3. Len(alerts) \in Nat BY LenProperties DEF CandidateTypes
<1>4. row.run \in 0..runIds /\ row.verifiedUnder \in 0..Len(alerts) BY <1>1 DEF WellFormed
<1>5. row.run \in 0..runIds' BY <1>2, <1>4
<1>6. row.verifiedUnder \in 0..Len(alerts')
  <2>1. Len(alerts') \in Nat /\ Len(alerts) <= Len(alerts') BY DEF Growing
  <2> QED BY <2>1, <1>3, <1>4
<1>7. WellFormed(row)' BY <1>1, <1>5, <1>6 DEF WellFormed
<1>8. Explained(row.run, o, row.content)' BY <1>1, <1>2, <1>4, ExplainedStays
<1> QED BY <1>7, <1>8 DEF RowOK

\* An import waiting stays sound as more is stored.
LEMMA ImportStays ==
  ASSUME Growing, CandidateTypes, NEW c \in ImportCalls, Imported(c)
  PROVE  Imported(c)'
<1>1. \A o \in DOMAIN c.rows : c.rows[o].stale /\ c.rows[o].version > 0 /\ RowOK(o, c.rows[o])'
  BY RowStays DEF Imported
<1>2. ASSUME NEW o \in DOMAIN c.records
      PROVE  /\ c.records[o].content \in Masters
             /\ c.records[o].version \in 1..(registry'[o].version + 1)
             /\ c.records[o].version = registry'[o].version + 1 =>
                  c.records[o].content # registry'[o].content
  <2>1. /\ c.records[o].content \in Masters
        /\ c.records[o].version \in 1..(registry[o].version + 1)
        /\ c.records[o].version = registry[o].version + 1 =>
             c.records[o].content # registry[o].content
    BY DEF Imported
  <2>2. o \in Objects BY ImportParts
  <2>3. CASE registry'[o] = registry[o] BY <2>1, <2>3
  <2>4. CASE registry'[o].version = registry[o].version + 1
    <3>1. registry[o].version \in Nat BY <2>2 DEF CandidateTypes, RegistryRecords
    <3> QED BY <3>1, <2>1, <2>4
  <2> QED BY <2>2, <2>3, <2>4 DEF Growing
<1> QED BY <1>1, <1>2 DEF Imported

\* A draft once grounded stays so.
LEMMA GroundedStays ==
  ASSUME Growing, NEW d, IsGrounded(d)
  PROVE  IsGrounded(d)'
BY DEF Growing, IsGrounded

\* A call that could be made before a step can be made after it.
LEMMA CallStays ==
  ASSUME Growing, CandidateTypes, NEW c \in CandidateCallSet, CandidateCallOK(c)
  PROVE  CandidateCallOK(c)'
<1>1. Len(alerts) \in Nat /\ runIds \in Nat BY LenProperties DEF CandidateTypes
<1>2. /\ Len(alerts') \in Nat /\ Len(alerts) <= Len(alerts')
      /\ runIds' \in Nat /\ runIds <= runIds'
  BY DEF Growing
<1>3. ASSUME c \in AlertCalls PROVE c.version \in 1..(Len(alerts') + 1)
  <2>1. c.version \in 1..(Len(alerts) + 1) BY <1>3 DEF CandidateCallOK
  <2> QED BY <2>1, <1>1, <1>2
<1>4. c \in EventCalls => c.row.alert >= 1 BY DEF CandidateCallOK
<1>5. ASSUME c \in ObjectCalls PROVE c.row.version > 0 /\ RowOK(c.object, c.row)'
  BY <1>5, RowStays DEF CandidateCallOK
<1>6. ASSUME c \in AddCalls PROVE c.run <= runIds' /\ Explained(c.run, c.object, c.content)'
  <2>1. c.run <= runIds /\ Explained(c.run, c.object, c.content) BY <1>6 DEF CandidateCallOK
  <2>2. c.run \in Nat BY <1>6, CallParts
  <2>3. c.run \in 0..runIds BY <2>1, <2>2, <1>1
  <2> QED BY <2>1, <2>2, <2>3, <1>1, <1>2, ExplainedStays
<1>7. ASSUME c \in RunCalls PROVE c.run.id <= runIds'
  <2>1. c.run.id <= runIds /\ c.run.id \in Nat BY <1>7, CallParts DEF CandidateCallOK
  <2> QED BY <2>1, <1>1, <1>2
<1>8. ASSUME c \in ImportCalls PROVE Imported(c)'
  BY <1>8, ImportStays DEF CandidateCallOK
<1>9. c \in ListCalls => AreConfirmed(c.list.rows) BY DEF CandidateCallOK
<1>10. ASSUME c \in DraftCalls PROVE IsGrounded(c.draft)'
  BY <1>10, GroundedStays DEF CandidateCallOK
<1>11. AreConfirmed(c.list.rows)' <=> AreConfirmed(c.list.rows) BY DEF AreConfirmed
<1> QED BY <1>3, <1>4, <1>5, <1>6, <1>7, <1>8, <1>9, <1>10, <1>11 DEF CandidateCallOK

\* The rows of a list.
LEMMA ListParts ==
  ASSUME NEW l \in ListRecords
  PROVE  DOMAIN l.rows \subseteq Objects /\ \A o \in DOMAIN l.rows : l.rows[o] \in Rows
<1>1. l.rows \in RowMaps BY DEF ListRecords
<1> QED BY <1>1 DEF RowMaps

\* Handlers that are at work beside each other are on record.
LEMMA ApartStays ==
  ASSUME disturbed' = disturbed \cup Accidents, handling' \in [Threads -> HandlerNames]
  PROVE  Apart'
<1> SUFFICES ASSUME NEW p \in Threads, NEW q \in Threads, p # q
             PROVE  /\ "import beside" \notin disturbed'
                       /\ handling'[p] = "import_risk_object_registry" =>
                         handling'[q] \in {"none", "close_event"}
                    /\ "alert beside" \notin disturbed' /\ handling'[p] = "append_alert" =>
                         handling'[q] \in {"none", "import_risk_object_registry"}
  BY Zenon DEF Apart
<1>1. handling'[q] \in Decisions \cup {"none", "append_alert", "close_event",
                                       "import_risk_object_registry"}
  BY DEF HandlerNames
<1>2. ASSUME "import beside" \notin disturbed'
      PROVE  ~(/\ handling'[p] = "import_risk_object_registry"
               /\ handling'[q] \in Decisions \cup {"import_risk_object_registry", "append_alert"})
  BY <1>2 DEF Accidents, Together
<1>3. ASSUME "alert beside" \notin disturbed'
      PROVE  ~(/\ handling'[p] = "append_alert"
               /\ handling'[q] \in Decisions \cup {"append_alert", "close_event"})
  BY <1>3 DEF Accidents, Together
<1> QED BY <1>1, <1>2, <1>3

\* What a call must show that a handler leaves to be made.
NewCall(c) ==
  /\ CandidateCallOK(c)'
  /\ c \in RunCalls => c.run.id > runIds
  /\ "import beside" \notin disturbed' =>
       /\ c \in RunCalls => SawRegistry(c.run)
       /\ c \in ImportCalls =>
            ClosedForGood' \/ \A r \in Range(runs) : r.status = "completed" => r.id \in c.runs
  /\ c \in ObjectCalls =>
       /\ c.row.version > object[c.object].version
       /\ {"cut off", "alert beside"} \cap disturbed' = {}
          /\ (\A q \in Threads : handling'[q] # "append_alert") => OfLatest(c.row)
  /\ c \in ImportCalls => \A o \in DOMAIN c.rows : c.rows[o].version = object[o].version + 1
  /\ disturbed' = {} /\ OpenEvent =>
       /\ c \in ListCalls =>
            \A o \in DOMAIN c.list.rows :
              /\ c.list.rows[o] = object[o]
              /\ object[o].run # Manual /\ object[o].content # "profile" =>
                   object[o].content = registry[o].content
       /\ c \in ImportCalls =>
            \A o \in DOMAIN c.records : OnRecord(o) /\ ~object[o].stale => o \in DOMAIN c.rows

\* How append_alert may go on or end.
GoesOn(p, calls) ==
  /\ handling[p] = "append_alert" =>
       \/ handling'[p] = "none"
       \/ handling'[p] = "append_alert" /\ calls[1] \notin AlertCalls
  /\ handling'[p] = "append_alert" => handling[p] = "append_alert" \/ OpenEvent
  /\ {"cut off", "alert beside"} \cap disturbed' = {} =>
       /\ handling[p] = "append_alert" /\ handling'[p] = "none" =>
            \A o \in Objects : OfLatest(object[o])
       /\ handling'[p] = "append_alert" /\ Marking(calls) =>
            \A o \in Objects : Frozenable(o) =>
              \E c \in Range(calls) : c \in ObjectCalls /\ c.object = o

\* Where no warning is being appended by anybody else, no row is waiting to be written.
LEMMA NothingBeside ==
  ASSUME CandidateTypes, CallsAreOrdered, Apart, "alert beside" \notin disturbed,
         NEW p \in Threads, handling[p] = "append_alert", NEW q \in Threads, q # p
  PROVE  handling[q] # "append_alert" /\ \A c \in Waiting(q) : c \in ImportCalls
<1>1. handling[q] \in {"none", "import_risk_object_registry"} BY Zenon DEF Apart
<1>2. Ordered(handling[q], candidateCalls[q]) BY DEF CallsAreOrdered
<1>3. candidateCalls[q] \in Seq(CandidateCallSet) BY DEF CandidateTypes
<1>4. CASE handling[q] = "none"
  <2>1. candidateCalls[q] = <<>> BY <1>2, <1>4 DEF Ordered
  <2>2. Waiting(q) = {} BY <2>1, NoneInRange DEF Waiting
  <2> QED BY <2>2, <1>4
<1>5. CASE handling[q] = "import_risk_object_registry"
  <2>1. Len(candidateCalls[q]) = 1 /\ candidateCalls[q][1] \in ImportCalls
    BY <1>2, <1>5 DEF Ordered
  <2>2. Waiting(q) = {candidateCalls[q][1]} BY <2>1, <1>3, OneInRange DEF Waiting
  <2> QED BY <2>1, <2>2, <1>5
<1> QED BY <1>1, <1>4, <1>5

\* A listed row that is out of date stays so while new writes go beyond the stored row.
LEMMA ListStays ==
  ASSUME CandidateTypes, NEW p \in Threads, NEW calls, Moved(p, calls),
         registry' = registry, object' = object,
         \A c \in Range(calls) : c \in Waiting(p) \/ NewCall(c),
         Range(calls) \subseteq CandidateCallSet,
         NEW l \in ListRecords, ListHolds(l)
  PROVE  ListHolds(l)'
<1> SUFFICES ASSUME NEW o \in DOMAIN l.rows, Outdated(o, l.rows[o])
             PROVE  Outdated(o, l.rows[o])'
  BY Zenon DEF ListHolds
<1>1. o \in Objects /\ l.rows[o] \in Rows BY ListParts
<1>2. l.rows[o].version \in Nat /\ object[o].version \in Nat BY <1>1 DEF Rows, CandidateTypes
<1>3. l.rows[o].version <= object[o].version BY DEF ListHolds
<1> SUFFICES ASSUME NEW q \in Threads, NEW c \in Waiting(q)'
             PROVE  /\ c \in ObjectCalls /\ c.object = o => c.row.version > l.rows[o].version
                    /\ c \in ImportCalls /\ o \in DOMAIN c.rows =>
                         c.rows[o].version > l.rows[o].version
  BY Zenon DEF Outdated
<1>4. CASE \E r \in Threads : c \in Waiting(r) BY <1>4, Zenon DEF Outdated
<1>5. CASE NewCall(c)
  <2>1. ASSUME c \in ObjectCalls, c.object = o PROVE c.row.version > l.rows[o].version
    <3>1. c.row.version > object[o].version BY <2>1, <1>5 DEF NewCall
    <3>2. c.row.version \in Nat BY <2>1, CallParts, RowsFromRows
    <3> QED BY <3>1, <3>2, <1>2, <1>3
  <2>2. ASSUME c \in ImportCalls, o \in DOMAIN c.rows PROVE c.rows[o].version > l.rows[o].version
    <3>1. c.rows[o].version = object[o].version + 1 BY <2>2, <1>5 DEF NewCall
    <3> QED BY <3>1, <1>2, <1>3
  <2> QED BY <2>1, <2>2
<1>6. (\E r \in Threads : c \in Waiting(r)) \/ NewCall(c)
  <2>1. CASE q = p BY <2>1 DEF Moved, Waiting
  <2>2. CASE q # p BY <2>2 DEF Moved, Waiting
  <2> QED BY <2>1, <2>2
<1> QED BY <1>4, <1>5, <1>6

\* A step that changes the calls of one thread and stores nothing.
LEMMA MovedKeeps ==
  ASSUME CandidateInv, NEW p \in Threads, NEW calls \in Seq(CandidateCallSet), Moved(p, calls),
         disturbed' = disturbed \cup Accidents,
         UNCHANGED <<responseEvent, alerts, registry, registryHistory, object, runs, lists,
                     drafts, lapsed>>,
         runIds' \in Nat, runIds <= runIds', stops' \in Nat,
         Ordered(handling'[p], calls), GoesOn(p, calls),
         \A c \in Range(calls) : c \in Waiting(p) \/ NewCall(c)
  PROVE  CandidateInv'
<1>0. /\ CandidateTypes /\ CallsAreOrdered /\ RegistryIsOnRecord /\ StoredOK /\ CallsOK /\ Apart
      /\ RunsAreFresh /\ ConfirmationsFollow /\ ListsHold
  BY DEF CandidateInv
<1>1. /\ responseEvent' = responseEvent /\ alerts' = alerts /\ registry' = registry
      /\ registryHistory' = registryHistory /\ object' = object /\ runs' = runs
      /\ lists' = lists /\ drafts' = drafts /\ lapsed' = lapsed
  OBVIOUS
<1>2. CandidateTypes'
  BY <1>0, <1>1 DEF CandidateTypes, Moved
<1>3. \A q \in Threads : q # p => Waiting(q)' = Waiting(q) /\ handling'[q] = handling[q]
                                   /\ candidateCalls'[q] = candidateCalls[q]
  BY DEF Moved, Waiting
<1>4. Waiting(p)' = Range(calls) /\ candidateCalls'[p] = calls BY DEF Moved, Waiting
<1>5. \A q \in Threads : \A c \in Waiting(q)' :
        /\ c \in CandidateCallSet
        /\ c \in Waiting(q) \/ (q = p /\ NewCall(c))
  <2> TAKE q \in Threads
  <2> TAKE c \in Waiting(q)'
  <2>1. CASE q = p
    <3>1. c \in Range(calls) BY <2>1, <1>4
    <3>2. c \in CandidateCallSet BY <3>1, InRange
    <3> QED BY <3>1, <3>2, <2>1
  <2>2. CASE q # p
    <3>1. c \in Waiting(q) BY <2>2, <1>3
    <3> QED BY <3>1, <1>0, WaitingCalls
  <2> QED BY <2>1, <2>2
<1>6. CallsAreOrdered'
  <2>1. \A h, s : Ordered(h, s)' <=> Ordered(h, s) BY <1>1 DEF Ordered, Revising, Marking
  <2> QED BY <2>1, <1>0, <1>3, <1>4 DEF CallsAreOrdered
<1>7. RegistryIsOnRecord' BY <1>0, <1>1 DEF RegistryIsOnRecord
<1>8. Growing
  <2>1. \A r \in Range(runs') : \E k \in KnownRuns : k.id = r.id /\ k.screened = r.screened
    BY <1>1 DEF KnownRuns
  <2>2. \A c \in Range(calls) : c \in RunCalls => c \in Waiting(p) \/ c.run.id > runIds
    BY DEF NewCall
  <2>3. Len(alerts') \in Nat /\ Len(alerts) <= Len(alerts')
    BY <1>0, <1>1, LenProperties DEF CandidateTypes
  <2>4. \A r \in KnownRuns' :
          r.id > runIds \/ \E k \in KnownRuns : k.id = r.id /\ k.screened = r.screened
    BY <1>0, <2>1, <2>2, RunsKnown
  <2> QED BY <2>3, <2>4, <1>1 DEF Growing
<1>9. StoredOK'
  <2>1. \A o \in Objects : RowOK(o, object[o])' BY <1>0, <1>8, RowStays DEF StoredOK
  <2>2. \A d \in drafts : IsGrounded(d)' BY <1>0, <1>8, GroundedStays DEF StoredOK
  <2>3. \A r \in Range(runs) : r.id <= runIds'
    <3> TAKE r \in Range(runs)
    <3>1. r.id <= runIds BY <1>0 DEF StoredOK
    <3>2. r \in RunRecords BY <1>0, InRange DEF CandidateTypes
    <3>3. r.id \in Nat /\ runIds \in Nat BY <3>2, <1>0 DEF RunRecords, CandidateTypes
    <3> QED BY <3>1, <3>3
  <2>4. \A l \in Range(lists) : AreConfirmed(l.rows) BY <1>0 DEF StoredOK
  <2>5. responseEvent.alert \in 1..Len(alerts) BY <1>0 DEF StoredOK
  <2> QED BY <2>1, <2>2, <2>3, <2>4, <2>5, <1>1, Zenon DEF StoredOK, AreConfirmed
<1>10. CallsOK'
  <2> SUFFICES ASSUME NEW q \in Threads, NEW c \in Waiting(q)' PROVE CandidateCallOK(c)'
    BY DEF CallsOK
  <2>1. CASE c \in Waiting(q) BY <2>1, <1>0, <1>5, <1>8, CallStays DEF CallsOK
  <2>2. CASE NewCall(c) BY <2>2 DEF NewCall
  <2> QED BY <2>1, <2>2, <1>5
<1>11. Apart' BY ApartStays DEF Moved
<1>12. ClosedForGood => ClosedForGood'
  <2> SUFFICES ASSUME ClosedForGood, NEW q \in Threads PROVE handling'[q] # "append_alert"
    BY <1>1 DEF ClosedForGood
  <2>1. CASE q = p BY <2>1, Zenon DEF ClosedForGood, GoesOn, OpenEvent
  <2>2. CASE q # p BY <2>2, <1>3, Zenon DEF ClosedForGood
  <2> QED BY <2>1, <2>2
<1>13. RunsAreFresh'
  <2> SUFFICES ASSUME "import beside" \notin disturbed'
               PROVE  /\ ClosedForGood' \/ \A r \in Range(runs) : r.status = "completed" =>
                                              SawRegistry(r)
                      /\ \A q \in Threads : \A c \in Waiting(q)' :
                           /\ c \in RunCalls => SawRegistry(c.run)
                           /\ c \in ImportCalls => ClosedForGood' \/
                                \A r \in Range(runs) : r.status = "completed" => r.id \in c.runs
    BY <1>1, Zenon DEF RunsAreFresh, SawRegistry, Usable
  <2>1. "import beside" \notin disturbed BY <1>8 DEF Growing
  <2>2. ClosedForGood' \/ \A r \in Range(runs) : r.status = "completed" => SawRegistry(r)
    BY <2>1, <1>0, <1>12, Zenon DEF RunsAreFresh
  <2>3. ASSUME NEW q \in Threads, NEW c \in Waiting(q)'
        PROVE  /\ c \in RunCalls => SawRegistry(c.run)
               /\ c \in ImportCalls => ClosedForGood' \/
                    \A r \in Range(runs) : r.status = "completed" => r.id \in c.runs
    <3>1. CASE c \in Waiting(q) BY <3>1, <2>1, <1>0, <1>12, Zenon DEF RunsAreFresh
    <3>2. CASE NewCall(c) BY <3>2, Zenon DEF NewCall
    <3> QED BY <3>1, <3>2, <1>5
  <2> QED BY <2>2, <2>3, Zenon
<1>14. \A row : OfLatest(row)' <=> OfLatest(row) BY <1>1 DEF OfLatest
<1>15. ConfirmationsFollow'
  <2> SUFFICES ASSUME {"cut off", "alert beside"} \cap disturbed' = {}
               PROVE  /\ (\A q \in Threads : handling'[q] = "append_alert" =>
                                              candidateCalls'[q][1] \in AlertCalls) =>
                           \A o \in Objects : OfLatest(object[o])
                      /\ (\A q \in Threads : handling'[q] # "append_alert") =>
                           \A q \in Threads : \A c \in Waiting(q)' : c \in ObjectCalls => OfLatest(c.row)
                      /\ \A q \in Threads :
                           handling'[q] = "append_alert" /\ Marking(candidateCalls'[q]) =>
                             \A o \in Objects : Frozenable(o) =>
                               \E c \in Waiting(q)' : c \in ObjectCalls /\ c.object = o
    BY <1>1, <1>14, Zenon DEF ConfirmationsFollow, Frozenable, Marking
  <2>1. {"cut off", "alert beside"} \cap disturbed = {} BY <1>8 DEF Growing
  <2>2. "alert beside" \notin disturbed BY <2>1
  <2>3. ASSUME \A q \in Threads : handling'[q] = "append_alert" => candidateCalls'[q][1] \in AlertCalls
        PROVE  \A o \in Objects : OfLatest(object[o])
    <3>1. CASE handling[p] = "append_alert" BY <3>1, <2>3, <1>4 DEF GoesOn
    <3>2. CASE handling[p] # "append_alert"
      <4>1. \A q \in Threads : handling[q] = "append_alert" => candidateCalls[q][1] \in AlertCalls
        BY <3>2, <2>3, <1>3
      <4> QED BY <4>1, <2>1, <1>0, Zenon DEF ConfirmationsFollow
    <3> QED BY <3>1, <3>2
  <2>4. ASSUME \A q \in Threads : handling'[q] # "append_alert",
               NEW q \in Threads, NEW c \in Waiting(q)', c \in ObjectCalls
        PROVE  OfLatest(c.row)
    <3>1. CASE NewCall(c) BY <3>1, <2>4 DEF NewCall
    <3>2. CASE handling[p] = "append_alert" /\ ~NewCall(c)
      <4>1. handling'[p] = "none" BY <3>2, <2>4 DEF GoesOn
      <4>2. calls = <<>> BY <4>1 DEF Ordered
      <4>3. q # p BY <4>2, <1>4, NoneInRange
      <4>4. c \in Waiting(q) BY <4>3, <1>3
      <4>5. c \in ImportCalls BY <4>3, <4>4, <3>2, <2>2, <1>0, NothingBeside
      <4> QED BY <4>5, <2>4, <1>5, CallKinds
    <3>3. CASE handling[p] # "append_alert" /\ ~NewCall(c)
      <4>1. \A r \in Threads : handling[r] # "append_alert" BY <3>3, <2>4, <1>3
      <4>2. c \in Waiting(q) BY <3>3, <1>5
      <4> QED BY <4>1, <4>2, <2>1, <2>4, <1>0, Zenon DEF ConfirmationsFollow
    <3> QED BY <3>1, <3>2, <3>3
  <2>5. ASSUME NEW q \in Threads, handling'[q] = "append_alert", Marking(candidateCalls'[q])
        PROVE  \A o \in Objects : Frozenable(o) =>
                 \E c \in Waiting(q)' : c \in ObjectCalls /\ c.object = o
    <3>1. CASE q = p BY <3>1, <2>5, <1>4 DEF GoesOn
    <3>2. CASE q # p
      <4>1. handling[q] = "append_alert" /\ Marking(candidateCalls[q]) /\ Waiting(q)' = Waiting(q)
        BY <3>2, <2>5, <1>3
      <4> QED BY <4>1, <2>1, <1>0, Zenon DEF ConfirmationsFollow
    <3> QED BY <3>1, <3>2
  <2> QED BY <2>3, <2>4, <2>5, Zenon
<1>16. ListsHold'
  <2>1. ASSUME "alert beside" \notin disturbed', responseEvent.closed
        PROVE  \A q \in Threads : handling'[q] # "append_alert"
    <3>1. "alert beside" \notin disturbed BY <2>1, <1>8 DEF Growing
    <3>2. \A q \in Threads : handling[q] # "append_alert" BY <3>1, <2>1, <1>0, Zenon DEF ListsHold
    <3>3. handling'[p] # "append_alert" BY <3>2, <2>1, Zenon DEF GoesOn, OpenEvent
    <3>4. \A q \in Threads : q # p => handling'[q] # "append_alert" BY <3>2, <1>3, Zenon
    <3> QED BY <3>3, <3>4
  <2>2. ASSUME disturbed' = {}, OpenEvent
        PROVE  /\ \A l \in Range(lists) : ListHolds(l)'
               /\ \A q \in Threads : \A c \in Waiting(q)' :
                    /\ c \in ListCalls => ListHolds(c.list)'
                    /\ c \in ImportCalls =>
                         /\ \A o \in DOMAIN c.records :
                              OnRecord(o) /\ ~object[o].stale => o \in DOMAIN c.rows
                         /\ \A o \in DOMAIN c.rows : c.rows[o].version = object[o].version + 1
    <3>1. disturbed = {} BY <2>2, <1>8 DEF Growing
    <3>2. /\ \A l \in Range(lists) : ListHolds(l)
          /\ \A q \in Threads : \A c \in Waiting(q) :
               /\ c \in ListCalls => ListHolds(c.list)
               /\ c \in ImportCalls =>
                    /\ \A o \in DOMAIN c.records :
                         OnRecord(o) /\ ~object[o].stale => o \in DOMAIN c.rows
                    /\ \A o \in DOMAIN c.rows : c.rows[o].version = object[o].version + 1
      BY <3>1, <2>2, <1>0, Zenon DEF ListsHold
    <3>3. \A l \in ListRecords : ListHolds(l) => ListHolds(l)'
      <4>1. Range(calls) \subseteq CandidateCallSet BY InRange
      <4> QED BY <4>1, <1>0, <1>1, ListStays
    <3>4. \A l \in Range(lists) : l \in ListRecords BY <1>0, InRange DEF CandidateTypes
    <3>5. ASSUME NEW q \in Threads, NEW c \in Waiting(q)', NewCall(c)
          PROVE  /\ c \in ListCalls => ListHolds(c.list)'
                 /\ c \in ImportCalls =>
                      /\ \A o \in DOMAIN c.records :
                           OnRecord(o) /\ ~object[o].stale => o \in DOMAIN c.rows
                      /\ \A o \in DOMAIN c.rows : c.rows[o].version = object[o].version + 1
      <4>1. ASSUME c \in ListCalls PROVE ListHolds(c.list)'
        <5> SUFFICES ASSUME NEW o \in DOMAIN c.list.rows
                     PROVE  /\ c.list.rows[o].version <= object[o].version
                            /\ c.list.rows[o].run # Manual /\ c.list.rows[o].content # "profile" =>
                                 c.list.rows[o].content = registry[o].content
          BY <1>1, Zenon DEF ListHolds
        <5>1. c.list.rows[o] = object[o] BY <4>1, <3>5, <2>2 DEF NewCall
        <5>2. object[o].run # Manual /\ object[o].content # "profile" =>
                object[o].content = registry[o].content
          BY <4>1, <3>5, <2>2 DEF NewCall
        <5>3. o \in Objects BY <4>1, CallParts, ListParts
        <5>4. object[o].version \in Nat BY <5>3, <1>0 DEF CandidateTypes, Rows
        <5> QED BY <5>1, <5>2, <5>4
      <4>2. c \in ImportCalls =>
              /\ \A o \in DOMAIN c.records :
                   OnRecord(o) /\ ~object[o].stale => o \in DOMAIN c.rows
              /\ \A o \in DOMAIN c.rows : c.rows[o].version = object[o].version + 1
        BY <3>5, <2>2 DEF NewCall
      <4> QED BY <4>1, <4>2
    <3>6. ASSUME NEW q \in Threads, NEW c \in Waiting(q)', c \in Waiting(q)
          PROVE  /\ c \in ListCalls => ListHolds(c.list)'
                 /\ c \in ImportCalls =>
                      /\ \A o \in DOMAIN c.records :
                           OnRecord(o) /\ ~object[o].stale => o \in DOMAIN c.rows
                      /\ \A o \in DOMAIN c.rows : c.rows[o].version = object[o].version + 1
      BY <3>2, <3>3, <3>6, CallParts
    <3> QED BY <3>2, <3>3, <3>4, <3>5, <3>6, <1>5
  <2> QED BY <2>1, <2>2, <1>1, Zenon DEF ListsHold, OpenEvent, OnRecord
<1> QED BY <1>2, <1>6, <1>7, <1>9, <1>10, <1>11, <1>13, <1>15, <1>16 DEF CandidateInv

(***************************************************************************)
(* Candidate objects: the handlers.                                        *)
(***************************************************************************)
\* A handler that has replied: what it must show of the calls it leaves.
LEMMA RepliesKeep ==
  ASSUME CandidateInv, NEW p \in Threads, NEW handler \in HandlerNames, handler # "none",
         NEW calls \in Seq(CandidateCallSet), calls # <<>>,
         Idle(p), Reply(p, handler, calls), disturbed' = disturbed \cup Accidents,
         runIds' \in Nat, runIds <= runIds',
         Ordered(handler, calls),
         handler = "append_alert" => OpenEvent /\ calls[1] \in AlertCalls,
         \A c \in Range(calls) : NewCall(c)
  PROVE  CandidateInv'
<1>1. CandidateTypes /\ CallsAreOrdered BY DEF CandidateInv
<1>2. Moved(p, calls) /\ handling'[p] = handler BY <1>1, Replies
<1>3. UNCHANGED <<responseEvent, alerts, registry, registryHistory, object, runs, lists,
                  drafts, lapsed>>
         /\ stops' \in Nat
  BY <1>1 DEF Reply, situation, CandidateTypes
<1>4. handling[p] = "none" BY <1>1 DEF CallsAreOrdered, Ordered, Idle
<1>5. calls[1] \in AlertCalls => ~Marking(calls)
  <2>1. calls[1] \in Range(calls) /\ calls[1] \in CandidateCallSet
    <3>1. Len(calls) \in Nat \ {0} BY EmptySeq
    <3>2. 1 \in 1..Len(calls) BY <3>1
    <3> QED BY <3>2, InRange
  <2> QED BY <2>1, CallKinds DEF Marking
<1>6. GoesOn(p, calls) BY <1>2, <1>4, <1>5 DEF GoesOn
<1> QED BY <1>2, <1>3, <1>6, MovedKeeps

\* What each kind of call must show, no more.
LEMMA NewAlert ==
  ASSUME NEW c \in AlertCalls, c.version \in 1..(Len(alerts') + 1)
  PROVE  NewCall(c) /\ c \in CandidateCallSet
<1>1. c \in CandidateCallSet BY DEF CandidateCallSet
<1> QED BY <1>1, CallKinds DEF NewCall, CandidateCallOK
\* A change of the event may be added.
LEMMA NewEvent ==
  ASSUME NEW c \in EventCalls, c.row.alert >= 1
  PROVE  NewCall(c) /\ c \in CandidateCallSet
<1>1. c \in CandidateCallSet BY DEF CandidateCallSet
<1> QED BY <1>1, CallKinds DEF NewCall, CandidateCallOK
\* So may the reading of the rows to mark.
LEMMA NewStaling ==
  ASSUME NEW c \in StalingCalls
  PROVE  NewCall(c) /\ c \in CandidateCallSet
<1>1. c \in CandidateCallSet BY DEF CandidateCallSet
<1> QED BY <1>1, CallKinds DEF NewCall, CandidateCallOK
\* So may a version row.
LEMMA NewVersion ==
  ASSUME NEW c \in VersionCalls
  PROVE  NewCall(c) /\ c \in CandidateCallSet
<1>1. c \in CandidateCallSet BY DEF CandidateCallSet, DecisionCalls
<1> QED BY <1>1, CallKinds DEF NewCall, CandidateCallOK
\* So may an object to add, whose content the run explains.
LEMMA NewAdd ==
  ASSUME NEW c \in AddCalls, c.run <= runIds', Explained(c.run, c.object, c.content)'
  PROVE  NewCall(c) /\ c \in CandidateCallSet
<1>1. c \in CandidateCallSet BY DEF CandidateCallSet, DecisionCalls
<1> QED BY <1>1, CallKinds DEF NewCall, CandidateCallOK
\* So may a row newer than the stored one.
LEMMA NewObject ==
  ASSUME NEW c \in ObjectCalls, c.row.version > 0, RowOK(c.object, c.row)',
         c.row.version > object[c.object].version,
         /\ {"cut off", "alert beside"} \cap disturbed' = {}
         /\ \A q \in Threads : handling'[q] # "append_alert"
         => OfLatest(c.row)
  PROVE  NewCall(c) /\ c \in CandidateCallSet
<1>1. c \in CandidateCallSet BY DEF CandidateCallSet, DecisionCalls
<1> QED BY <1>1, CallKinds DEF NewCall, CandidateCallOK
\* So may a run that saw the registry as it is.
LEMMA NewRun ==
  ASSUME NEW c \in RunCalls, c.run.id <= runIds', c.run.id > runIds, SawRegistry(c.run)
  PROVE  NewCall(c) /\ c \in CandidateCallSet
<1>1. c \in CandidateCallSet BY DEF CandidateCallSet, DecisionCalls
<1> QED BY <1>1, CallKinds DEF NewCall, CandidateCallOK
\* So may an import computed from what is stored.
LEMMA NewImport ==
  ASSUME NEW c \in ImportCalls, Imported(c)',
         "import beside" \notin disturbed' =>
           ClosedForGood' \/ \A r \in Range(runs) : r.status = "completed" => r.id \in c.runs,
         \A o \in DOMAIN c.rows : c.rows[o].version = object[o].version + 1,
         OpenEvent => \A o \in DOMAIN c.records :
                        OnRecord(o) /\ ~object[o].stale => o \in DOMAIN c.rows
  PROVE  NewCall(c) /\ c \in CandidateCallSet
<1>1. c \in CandidateCallSet BY DEF CandidateCallSet
<1> QED BY <1>1, CallKinds DEF NewCall, CandidateCallOK
\* So may a list of rows as they are stored.
LEMMA NewList ==
  ASSUME NEW c \in ListCalls, AreConfirmed(c.list.rows),
         disturbed' = {} /\ OpenEvent =>
           \A o \in DOMAIN c.list.rows :
             /\ c.list.rows[o] = object[o]
             /\ object[o].run # Manual /\ object[o].content # "profile" =>
                  object[o].content = registry[o].content
  PROVE  NewCall(c) /\ c \in CandidateCallSet
<1>1. c \in CandidateCallSet BY DEF CandidateCallSet, DecisionCalls
<1>2. AreConfirmed(c.list.rows)' BY DEF AreConfirmed
<1> QED BY <1>1, <1>2, CallKinds DEF NewCall, CandidateCallOK
\* So may a draft that is grounded.
LEMMA NewDraft ==
  ASSUME NEW c \in DraftCalls, IsGrounded(c.draft)'
  PROVE  NewCall(c) /\ c \in CandidateCallSet
<1>1. c \in CandidateCallSet BY DEF CandidateCallSet, DecisionCalls
<1> QED BY <1>1, CallKinds DEF NewCall, CandidateCallOK

\* A handler of one call.
LEMMA OneCall ==
  ASSUME NEW c \in CandidateCallSet
  PROVE  /\ <<c>> \in Seq(CandidateCallSet) /\ <<c>> # <<>> /\ Len(<<c>>) = 1 /\ <<c>>[1] = c
         /\ Range(<<c>>) = {c}
<1>1. <<c>> \in Seq(CandidateCallSet) /\ Len(<<c>>) = 1 /\ <<c>>[1] = c OBVIOUS
<1> QED BY <1>1, OneInRange

\* A handler that decides, by one call.
LEMMA OneDecision ==
  ASSUME NEW c \in DecisionCalls, c \in AddCalls => c.run = Manual, NEW handler \in Decisions
  PROVE  /\ Ordered(handler, <<c>>) /\ handler \in HandlerNames /\ handler # "none"
         /\ handler # "append_alert"
<1>1. c \in CandidateCallSet BY DEF CandidateCallSet
<1>2. <<c>> # <<>> /\ Range(<<c>>) = {c} BY <1>1, OneCall
<1>3. /\ handler \in HandlerNames /\ handler # "none" /\ handler # "append_alert"
      /\ handler # "import_risk_object_registry" /\ handler # "close_event"
  BY DEF Decisions, HandlerNames
<1> QED BY <1>2, <1>3 DEF Ordered

\* A handler that has decided, and leaves one call.
LEMMA DecisionKeeps ==
  ASSUME CandidateInv, NEW p \in Threads, NEW handler \in Decisions, NEW c \in DecisionCalls,
         c \in AddCalls => c.run = Manual, NewCall(c),
         Idle(p), Reply(p, handler, <<c>>), disturbed' = disturbed \cup Accidents,
         runIds' = runIds
  PROVE  CandidateInv'
<1>1. c \in CandidateCallSet BY DEF CandidateCallSet
<1>2. PICK calls : calls = <<c>> OBVIOUS
<1>3. calls \in Seq(CandidateCallSet) /\ calls # <<>> /\ Range(calls) = {c}
  BY <1>1, <1>2, OneCall
<1>4. /\ Ordered(handler, calls) /\ handler \in HandlerNames /\ handler # "none"
      /\ handler # "append_alert"
  BY <1>2, OneDecision
<1>5. runIds \in Nat /\ runIds' \in Nat /\ runIds <= runIds'
  BY DEF CandidateInv, CandidateTypes
<1>6. Reply(p, handler, calls) BY <1>2
<1>7. \A x \in Range(calls) : NewCall(x) BY <1>3
<1> QED BY <1>3, <1>4, <1>5, <1>6, <1>7, RepliesKeep

\* append_alert: nothing is stored yet, and it starts beside no decision
\* or is on record.
LEMMA append_alertKeeps ==
  ASSUME CandidateInv, CandidateAssumption, NEW p \in Threads, append_alert(p),
         disturbed' = disturbed \cup Accidents
  PROVE  CandidateInv'
<1>1. PICK w \in Warnings :
        Reply(p, "append_alert",
              <<AlertWrite(w), EventWrite([responseEvent EXCEPT !.alert = Len(alerts) + 1]),
                StalingRead>>)
  BY DEF append_alert
<1>2. Idle(p) /\ OpenEvent /\ runIds' = runIds BY DEF append_alert, Kept
<1>3. PICK n \in Nat : n = Len(alerts) BY LenProperties DEF CandidateInv, CandidateTypes
<1>4. responseEvent \in EventRows /\ runIds \in Nat BY DEF CandidateInv, CandidateTypes
<1>5. alerts' = alerts BY <1>1 DEF Reply, situation
<1>6. PICK row : row = [responseEvent EXCEPT !.alert = n + 1] OBVIOUS
<1>7. row \in EventRows /\ row.alert = n + 1 /\ ~row.closed
  BY <1>2, <1>3, <1>4, <1>6 DEF EventRows, OpenEvent
<1> DEFINE a == AlertWrite(w)
           e == EventWrite(row)
<1>8. a \in AlertCalls /\ a.version = n + 1 BY <1>3 DEF AlertWrite, AlertCalls
<1>9. e \in EventCalls /\ e.row = row BY <1>7 DEF EventWrite, EventCalls
<1>10. StalingRead \in StalingCalls BY DEF StalingRead, StalingCalls
<1> HIDE DEF a, e
<1>11. n + 1 \in 1..(Len(alerts') + 1) BY <1>3, <1>5
<1>12. NewCall(a) /\ a \in CandidateCallSet BY <1>8, <1>11, NewAlert
<1>13. NewCall(e) /\ e \in CandidateCallSet
  <2>1. e.row.alert >= 1 BY <1>3, <1>7, <1>9
  <2> QED BY <2>1, <1>9, NewEvent
<1>14. NewCall(StalingRead) /\ StalingRead \in CandidateCallSet BY <1>10, NewStaling
<1>15. PICK calls : calls = <<a, e, StalingRead>> OBVIOUS
<1>16. /\ calls \in Seq(CandidateCallSet) /\ Len(calls) = 3 /\ calls # <<>>
       /\ calls[1] = a /\ calls[2] = e /\ calls[3] = StalingRead
  BY <1>12, <1>13, <1>14, <1>15
<1>17. \A c \in Range(calls) : NewCall(c)
  <2> TAKE c \in Range(calls)
  <2>1. PICK i \in 1..3 : c = calls[i] BY <1>16, InRange
  <2> QED BY <2>1, <1>12, <1>13, <1>14, <1>16
<1>18. Ordered("append_alert", calls)
  <2>1. Revising(calls) BY <1>7, <1>8, <1>9, <1>10, <1>16 DEF Revising
  <2> QED BY <2>1, <1>16 DEF Ordered, Decisions
<1>19. Reply(p, "append_alert", calls) BY <1>1, <1>3, <1>6, <1>15 DEF a, e
<1>20. "append_alert" \in HandlerNames BY DEF HandlerNames
<1> QED BY <1>2, <1>4, <1>8, <1>16, <1>17, <1>18, <1>19, <1>20, RepliesKeep

\* add_risk_objects by hand: no run to explain the content.
LEMMA add_risk_objectsKeeps ==
  ASSUME CandidateInv, CandidateAssumption, NEW p \in Threads, add_risk_objects(p),
         disturbed' = disturbed \cup Accidents
  PROVE  CandidateInv'
<1>1. PICK o \in Objects : \E c \in ByHand \cup ({object[o].content} \ {NoContent}) :
        Reply(p, "add_risk_objects", <<AddRead(o, c, Manual)>>)
  BY DEF add_risk_objects
<1>2. PICK c \in ByHand \cup ({object[o].content} \ {NoContent}) :
        Reply(p, "add_risk_objects", <<AddRead(o, c, Manual)>>)
  BY <1>1
<1>3. Idle(p) /\ runIds' = runIds BY DEF add_risk_objects, Kept
<1>4. runIds \in Nat BY DEF CandidateInv, CandidateTypes
<1>5. c \in Contents
  <2>1. object[o].content \in Contents \cup {NoContent}
    BY DEF CandidateInv, CandidateTypes, Rows
  <2> QED BY <2>1, <1>2, CandidateAssumption DEF CandidateAssumption
<1> DEFINE call == AddRead(o, c, Manual)
<1>6. call \in AddCalls /\ call.run = Manual BY <1>5 DEF AddRead, AddCalls, Manual
<1> HIDE DEF call
<1>7. Explained(call.run, call.object, call.content)' BY <1>6 DEF Explained
<1>8. NewCall(call) /\ call \in CandidateCallSet
  <2>1. call.run <= runIds' BY <1>3, <1>4, <1>6 DEF Manual
  <2> QED BY <2>1, <1>6, <1>7, NewAdd
<1>9. "add_risk_objects" \in Decisions /\ call \in DecisionCalls
  BY <1>6 DEF Decisions, DecisionCalls
<1>10. Reply(p, "add_risk_objects", <<call>>) BY <1>2 DEF call
<1> QED BY <1>3, <1>6, <1>8, <1>9, <1>10, DecisionKeeps

\* verify_risk_object: the verification is of the latest warning.
LEMMA verify_risk_objectKeeps ==
  ASSUME CandidateInv, CandidateAssumption, NEW p \in Threads, verify_risk_object(p),
         disturbed' = disturbed \cup Accidents
  PROVE  CandidateInv'
<1>1. PICK o \in Objects, decision \in {"confirmed", "excluded"} :
        /\ OnRecord(o)
        /\ Reply(p, "verify_risk_object",
                 <<ObjectWrite(o, [object[o] EXCEPT !.status = decision, !.stale = FALSE,
                                     !.version = @ + 1, !.verifiedUnder = Len(alerts)])>>)
  BY DEF verify_risk_object
<1>2. Idle(p) /\ runIds' = runIds BY DEF verify_risk_object, Kept
<1>3. /\ CandidateTypes /\ runIds \in Nat /\ object[o] \in Rows /\ RowOK(o, object[o])
  BY DEF CandidateInv, CandidateTypes, StoredOK
<1>4. PICK n \in Nat : n = Len(alerts) BY <1>3, LenProperties DEF CandidateTypes
<1>5. PICK row : row = [object[o] EXCEPT !.status = decision, !.stale = FALSE,
                                         !.version = @ + 1, !.verifiedUnder = n]
  OBVIOUS
<1>6. object[o].version \in Nat /\ object[o].version > 0 BY <1>1, <1>3 DEF Rows, OnRecord
<1>7. /\ row \in Rows /\ row.status = decision /\ row.stale = FALSE
      /\ row.version = object[o].version + 1 /\ row.verifiedUnder = n
      /\ row.run = object[o].run /\ row.content = object[o].content
  <2>1. PICK v \in Nat : v = object[o].version + 1 BY <1>6
  <2>2. row = [object[o] EXCEPT !.status = decision, !.stale = FALSE, !.version = v,
                                !.verifiedUnder = n]
    BY <2>1, <1>5
  <2>3. decision \in Statuses BY DEF Statuses
  <2> QED BY <2>1, <2>2, <2>3, <1>3, <1>4 DEF Rows
<1>8. RowOK(o, row)
  <2>1. WellFormed(object[o]) /\ Explained(object[o].run, o, object[o].content)
    BY <1>3 DEF RowOK
  <2>2. row.version \in Nat /\ row.version # 0 BY <1>6, <1>7
  <2>3. n \in 0..Len(alerts) BY <1>4
  <2>4. object[o].content # NoContent BY <2>1, <1>6 DEF WellFormed
  <2>5. row.stale \in BOOLEAN /\ row.run \in 0..runIds BY <2>1, <1>7 DEF WellFormed
  <2>6. row.status \in {"absent", "pending", "confirmed", "excluded"} /\ row.status # "absent"
    BY <1>7
  <2>7. WellFormed(row) BY <2>2, <2>3, <2>4, <2>5, <2>6, <1>7 DEF WellFormed
  <2> QED BY <2>1, <2>7, <1>7 DEF RowOK
<1> DEFINE call == ObjectWrite(o, row)
<1>9. call \in ObjectCalls /\ call.object = o /\ call.row = row
  BY <1>7 DEF ObjectWrite, ObjectCalls
<1> HIDE DEF call
<1>10. Reply(p, "verify_risk_object", <<call>>) BY <1>1, <1>4, <1>5 DEF call
<1>11. call \in CandidateCallSet /\ call \in DecisionCalls /\ "verify_risk_object" \in Decisions
  BY <1>9 DEF CandidateCallSet, DecisionCalls, Decisions
<1>12. RowOK(o, row)'
  <2>1. Moved(p, <<call>>)
    BY <1>3, <1>10, <1>11, OneCall, OneDecision, Replies DEF HandlerNames
  <2>2. Growing
    <3>1. \A c \in Range(<<call>>) : c \in RunCalls => c \in Waiting(p) \/ c.run.id > runIds
      BY <1>9, <1>11, OneCall, CallKinds
    <3>2. /\ runs' = runs /\ alerts' = alerts /\ registry' = registry
          /\ registryHistory' = registryHistory
      BY <1>10 DEF Reply, situation
    <3>3. \A r \in Range(runs') : \E k \in KnownRuns : k.id = r.id /\ k.screened = r.screened
      BY <3>2 DEF KnownRuns
    <3>4. \A r \in KnownRuns' :
            r.id > runIds \/ \E k \in KnownRuns : k.id = r.id /\ k.screened = r.screened
      BY <1>3, <2>1, <3>1, <3>3, RunsKnown
    <3> QED BY <3>2, <3>4, <1>2, <1>3, <1>4 DEF Growing
  <2> QED BY <2>2, <1>3, <1>8, RowStays
<1>13. NewCall(call)
  <2>1. call.row.version > 0 /\ call.row.version > object[call.object].version
    BY <1>6, <1>7, <1>9
  <2>2. OfLatest(call.row) BY <1>4, <1>7, <1>9 DEF OfLatest
  <2>3. RowOK(call.object, call.row)' BY <1>9, <1>12
  <2> QED BY <2>1, <2>2, <2>3, <1>9, NewObject
<1>14. call \notin AddCalls BY <1>9, <1>11, CallKinds
<1> QED BY <1>2, <1>10, <1>11, <1>13, <1>14, DecisionKeeps

\* close_event: the row to be written keeps the warning it names.
LEMMA close_eventKeeps ==
  ASSUME CandidateInv, CandidateAssumption, NEW p \in Threads, close_event(p),
         disturbed' = disturbed \cup Accidents
  PROVE  CandidateInv'
<1>1. PICK row : /\ row = [responseEvent EXCEPT !.closed = TRUE]
                 /\ Reply(p, "close_event", <<EventWrite(row)>>)
  BY DEF close_event
<1>2. Idle(p) /\ runIds' = runIds BY DEF close_event, Kept
<1>3. /\ responseEvent \in EventRows /\ runIds \in Nat
      /\ responseEvent.alert \in 1..Len(alerts)
  BY DEF CandidateInv, CandidateTypes, StoredOK
<1>4. row \in EventRows /\ row.closed /\ row.alert = responseEvent.alert
  BY <1>1, <1>3 DEF EventRows
<1> DEFINE call == EventWrite(row)
<1>5. call \in EventCalls /\ call.row = row BY <1>4 DEF EventWrite, EventCalls
<1> HIDE DEF call
<1>6. PICK n \in Nat : n = Len(alerts) BY LenProperties DEF CandidateInv, CandidateTypes
<1>7. call.row.alert >= 1 /\ call.row.alert <= Len(alerts) BY <1>3, <1>4, <1>5, <1>6
<1>8. NewCall(call) /\ call \in CandidateCallSet BY <1>5, <1>7, NewEvent
<1>9. PICK calls : calls = <<call>> OBVIOUS
<1>10. /\ calls \in Seq(CandidateCallSet) /\ calls # <<>> /\ Len(calls) = 1 /\ calls[1] = call
       /\ Range(calls) = {call}
  BY <1>8, <1>9, OneCall
<1>11. Ordered("close_event", calls) BY <1>4, <1>5, <1>7, <1>10 DEF Ordered, Decisions
<1>12. Reply(p, "close_event", calls) BY <1>1, <1>9 DEF call
<1>13. "close_event" \in HandlerNames BY DEF HandlerNames
<1> QED BY <1>2, <1>3, <1>8, <1>10, <1>11, <1>12, <1>13, RepliesKeep

\* A screened record is on record as the registry has it.
LEMMA CurrentOnRecord ==
  ASSUME CandidateTypes, RegistryIsOnRecord, NEW o \in Objects, registry[o].version > 0
  PROVE  /\ [object |-> o, version |-> registry[o].version, content |-> registry[o].content]
              \in registryHistory
         /\ \A c : [object |-> o, version |-> registry[o].version, content |-> c]
                     \in registryHistory => c = registry[o].content
<1>1. registry[o].version \in 1..registry[o].version
  BY DEF CandidateTypes, RegistryRecords
<1>2. PICK h \in registryHistory : h.object = o /\ h.version = registry[o].version
  BY <1>1 DEF RegistryIsOnRecord
<1>3. h.content = registry[o].content BY <1>2 DEF RegistryIsOnRecord
<1>4. h \in [object : Objects, version : Nat \ {0}, content : Masters]
  BY <1>2 DEF CandidateTypes
<1>5. h = [object |-> o, version |-> registry[o].version, content |-> registry[o].content]
  BY <1>2, <1>3, <1>4
<1>6. ASSUME NEW c, [object |-> o, version |-> registry[o].version, content |-> c]
                       \in registryHistory
      PROVE  c = registry[o].content
  <2>1. PICK g \in registryHistory :
          g = [object |-> o, version |-> registry[o].version, content |-> c]
    BY <1>6
  <2>2. g.object = o /\ g.version = registry[o].version /\ g.content = c BY <2>1
  <2>3. g.content = registry[g.object].content BY <2>2, Zenon DEF RegistryIsOnRecord
  <2> QED BY <2>2, <2>3
<1> QED BY <1>5, <1>6

\* What is not zero is positive.
LEMMA Positive == \A n \in Nat \ {0} : n > 0
OBVIOUS

\* What may be put on a list is as the registry has it.
LEMMA FrozenIsCurrent ==
  ASSUME CandidateInv, "import beside" \notin disturbed, OpenEvent, NEW o \in Objects,
         RunCurrent(o), object[o].run # Manual, object[o].content # "profile"
  PROVE  object[o].content = registry[o].content
<1>1. PICK r \in Range(runs) : r.id = object[o].run /\ r.status = "completed"
  BY DEF RunCurrent
<1>2. /\ CandidateTypes /\ RegistryIsOnRecord /\ RunsAreFresh
      /\ Explained(object[o].run, o, object[o].content)
  BY DEF CandidateInv, StoredOK, RowOK
<1>3. SawRegistry(r) BY <1>1, <1>2, Zenon DEF RunsAreFresh, ClosedForGood, OpenEvent
<1>4. r \in KnownRuns BY <1>1 DEF KnownRuns
<1>5. RunExplains(r, o, object[o].content) BY <1>1, <1>2, <1>4 DEF Explained
<1>6. /\ o \in DOMAIN r.screened
      /\ [object |-> o, version |-> r.screened[o], content |-> object[o].content]
           \in registryHistory
  BY <1>5 DEF RunExplains
<1>7. registry[o].version = r.screened[o] BY <1>3, <1>6 DEF SawRegistry
<1>8. registry[o].version > 0
  <2>1. PICK h \in registryHistory :
          h = [object |-> o, version |-> r.screened[o], content |-> object[o].content]
    BY <1>6
  <2>2. h.version = registry[o].version /\ h.version \in Nat \ {0}
    BY <2>1, <1>2, <1>7 DEF CandidateTypes
  <2> QED BY <2>2, Positive, Zenon
<1>9. \A c : [object |-> o, version |-> registry[o].version, content |-> c]
                \in registryHistory => c = registry[o].content
  BY <1>2, <1>8, CurrentOnRecord
<1>10. [object |-> o, version |-> registry[o].version, content |-> object[o].content]
         \in registryHistory
  BY <1>6, <1>7, Zenon
<1> QED BY <1>9, <1>10, Zenon

\* freeze_candidate_object_list: what it lists is what the registry has.
LEMMA freezeKeeps ==
  ASSUME CandidateInv, CandidateAssumption, NEW p \in Threads, freeze_candidate_object_list(p),
         disturbed' = disturbed \cup Accidents
  PROVE  CandidateInv'
<1>1. PICK selected \in SUBSET Objects :
        /\ \A o \in selected : Frozenable(o) /\ RunCurrent(o)
        /\ Reply(p, "freeze_candidate_object_list",
                 <<ListWrite([version |-> Len(lists) + 1, alert |-> Len(alerts),
                              rows |-> [o \in selected |-> object[o]]])>>)
  BY DEF freeze_candidate_object_list
<1>2. Idle(p) /\ OpenEvent /\ runIds' = runIds BY DEF freeze_candidate_object_list, Kept
<1>3. object \in [Objects -> Rows] /\ alerts \in Seq(Warnings) /\ lists \in Seq(ListRecords)
  BY DEF CandidateInv, CandidateTypes
<1>4. PICK n \in Nat : n = Len(alerts) BY <1>3, LenProperties
<1>5. PICK k \in Nat : k = Len(lists) BY <1>3, LenProperties
<1>6. PICK rows : rows = [o \in selected |-> object[o]] OBVIOUS
<1>7. rows \in RowMaps BY <1>1, <1>3, <1>6 DEF RowMaps
<1> DEFINE call == ListWrite([version |-> k + 1, alert |-> n, rows |-> rows])
<1>8. call \in ListCalls /\ call.list.rows = rows
  BY <1>4, <1>5, <1>7 DEF ListWrite, ListCalls, ListRecords
<1> HIDE DEF call
<1>9. \A o \in DOMAIN rows : o \in Objects /\ rows[o] = object[o] /\ Frozenable(o) /\ RunCurrent(o)
  BY <1>1, <1>6
<1>10. AreConfirmed(call.list.rows) BY <1>8, <1>9 DEF AreConfirmed, Frozenable
<1>11. ASSUME disturbed' = {}, NEW o \in DOMAIN call.list.rows
       PROVE  /\ call.list.rows[o] = object[o]
              /\ object[o].run # Manual /\ object[o].content # "profile" =>
                   object[o].content = registry[o].content
  <2>1. "import beside" \notin disturbed BY <1>11
  <2> QED BY <2>1, <1>2, <1>8, <1>9, <1>11, FrozenIsCurrent
<1>12. NewCall(call) BY <1>8, <1>10, <1>11, NewList
<1>13. call \in DecisionCalls /\ "freeze_candidate_object_list" \in Decisions
  BY <1>8 DEF DecisionCalls, Decisions
<1>14. call \notin AddCalls
  <2>1. call \in CandidateCallSet BY <1>13 DEF CandidateCallSet
  <2> QED BY <2>1, <1>8, CallKinds
<1>15. Reply(p, "freeze_candidate_object_list", <<call>>) BY <1>1, <1>4, <1>5, <1>6 DEF call
<1> QED BY <1>2, <1>12, <1>13, <1>14, <1>15, DecisionKeeps

\* create_task: a row on the latest list was confirmed under the latest warning.
LEMMA create_taskKeeps ==
  ASSUME CandidateInv, CandidateAssumption, NEW p \in Threads, create_task(p),
         disturbed' = disturbed \cup Accidents
  PROVE  CandidateInv'
<1>1. PICK o \in Objects :
        /\ Frozenable(o)
        /\ lists # <<>> => OnLatestList(o)
        /\ Reply(p, "create_task",
                 <<TaskWrite([object |-> o, row |-> object[o], alert |-> Len(alerts),
                              list |-> Len(lists), registered |-> registry[o]])>>)
  BY DEF create_task
<1>2. Idle(p) /\ OpenEvent /\ runIds' = runIds BY DEF create_task, Kept
<1>3. /\ object \in [Objects -> Rows] /\ alerts \in Seq(Warnings) /\ lists \in Seq(ListRecords)
      /\ registry \in [Objects -> RegistryRecords]
      /\ CandidateTypes /\ CallsAreOrdered /\ ListsHold /\ ConfirmationsFollow
  BY DEF CandidateInv, CandidateTypes
<1>4. PICK n \in Nat : n = Len(alerts) BY <1>3, LenProperties
<1>5. PICK k \in Nat : k = Len(lists) BY <1>3, LenProperties
<1>6. PICK d : d = [object |-> o, row |-> object[o], alert |-> n, list |-> k,
                    registered |-> registry[o]]
  OBVIOUS
<1>7. d \in DraftRecords BY <1>3, <1>6 DEF DraftRecords
<1> DEFINE call == TaskWrite(d)
<1>8. call \in DraftCalls /\ call.draft = d BY <1>7 DEF TaskWrite, DraftCalls
<1> HIDE DEF call
<1>9. call \in DecisionCalls /\ call \in CandidateCallSet /\ "create_task" \in Decisions
  BY <1>8 DEF DecisionCalls, Decisions, CandidateCallSet
<1>10. call \notin AddCalls BY <1>8, <1>9, CallKinds
<1>11. Reply(p, "create_task", <<call>>) BY <1>1, <1>4, <1>5, <1>6 DEF call
<1>12. ASSUME d.list > 0, disturbed' = {}
       PROVE  /\ d.row.verifiedUnder = d.alert
              /\ d.row.run # Manual /\ d.row.content # "profile" =>
                   d.row.content = d.registered.content
  <2>1. disturbed = {} BY <1>12
  <2>2. "create_task" \in HandlerNames BY DEF HandlerNames, Decisions
  <2>3. Moved(p, <<call>>) /\ handling'[p] = "create_task"
    BY <1>3, <1>9, <1>11, <2>2, OneCall, Replies
  <2>4. Apart' BY <2>3, ApartStays DEF Moved
  <2>5. \A q \in Threads : handling[q] # "append_alert"
    <3> TAKE q \in Threads
    <3>1. CASE q = p BY <3>1, <1>2, <1>3 DEF CallsAreOrdered, Ordered, Idle
    <3>2. CASE q # p
      <4>1. handling'[q] # "append_alert"
        <5>1. handling'[p] \notin {"none", "import_risk_object_registry"} BY <2>3
        <5>2. "alert beside" \notin disturbed' BY <1>12
        <5> QED BY <5>1, <5>2, <2>4, <3>2, Zenon DEF Apart
      <4> QED BY <4>1, <3>2, <2>3 DEF Moved
    <3> QED BY <3>1, <3>2
  <2>6. d.row.verifiedUnder = d.alert
    <3>1. OfLatest(object[o])
      <4>1. {"cut off", "alert beside"} \cap disturbed = {} BY <2>1
      <4> QED BY <4>1, <2>5, <1>3, Zenon DEF ConfirmationsFollow
    <3> QED BY <3>1, <1>1, <1>4, <1>6 DEF OfLatest, Frozenable
  <2>7. ASSUME d.row.run # Manual, d.row.content # "profile"
        PROVE  d.row.content = d.registered.content
    <3>1. k # 0 /\ lists # <<>> BY <1>5, <1>6, <1>12, <1>3, EmptySeq
    <3>2. Last(lists) \in Range(lists) BY <3>1, <1>3, AllButLast
    <3>3. ListHolds(Last(lists)) BY <3>2, <2>1, <1>2, <1>3, Zenon DEF ListsHold
    <3>4. o \in DOMAIN Last(lists).rows /\ Last(lists).rows[o] = object[o]
      BY <3>1, <1>1 DEF OnLatestList
    <3>5. d.row = object[o] /\ d.registered = registry[o] BY <1>6
    <3>6. object[o].run # Manual /\ object[o].content # "profile" =>
            object[o].content = registry[o].content
      BY <3>3, <3>4 DEF ListHolds, Outdated
    <3> QED BY <2>7, <3>5, <3>6
  <2> QED BY <2>6, <2>7
<1>13. IsGrounded(d)' BY <1>12 DEF IsGrounded
<1>14. NewCall(call) BY <1>8, <1>13, NewDraft
<1> QED BY <1>2, <1>9, <1>10, <1>11, <1>14, DecisionKeeps

\* A handler that has replied takes nothing back.
LEMMA RepliesGrow ==
  ASSUME CandidateTypes, NEW p \in Threads, NEW handler \in HandlerNames,
         NEW calls \in Seq(CandidateCallSet), Reply(p, handler, calls),
         disturbed' = disturbed \cup Accidents, runIds' \in Nat, runIds <= runIds',
         \A c \in Range(calls) : c \in RunCalls => c.run.id > runIds
  PROVE  Moved(p, calls) /\ handling'[p] = handler /\ Growing
<1>1. Moved(p, calls) /\ handling'[p] = handler BY Replies
<1>2. runs' = runs /\ alerts' = alerts /\ registry' = registry /\ registryHistory' = registryHistory
  BY DEF Reply, situation
<1>3. \A r \in Range(runs') : \E k \in KnownRuns : k.id = r.id /\ k.screened = r.screened
  BY <1>2 DEF KnownRuns
<1>4. \A r \in KnownRuns' :
        r.id > runIds \/ \E k \in KnownRuns : k.id = r.id /\ k.screened = r.screened
  BY <1>1, <1>3, RunsKnown
<1>5. Len(alerts) \in Nat BY LenProperties DEF CandidateTypes
<1> QED BY <1>1, <1>2, <1>4, <1>5 DEF Growing

\* A row marked stale still says what it rests on.
LEMMA StaledOK ==
  ASSUME CandidateTypes, NEW o \in Objects, NEW row \in Rows, RowOK(o, row), row.version > 0
  PROVE  RowOK(o, Staled(row)) /\ Staled(row).version > 0
<1>1. WellFormed(row) /\ Explained(row.run, o, row.content) BY DEF RowOK
<1>2. /\ Staled(row) \in Rows /\ Staled(row).stale /\ Staled(row).status = row.status
      /\ Staled(row).version = row.version + 1 /\ Staled(row).run = row.run
      /\ Staled(row).content = row.content /\ Staled(row).verifiedUnder = row.verifiedUnder
      /\ row.version \in Nat /\ row.status \in Statuses
  BY RowsFromRows
<1>3. row.status # "absent" /\ row.content # NoContent /\ row.run \in 0..runIds
      /\ row.verifiedUnder \in 0..Len(alerts)
  BY <1>1, <1>2 DEF WellFormed
<1>4. Staled(row).version \in Nat /\ Staled(row).version > 0 /\ Staled(row).version # 0 BY <1>2
<1>5. Staled(row).stale \in BOOLEAN BY <1>2 DEF Rows
<1>6. WellFormed(Staled(row)) BY <1>2, <1>3, <1>4, <1>5 DEF WellFormed, Statuses
<1> QED BY <1>1, <1>2, <1>4, <1>6 DEF RowOK

\* import_risk_object_registry: every completed run is to be marked.
LEMMA import_risk_object_registryKeeps ==
  ASSUME CandidateInv, CandidateAssumption, NEW p \in Threads, import_risk_object_registry(p),
         disturbed' = disturbed \cup Accidents
  PROVE  CandidateInv'
<1>1. PICK incoming \in Incoming :
        Reply(p, "import_risk_object_registry", <<ImportWrite(
          [o \in Changed(incoming) |->
             [version |-> registry[o].version + 1, content |-> incoming[o]]],
          IF OpenEvent THEN {r.id : r \in StaledRuns(Changed(incoming))} ELSE {},
          [o \in {x \in Changed(incoming) : OpenEvent /\ OnRecord(x) /\ ~object[x].stale}
             |-> Staled(object[o])])>>)
  BY DEF import_risk_object_registry
<1>2. Idle(p) /\ runIds' = runIds BY DEF import_risk_object_registry, Kept
<1>3. /\ CandidateTypes /\ StoredOK /\ object \in [Objects -> Rows]
      /\ registry \in [Objects -> RegistryRecords] /\ runs \in Seq(RunRecords) /\ runIds \in Nat
  BY DEF CandidateInv, CandidateTypes
<1>4. PICK some \in SUBSET Objects : incoming \in [some -> Masters] BY DEF Incoming
<1>5. PICK changed \in SUBSET Objects :
        /\ changed = Changed(incoming)
        /\ \A o \in changed : incoming[o] \in Masters /\ incoming[o] # registry[o].content
  <2>1. Changed(incoming) = {o \in some : incoming[o] # registry[o].content}
    BY <1>4 DEF Changed
  <2>2. \A o \in some : o \in Objects /\ incoming[o] \in Masters BY <1>4
  <2>3. Changed(incoming) \subseteq Objects BY <2>1, <2>2
  <2> QED BY <2>1, <2>2, <2>3
<1>6. PICK records : records = [o \in changed |->
                       [version |-> registry[o].version + 1, content |-> incoming[o]]]
  OBVIOUS
<1>7. PICK touched \in SUBSET Objects :
        touched = {x \in changed : OpenEvent /\ OnRecord(x) /\ ~object[x].stale}
  BY <1>5
<1>8. PICK rows : rows = [o \in touched |-> Staled(object[o])] OBVIOUS
<1>9. PICK ids : ids = IF OpenEvent THEN {r.id : r \in StaledRuns(changed)} ELSE {} OBVIOUS
<1>10. /\ DOMAIN records = changed /\ records \in RecordMaps
       /\ \A o \in changed : /\ records[o].content = incoming[o]
                             /\ records[o].version = registry[o].version + 1
  <2>1. \A o \in changed : registry[o].version + 1 \in Nat BY <1>3 DEF RegistryRecords
  <2>2. \A o \in changed : [version |-> registry[o].version + 1, content |-> incoming[o]]
                             \in RegistryRecords
    BY <2>1, <1>5 DEF RegistryRecords
  <2>3. records \in [changed -> RegistryRecords] BY <1>6, <2>2
  <2> QED BY <1>6, <2>3 DEF RecordMaps
<1>11. /\ DOMAIN rows = touched /\ rows \in RowMaps
       /\ \A o \in touched : rows[o] = Staled(object[o])
  <2>1. \A o \in touched : Staled(object[o]) \in Rows BY <1>3, RowsFromRows
  <2> QED BY <1>8, <2>1 DEF RowMaps
<1>12. ids \in SUBSET Nat
  <2>1. \A r \in Range(runs) : r \in RunRecords BY <1>3, InRange
  <2>2. \A r \in RunRecords : r.id \in Nat BY DEF RunRecords
  <2>3. \A r \in StaledRuns(changed) : r.id \in Nat BY <2>1, <2>2 DEF StaledRuns
  <2> QED BY <2>3, <1>9
<1> DEFINE call == ImportWrite(records, ids, rows)
<1>13. /\ call \in ImportCalls /\ call.records = records /\ call.rows = rows /\ call.runs = ids
  BY <1>10, <1>11, <1>12 DEF ImportWrite, ImportCalls
<1>14. Reply(p, "import_risk_object_registry", <<call>>)
  BY <1>1, <1>5, <1>6, <1>7, <1>8, <1>9
<1> HIDE DEF call
<1>15. call \in CandidateCallSet BY <1>13 DEF CandidateCallSet
<1>16. PICK calls : calls = <<call>> OBVIOUS
<1>17. /\ calls \in Seq(CandidateCallSet) /\ calls # <<>> /\ Len(calls) = 1 /\ calls[1] = call
       /\ Range(calls) = {call}
  BY <1>15, <1>16, OneCall
<1>18. "import_risk_object_registry" \in HandlerNames BY DEF HandlerNames
<1>19. call \notin RunCalls BY <1>13, <1>15, CallKinds
<1>20. /\ Moved(p, calls) /\ handling'[p] = "import_risk_object_registry" /\ Growing
  <2>1. Reply(p, "import_risk_object_registry", calls) BY <1>14, <1>16
  <2>2. \A c \in Range(calls) : c \in RunCalls => c.run.id > runIds BY <1>17, <1>19
  <2>3. runIds' \in Nat /\ runIds <= runIds' BY <1>2, <1>3
  <2> QED BY <1>3, <1>17, <1>18, <2>1, <2>2, <2>3, RepliesGrow
<1>21. Imported(call)
  <2>1. ASSUME NEW o \in DOMAIN records
        PROVE  /\ records[o].content \in Masters
               /\ records[o].version \in 1..(registry[o].version + 1)
               /\ records[o].version = registry[o].version + 1 =>
                    records[o].content # registry[o].content
    <3>1. o \in changed /\ o \in Objects BY <1>10
    <3>2. registry[o].version \in Nat BY <3>1, <1>3 DEF RegistryRecords
    <3> QED BY <3>1, <3>2, <1>5, <1>10
  <2>2. ASSUME NEW o \in DOMAIN rows
        PROVE  rows[o].stale /\ rows[o].version > 0 /\ RowOK(o, rows[o])
    <3>1. o \in Objects /\ OnRecord(o) /\ rows[o] = Staled(object[o]) BY <1>7, <1>11
    <3>2. object[o] \in Rows /\ RowOK(o, object[o]) /\ object[o].version > 0
      BY <3>1, <1>3 DEF StoredOK, OnRecord
    <3>3. RowOK(o, Staled(object[o])) /\ Staled(object[o]).version > 0
      BY <3>1, <3>2, <1>3, StaledOK
    <3>4. Staled(object[o]).stale BY <3>2, RowsFromRows
    <3> QED BY <3>1, <3>3, <3>4
  <2> QED BY <2>1, <2>2, <1>13 DEF Imported
<1>22. Imported(call)' BY <1>3, <1>13, <1>20, <1>21, ImportStays
<1>23. responseEvent' = responseEvent BY <1>14 DEF Reply, situation
<1>24. ASSUME "import beside" \notin disturbed'
       PROVE  ClosedForGood' \/ \A r \in Range(runs) : r.status = "completed" => r.id \in call.runs
  <2>1. CASE OpenEvent
    <3>1. \A r \in Range(runs) : r.status = "completed" => r \in StaledRuns(changed)
      BY DEF StaledRuns
    <3>2. ids = {r.id : r \in StaledRuns(changed)} BY <2>1, <1>9
    <3> QED BY <3>1, <3>2, <1>13
  <2>2. CASE ~OpenEvent
    <3>1. Apart' BY <1>20, ApartStays DEF Moved
    <3>2. ASSUME NEW q \in Threads PROVE handling'[q] # "append_alert"
      <4>1. CASE q = p BY <4>1, <1>20
      <4>2. CASE q # p
        <5>1. handling'[q] \in {"none", "close_event"}
          BY <4>2, <1>20, <1>24, <3>1, Zenon DEF Apart
        <5> QED BY <5>1
      <4> QED BY <4>1, <4>2
    <3> QED BY <3>2, <2>2, <1>23 DEF ClosedForGood, OpenEvent
  <2> QED BY <2>1, <2>2
<1>25. \A o \in DOMAIN call.rows : call.rows[o].version = object[o].version + 1
  <2> TAKE o \in DOMAIN call.rows
  <2>1. o \in touched /\ call.rows[o] = Staled(object[o]) BY <1>11, <1>13
  <2>2. object[o] \in Rows BY <2>1, <1>3
  <2>3. Staled(object[o]).version = object[o].version + 1 BY <2>2, RowsFromRows
  <2> QED BY <2>1, <2>3
<1>26. ASSUME OpenEvent, NEW o \in DOMAIN call.records, OnRecord(o), ~object[o].stale
       PROVE  o \in DOMAIN call.rows
  BY <1>26, <1>7, <1>10, <1>11, <1>13
<1>27. NewCall(call) BY <1>13, <1>22, <1>24, <1>25, <1>26, NewImport
<1>28. Ordered("import_risk_object_registry", calls) BY <1>13, <1>17 DEF Ordered, Decisions
<1>29. runIds' \in Nat /\ runIds <= runIds' BY <1>2, <1>3
<1> QED BY <1>2, <1>14, <1>16, <1>17, <1>18, <1>27, <1>28, <1>29, RepliesKeep

\* discover_risk_objects: the run explains what it brings.
LEMMA discover_risk_objectsKeeps ==
  ASSUME CandidateInv, CandidateAssumption, NEW p \in Threads, discover_risk_objects(p),
         disturbed' = disturbed \cup Accidents
  PROVE  CandidateInv'
<1>1. PICK chosen \in SUBSET Selectable :
        Reply(p, "discover_risk_objects",
          Append(SetToSeq({AddRead(o, ContentFor(o), runIds + 1) : o \in chosen}),
                 RunWrite([id |-> runIds + 1, alert |-> Len(alerts), status |-> "completed",
                           screened |-> Screened])))
  BY DEF discover_risk_objects
<1>2. Idle(p) /\ runIds' = runIds + 1 BY DEF discover_risk_objects
<1>3. /\ CandidateTypes /\ StoredOK /\ CallsOK /\ RegistryIsOnRecord
      /\ registry \in [Objects -> RegistryRecords] /\ alerts \in Seq(Warnings)
  BY DEF CandidateInv, CandidateTypes
<1>4. PICK n \in Nat : n = runIds BY DEF CandidateInv, CandidateTypes
<1>5. PICK id \in Nat : id = n + 1 BY <1>4
<1>6. PICK a \in Nat : a = Len(alerts) BY <1>3, LenProperties
<1>7. /\ DOMAIN Screened \subseteq Objects
      /\ \A o \in DOMAIN Screened : registry[o].version > 0 /\ Screened[o] = registry[o].version
      /\ \A o \in Objects : registry[o].version > 0 /\ Usable(registry[o].content)
                              => o \in DOMAIN Screened
      /\ Screened \in UNION {[some -> Nat] : some \in SUBSET Objects}
  <2>1. \A o \in Objects : registry[o].version \in Nat BY <1>3 DEF RegistryRecords
  <2>2. PICK seen \in SUBSET Objects :
          seen = {x \in Objects : registry[x].version > 0 /\ Usable(registry[x].content)}
    OBVIOUS
  <2>3. Screened = [o \in seen |-> registry[o].version] BY <2>2 DEF Screened
  <2>4. Screened \in [seen -> Nat] BY <2>1, <2>3
  <2> QED BY <2>2, <2>3, <2>4
<1>8. chosen \subseteq Objects BY <1>7, CandidateAssumption DEF Selectable, CandidateAssumption
<1>9. \A o \in chosen :
        /\ ContentFor(o) \in Contents
        /\ IF DOMAIN Screened = {} THEN ContentFor(o) = "profile"
           ELSE /\ o \in DOMAIN Screened
                /\ [object |-> o, version |-> Screened[o], content |-> ContentFor(o)]
                     \in registryHistory
  <2> TAKE o \in chosen
  <2>1. CASE DOMAIN Screened = {} BY <2>1 DEF ContentFor, Contents
  <2>2. CASE DOMAIN Screened # {}
    <3>1. o \in DOMAIN Screened /\ ContentFor(o) = registry[o].content
      BY <2>2 DEF Selectable, ContentFor
    <3>2. [object |-> o, version |-> registry[o].version, content |-> registry[o].content]
            \in registryHistory
      BY <3>1, <1>3, <1>7, CurrentOnRecord
    <3>3. registry[o].content \in Masters BY <3>2, <1>3 DEF CandidateTypes
    <3> QED BY <3>1, <3>2, <3>3, <2>2, <1>7 DEF Contents
  <2> QED BY <2>1, <2>2
<1>10. PICK run : run = [id |-> id, alert |-> a, status |-> "completed", screened |-> Screened]
  OBVIOUS
<1>11. run \in RunRecords /\ run.id = id /\ run.screened = Screened BY <1>7, <1>10 DEF RunRecords
<1>12. SawRegistry(run) BY <1>7, <1>11 DEF SawRegistry
<1>13. PICK S : S = {AddRead(o, ContentFor(o), id) : o \in chosen} OBVIOUS
<1>14. \A c \in S : /\ c \in AddCalls /\ c.run = id
                    /\ c.object \in chosen /\ c.content = ContentFor(c.object)
  <2> TAKE c \in S
  <2>1. PICK o \in chosen : c = AddRead(o, ContentFor(o), id) BY <1>13
  <2>2. PICK content \in Contents : content = ContentFor(o) BY <1>9
  <2>3. c = [kind |-> "add", object |-> o, content |-> content, run |-> id]
    BY <2>1, <2>2 DEF AddRead
  <2> QED BY <2>2, <2>3, <1>8 DEF AddCalls
<1>15. IsFiniteSet(S)
  <2>1. IsFiniteSet(chosen) BY <1>8, FS_Subset, CandidateAssumption DEF CandidateAssumption
  <2>2. PICK f : f = [o \in chosen |-> AddRead(o, ContentFor(o), id)] OBVIOUS
  <2>3. f \in Surjection(chosen, S) BY <2>2, <1>13 DEF Surjection
  <2> QED BY <2>1, <2>3, FS_Surjection
<1>16. PICK adds : adds = SetToSeq(S) OBVIOUS
<1>17. adds \in Seq(S) /\ Range(adds) = S BY <1>15, <1>16, ListedSet
<1>18. S \subseteq CandidateCallSet BY <1>14 DEF CandidateCallSet, DecisionCalls
<1>19. adds \in Seq(CandidateCallSet) BY <1>17, <1>18
<1> DEFINE write == RunWrite(run)
<1>20. write \in RunCalls /\ write.run = run BY <1>11 DEF RunWrite, RunCalls
<1>21. write \in CandidateCallSet BY <1>20 DEF CandidateCallSet, DecisionCalls
<1>22. Reply(p, "discover_risk_objects", Append(adds, write))
  BY <1>1, <1>4, <1>5, <1>6, <1>10, <1>13, <1>16
<1> HIDE DEF write
<1>23. PICK calls : calls = Append(adds, write) OBVIOUS
<1>24. /\ calls \in Seq(CandidateCallSet) /\ calls # <<>> /\ calls[Len(calls)] = write
       /\ Range(calls) = S \cup {write}
  BY <1>17, <1>19, <1>21, <1>23, PutAtEnd
<1>25. "discover_risk_objects" \in Decisions /\ "discover_risk_objects" \in HandlerNames
  BY DEF Decisions, HandlerNames
<1>26. runIds' \in Nat /\ runIds <= runIds' /\ runIds' = id /\ id > runIds BY <1>2, <1>4, <1>5
<1>27. \A c \in S : c \notin RunCalls BY <1>14, <1>18, CallKinds
<1>28. \A c \in Range(calls) : c \in RunCalls => c = write /\ c.run.id = id /\ c.run.id > runIds
  BY <1>11, <1>20, <1>24, <1>26, <1>27
<1>29. Moved(p, calls) /\ handling'[p] = "discover_risk_objects" /\ Growing
  BY <1>3, <1>22, <1>23, <1>24, <1>25, <1>26, <1>28, RepliesGrow
<1>30. runs' = runs /\ registryHistory' = registryHistory BY <1>22 DEF Reply, situation
<1>31. ASSUME NEW r \in KnownRuns', r.id = id PROVE r = run
  <2>1. CASE r \in Range(runs)
    <3>1. r.id <= runIds /\ r \in RunRecords
      BY <2>1, <1>3, InRange DEF StoredOK, CandidateTypes
    <3>2. r.id \in Nat BY <3>1 DEF RunRecords
    <3> QED BY <3>1, <3>2, <1>4, <1>5, <1>31
  <2>2. CASE r \notin Range(runs)
    <3>1. PICK q \in Threads : \E d \in Range(candidateCalls'[q]) : d \in RunCalls /\ r = d.run
      BY <2>2, <1>30 DEF KnownRuns, Waiting
    <3>2. PICK c \in Range(candidateCalls'[q]) : c \in RunCalls /\ r = c.run BY <3>1
    <3>3. CASE q = p
      <4>1. c \in Range(calls) BY <3>2, <3>3, <1>29 DEF Moved
      <4> QED BY <4>1, <3>2, <1>20, <1>28
    <3>4. CASE q # p
      <4>1. c \in Waiting(q) BY <3>2, <3>4, <1>29 DEF Moved, Waiting
      <4>2. c.run.id <= runIds BY <4>1, <3>2, <1>3 DEF CallsOK, CandidateCallOK
      <4>3. c.run.id \in Nat BY <3>2, CallParts
      <4> QED BY <4>2, <4>3, <3>2, <1>4, <1>5, <1>31
    <3> QED BY <3>3, <3>4
  <2> QED BY <2>1, <2>2
<1>32. ASSUME NEW o \in chosen, NEW c, c = ContentFor(o) PROVE Explained(id, o, c)'
  <2>1. RunExplains(run, o, c)
    <3>1. IF DOMAIN run.screened = {} THEN c = "profile"
          ELSE /\ o \in DOMAIN run.screened
               /\ [object |-> o, version |-> run.screened[o], content |-> c] \in registryHistory
      BY <1>9, <1>11, <1>32
    <3> QED BY <3>1, Zenon DEF RunExplains
  <2>2. RunExplains(run, o, c)' BY <2>1, <1>30 DEF RunExplains
  <2> QED BY <2>2, <1>31 DEF Explained
<1>33. \A c \in S : NewCall(c)
  <2> TAKE c \in S
  <2>1. PICK o \in chosen : c.object = o /\ c.run = id /\ c \in AddCalls BY <1>14
  <2>2. PICK content : content = c.content BY Zenon
  <2>3. content = ContentFor(o) BY <2>1, <2>2, <1>14
  <2>4. Explained(id, o, content)' BY <2>3, <1>32
  <2>5. Explained(c.run, c.object, c.content)' BY <2>1, <2>2, <2>4
  <2>6. c.run <= runIds' BY <2>1, <1>26
  <2> QED BY <2>1, <2>5, <2>6, NewAdd
<1>34. NewCall(write)
  <2>1. write.run.id <= runIds' /\ write.run.id > runIds BY <1>11, <1>20, <1>26
  <2> QED BY <2>1, <1>12, <1>20, NewRun
<1>35. Ordered("discover_risk_objects", calls)
  <2>1. \A c \in Range(calls) : c \in DecisionCalls BY <1>14, <1>20, <1>24 DEF DecisionCalls
  <2> QED BY <2>1, <1>20, <1>24, <1>25 DEF Ordered
<1>36. Reply(p, "discover_risk_objects", calls) BY <1>22, <1>23
<1>37. \A c \in Range(calls) : NewCall(c) BY <1>24, <1>33, <1>34
<1> QED BY <1>2, <1>24, <1>25, <1>26, <1>35, <1>36, <1>37, RepliesKeep

(***************************************************************************)
(* Candidate objects: transactions that store nothing an object rests on.  *)
(***************************************************************************)
\* A handler going on takes nothing back.
LEMMA ContinuesGrow ==
  ASSUME CandidateTypes, NEW p \in Threads, NEW calls \in Seq(CandidateCallSet),
         Continue(p, calls), disturbed' = disturbed \cup Accidents,
         UNCHANGED <<runIds, runs, alerts, registry, registryHistory>>,
         \A c \in Range(calls) : c \in RunCalls => c \in Waiting(p)
  PROVE  Moved(p, calls) /\ Growing
<1>1. Moved(p, calls) BY ContinueMoves
<1>2. \A r \in Range(runs') : \E k \in KnownRuns : k.id = r.id /\ k.screened = r.screened
  BY DEF KnownRuns
<1>3. \A r \in KnownRuns' :
        r.id > runIds \/ \E k \in KnownRuns : k.id = r.id /\ k.screened = r.screened
  BY <1>1, <1>2, RunsKnown
<1>4. Len(alerts) \in Nat /\ runIds \in Nat BY LenProperties DEF CandidateTypes
<1> QED BY <1>1, <1>3, <1>4 DEF Growing

\* Whose call comes next.
LEMMA WhoseCall ==
  ASSUME CandidateTypes, CallsAreOrdered, NEW p \in Threads, NEW c, candidateCalls[p] # <<>>,
         c = Head(candidateCalls[p])
  PROVE  /\ c \in AlertCalls \cup StalingCalls => handling[p] = "append_alert"
         /\ c \in AlertCalls => ~Marking(candidateCalls[p]) /\ Len(candidateCalls[p]) = 3
                                /\ candidateCalls[p][2] \in EventCalls
                                /\ candidateCalls[p][3] \in StalingCalls
                                /\ candidateCalls[p][2].row.alert = c.version
                                /\ ~candidateCalls[p][2].row.closed
         /\ c \in StalingCalls => Len(candidateCalls[p]) = 1
         /\ c \in EventCalls => \/ /\ handling[p] = "append_alert" /\ ~Marking(candidateCalls[p])
                                   /\ Len(candidateCalls[p]) = 2
                                   /\ candidateCalls[p][2] \in StalingCalls /\ ~c.row.closed
                                   /\ c.row.alert <= Len(alerts)
                                \/ /\ handling[p] = "close_event" /\ Len(candidateCalls[p]) = 1
                                   /\ c.row.closed /\ c.row.alert <= Len(alerts)
         /\ c \in ImportCalls => /\ handling[p] = "import_risk_object_registry"
                                 /\ Len(candidateCalls[p]) = 1
         /\ c \in ObjectCalls \cup VersionCalls =>
              \/ handling[p] = "append_alert" /\ Marking(candidateCalls[p])
              \/ handling[p] \in Decisions
         /\ c \in AddCalls \cup RunCalls \cup ListCalls \cup DraftCalls =>
              handling[p] \in Decisions
<1>1. PICK calls \in Seq(CandidateCallSet) : calls = candidateCalls[p] BY DEF CandidateTypes
<1>2. /\ c = calls[1] /\ c \in Range(calls) /\ c \in CandidateCallSet /\ calls # <<>>
      /\ Len(calls) \in Nat /\ Len(calls) >= 1
  BY <1>1, NextCall DEF Waiting
<1>3. Ordered(handling[p], calls) BY <1>1 DEF CallsAreOrdered
<1>4. handling[p] \in Decisions \cup {"append_alert", "close_event", "import_risk_object_registry"}
  BY <1>2, <1>3 DEF CandidateTypes, HandlerNames, Ordered
<1>5. /\ "append_alert" \notin Decisions /\ "close_event" \notin Decisions
      /\ "import_risk_object_registry" \notin Decisions
  BY DEF Decisions
<1>6. /\ c.kind = "alert" <=> c \in AlertCalls
      /\ c.kind = "event" <=> c \in EventCalls
      /\ c.kind = "staling" <=> c \in StalingCalls
      /\ c.kind = "object" <=> c \in ObjectCalls
      /\ c.kind = "version" <=> c \in VersionCalls
      /\ c.kind = "add" <=> c \in AddCalls
      /\ c.kind = "run" <=> c \in RunCalls
      /\ c.kind = "import" <=> c \in ImportCalls
      /\ c.kind = "list" <=> c \in ListCalls
      /\ c.kind = "draft" <=> c \in DraftCalls
  BY <1>2, CallKinds
<1>7. CASE handling[p] \in Decisions
  <2>1. c \in DecisionCalls BY <1>2, <1>3, <1>7 DEF Ordered
  <2>2. /\ c \notin AlertCalls /\ c \notin EventCalls /\ c \notin StalingCalls
        /\ c \notin ImportCalls
    BY <2>1, <1>6 DEF DecisionCalls
  <2> QED BY <2>2, <1>7
<1>8. CASE handling[p] = "close_event"
  <2>1. c \in EventCalls /\ c.row.closed /\ c.row.alert <= Len(alerts) /\ Len(calls) = 1
    BY <1>2, <1>3, <1>8 DEF Ordered
  <2> QED BY <2>1, <1>1, <1>6, <1>8
<1>9. CASE handling[p] = "import_risk_object_registry"
  <2>1. c \in ImportCalls /\ Len(calls) = 1 BY <1>2, <1>3, <1>9 DEF Ordered
  <2> QED BY <2>1, <1>1, <1>6, <1>9
<1>10. CASE handling[p] = "append_alert"
  <2>1. Revising(calls) BY <1>3, <1>10 DEF Ordered
  <2>2. Marking(calls) => c \in VersionCalls \cup ObjectCalls BY <1>2 DEF Marking
  <2>3. CASE /\ Len(calls) = 3 /\ calls[1] \in AlertCalls /\ calls[2] \in EventCalls
             /\ calls[3] \in StalingCalls /\ calls[2].row.alert = calls[1].version
             /\ ~calls[2].row.closed
    BY <2>2, <2>3, <1>1, <1>2, <1>6, <1>10
  <2>4. CASE /\ Len(calls) = 2 /\ calls[1] \in EventCalls /\ calls[2] \in StalingCalls
             /\ calls[1].row.alert <= Len(alerts) /\ ~calls[1].row.closed
    BY <2>2, <2>4, <1>1, <1>2, <1>6, <1>10
  <2>5. CASE Len(calls) = 1 /\ calls[1] \in StalingCalls
    BY <2>5, <1>1, <1>2, <1>6, <1>10
  <2>6. CASE Marking(calls) BY <2>2, <2>6, <1>1, <1>6, <1>10
  <2> QED BY <2>1, <2>3, <2>4, <2>5, <2>6 DEF Revising
<1> QED BY <1>4, <1>7, <1>8, <1>9, <1>10

\* An append that ends where objects may be left unmarked is on record.
LEMMA CutOffIsOnRecord ==
  ASSUME NEW p \in Threads, handling[p] = "append_alert", handling'[p] = "none",
         Head(candidateCalls[p]).kind # "alert", stops' # stops \/ Len(candidateCalls[p]) > 1,
         disturbed' = disturbed \cup Accidents
  PROVE  "cut off" \in disturbed'
<1>1. CutOff(p) BY DEF CutOff
<1>2. "cut off" \in Accidents BY <1>1 DEF Accidents
<1> QED BY <1>2

\* Where the warning has not been stored, what counts as confirmed is of the latest.
LEMMA NothingStored ==
  ASSUME CandidateTypes, CallsAreOrdered, Apart, ConfirmationsFollow, NEW p \in Threads,
         handling[p] = "append_alert", candidateCalls[p][1] \in AlertCalls,
         {"cut off", "alert beside"} \cap disturbed = {}
  PROVE  \A o \in Objects : OfLatest(object[o])
<1>1. "alert beside" \notin disturbed OBVIOUS
<1>2. \A q \in Threads : handling[q] = "append_alert" => candidateCalls[q][1] \in AlertCalls
  BY <1>1, NothingBeside
<1> QED BY <1>2, Zenon DEF ConfirmationsFollow

\* Any other handler than append_alert.
LEMMA OthersGoOn ==
  ASSUME NEW p \in Threads, NEW calls, handling[p] # "append_alert",
         handling'[p] \in {"none", handling[p]}
  PROVE  GoesOn(p, calls)
BY DEF GoesOn

\* What is left of a handler's calls is in order.
LEMMA RestOrdered ==
  ASSUME CandidateTypes, CallsAreOrdered, NEW p \in Threads, candidateCalls[p] # <<>>,
         handling'[p] = IF Rest(p) = <<>> THEN "none" ELSE handling[p],
         handling[p] = "append_alert" => Marking(candidateCalls[p])
  PROVE  /\ Ordered(handling'[p], Rest(p))
         /\ handling[p] = "append_alert" => Marking(Rest(p))
<1>0. "none" \notin Decisions BY DEF Decisions
<1>1. PICK n \in Nat : n = Len(candidateCalls[p]) /\ n >= 1 BY NextCall
<1>2. /\ Rest(p) \in Seq(CandidateCallSet) /\ Len(Rest(p)) = n - 1
      /\ Range(Rest(p)) \subseteq Waiting(p)
      /\ \A i \in 1..(n - 1) : Rest(p)[i] = candidateCalls[p][i + 1]
  BY <1>1, NextCall
<1>3. Ordered(handling[p], candidateCalls[p]) BY DEF CallsAreOrdered
<1>4. handling[p] = "append_alert" => Marking(Rest(p)) BY <1>2 DEF Marking, Waiting
<1>5. CASE Rest(p) = <<>> BY <1>0, <1>4, <1>5 DEF Ordered
<1>6. CASE Rest(p) # <<>>
  <2>1. n - 1 \in Nat /\ n - 1 > 0 /\ (n - 1) + 1 = n /\ n - 1 \in 1..(n - 1)
    <3>1. n - 1 # 0
      <4>1. Len(Rest(p)) # 0 BY <1>2, <1>6, EmptySeq
      <4> QED BY <4>1, <1>2, Zenon
    <3>2. \A k \in Nat : k >= 1 /\ k - 1 # 0 =>
            k - 1 \in Nat /\ k - 1 > 0 /\ (k - 1) + 1 = k /\ k - 1 \in 1..(k - 1)
      BY Z3
    <3> QED BY <3>1, <3>2, <1>1, Zenon
  <2>2. Rest(p)[n - 1] = candidateCalls[p][n] BY <2>1, <1>2
  <2>3. handling'[p] = handling[p] /\ handling[p] # "none" BY <1>3, <1>6 DEF Ordered
  <2>4. ASSUME handling[p] = "append_alert" PROVE Revising(Rest(p))
    BY <2>1, <2>4, <1>2, <1>4 DEF Revising
  <2>5. ASSUME handling[p] \in Decisions
        PROVE  /\ \A c \in Range(Rest(p)) : c \in DecisionCalls
               /\ (\E c \in Range(Rest(p)) : c \in AddCalls /\ c.run # Manual) =>
                    Rest(p)[Len(Rest(p))] \in RunCalls
    BY <2>2, <2>5, <1>1, <1>2, <1>3 DEF Ordered, Waiting
  <2>6. handling[p] \notin {"import_risk_object_registry", "close_event"}
    <3>1. n # 1 BY <2>1
    <3>2. Len(candidateCalls[p]) # 1 BY <3>1, <1>1, Zenon
    <3> QED BY <3>2, <1>3 DEF Ordered
  <2> QED BY <2>3, <2>4, <2>5, <2>6, <1>4, <1>6, Zenon DEF Ordered
<1> QED BY <1>5, <1>6

\* A handler that goes on with what is left of its calls, nothing stored.
LEMMA RestKeeps ==
  ASSUME CandidateInv, NEW p \in Threads, candidateCalls[p] # <<>>, Continue(p, Rest(p)),
         disturbed' = disturbed \cup Accidents,
         UNCHANGED <<responseEvent, alerts, registry, registryHistory, object, runs, lists,
                     drafts, lapsed, runIds, stops>>,
         \/ handling[p] # "append_alert"
         \/ Marking(candidateCalls[p]) /\ Head(candidateCalls[p]) \notin ObjectCalls
  PROVE  CandidateInv'
<1>1. CandidateTypes /\ CallsAreOrdered /\ ConfirmationsFollow /\ runIds \in Nat /\ stops \in Nat
  BY DEF CandidateInv, CandidateTypes
<1>2. /\ Rest(p) \in Seq(CandidateCallSet) /\ Range(Rest(p)) \subseteq Waiting(p)
      /\ \A c \in Waiting(p) : c = Head(candidateCalls[p]) \/ c \in Range(Rest(p))
  BY <1>1, NextCall
<1>3. /\ Moved(p, Rest(p)) /\ Growing
      /\ handling'[p] = IF Rest(p) = <<>> THEN "none" ELSE handling[p]
  BY <1>1, <1>2, ContinueMoves, ContinuesGrow
<1>4. Ordered(handling'[p], Rest(p)) /\ (handling[p] = "append_alert" => Marking(Rest(p)))
  BY <1>1, <1>3, RestOrdered
<1>5. GoesOn(p, Rest(p))
  <2>1. CASE handling[p] # "append_alert" BY <2>1, <1>3, OthersGoOn
  <2>2. CASE handling[p] = "append_alert"
    <3>1. Marking(candidateCalls[p]) /\ Marking(Rest(p)) BY <2>2, <1>4
    <3>2. handling'[p] # "none" => Rest(p)[1] \notin AlertCalls
      <4>1. SUFFICES ASSUME Rest(p) # <<>> PROVE Rest(p)[1] \notin AlertCalls
        BY <1>3
      <4>2. Rest(p)[1] \in Range(Rest(p)) /\ Rest(p)[1] \in CandidateCallSet
        BY <4>1, <1>2, HeadAndRest, InRange
      <4> QED BY <3>1, <4>2, CallKinds DEF Marking
    <3>3. ASSUME {"cut off", "alert beside"} \cap disturbed' = {}
          PROVE  \A o \in Objects : Frozenable(o) =>
                   \E c \in Range(Rest(p)) : c \in ObjectCalls /\ c.object = o
      <4>1. {"cut off", "alert beside"} \cap disturbed = {} BY <3>3
      <4>2. \A o \in Objects : Frozenable(o) =>
              \E c \in Waiting(p) : c \in ObjectCalls /\ c.object = o
        BY <2>2, <3>1, <4>1, <1>1, Zenon DEF ConfirmationsFollow
      <4> QED BY <2>2, <4>2, <1>2
    <3>4. ASSUME {"cut off", "alert beside"} \cap disturbed' = {}, handling'[p] = "none"
          PROVE  \A o \in Objects : OfLatest(object[o])
      <4>1. Rest(p) = <<>> BY <3>4, <1>3, <2>2
      <4>2. \A o \in Objects : ~Frozenable(o) BY <3>3, <3>4, <4>1, NoneInRange
      <4> QED BY <4>2 DEF Frozenable, OfLatest
    <3> QED BY <2>2, <3>2, <3>3, <3>4, <1>3 DEF GoesOn
  <2> QED BY <2>1, <2>2
<1>6. runIds' \in Nat /\ runIds <= runIds' /\ stops' \in Nat BY <1>1
<1> QED BY <1>2, <1>3, <1>4, <1>5, <1>6, MovedKeeps

\* A handler that ends where it is, nothing stored.
LEMMA EndsKeep ==
  ASSUME CandidateInv, NEW p \in Threads, candidateCalls[p] # <<>>, Continue(p, <<>>),
         disturbed' = disturbed \cup Accidents,
         UNCHANGED <<responseEvent, alerts, registry, registryHistory, object, runs, lists,
                     drafts, lapsed, runIds>>,
         stops' \in Nat,
         Head(candidateCalls[p]) \in AlertCalls \/ stops' # stops \/ Len(candidateCalls[p]) > 1
         \/ handling[p] # "append_alert"
  PROVE  CandidateInv'
<1>1. /\ CandidateTypes /\ CallsAreOrdered /\ ConfirmationsFollow /\ Apart
      /\ runIds \in Nat /\ stops \in Nat
  BY DEF CandidateInv, CandidateTypes
<1>2. PICK calls \in Seq(CandidateCallSet) : calls = <<>>
  <2>1. <<>> \in Seq(CandidateCallSet) BY Zenon, EmptySeq
  <2> QED BY <2>1
<1>3. Range(calls) = {} BY <1>2, NoneInRange
<1>4. Moved(p, calls) /\ handling'[p] = "none" BY <1>1, <1>2, ContinueMoves
<1>5. Ordered(handling'[p], calls) BY <1>2, <1>4 DEF Ordered, Decisions
<1>6. GoesOn(p, calls)
  <2>1. CASE handling[p] # "append_alert" BY <2>1, <1>4, OthersGoOn
  <2>2. CASE handling[p] = "append_alert"
    <3>1. ASSUME {"cut off", "alert beside"} \cap disturbed' = {}
          PROVE  \A o \in Objects : OfLatest(object[o])
      <4>1. Head(candidateCalls[p]).kind = "alert"
        <5>1. SUFFICES ASSUME Head(candidateCalls[p]) \notin AlertCalls,
                              Head(candidateCalls[p]).kind # "alert"
                       PROVE  FALSE
          BY <1>1, NextCall, CallKinds
        <5>2. "cut off" \in disturbed' BY <2>2, <5>1, <1>4, CutOffIsOnRecord
        <5> QED BY <5>2, <3>1
      <4>2. candidateCalls[p][1] \in AlertCalls BY <4>1, <1>1, NextCall, CallKinds
      <4>3. {"cut off", "alert beside"} \cap disturbed = {} BY <3>1
      <4> QED BY <2>2, <4>2, <4>3, <1>1, NothingStored
    <3> QED BY <3>1, <2>2, <1>4 DEF GoesOn
  <2> QED BY <2>1, <2>2
<1>7. runIds' \in Nat /\ runIds <= runIds' BY <1>1
<1> QED BY <1>3, <1>4, <1>5, <1>6, <1>7, MovedKeeps

\* stop: what was not run is lost, and an append cut off is on record.
LEMMA stopKeeps ==
  ASSUME CandidateInv, CandidateAssumption, NEW p \in Threads, stop(p),
         disturbed' = disturbed \cup Accidents
  PROVE  CandidateInv'
<1>1. /\ candidateCalls[p] # <<>> /\ Continue(p, <<>>) /\ stops' = stops + 1
      /\ UNCHANGED <<responseEvent, alerts, registry, registryHistory, object, runs, lists,
                     drafts, lapsed, runIds>>
  BY DEF stop, Idle, situation
<1>2. stops \in Nat BY DEF CandidateInv, CandidateTypes
<1>3. stops' \in Nat /\ stops' # stops BY <1>1, <1>2
<1> QED BY <1>1, <1>3, EndsKeep

\* save_risk_object_version: a version on record ends the handler.
LEMMA save_risk_object_versionKeeps ==
  ASSUME CandidateInv, CandidateAssumption, NEW p \in Threads, save_risk_object_version(p),
         disturbed' = disturbed \cup Accidents
  PROVE  CandidateInv'
<1>1. /\ candidateCalls[p] # <<>> /\ Head(candidateCalls[p]).kind = "version"
      /\ Continue(p, <<>>) \/ Continue(p, Rest(p))
      /\ UNCHANGED <<responseEvent, alerts, registry, registryHistory, object, runs, lists,
                     drafts, lapsed, runIds, stops>>
  BY DEF save_risk_object_version, Next_call, Same
<1>2. CandidateTypes /\ CallsAreOrdered /\ stops \in Nat BY DEF CandidateInv, CandidateTypes
<1>3. /\ Head(candidateCalls[p]) \in VersionCalls /\ Head(candidateCalls[p]) \notin ObjectCalls
      /\ Head(candidateCalls[p]) \notin AlertCalls
  BY <1>1, <1>2, NextCall, CallKinds
<1>4. handling[p] # "append_alert" \/ Marking(candidateCalls[p])
  <2>1. \/ handling[p] = "append_alert" /\ Marking(candidateCalls[p])
        \/ handling[p] \in Decisions
    BY <1>1, <1>2, <1>3, WhoseCall
  <2> QED BY <2>1 DEF Decisions
<1>5. CASE Continue(p, Rest(p)) BY <1>1, <1>3, <1>4, <1>5, RestKeeps
<1>6. CASE Continue(p, <<>>)
  <2>1. CASE Rest(p) = <<>> BY <2>1, <1>5, <1>6
  <2>2. CASE Rest(p) # <<>>
    <3>1. PICK n \in Nat : n = Len(candidateCalls[p]) /\ n >= 1 BY <1>1, <1>2, NextCall
    <3>2. Rest(p) \in Seq(CandidateCallSet) /\ Len(Rest(p)) = n - 1
      BY <1>1, <1>2, <3>1, NextCall
    <3>3. n - 1 # 0
      <4>1. Len(Rest(p)) # 0 BY <2>2, <3>2, EmptySeq
      <4> QED BY <4>1, <3>2, Zenon
    <3>4. n > 1
      <4>1. \A k \in Nat : k >= 1 /\ k - 1 # 0 => k > 1 BY Z3
      <4> QED BY <4>1, <3>1, <3>3, Zenon
    <3>5. Len(candidateCalls[p]) > 1 BY <3>1, <3>4, Zenon
    <3>6. stops' \in Nat BY <1>1, <1>2
    <3> QED BY <3>5, <3>6, <1>1, <1>6, EndsKeep
  <2> QED BY <2>1, <2>2
<1> QED BY <1>1, <1>5, <1>6

\* What is marked is what counts, as it is when it is read.
LEMMA stalingKeeps ==
  ASSUME CandidateInv, CandidateAssumption, NEW p \in Threads, staling(p),
         disturbed' = disturbed \cup Accidents
  PROVE  CandidateInv'
<1>1. PICK marked : marked = SetToSeq({o \in Objects : OnRecord(o) /\ ~object[o].stale}) OBVIOUS
<1>2. PICK calls : calls = [i \in 1..Len(marked) |->
                              ObjectWrite(marked[i], Staled(object[marked[i]]))]
  OBVIOUS
<1>3. /\ candidateCalls[p] # <<>> /\ Head(candidateCalls[p]).kind = "staling"
      /\ Continue(p, calls)
      /\ UNCHANGED <<responseEvent, alerts, registry, registryHistory, object, runs, lists,
                     drafts, lapsed, runIds, stops>>
  BY <1>1, <1>2 DEF staling, Next_call, Same, situation
<1>4. /\ CandidateTypes /\ CallsAreOrdered /\ StoredOK /\ stops \in Nat /\ runIds \in Nat
      /\ object \in [Objects -> Rows]
  BY DEF CandidateInv, CandidateTypes
<1>5. handling[p] = "append_alert"
  <2>1. Head(candidateCalls[p]) \in StalingCalls BY <1>3, <1>4, NextCall, CallKinds
  <2> QED BY <2>1, <1>3, <1>4, WhoseCall
<1>6. PICK S \in SUBSET Objects : S = {o \in Objects : OnRecord(o) /\ ~object[o].stale} OBVIOUS
<1>7. marked \in Seq(S) /\ Range(marked) = S
  <2>1. IsFiniteSet(S) BY FS_Subset, CandidateAssumption DEF CandidateAssumption
  <2> QED BY <2>1, <1>1, <1>6, ListedSet
<1>8. PICK n \in Nat : n = Len(marked) BY <1>7, LenProperties
<1>9. \A i \in 1..n : marked[i] \in S BY <1>7, <1>8, InRange
<1>10. ASSUME NEW o \in S
       PROVE  /\ ObjectWrite(o, Staled(object[o])) \in ObjectCalls
              /\ ObjectWrite(o, Staled(object[o])).object = o
              /\ ObjectWrite(o, Staled(object[o])).row = Staled(object[o])
  <2>1. o \in Objects /\ Staled(object[o]) \in Rows BY <1>4, RowsFromRows
  <2> QED BY <2>1 DEF ObjectWrite, ObjectCalls
<1>11. \A i \in 1..n : /\ calls[i] \in ObjectCalls /\ calls[i].object = marked[i]
                       /\ calls[i].row = Staled(object[marked[i]])
  <2> TAKE i \in 1..n
  <2>1. calls[i] = ObjectWrite(marked[i], Staled(object[marked[i]])) BY <1>2, <1>8
  <2> QED BY <2>1, <1>9, <1>10
<1>12. ObjectCalls \subseteq CandidateCallSet BY DEF CandidateCallSet, DecisionCalls
<1>13. DOMAIN calls = 1..n BY <1>2, <1>8
<1>14. calls \in Seq(CandidateCallSet) /\ Len(calls) = n
  <2>1. calls \in [1..n -> CandidateCallSet] BY <1>2, <1>8, <1>11, <1>12, <1>13
  <2> QED BY <2>1, <1>8, SeqDef, LenProperties
<1>15. /\ Moved(p, calls) /\ Growing
       /\ handling'[p] = IF calls = <<>> THEN "none" ELSE "append_alert"
  <2>1. \A c \in Range(calls) : c \notin RunCalls
    <3> TAKE c \in Range(calls)
    <3>1. PICK i \in 1..n : c = calls[i] BY <1>14, InRange
    <3> QED BY <3>1, <1>11, <1>12, CallKinds
  <2> QED BY <2>1, <1>3, <1>4, <1>5, <1>14, ContinueMoves, ContinuesGrow
<1>16. ASSUME NEW c \in Range(calls)
       PROVE  NewCall(c) /\ c \in ObjectCalls /\ c.row.stale
  <2>1. PICK i \in 1..n : c = calls[i] BY <1>14, InRange
  <2>2. PICK o \in S : o = marked[i] BY <2>1, <1>9
  <2>3. c \in ObjectCalls /\ c.object = o /\ c.row = Staled(object[o]) BY <2>1, <2>2, <1>11
  <2>4. /\ object[o] \in Rows /\ RowOK(o, object[o]) /\ object[o].version > 0
    BY <2>2, <1>4, <1>6 DEF StoredOK, OnRecord
  <2>5. RowOK(o, Staled(object[o])) /\ Staled(object[o]).version > 0 BY <2>4, <1>4, StaledOK
  <2>6. PICK row : row = Staled(object[o]) OBVIOUS
  <2>7. RowOK(o, row)' BY <2>5, <2>6, <1>4, <1>15, RowStays
  <2>8. row.stale /\ row.version = object[o].version + 1 /\ object[o].version \in Nat
    BY <2>4, <2>6, RowsFromRows
  <2>9. row.version > 0 /\ row.version > object[o].version BY <2>8
  <2>10. OfLatest(row) BY <2>8 DEF OfLatest
  <2>11. c.object = o /\ c.row = row BY <2>3, <2>6
  <2> QED BY <2>3, <2>7, <2>8, <2>9, <2>10, <2>11, NewObject
<1>17. Marking(calls) BY <1>16 DEF Marking
<1>18. ASSUME NEW o \in Objects, Frozenable(o)
       PROVE  \E c \in Range(calls) : c \in ObjectCalls /\ c.object = o
  <2>1. o \in S
    <3>1. RowOK(o, object[o]) /\ object[o].version \in Nat BY <1>4 DEF StoredOK, Rows
    <3>2. object[o].version # 0 BY <3>1, <1>18 DEF RowOK, WellFormed, Frozenable
    <3>3. object[o].version > 0 BY <3>1, <3>2
    <3> QED BY <3>3, <1>6, <1>18 DEF OnRecord, Frozenable
  <2>2. PICK i \in 1..n : o = marked[i] BY <2>1, <1>7, <1>8, InRange
  <2>3. calls[i] \in Range(calls) BY <2>2, <1>14, InRange
  <2> QED BY <2>2, <2>3, <1>11
<1>19. GoesOn(p, calls)
  <2>1. calls # <<>> => calls[1] \notin AlertCalls
    <3>1. SUFFICES ASSUME calls # <<>> PROVE calls[1] \notin AlertCalls
      OBVIOUS
    <3>2. calls[1] \in Range(calls) BY <3>1, <1>14, HeadAndRest
    <3> QED BY <3>2, <1>12, <1>16, CallKinds
  <2>2. ASSUME calls = <<>> PROVE \A o \in Objects : OfLatest(object[o])
    <3>1. \A o \in Objects : ~Frozenable(o) BY <2>2, <1>18, NoneInRange
    <3> QED BY <3>1 DEF Frozenable, OfLatest
  <2> QED BY <2>1, <2>2, <1>5, <1>15, <1>18 DEF GoesOn
<1>20. Ordered(handling'[p], calls)
  <2>1. CASE calls = <<>> BY <2>1, <1>15 DEF Ordered, Decisions
  <2>2. CASE calls # <<>>
    <3>1. Len(calls) > 0 /\ Marking(calls)
      <4>1. Len(calls) \in Nat /\ Len(calls) >= 1 BY <2>2, <1>14, HeadAndRest, InRange
      <4> QED BY <4>1, <1>17
    <3> QED BY <3>1, <2>2, <1>15 DEF Ordered, Revising, Decisions
  <2> QED BY <2>1, <2>2
<1>21. runIds' \in Nat /\ runIds <= runIds' /\ stops' \in Nat BY <1>3, <1>4
<1>22. \A c \in Range(calls) : c \in Waiting(p) \/ NewCall(c) BY <1>16
<1> QED BY <1>3, <1>14, <1>15, <1>19, <1>20, <1>21, <1>22, MovedKeeps

\* A row of an object added by hand or by a screening rests on what it says.
LEMMA AddedOK ==
  ASSUME CandidateTypes, CandidateAssumption, NEW o \in Objects, NEW row \in Rows,
         RowOK(o, row), NEW c \in Contents, NEW run \in 0..runIds, Explained(run, o, c)
  PROVE  /\ RowOK(o, Added(row, c)) /\ Added(row, c).version > 0
         /\ RowOK(o, [Added(row, c) EXCEPT !.run = run])
         /\ [Added(row, c) EXCEPT !.run = run].version > 0
         /\ OfLatest(row) => /\ OfLatest(Added(row, c))
                             /\ OfLatest([Added(row, c) EXCEPT !.run = run])
<1>1. WellFormed(row) /\ row.version \in Nat /\ row.status \in Statuses
  BY RowsFromRows DEF RowOK
<1>2. PICK new \in Rows : new = Added(row, c) BY AddedRow
<1>3. /\ new.version = row.version + 1 /\ new.run = Manual /\ new.content = c
      /\ new.verifiedUnder = row.verifiedUnder
      /\ new.status = "pending" \/ (row.version # 0 /\ row.stale = FALSE /\ new.status = row.status)
      /\ new.status \in Statuses /\ new.stale \in BOOLEAN
  <2>1. new.status \in Statuses /\ new.stale \in BOOLEAN BY <1>2, RowsFromRows
  <2>2. /\ Added(row, c).version = row.version + 1 /\ Added(row, c).run = Manual
        /\ Added(row, c).content = c /\ Added(row, c).verifiedUnder = row.verifiedUnder
        /\ Added(row, c).status = "pending"
           \/ (row.version # 0 /\ row.stale = FALSE /\ Added(row, c).status = row.status)
    BY AddedRow
  <2> QED BY <2>1, <2>2, <1>2
<1>4. run \in Nat /\ runIds \in Nat /\ Manual \in 0..runIds BY DEF CandidateTypes, Manual
<1>5. PICK last \in Rows : last = [new EXCEPT !.run = run] BY <1>2, <1>4, StampedRow
<1>6. /\ last.version = new.version /\ last.run = run /\ last.content = new.content
      /\ last.verifiedUnder = new.verifiedUnder /\ last.status = new.status
      /\ last.stale = new.stale
  BY <1>2, <1>4, <1>5, StampedRow
<1>7. new.version \in Nat /\ new.version # 0 /\ new.version > 0 BY <1>1, <1>3
<1>8. c # NoContent BY CandidateAssumption DEF CandidateAssumption
<1>9. row.verifiedUnder \in 0..Len(alerts) /\ (row.version # 0 => row.status # "absent")
  BY <1>1 DEF WellFormed
<1>10. new.status # "absent" BY <1>3, <1>9
<1>11. WellFormed(new) BY <1>3, <1>4, <1>7, <1>8, <1>9, <1>10 DEF WellFormed, Statuses
<1>12. WellFormed(last)
  <2>1. /\ last.status = new.status /\ last.stale = new.stale /\ last.version = new.version
        /\ last.content = new.content /\ last.verifiedUnder = new.verifiedUnder
        /\ last.run \in 0..runIds
    BY <1>6
  <2> QED BY <2>1, <1>11 DEF WellFormed
<1>13. Explained(new.run, o, new.content) BY <1>3 DEF Explained
<1>14. RowOK(o, new) BY <1>11, <1>13 DEF RowOK
<1>15. RowOK(o, last)
  <2>1. Explained(last.run, o, last.content) BY <1>3, <1>6
  <2> QED BY <2>1, <1>12 DEF RowOK
<1>16. ASSUME OfLatest(row) PROVE OfLatest(new) /\ OfLatest(last)
  BY <1>16, <1>3, <1>6 DEF OfLatest
<1> QED BY <1>2, <1>5, <1>6, <1>7, <1>14, <1>15, <1>16

\* add: the row it reads is replaced by a newer one, stamped or not.
LEMMA addKeeps ==
  ASSUME CandidateInv, CandidateAssumption, NEW p \in Threads, add(p),
         disturbed' = disturbed \cup Accidents
  PROVE  CandidateInv'
<1>1. PICK call : call = Head(candidateCalls[p]) OBVIOUS
<1>2. PICK row : row = Added(object[call.object], call.content) OBVIOUS
<1>3. /\ candidateCalls[p] # <<>> /\ call.kind = "add"
      /\ Continue(p, <<ObjectWrite(call.object, row)>> \o
           (IF call.run = Manual THEN Rest(p)
            ELSE Append(Append(Front(Rest(p)), RunStamp(call.object, row, call.run)),
                        Last(Rest(p)))))
      /\ UNCHANGED <<responseEvent, alerts, registry, registryHistory, object, runs, lists,
                     drafts, lapsed, runIds, stops>>
  BY <1>1, <1>2, Zenon DEF add, Next_call, Same, situation
<1>4. /\ CandidateTypes /\ CallsAreOrdered /\ StoredOK /\ CallsOK /\ ConfirmationsFollow
      /\ stops \in Nat /\ runIds \in Nat /\ object \in [Objects -> Rows]
  BY DEF CandidateInv, CandidateTypes
<1>5. /\ call \in AddCalls /\ call \in Waiting(p) /\ call \in CandidateCallSet
      /\ call = candidateCalls[p][1]
  BY <1>1, <1>3, <1>4, NextCall, CallKinds
<1>6. PICK o \in Objects, c \in Contents, run \in Nat :
        o = call.object /\ c = call.content /\ run = call.run
  BY <1>5, CallParts
<1>7. /\ run \in 0..runIds /\ Explained(run, o, c) BY <1>4, <1>5, <1>6 DEF CallsOK, CandidateCallOK
<1>8. handling[p] \in Decisions /\ handling[p] # "append_alert"
  <2>1. handling[p] \in Decisions BY <1>1, <1>3, <1>4, <1>5, WhoseCall
  <2> QED BY <2>1 DEF Decisions
<1>9. object[o] \in Rows /\ RowOK(o, object[o]) /\ object[o].version \in Nat
  BY <1>4 DEF StoredOK, Rows
<1>10. PICK stamped : stamped = [row EXCEPT !.run = run] OBVIOUS
<1>11. row = Added(object[o], c) BY <1>2, <1>6
<1>12. /\ row \in Rows /\ row.version = object[o].version + 1
       /\ stamped \in Rows /\ stamped.version = object[o].version + 1
  <2>1. row \in Rows /\ row.version = object[o].version + 1 BY <1>9, <1>11, AddedRow
  <2>2. stamped \in Rows /\ stamped.version = row.version BY <2>1, <1>10, StampedRow
  <2> QED BY <2>1, <2>2
<1>13. /\ RowOK(o, row) /\ row.version > 0 /\ RowOK(o, stamped) /\ stamped.version > 0
       /\ OfLatest(object[o]) => OfLatest(row) /\ OfLatest(stamped)
  BY <1>4, <1>7, <1>9, <1>10, <1>11, AddedOK
<1> DEFINE write == ObjectWrite(o, row)
           stamp == RunStamp(o, row, run)
<1>14. write \in ObjectCalls /\ write.object = o /\ write.row = row
  BY <1>12 DEF ObjectWrite, ObjectCalls
<1>15. stamp \in ObjectCalls /\ stamp.object = o /\ stamp.row = stamped
  BY <1>10, <1>12 DEF RunStamp, ObjectCalls
<1>16. Continue(p, <<write>> \o (IF run = Manual THEN Rest(p)
                                 ELSE Append(Append(Front(Rest(p)), stamp), Last(Rest(p)))))
  BY <1>3, <1>6
<1> HIDE DEF write, stamp
<1>17. PICK more : more = IF run = Manual THEN Rest(p)
                          ELSE Append(Append(Front(Rest(p)), stamp), Last(Rest(p)))
  OBVIOUS
<1>18. PICK calls : calls = <<write>> \o more OBVIOUS
<1>19. /\ write \in CandidateCallSet /\ stamp \in CandidateCallSet
       /\ write \in DecisionCalls /\ stamp \in DecisionCalls
       /\ write \notin AddCalls /\ stamp \notin AddCalls
       /\ write \notin RunCalls /\ stamp \notin RunCalls
  <2>1. /\ write \in CandidateCallSet /\ stamp \in CandidateCallSet
        /\ write \in DecisionCalls /\ stamp \in DecisionCalls
    BY <1>14, <1>15 DEF CandidateCallSet, DecisionCalls
  <2> QED BY <2>1, <1>14, <1>15, CallKinds
<1>20. PICK n \in Nat : n = Len(candidateCalls[p]) /\ n >= 1 BY <1>3, <1>4, NextCall
<1>21. /\ Rest(p) \in Seq(CandidateCallSet) /\ Len(Rest(p)) = n - 1
       /\ Range(Rest(p)) \subseteq Waiting(p)
       /\ \A i \in 1..(n - 1) : Rest(p)[i] = candidateCalls[p][i + 1]
  BY <1>3, <1>4, <1>20, NextCall
<1>22. /\ \A x \in Waiting(p) : x \in DecisionCalls
       /\ (\E x \in Waiting(p) : x \in AddCalls /\ x.run # Manual) =>
            candidateCalls[p][n] \in RunCalls
  BY <1>4, <1>8, <1>20, Zenon DEF CallsAreOrdered, Ordered, Waiting
<1>23. ASSUME candidateCalls[p][n] \in RunCalls
       PROVE  Rest(p) # <<>> /\ Last(Rest(p)) \in RunCalls
  <2>1. n # 1 BY <1>23, <1>5, CallKinds
  <2>2. \A k \in Nat : k >= 1 /\ k # 1 =>
          k - 1 # 0 /\ k - 1 \in 1..(k - 1) /\ (k - 1) + 1 = k
    BY Z3
  <2>3. n - 1 # 0 /\ n - 1 \in 1..(n - 1) /\ (n - 1) + 1 = n BY <2>1, <2>2, <1>20, Zenon
  <2>4. Len(Rest(p)) # 0 BY <2>3, <1>21, Zenon
  <2>5. Rest(p) # <<>> BY <2>4, EmptySeq
  <2>6. Last(Rest(p)) = Rest(p)[n - 1] BY <1>21 DEF Last
  <2>7. Rest(p)[n - 1] = candidateCalls[p][n] BY <2>3, <1>21, Zenon
  <2> QED BY <2>5, <2>6, <2>7, <1>23
<1>24. /\ more \in Seq(CandidateCallSet) /\ Range(more) \subseteq Range(Rest(p)) \cup {stamp}
       /\ (\E x \in Waiting(p) : x \in AddCalls /\ x.run # Manual) =>
            more # <<>> /\ more[Len(more)] \in RunCalls
  <2>1. CASE run = Manual
    <3>1. more = Rest(p) BY <2>1, <1>17
    <3>2. ASSUME \E x \in Waiting(p) : x \in AddCalls /\ x.run # Manual
          PROVE  more # <<>> /\ more[Len(more)] \in RunCalls
      <4>1. Rest(p) # <<>> /\ Last(Rest(p)) \in RunCalls BY <3>2, <1>22, <1>23
      <4> QED BY <4>1, <3>1 DEF Last
    <3> QED BY <3>1, <3>2, <1>21
  <2>2. CASE run # Manual
    <3>1. Rest(p) # <<>> /\ Last(Rest(p)) \in RunCalls BY <2>2, <1>5, <1>6, <1>22, <1>23
    <3>2. /\ Front(Rest(p)) \in Seq(CandidateCallSet)
          /\ Range(Front(Rest(p))) \subseteq Range(Rest(p)) /\ Last(Rest(p)) \in Range(Rest(p))
      BY <3>1, <1>21, AllButLast
    <3>3. PICK front \in Seq(CandidateCallSet) : front = Append(Front(Rest(p)), stamp)
      BY <3>2, <1>19, PutAtEnd
    <3>4. Range(front) = Range(Front(Rest(p))) \cup {stamp} BY <3>2, <3>3, <1>19, PutAtEnd
    <3>5. Last(Rest(p)) \in CandidateCallSet BY <3>2, <1>21, InRange
    <3>6. more = Append(front, Last(Rest(p))) BY <2>2, <3>3, <1>17
    <3>7. /\ more \in Seq(CandidateCallSet) /\ more # <<>>
          /\ more[Len(more)] = Last(Rest(p)) /\ Range(more) = Range(front) \cup {Last(Rest(p))}
      BY <3>5, <3>6, PutAtEnd
    <3> QED BY <3>1, <3>2, <3>4, <3>7
  <2> QED BY <2>1, <2>2
<1>25. /\ calls \in Seq(CandidateCallSet) /\ calls # <<>>
       /\ Range(calls) = {write} \cup Range(more)
       /\ Len(calls) = Len(more) + 1 /\ \A i \in 1..Len(more) : calls[i + 1] = more[i]
  BY <1>18, <1>19, <1>24, PutInFront
<1>26. Continue(p, calls) BY <1>16, <1>17, <1>18
<1>27. Moved(p, calls) /\ handling'[p] = handling[p] /\ Growing
  <2>1. \A x \in Range(calls) : x \in RunCalls => x \in Waiting(p)
    BY <1>19, <1>21, <1>24, <1>25
  <2> QED BY <2>1, <1>3, <1>4, <1>25, <1>26, ContinueMoves, ContinuesGrow
<1>28. Ordered(handling'[p], calls)
  <2>1. \A x \in Range(calls) : x \in DecisionCalls BY <1>19, <1>21, <1>22, <1>24, <1>25
  <2>2. ASSUME NEW x \in Range(calls), x \in AddCalls, x.run # Manual
        PROVE  calls[Len(calls)] \in RunCalls
    <3>1. x \in Waiting(p) BY <2>2, <1>19, <1>21, <1>24, <1>25
    <3>2. more # <<>> /\ more[Len(more)] \in RunCalls BY <3>1, <2>2, <1>24
    <3>3. Len(more) \in 1..Len(more)
      <4>1. Len(more) \in Nat \ {0} BY <3>2, <1>24, EmptySeq
      <4> QED BY <4>1
    <3>4. calls[Len(more) + 1] = more[Len(more)] BY <3>3, <1>25
    <3> QED BY <3>2, <3>4, <1>25
  <2>3. handling'[p] \in Decisions /\ handling'[p] \notin {"none", "append_alert",
           "close_event", "import_risk_object_registry"}
    BY <1>8, <1>27 DEF Decisions
  <2> QED BY <2>1, <2>2, <2>3, <1>25, Zenon DEF Ordered
<1>29. \A q \in Threads : handling[q] = handling'[q]
  BY <1>27 DEF Moved
<1>30. ASSUME {"cut off", "alert beside"} \cap disturbed' = {},
              \A q \in Threads : handling'[q] # "append_alert"
       PROVE  OfLatest(row) /\ OfLatest(stamped)
  <2>1. {"cut off", "alert beside"} \cap disturbed = {} BY <1>30
  <2>2. \A q \in Threads : handling[q] # "append_alert" BY <1>29, <1>30
  <2>3. OfLatest(object[o]) BY <2>1, <2>2, <1>4, Zenon DEF ConfirmationsFollow
  <2> QED BY <2>3, <1>13
<1>31. RowOK(o, row)' /\ RowOK(o, stamped)' BY <1>4, <1>13, <1>27, RowStays
<1>32. row.version > object[o].version /\ stamped.version > object[o].version BY <1>9, <1>12
<1>33. NewCall(write) BY <1>13, <1>14, <1>30, <1>31, <1>32, NewObject
<1>34. NewCall(stamp) BY <1>13, <1>15, <1>30, <1>31, <1>32, NewObject
<1>35. \A x \in Range(calls) : x \in Waiting(p) \/ NewCall(x)
  BY <1>21, <1>24, <1>25, <1>33, <1>34
<1>36. GoesOn(p, calls) BY <1>8, <1>27, OthersGoOn
<1>37. runIds' \in Nat /\ runIds <= runIds' /\ stops' \in Nat BY <1>3, <1>4
<1> QED BY <1>3, <1>25, <1>27, <1>28, <1>35, <1>36, <1>37, MovedKeeps

(***************************************************************************)
(* Candidate objects: what a transaction that stores something leaves.     *)
(***************************************************************************)
\* A handler's calls stay in order when more is stored.
LEMMA OrderedStays ==
  ASSUME Growing, CandidateTypes, NEW h, NEW calls \in Seq(CandidateCallSet), Ordered(h, calls)
  PROVE  Ordered(h, calls)'
<1>1. PICK n \in Nat, k \in Nat : n = Len(alerts) /\ k = Len(alerts') /\ n <= k
  <2>1. Len(alerts) \in Nat BY LenProperties DEF CandidateTypes
  <2>2. Len(alerts') \in Nat /\ Len(alerts) <= Len(alerts') BY DEF Growing
  <2> QED BY <2>1, <2>2
<1>2. \A c \in EventCalls : c.row.alert <= Len(alerts) => c.row.alert <= Len(alerts')
  <2> TAKE c \in EventCalls
  <2>1. PICK a \in Nat : a = c.row.alert BY CallParts
  <2> QED BY <2>1, <1>1
<1>3. Marking(calls)' <=> Marking(calls) BY DEF Marking
<1>4. Revising(calls) => Revising(calls)' BY <1>2, <1>3, Zenon DEF Revising
<1> QED BY <1>2, <1>4, Zenon DEF Ordered

\* Going on: the calls of a step that stores something are old ones, and the
\* version a row still gets.
GoneOn(p, calls) ==
  /\ calls \in Seq(CandidateCallSet) /\ Moved(p, calls) /\ Growing
  /\ \A c \in Range(calls) : c \in Waiting(p) \/ c \in VersionCalls
  /\ disturbed' = disturbed \cup Accidents
  /\ handling'[p] = IF calls = <<>> THEN "none" ELSE handling[p]

\* What waits after a step that stores something.
LEMMA CallsAfter ==
  ASSUME CandidateTypes, NEW p \in Threads, NEW calls, GoneOn(p, calls)
  PROVE  /\ \A q \in Threads : \A c \in Waiting(q)' :
              /\ c \in CandidateCallSet
              /\ c \in Waiting(q) \/ c \in VersionCalls
              /\ c \notin VersionCalls => c \in Waiting(q)
         /\ Waiting(p)' = Range(calls)
         /\ \A q \in Threads : q # p => Waiting(q)' = Waiting(q)
         /\ disturbed \subseteq disturbed'
         /\ \A q \in Threads : handling'[q] = "append_alert" => handling[q] = "append_alert"
<1>1. Waiting(p)' = Range(calls) BY DEF GoneOn, Moved, Waiting
<1>2. \A q \in Threads : q # p => Waiting(q)' = Waiting(q) BY DEF GoneOn, Moved, Waiting
<1>3. \A c \in Range(calls) : c \in CandidateCallSet BY InRange DEF GoneOn
<1>4. \A q \in Threads : \A c \in Waiting(q) : c \in CandidateCallSet BY WaitingCalls
<1>5. \A c \in Range(calls) : c \in Waiting(p) \/ c \in VersionCalls BY DEF GoneOn
<1>6. ASSUME NEW q \in Threads, handling'[q] = "append_alert" PROVE handling[q] = "append_alert"
  <2>1. CASE q = p BY <2>1, <1>6 DEF GoneOn
  <2>2. CASE q # p BY <2>2, <1>6 DEF GoneOn, Moved
  <2> QED BY <2>1, <2>2
<1>7. disturbed \subseteq disturbed' BY DEF GoneOn
<1>8. \A q \in Threads : \A c \in Waiting(q)' :
        /\ c \in CandidateCallSet
        /\ c \in Waiting(q) \/ c \in VersionCalls
        /\ c \notin VersionCalls => c \in Waiting(q)
  BY <1>1, <1>2, <1>3, <1>4, <1>5
<1> QED BY <1>1, <1>2, <1>6, <1>7, <1>8

\* It is sound and in order.
LEMMA CallsStay ==
  ASSUME CandidateInv, NEW p \in Threads, NEW calls, GoneOn(p, calls), Ordered(handling'[p], calls)
  PROVE  CallsAreOrdered' /\ CallsOK' /\ Apart'
<1>1. CandidateTypes /\ CallsAreOrdered /\ CallsOK BY DEF CandidateInv
<1>2. Growing /\ Moved(p, calls) /\ calls \in Seq(CandidateCallSet) BY DEF GoneOn
<1>3. CallsAreOrdered'
  <2> SUFFICES ASSUME NEW q \in Threads PROVE Ordered(handling[q], candidateCalls[q])'
    BY Zenon DEF CallsAreOrdered
  <2>1. CASE q = p
    <3>1. PICK h : h = handling'[p] OBVIOUS
    <3>2. Ordered(h, calls)' BY <1>1, <1>2, <3>1, OrderedStays
    <3> QED BY <3>1, <3>2, <2>1, <1>2 DEF Moved
  <2>2. CASE q # p
    <3>1. PICK h : h = handling[q] OBVIOUS
    <3>2. PICK s \in Seq(CandidateCallSet) : s = candidateCalls[q]
      BY <1>1 DEF CandidateTypes
    <3>3. Ordered(h, s) BY <3>1, <3>2, <1>1 DEF CallsAreOrdered
    <3>4. Ordered(h, s)' BY <3>3, <1>1, <1>2, OrderedStays
    <3> QED BY <3>1, <3>2, <3>4, <2>2, <1>2 DEF Moved
  <2> QED BY <2>1, <2>2
<1>4. CallsOK'
  <2> SUFFICES ASSUME NEW q \in Threads, NEW c \in Waiting(q)' PROVE CandidateCallOK(c)'
    BY DEF CallsOK
  <2>1. CASE c \in Waiting(q)
    <3>1. CandidateCallOK(c) /\ c \in CandidateCallSet BY <2>1, <1>1, WaitingCalls DEF CallsOK
    <3> QED BY <3>1, <1>1, <1>2, CallStays
  <2>2. CASE c \in VersionCalls
    <3>1. NewCall(c) BY <2>2, NewVersion
    <3> QED BY <3>1, Zenon DEF NewCall
  <2> QED BY <2>1, <2>2, <1>1, CallsAfter
<1>5. Apart' BY ApartStays DEF GoneOn, Moved
<1> QED BY <1>3, <1>4, <1>5

\* What is stored stays sound when what is put in is.
LEMMA StoredStays ==
  ASSUME CandidateInv, Growing,
         responseEvent'.alert \in 1..Len(alerts'),
         \A o \in Objects : object'[o] = object[o] \/ \E row : row = object'[o] /\ RowOK(o, row),
         \A r \in Range(runs') : r.id <= runIds',
         \A l \in Range(lists') : AreConfirmed(l.rows),
         \A d \in drafts' : IsGrounded(d)
  PROVE  StoredOK'
<1>1. CandidateTypes /\ StoredOK BY DEF CandidateInv
<1>2. ASSUME NEW o \in Objects PROVE RowOK(o, object[o])'
  <2>1. PICK row : row = object'[o] /\ RowOK(o, row) BY <1>1 DEF StoredOK
  <2>2. RowOK(o, row)' BY <2>1, <1>1, RowStays
  <2> QED BY <2>1, <2>2
<1>3. \A d \in drafts' : IsGrounded(d)' BY GroundedStays
<1>4. \A l \in Range(lists') : AreConfirmed(l.rows)' BY DEF AreConfirmed
<1> QED BY <1>2, <1>3, <1>4, Zenon DEF StoredOK

\* What runs count as completed where neither they nor the registry change.
LEMMA RunsStay ==
  ASSUME CandidateInv, NEW p \in Threads, NEW calls, GoneOn(p, calls),
         UNCHANGED <<registry, runs, lapsed>>, ClosedForGood => ClosedForGood'
  PROVE  RunsAreFresh'
<1> SUFFICES ASSUME "import beside" \notin disturbed'
             PROVE  /\ ClosedForGood' \/ \A r \in Range(runs) : r.status = "completed" =>
                                            SawRegistry(r)
                    /\ \A q \in Threads : \A c \in Waiting(q)' :
                         /\ c \in RunCalls => SawRegistry(c.run)
                         /\ c \in ImportCalls => ClosedForGood' \/
                              \A r \in Range(runs) : r.status = "completed" => r.id \in c.runs
  BY Zenon DEF RunsAreFresh, SawRegistry, Usable
<1>1. CandidateTypes /\ RunsAreFresh BY DEF CandidateInv
<1>2. "import beside" \notin disturbed BY <1>1, CallsAfter
<1>3. ClosedForGood' \/ \A r \in Range(runs) : r.status = "completed" => SawRegistry(r)
  BY <1>1, <1>2, Zenon DEF RunsAreFresh
<1>4. ASSUME NEW q \in Threads, NEW c \in Waiting(q)'
      PROVE  /\ c \in RunCalls => SawRegistry(c.run)
             /\ c \in ImportCalls => ClosedForGood' \/
                  \A r \in Range(runs) : r.status = "completed" => r.id \in c.runs
  <2>1. c \in Waiting(q) \/ (c \in VersionCalls /\ c \in CandidateCallSet)
    BY <1>1, CallsAfter
  <2>2. CASE c \in Waiting(q) BY <2>2, <1>1, <1>2, Zenon DEF RunsAreFresh
  <2>3. CASE c \in VersionCalls /\ c \in CandidateCallSet BY <2>3, CallKinds
  <2> QED BY <2>1, <2>2, <2>3
<1> QED BY <1>3, <1>4, Zenon

\* What counts as confirmed where neither objects nor warnings change.
LEMMA ConfirmationsStay ==
  ASSUME CandidateInv, NEW p \in Threads, NEW calls, GoneOn(p, calls),
         UNCHANGED <<object, alerts>>, handling[p] # "append_alert"
  PROVE  ConfirmationsFollow'
<1>1. CandidateTypes /\ ConfirmationsFollow BY DEF CandidateInv
<1>2. /\ Moved(p, calls) /\ handling'[p] # "append_alert"
      /\ \A q \in Threads : q # p => /\ candidateCalls'[q] = candidateCalls[q]
                                     /\ handling'[q] = handling[q] /\ Waiting(q)' = Waiting(q)
  BY DEF GoneOn, Moved, Waiting
<1>3. \A row : OfLatest(row)' <=> OfLatest(row) BY DEF OfLatest
<1> SUFFICES ASSUME {"cut off", "alert beside"} \cap disturbed' = {}
             PROVE  /\ (\A q \in Threads : handling'[q] = "append_alert" =>
                                              candidateCalls'[q][1] \in AlertCalls) =>
                         \A o \in Objects : OfLatest(object[o])
                    /\ (\A q \in Threads : handling'[q] # "append_alert") =>
                         \A q \in Threads : \A c \in Waiting(q)' :
                           c \in ObjectCalls => OfLatest(c.row)
                    /\ \A q \in Threads :
                         handling'[q] = "append_alert" /\ Marking(candidateCalls'[q]) =>
                           \A o \in Objects : Frozenable(o) =>
                             \E c \in Waiting(q)' : c \in ObjectCalls /\ c.object = o
  BY <1>3, Zenon DEF ConfirmationsFollow, Frozenable, Marking
<1>4. {"cut off", "alert beside"} \cap disturbed = {} BY <1>1, CallsAfter
<1>5. ASSUME \A q \in Threads : handling'[q] = "append_alert" => candidateCalls'[q][1] \in AlertCalls
      PROVE  \A o \in Objects : OfLatest(object[o])
  <2>1. \A q \in Threads : handling[q] = "append_alert" => candidateCalls[q][1] \in AlertCalls
    BY <1>2, <1>5
  <2> QED BY <2>1, <1>1, <1>4, Zenon DEF ConfirmationsFollow
<1>6. ASSUME \A q \in Threads : handling'[q] # "append_alert",
             NEW q \in Threads, NEW c \in Waiting(q)', c \in ObjectCalls
      PROVE  OfLatest(c.row)
  <2>1. c \notin VersionCalls /\ c \in Waiting(q) BY <1>1, <1>6, CallsAfter, CallKinds
  <2>2. \A r \in Threads : handling[r] # "append_alert" BY <1>2, <1>6
  <2> QED BY <2>1, <2>2, <1>1, <1>4, <1>6, Zenon DEF ConfirmationsFollow
<1>7. ASSUME NEW q \in Threads, handling'[q] = "append_alert", Marking(candidateCalls'[q])
      PROVE  \A o \in Objects : Frozenable(o) =>
               \E c \in Waiting(q)' : c \in ObjectCalls /\ c.object = o
  <2>1. q # p BY <1>2, <1>7
  <2>2. handling[q] = "append_alert" /\ Marking(candidateCalls[q]) /\ Waiting(q)' = Waiting(q)
    BY <2>1, <1>2, <1>7
  <2> QED BY <2>2, <1>1, <1>4, Zenon DEF ConfirmationsFollow
<1> QED BY <1>5, <1>6, <1>7, Zenon

\* What lists hold where neither objects nor the registry change.
LEMMA ListsStay ==
  ASSUME CandidateInv, NEW p \in Threads, NEW calls, GoneOn(p, calls),
         UNCHANGED <<object, registry, responseEvent>>,
         \A l \in Range(lists') : l \in Range(lists) \/ \E c \in Waiting(p) : c \in ListCalls /\ l = c.list
  PROVE  ListsHold'
<1>1. CandidateTypes /\ ListsHold BY DEF CandidateInv
<1>2. Moved(p, calls) /\ calls \in Seq(CandidateCallSet) BY DEF GoneOn
<1>3. ASSUME "alert beside" \notin disturbed', responseEvent.closed
      PROVE  \A q \in Threads : handling'[q] # "append_alert"
  <2>1. "alert beside" \notin disturbed BY <1>1, <1>3, CallsAfter
  <2>2. \A q \in Threads : handling[q] # "append_alert" BY <2>1, <1>1, <1>3, Zenon DEF ListsHold
  <2> QED BY <2>2, <1>1, CallsAfter
<1>4. ASSUME disturbed' = {}, OpenEvent
      PROVE  /\ \A l \in Range(lists') : ListHolds(l)'
             /\ \A q \in Threads : \A c \in Waiting(q)' :
                  /\ c \in ListCalls => ListHolds(c.list)'
                  /\ c \in ImportCalls =>
                       /\ \A o \in DOMAIN c.records :
                            OnRecord(o) /\ ~object[o].stale => o \in DOMAIN c.rows
                       /\ \A o \in DOMAIN c.rows : c.rows[o].version = object[o].version + 1
  <2>1. disturbed = {} BY <1>1, <1>4, CallsAfter
  <2>2. /\ \A l \in Range(lists) : ListHolds(l)
        /\ \A q \in Threads : \A c \in Waiting(q) :
             /\ c \in ListCalls => ListHolds(c.list)
             /\ c \in ImportCalls =>
                  /\ \A o \in DOMAIN c.records :
                       OnRecord(o) /\ ~object[o].stale => o \in DOMAIN c.rows
                  /\ \A o \in DOMAIN c.rows : c.rows[o].version = object[o].version + 1
    BY <2>1, <1>1, <1>4, Zenon DEF ListsHold
  <2>3. \A l \in ListRecords : ListHolds(l) => ListHolds(l)'
    <3>1. Range(calls) \subseteq CandidateCallSet BY <1>2, InRange
    <3>2. \A c \in Range(calls) : c \in Waiting(p) \/ NewCall(c) BY NewVersion DEF GoneOn
    <3> QED BY <3>1, <3>2, <1>1, <1>2, ListStays
  <2>4. ASSUME NEW l \in Range(lists') PROVE ListHolds(l)'
    <3>1. ListHolds(l) BY <2>2
    <3>2. l \in ListRecords
      <4>1. CASE l \in Range(lists) BY <4>1, <1>1, InRange DEF CandidateTypes
      <4>2. CASE l \notin Range(lists) BY <4>2, CallParts
      <4> QED BY <4>1, <4>2
    <3> QED BY <3>1, <3>2, <2>3
  <2>5. ASSUME NEW q \in Threads, NEW c \in Waiting(q)'
        PROVE  /\ c \in ListCalls => ListHolds(c.list)'
               /\ c \in ImportCalls =>
                    /\ \A o \in DOMAIN c.records :
                         OnRecord(o) /\ ~object[o].stale => o \in DOMAIN c.rows
                    /\ \A o \in DOMAIN c.rows : c.rows[o].version = object[o].version + 1
    <3>1. c \in Waiting(q) \/ (c \in VersionCalls /\ c \in CandidateCallSet)
      BY <1>1, CallsAfter
    <3>2. CASE c \in Waiting(q) BY <3>2, <2>2, <2>3, CallParts
    <3>3. CASE c \in VersionCalls /\ c \in CandidateCallSet BY <3>3, CallKinds
    <3> QED BY <3>1, <3>2, <3>3
  <2> QED BY <2>4, <2>5
<1> QED BY <1>3, <1>4, Zenon DEF ListsHold, OpenEvent, OnRecord

\* Only an import leaves an import to be committed.
LEMMA ImportsImport ==
  ASSUME CandidateTypes, CallsAreOrdered, NEW q \in Threads, NEW c \in Waiting(q),
         c \in ImportCalls
  PROVE  handling[q] = "import_risk_object_registry"
<1>1. PICK s \in Seq(CandidateCallSet) : s = candidateCalls[q] BY DEF CandidateTypes
<1>2. Ordered(handling[q], s) BY <1>1 DEF CallsAreOrdered
<1>3. c \in Range(s) /\ c \in CandidateCallSet BY <1>1, WaitingCalls DEF Waiting
<1>4. /\ c \notin AlertCalls /\ c \notin EventCalls /\ c \notin StalingCalls
      /\ c \notin ObjectCalls /\ c \notin VersionCalls /\ c \notin DecisionCalls
  BY <1>3, CallKinds DEF DecisionCalls
<1>5. Len(s) \in Nat /\ \E i \in 1..Len(s) : c = s[i] BY <1>3, InRange
<1>6. handling[q] # "none" BY <1>2, <1>3, NoneInRange DEF Ordered
<1>7. handling[q] \notin Decisions BY <1>2, <1>3, <1>4 DEF Ordered
<1>8. handling[q] # "close_event"
  <2>1. SUFFICES ASSUME handling[q] = "close_event" PROVE FALSE
    OBVIOUS
  <2>2. Len(s) = 1 /\ s[1] \in EventCalls BY <2>1, <1>2 DEF Ordered
  <2> QED BY <2>2, <1>3, <1>4, OneInRange
<1>9. handling[q] # "append_alert"
  <2>1. SUFFICES ASSUME handling[q] = "append_alert" PROVE FALSE
    OBVIOUS
  <2>2. Revising(s) BY <2>1, <1>2 DEF Ordered
  <2>3. ~Marking(s) BY <1>3, <1>4 DEF Marking
  <2>4. \/ Len(s) = 3 /\ s[1] \in AlertCalls /\ s[2] \in EventCalls /\ s[3] \in StalingCalls
        \/ Len(s) = 2 /\ s[1] \in EventCalls /\ s[2] \in StalingCalls
        \/ Len(s) = 1 /\ s[1] \in StalingCalls
    BY <2>2, <2>3 DEF Revising
  <2>5. PICK n \in Nat : n = Len(s) BY <1>5
  <2>6. PICK i \in 1..n : c = s[i] BY <2>5, <1>5
  <2>7. n \in {1, 2, 3} /\ i \in {1, 2, 3} BY <2>4, <2>5, <2>6
  <2> QED BY <2>4, <2>5, <2>6, <2>7, <1>4
<1> QED BY <1>6, <1>7, <1>8, <1>9 DEF CandidateTypes, HandlerNames

\* An import that runs alone.
LEMMA ImportAlone ==
  ASSUME CandidateTypes, CallsAreOrdered, Apart, "import beside" \notin disturbed
  PROVE  /\ \A p, q \in Threads : p # q /\ handling[p] = "import_risk_object_registry" =>
              \A c \in Waiting(q) : c \in EventCalls
         /\ \A p \in Threads : handling[p] \in Decisions \cup {"append_alert"} =>
              \A q \in Threads : \A c \in Waiting(q) : c \notin ImportCalls
<1>1. ASSUME NEW p \in Threads, NEW q \in Threads, p # q,
             handling[p] = "import_risk_object_registry", NEW c \in Waiting(q)
      PROVE  c \in EventCalls
  <2>1. handling[q] \in {"none", "close_event"} BY <1>1, Zenon DEF Apart
  <2>2. Ordered(handling[q], candidateCalls[q]) /\ candidateCalls[q] \in Seq(CandidateCallSet)
    BY DEF CallsAreOrdered, CandidateTypes
  <2>3. CASE handling[q] = "none"
    <3>1. candidateCalls[q] = <<>> BY <2>2, <2>3 DEF Ordered
    <3> QED BY <3>1, <1>1, NoneInRange DEF Waiting
  <2>4. CASE handling[q] = "close_event"
    <3>1. Len(candidateCalls[q]) = 1 /\ candidateCalls[q][1] \in EventCalls
      BY <2>2, <2>4 DEF Ordered
    <3>2. Waiting(q) = {candidateCalls[q][1]} BY <3>1, <2>2, OneInRange DEF Waiting
    <3> QED BY <3>1, <3>2, <1>1
  <2> QED BY <2>1, <2>3, <2>4
<1>2. ASSUME NEW p \in Threads, handling[p] \in Decisions \cup {"append_alert"},
             NEW q \in Threads, NEW c \in Waiting(q), c \in ImportCalls
      PROVE  FALSE
  <2>1. c \in CandidateCallSet BY <1>2, WaitingCalls
  <2>2. handling[q] = "import_risk_object_registry" BY <1>2, <2>1, ImportsImport
  <2>3. handling[p] \notin {"none", "close_event", "import_risk_object_registry"}
    BY <1>2 DEF Decisions
  <2>4. p # q BY <2>2, <2>3
  <2> QED BY <2>2, <2>3, <2>4, Zenon DEF Apart
<1> QED BY <1>1, <1>2

\* A transaction after which its handler goes on.
LEMMA GoesAlong ==
  ASSUME CandidateTypes, NEW p \in Threads, NEW calls \in Seq(CandidateCallSet),
         Continue(p, calls), disturbed' = disturbed \cup Accidents,
         \A c \in Range(calls) : c \in Waiting(p) \/ c \in VersionCalls,
         runIds' = runIds, registryHistory \subseteq registryHistory',
         Len(alerts') \in Nat, Len(alerts) <= Len(alerts'),
         \A r \in Range(runs') : \E k \in KnownRuns : k.id = r.id /\ k.screened = r.screened,
         \A o \in Objects :
           \/ registry'[o] = registry[o]
           \/ registry'[o] \in RegistryRecords /\ registry'[o].version = registry[o].version + 1
  PROVE  GoneOn(p, calls)
<1>1. Moved(p, calls) /\ handling'[p] = IF calls = <<>> THEN "none" ELSE handling[p]
  BY ContinueMoves
<1>2. ASSUME NEW c \in Range(calls), c \in RunCalls PROVE c \in Waiting(p) \/ c.run.id > runIds
  <2>1. c \in CandidateCallSet BY InRange
  <2> QED BY <2>1, <1>2, CallKinds
<1>3. \A r \in KnownRuns' :
        r.id > runIds \/ \E k \in KnownRuns : k.id = r.id /\ k.screened = r.screened
  BY <1>1, <1>2, RunsKnown
<1>4. runIds \in Nat /\ runIds' \in Nat /\ runIds <= runIds' BY DEF CandidateTypes
<1>5. Growing BY <1>3, <1>4 DEF Growing
<1> QED BY <1>1, <1>5 DEF GoneOn

\* The same, where it is what was left that is left.
LEMMA RestGone ==
  ASSUME CandidateTypes, CallsAreOrdered, NEW p \in Threads, candidateCalls[p] # <<>>,
         Continue(p, Rest(p)), disturbed' = disturbed \cup Accidents,
         UNCHANGED <<runIds, registryHistory, registry, alerts>>,
         \A r \in Range(runs') : \E k \in KnownRuns : k.id = r.id /\ k.screened = r.screened,
         handling[p] = "append_alert" => Marking(candidateCalls[p])
  PROVE  GoneOn(p, Rest(p)) /\ Ordered(handling'[p], Rest(p))
<1>1. Rest(p) \in Seq(CandidateCallSet) /\ Range(Rest(p)) \subseteq Waiting(p) BY NextCall
<1>2. Len(alerts') \in Nat /\ Len(alerts) <= Len(alerts') BY LenProperties DEF CandidateTypes
<1>3. GoneOn(p, Rest(p)) BY <1>1, <1>2, GoesAlong
<1>4. Ordered(handling'[p], Rest(p)) BY <1>3, RestOrdered DEF GoneOn
<1> QED BY <1>3, <1>4

\* A closed event whose warnings are all appended stays so.
LEMMA ClosedStays ==
  ASSUME CandidateTypes, NEW p \in Threads, NEW calls, GoneOn(p, calls), ClosedForGood,
         responseEvent'.closed
  PROVE  ClosedForGood'
BY CallsAfter DEF ClosedForGood

\* save_candidate_run: the run still sees the registry as it is.
LEMMA save_candidate_runKeeps ==
  ASSUME CandidateInv, CandidateAssumption, NEW p \in Threads, save_candidate_run(p),
         disturbed' = disturbed \cup Accidents
  PROVE  CandidateInv'
<1>1. PICK run : run = Head(candidateCalls[p]).run OBVIOUS
<1>2. /\ candidateCalls[p] # <<>> /\ Head(candidateCalls[p]).kind = "run"
      /\ runs' = Append(runs, run) /\ Continue(p, Rest(p))
      /\ UNCHANGED <<responseEvent, alerts, registry, registryHistory, object, lists,
                     drafts, lapsed, runIds, stops>>
  BY <1>1 DEF save_candidate_run, Next_call, Same
<1>3. /\ CandidateTypes /\ CallsAreOrdered /\ RegistryIsOnRecord /\ StoredOK /\ CallsOK /\ Apart
      /\ RunsAreFresh
  BY DEF CandidateInv
<1>4. Head(candidateCalls[p]) \in RunCalls /\ Head(candidateCalls[p]) \in Waiting(p)
  BY <1>2, <1>3, NextCall, CallKinds
<1>5. run \in RunRecords /\ run.id <= runIds /\ run \in KnownRuns
  BY <1>1, <1>3, <1>4, CallParts DEF CallsOK, CandidateCallOK, KnownRuns
<1>6. handling[p] \in Decisions /\ handling[p] # "append_alert"
  <2>1. handling[p] \in Decisions BY <1>2, <1>3, <1>4, WhoseCall
  <2> QED BY <2>1 DEF Decisions
<1>7. /\ runs \in Seq(RunRecords) /\ runs' \in Seq(RunRecords)
      /\ Range(runs') = Range(runs) \cup {run}
  <2>1. runs \in Seq(RunRecords) BY <1>3 DEF CandidateTypes
  <2> QED BY <2>1, <1>2, <1>5, PutAtEnd
<1>8. \A r \in Range(runs') : \E k \in KnownRuns : k.id = r.id /\ k.screened = r.screened
  BY <1>5, <1>7 DEF KnownRuns
<1>9. GoneOn(p, Rest(p)) /\ Ordered(handling'[p], Rest(p))
  BY <1>2, <1>3, <1>6, <1>8, RestGone
<1>10. CallsAreOrdered' /\ CallsOK' /\ Apart' BY <1>9, CallsStay
<1>11. CandidateTypes' BY <1>2, <1>3, <1>7, <1>9 DEF CandidateTypes, GoneOn, Moved
<1>12. RegistryIsOnRecord' BY <1>2, <1>3 DEF RegistryIsOnRecord
<1>13. StoredOK'
  <2>1. /\ responseEvent'.alert \in 1..Len(alerts')
        /\ \A r \in Range(runs') : r.id <= runIds'
        /\ \A l \in Range(lists') : AreConfirmed(l.rows)
        /\ \A d \in drafts' : IsGrounded(d)
    BY <1>2, <1>3, <1>5, <1>7 DEF StoredOK
  <2>2. Growing BY <1>9 DEF GoneOn
  <2>3. \A o \in Objects : object'[o] = object[o] BY <1>2
  <2> QED BY <2>1, <2>2, <2>3, StoredStays
<1>14. ASSUME "import beside" \notin disturbed'
       PROVE  /\ ClosedForGood' \/ \A r \in Range(runs') : r.status = "completed" =>
                                      SawRegistry(r)
              /\ \A q \in Threads : \A c \in Waiting(q)' :
                   /\ c \in RunCalls => SawRegistry(c.run)
                   /\ c \notin ImportCalls
  <2>1. "import beside" \notin disturbed BY <1>3, <1>9, <1>14, CallsAfter
  <2>2. /\ ClosedForGood \/ \A r \in Range(runs) : r.status = "completed" => SawRegistry(r)
        /\ \A q \in Threads : \A c \in Waiting(q) : c \in RunCalls => SawRegistry(c.run)
    BY <2>1, <1>3, Zenon DEF RunsAreFresh
  <2>3. SawRegistry(run) BY <2>2, <1>1, <1>4
  <2>4. ClosedForGood => ClosedForGood'
    BY <1>2, <1>3, <1>9, ClosedStays DEF ClosedForGood
  <2>5. \A q \in Threads : \A c \in Waiting(q) : c \notin ImportCalls
    BY <2>1, <1>3, <1>6, ImportAlone
  <2>6. ASSUME NEW q \in Threads, NEW c \in Waiting(q)'
        PROVE  (c \in RunCalls => SawRegistry(c.run)) /\ c \notin ImportCalls
    <3>1. c \in Waiting(q) \/ (c \in VersionCalls /\ c \in CandidateCallSet)
      BY <1>3, <1>9, CallsAfter
    <3> QED BY <3>1, <2>2, <2>5, CallKinds
  <2> QED BY <2>2, <2>3, <2>4, <2>6, <1>7
<1>15. RunsAreFresh'
  <2>1. \A r : SawRegistry(r)' <=> SawRegistry(r) BY <1>2 DEF SawRegistry, Usable
  <2> QED BY <2>1, <1>14, Zenon DEF RunsAreFresh
<1>16. ConfirmationsFollow' BY <1>2, <1>6, <1>9, ConfirmationsStay
<1>17. ListsHold' BY <1>2, <1>9, ListsStay
<1> QED BY <1>10, <1>11, <1>12, <1>13, <1>15, <1>16, <1>17 DEF CandidateInv

\* save_candidate_object_list: the list was sound while it waited.
LEMMA save_candidate_object_listKeeps ==
  ASSUME CandidateInv, CandidateAssumption, NEW p \in Threads, save_candidate_object_list(p),
         disturbed' = disturbed \cup Accidents
  PROVE  CandidateInv'
<1>1. PICK list : list = Head(candidateCalls[p]).list OBVIOUS
<1>2. /\ candidateCalls[p] # <<>> /\ Head(candidateCalls[p]).kind = "list"
      /\ lists' = lists \/ lists' = Append(lists, list)
      /\ Continue(p, Rest(p))
      /\ UNCHANGED <<responseEvent, alerts, registry, registryHistory, object, runs,
                     drafts, lapsed, runIds, stops>>
  BY <1>1 DEF save_candidate_object_list, Next_call, Same
<1>3. /\ CandidateTypes /\ CallsAreOrdered /\ RegistryIsOnRecord /\ StoredOK /\ CallsOK
  BY DEF CandidateInv
<1>4. Head(candidateCalls[p]) \in ListCalls /\ Head(candidateCalls[p]) \in Waiting(p)
  BY <1>2, <1>3, NextCall, CallKinds
<1>5. list \in ListRecords /\ AreConfirmed(list.rows)
  BY <1>1, <1>3, <1>4, CallParts DEF CallsOK, CandidateCallOK
<1>6. handling[p] # "append_alert"
  <2>1. handling[p] \in Decisions BY <1>2, <1>3, <1>4, WhoseCall
  <2> QED BY <2>1 DEF Decisions
<1>7. /\ lists' \in Seq(ListRecords) /\ \A l \in Range(lists') : l \in Range(lists) \/ l = list
  <2>1. lists \in Seq(ListRecords) BY <1>3 DEF CandidateTypes
  <2>2. CASE lists' = lists BY <2>1, <2>2
  <2>3. CASE lists' = Append(lists, list) BY <2>1, <2>3, <1>5, PutAtEnd
  <2> QED BY <2>2, <2>3, <1>2
<1>8. \A r \in Range(runs') : \E k \in KnownRuns : k.id = r.id /\ k.screened = r.screened
  BY <1>2 DEF KnownRuns
<1>9. GoneOn(p, Rest(p)) /\ Ordered(handling'[p], Rest(p))
  BY <1>2, <1>3, <1>6, <1>8, RestGone
<1>10. CallsAreOrdered' /\ CallsOK' /\ Apart' BY <1>9, CallsStay
<1>11. CandidateTypes' BY <1>2, <1>3, <1>7, <1>9 DEF CandidateTypes, GoneOn, Moved
<1>12. RegistryIsOnRecord' BY <1>2, <1>3 DEF RegistryIsOnRecord
<1>13. StoredOK'
  <2>1. /\ responseEvent'.alert \in 1..Len(alerts')
        /\ \A r \in Range(runs') : r.id <= runIds'
        /\ \A l \in Range(lists') : AreConfirmed(l.rows)
        /\ \A d \in drafts' : IsGrounded(d)
    BY <1>2, <1>3, <1>5, <1>7 DEF StoredOK
  <2>2. Growing BY <1>9 DEF GoneOn
  <2>3. \A o \in Objects : object'[o] = object[o] BY <1>2
  <2> QED BY <2>1, <2>2, <2>3, StoredStays
<1>14. RunsAreFresh'
  <2>1. ClosedForGood => ClosedForGood'
    BY <1>2, <1>3, <1>9, ClosedStays DEF ClosedForGood
  <2> QED BY <2>1, <1>2, <1>9, RunsStay
<1>15. ConfirmationsFollow' BY <1>2, <1>6, <1>9, ConfirmationsStay
<1>16. ListsHold' BY <1>1, <1>2, <1>4, <1>7, <1>9, ListsStay
<1> QED BY <1>10, <1>11, <1>12, <1>13, <1>14, <1>15, <1>16 DEF CandidateInv

\* save_response_task: so was the draft.
LEMMA save_response_taskKeeps ==
  ASSUME CandidateInv, CandidateAssumption, NEW p \in Threads, save_response_task(p),
         disturbed' = disturbed \cup Accidents
  PROVE  CandidateInv'
<1>1. PICK d : d = Head(candidateCalls[p]).draft OBVIOUS
<1>2. /\ candidateCalls[p] # <<>> /\ Head(candidateCalls[p]).kind = "draft"
      /\ drafts' = drafts \cup {d} /\ Continue(p, Rest(p))
      /\ UNCHANGED <<responseEvent, alerts, registry, registryHistory, object, runs,
                     lists, lapsed, runIds, stops>>
  BY <1>1 DEF save_response_task, Next_call, Same
<1>3. /\ CandidateTypes /\ CallsAreOrdered /\ RegistryIsOnRecord /\ StoredOK /\ CallsOK
  BY DEF CandidateInv
<1>4. Head(candidateCalls[p]) \in DraftCalls /\ Head(candidateCalls[p]) \in Waiting(p)
  BY <1>2, <1>3, NextCall, CallKinds
<1>5. d \in DraftRecords /\ IsGrounded(d)
  BY <1>1, <1>3, <1>4, CallParts DEF CallsOK, CandidateCallOK
<1>6. handling[p] # "append_alert"
  <2>1. handling[p] \in Decisions BY <1>2, <1>3, <1>4, WhoseCall
  <2> QED BY <2>1 DEF Decisions
<1>7. \A r \in Range(runs') : \E k \in KnownRuns : k.id = r.id /\ k.screened = r.screened
  BY <1>2 DEF KnownRuns
<1>8. GoneOn(p, Rest(p)) /\ Ordered(handling'[p], Rest(p))
  BY <1>2, <1>3, <1>6, <1>7, RestGone
<1>9. CallsAreOrdered' /\ CallsOK' /\ Apart' BY <1>8, CallsStay
<1>10. CandidateTypes' BY <1>2, <1>3, <1>5, <1>8 DEF CandidateTypes, GoneOn, Moved
<1>11. RegistryIsOnRecord' BY <1>2, <1>3 DEF RegistryIsOnRecord
<1>12. StoredOK'
  <2>1. /\ responseEvent'.alert \in 1..Len(alerts')
        /\ \A r \in Range(runs') : r.id <= runIds'
        /\ \A l \in Range(lists') : AreConfirmed(l.rows)
        /\ \A x \in drafts' : IsGrounded(x)
    BY <1>2, <1>3, <1>5 DEF StoredOK
  <2>2. Growing BY <1>8 DEF GoneOn
  <2>3. \A o \in Objects : object'[o] = object[o] BY <1>2
  <2> QED BY <2>1, <2>2, <2>3, StoredStays
<1>13. RunsAreFresh'
  <2>1. ClosedForGood => ClosedForGood'
    BY <1>2, <1>3, <1>8, ClosedStays DEF ClosedForGood
  <2> QED BY <2>1, <1>2, <1>8, RunsStay
<1>14. ConfirmationsFollow' BY <1>2, <1>6, <1>8, ConfirmationsStay
<1>15. ListsHold' BY <1>2, <1>8, ListsStay
<1> QED BY <1>9, <1>10, <1>11, <1>12, <1>13, <1>14, <1>15 DEF CandidateInv

\* A handler with a call left.
LEMMA SomeLeft ==
  ASSUME NEW S, NEW s \in Seq(S), Len(s) = 1 \/ Len(s) = 2
  PROVE  s # <<>> /\ s[1] \in Range(s)
<1>1. s # <<>>
  <2>1. Len(<<>>) = 0 OBVIOUS
  <2> QED BY <2>1
<1> QED BY <1>1, HeadAndRest

\* save_alert_snapshot: from here on the confirmations are of an older warning,
\* and the handler has them still to mark.
LEMMA save_alert_snapshotKeeps ==
  ASSUME CandidateInv, CandidateAssumption, NEW p \in Threads, save_alert_snapshot(p),
         disturbed' = disturbed \cup Accidents
  PROVE  CandidateInv'
<1>1. PICK call : call = Head(candidateCalls[p]) OBVIOUS
<1>2. /\ candidateCalls[p] # <<>> /\ call.kind = "alert"
      /\ \/ alerts' = alerts /\ Continue(p, <<>>)
         \/ ~(call.version <= Len(alerts)) /\ alerts' = Append(alerts, call.warning)
            /\ Continue(p, Rest(p))
      /\ UNCHANGED <<responseEvent, registry, registryHistory, object, runs, lists,
                     drafts, lapsed, runIds, stops>>
  BY <1>1 DEF save_alert_snapshot, Next_call, Same
<1>3. /\ CandidateTypes /\ CallsAreOrdered /\ RegistryIsOnRecord /\ StoredOK /\ CallsOK
      /\ Apart /\ ListsHold /\ stops \in Nat /\ alerts \in Seq(Warnings)
  BY DEF CandidateInv, CandidateTypes
<1>4. call \in AlertCalls /\ call \in Waiting(p) BY <1>1, <1>2, <1>3, NextCall, CallKinds
<1>5. CASE alerts' = alerts /\ Continue(p, <<>>)
  BY <1>1, <1>2, <1>3, <1>4, <1>5, EndsKeep
<1>6. CASE ~(call.version <= Len(alerts)) /\ alerts' = Append(alerts, call.warning)
           /\ Continue(p, Rest(p))
  <2>1. /\ handling[p] = "append_alert" /\ Len(candidateCalls[p]) = 3
        /\ candidateCalls[p][2] \in EventCalls /\ candidateCalls[p][3] \in StalingCalls
        /\ candidateCalls[p][2].row.alert = call.version /\ ~candidateCalls[p][2].row.closed
    BY <1>1, <1>2, <1>3, <1>4, WhoseCall
  <2>2. PICK n \in Nat : n = Len(alerts) BY <1>3, LenProperties
  <2>3. call.version = n + 1
    <3>1. call.version \in 1..(n + 1) BY <2>2, <1>3, <1>4 DEF CallsOK, CandidateCallOK
    <3> QED BY <3>1, <2>2, <1>6
  <2>4. alerts' \in Seq(Warnings) /\ Len(alerts') = n + 1
    <3>1. call.warning \in Warnings BY <1>4, CallParts
    <3> QED BY <3>1, <2>2, <1>3, <1>6, PutAtEnd
  <2>5. PICK rest \in Seq(CandidateCallSet) : rest = Rest(p) BY <1>2, <1>3, NextCall
  <2>6. /\ Len(rest) = 2 /\ rest[1] = candidateCalls[p][2] /\ rest[2] = candidateCalls[p][3]
        /\ Range(rest) \subseteq Waiting(p)
    <3>1. /\ Range(rest) \subseteq Waiting(p) /\ Len(rest) = Len(candidateCalls[p]) - 1
          /\ \A i \in 1..(Len(candidateCalls[p]) - 1) : rest[i] = candidateCalls[p][i + 1]
      BY <2>5, <1>2, <1>3, NextCall
    <3>2. Len(candidateCalls[p]) = 3 BY <2>1
    <3>3. Len(rest) = 2 /\ \A i \in 1..2 : rest[i] = candidateCalls[p][i + 1] BY <3>1, <3>2
    <3>4. 1 \in 1..2 /\ 2 \in 1..2 /\ 1 + 1 = 2 /\ 2 + 1 = 3 OBVIOUS
    <3>5. rest[1] = candidateCalls[p][1 + 1] /\ rest[2] = candidateCalls[p][2 + 1]
      BY <3>3, <3>4, Zenon
    <3>6. rest[1] = candidateCalls[p][2] /\ rest[2] = candidateCalls[p][3]
      BY <3>4, <3>5, Zenon
    <3> QED BY <3>1, <3>3, <3>6
  <2>7. rest # <<>> /\ rest[1] \in Range(rest) BY <2>5, <2>6, SomeLeft
  <2>8. GoneOn(p, rest)
    <3>1. \A r \in Range(runs') : \E k \in KnownRuns : k.id = r.id /\ k.screened = r.screened
      BY <1>2 DEF KnownRuns
    <3>2. Len(alerts') \in Nat /\ Len(alerts) <= Len(alerts') BY <2>2, <2>4
    <3>3. Continue(p, rest) BY <2>5, <1>6
    <3> QED BY <3>1, <3>2, <3>3, <2>6, <1>2, <1>3, GoesAlong
  <2>9. handling'[p] = "append_alert" /\ candidateCalls'[p] = rest
    BY <2>1, <2>7, <2>8 DEF GoneOn, Moved
  <2>10. CallsAreOrdered' /\ CallsOK' /\ Apart'
    <3>1. Revising(rest)'
      <4>1. rest[1].row.alert <= Len(alerts') BY <2>1, <2>3, <2>4, <2>6
      <4> QED BY <4>1, <2>1, <2>6 DEF Revising
    <3>2. CallsOK' /\ Apart' /\ CallsAreOrdered'
      <4>1. Growing /\ Moved(p, rest) BY <2>8 DEF GoneOn
      <4>2. CallsAreOrdered'
        <5> SUFFICES ASSUME NEW q \in Threads PROVE Ordered(handling[q], candidateCalls[q])'
          BY Zenon DEF CallsAreOrdered
        <5>1. CASE q = p BY <5>1, <3>1, <2>7, <2>9 DEF Ordered, Decisions
        <5>2. CASE q # p
          <6>1. PICK h : h = handling[q] OBVIOUS
          <6>2. PICK s \in Seq(CandidateCallSet) : s = candidateCalls[q]
            BY <1>3 DEF CandidateTypes
          <6>3. Ordered(h, s) BY <6>1, <6>2, <1>3 DEF CallsAreOrdered
          <6>4. Ordered(h, s)' BY <6>3, <4>1, <1>3, OrderedStays
          <6> QED BY <6>1, <6>2, <6>4, <5>2, <4>1 DEF Moved
        <5> QED BY <5>1, <5>2
      <4>3. CallsOK'
        <5> SUFFICES ASSUME NEW q \in Threads, NEW c \in Waiting(q)' PROVE CandidateCallOK(c)'
          BY DEF CallsOK
        <5>1. CASE c \in Waiting(q)
          <6>1. CandidateCallOK(c) /\ c \in CandidateCallSet
            BY <5>1, <1>3, WaitingCalls DEF CallsOK
          <6> QED BY <6>1, <4>1, <1>3, CallStays
        <5>2. CASE c \in VersionCalls
          <6>1. NewCall(c) BY <5>2, NewVersion
          <6> QED BY <6>1, Zenon DEF NewCall
        <5> QED BY <5>1, <5>2, <2>8, <1>3, CallsAfter
      <4>4. Apart' BY <4>1, ApartStays DEF Moved
      <4> QED BY <4>2, <4>3, <4>4
    <3> QED BY <3>2
  <2>11. CandidateTypes' BY <2>4, <2>8, <1>2, <1>3 DEF CandidateTypes, GoneOn, Moved
  <2>12. RegistryIsOnRecord' BY <1>2, <1>3 DEF RegistryIsOnRecord
  <2>13. StoredOK'
    <3>1. responseEvent'.alert \in 1..Len(alerts')
      <4>1. responseEvent.alert \in 1..n BY <2>2, <1>3 DEF StoredOK
      <4> QED BY <4>1, <2>2, <2>4, <1>2
    <3>2. /\ \A r \in Range(runs') : r.id <= runIds'
          /\ \A l \in Range(lists') : AreConfirmed(l.rows)
          /\ \A d \in drafts' : IsGrounded(d)
      BY <1>2, <1>3 DEF StoredOK
    <3>3. Growing BY <2>8 DEF GoneOn
    <3>4. \A o \in Objects : object'[o] = object[o] BY <1>2
    <3> QED BY <3>1, <3>2, <3>3, <3>4, StoredStays
  <2>14. RunsAreFresh'
    <3>1. ~ClosedForGood BY <2>1 DEF ClosedForGood
    <3> QED BY <3>1, <2>8, <1>2, RunsStay
  <2>15. ConfirmationsFollow'
    <3> SUFFICES ASSUME {"cut off", "alert beside"} \cap disturbed' = {},
                        NEW q \in Threads, handling'[q] = "append_alert",
                        Marking(candidateCalls'[q])
                 PROVE  FALSE
      <4>1. candidateCalls'[p][1] \notin AlertCalls
        <5>1. rest[1] \in EventCalls /\ rest[1] \in CandidateCallSet
          BY <2>1, <2>6 DEF CandidateCallSet
        <5> QED BY <5>1, <2>9, CallKinds
      <4> QED BY <4>1, <2>9, Zenon DEF ConfirmationsFollow, Marking
    <3>1. "alert beside" \notin disturbed BY <2>8, <1>3, CallsAfter
    <3>2. handling[q] = "append_alert" BY <2>8, <1>3, CallsAfter
    <3>3. q = p BY <3>1, <3>2, <2>1, <1>3, NothingBeside
    <3>4. Marking(rest) BY <3>3, <2>9
    <3>5. rest[1] \in EventCalls /\ rest[1] \in CandidateCallSet /\ rest[1] \in Range(rest)
      <4>1. rest[1] \in EventCalls BY <2>1, <2>6
      <4> QED BY <4>1, <2>7 DEF CandidateCallSet
    <3> QED BY <3>4, <3>5, CallKinds DEF Marking
  <2>16. ListsHold' BY <2>8, <1>2, ListsStay
  <2> QED BY <2>10, <2>11, <2>12, <2>13, <2>14, <2>15, <2>16 DEF CandidateInv
<1> QED BY <1>2, <1>5, <1>6

\* save_response_event: an event that is closed stays closed.
LEMMA save_response_eventKeeps ==
  ASSUME CandidateInv, CandidateAssumption, NEW p \in Threads, save_response_event(p),
         disturbed' = disturbed \cup Accidents
  PROVE  CandidateInv'
<1>1. PICK call : call = Head(candidateCalls[p]) OBVIOUS
<1>2. /\ candidateCalls[p] # <<>> /\ call.kind = "event"
      /\ responseEvent' = call.row /\ Continue(p, Rest(p))
      /\ UNCHANGED <<alerts, registry, registryHistory, object, runs, lists,
                     drafts, lapsed, runIds, stops>>
  BY <1>1 DEF save_response_event, Next_call, Same
<1>3. /\ CandidateTypes /\ CallsAreOrdered /\ RegistryIsOnRecord /\ StoredOK /\ CallsOK
      /\ Apart /\ ListsHold /\ stops \in Nat
  BY DEF CandidateInv, CandidateTypes
<1>4. call \in EventCalls /\ call \in Waiting(p) BY <1>1, <1>2, <1>3, NextCall, CallKinds
<1>5. \/ /\ handling[p] = "append_alert" /\ ~Marking(candidateCalls[p])
         /\ Len(candidateCalls[p]) = 2 /\ candidateCalls[p][2] \in StalingCalls
         /\ ~call.row.closed /\ call.row.alert <= Len(alerts)
      \/ /\ handling[p] = "close_event" /\ Len(candidateCalls[p]) = 1
         /\ call.row.closed /\ call.row.alert <= Len(alerts)
  BY <1>1, <1>2, <1>3, <1>4, WhoseCall
<1>6. PICK rest \in Seq(CandidateCallSet) : rest = Rest(p) BY <1>2, <1>3, NextCall
<1>7. /\ Range(rest) \subseteq Waiting(p) /\ Len(rest) = Len(candidateCalls[p]) - 1
      /\ \A i \in 1..(Len(candidateCalls[p]) - 1) : rest[i] = candidateCalls[p][i + 1]
  BY <1>2, <1>3, <1>6, NextCall
<1>8. GoneOn(p, rest)
  <2>1. \A r \in Range(runs') : \E k \in KnownRuns : k.id = r.id /\ k.screened = r.screened
    BY <1>2 DEF KnownRuns
  <2>2. Len(alerts') \in Nat /\ Len(alerts) <= Len(alerts')
    BY <1>2, <1>3, LenProperties DEF CandidateTypes
  <2>3. Continue(p, rest) BY <1>2, <1>6
  <2> QED BY <2>1, <2>2, <2>3, <1>2, <1>3, <1>7, GoesAlong
<1>9. Moved(p, rest) /\ handling'[p] = IF rest = <<>> THEN "none" ELSE handling[p]
  BY <1>8 DEF GoneOn
<1>10. handling[p] = "append_alert" =>
         Len(rest) = 1 /\ rest[1] \in StalingCalls /\ rest # <<>> /\ rest[1] \in Range(rest)
  <2> SUFFICES ASSUME handling[p] = "append_alert"
               PROVE  Len(rest) = 1 /\ rest[1] \in StalingCalls /\ rest # <<>> /\ rest[1] \in Range(rest)
    OBVIOUS
  <2>1. Len(candidateCalls[p]) = 2 /\ candidateCalls[p][2] \in StalingCalls BY <1>5
  <2>2. Len(rest) = 1 /\ rest[1] = candidateCalls[p][2] BY <2>1, <1>7
  <2>3. rest # <<>> /\ rest[1] \in Range(rest) BY <2>2, <1>6, SomeLeft
  <2> QED BY <2>1, <2>2, <2>3
<1>11. handling[p] = "close_event" => rest = <<>> /\ handling'[p] = "none"
  <2> SUFFICES ASSUME handling[p] = "close_event" PROVE rest = <<>> /\ handling'[p] = "none"
    OBVIOUS
  <2>1. Len(candidateCalls[p]) = 1 BY <1>5
  <2>2. Len(rest) = 0 BY <2>1, <1>7
  <2>3. rest = <<>> BY <2>2, EmptySeq
  <2> QED BY <2>3, <1>9
<1>12. Ordered(handling'[p], rest)
  <2>1. CASE handling[p] = "append_alert"
    <3>1. handling'[p] = "append_alert" BY <2>1, <1>9, <1>10
    <3>2. Revising(rest) BY <2>1, <1>10 DEF Revising
    <3> QED BY <3>1, <3>2, <2>1, <1>10 DEF Ordered, Decisions
  <2>2. CASE handling[p] = "close_event" BY <2>2, <1>11 DEF Ordered, Decisions
  <2> QED BY <2>1, <2>2, <1>5
<1>13. CallsAreOrdered' /\ CallsOK' /\ Apart' BY <1>8, <1>12, CallsStay
<1>14. CandidateTypes'
  <2>1. responseEvent' \in EventRows BY <1>2, <1>4, CallParts
  <2> QED BY <2>1, <1>2, <1>3, <1>9 DEF CandidateTypes, Moved
<1>15. RegistryIsOnRecord' BY <1>2, <1>3 DEF RegistryIsOnRecord
<1>16. StoredOK'
  <2>1. responseEvent'.alert \in 1..Len(alerts')
    <3>1. PICK a \in Nat : a = call.row.alert /\ a >= 1
      BY <1>3, <1>4, CallParts DEF CallsOK, CandidateCallOK
    <3>2. PICK n \in Nat : n = Len(alerts) BY <1>3, LenProperties DEF CandidateTypes
    <3>3. a <= n BY <3>1, <3>2, <1>5
    <3> QED BY <3>1, <3>2, <3>3, <1>2
  <2>2. /\ \A r \in Range(runs') : r.id <= runIds'
        /\ \A l \in Range(lists') : AreConfirmed(l.rows)
        /\ \A d \in drafts' : IsGrounded(d)
    BY <1>2, <1>3 DEF StoredOK
  <2>3. Growing BY <1>8 DEF GoneOn
  <2>4. \A o \in Objects : object'[o] = object[o] BY <1>2
  <2> QED BY <2>1, <2>2, <2>3, <2>4, StoredStays
<1>17. RunsAreFresh'
  <2>1. ClosedForGood => ClosedForGood'
    <3>1. ASSUME ClosedForGood PROVE responseEvent'.closed BY <3>1, <1>2, <1>5 DEF ClosedForGood
    <3> QED BY <3>1, <1>3, <1>8, ClosedStays
  <2> QED BY <2>1, <1>2, <1>8, RunsStay
<1>18. ConfirmationsFollow'
  <2>1. CASE handling[p] = "close_event" BY <2>1, <1>2, <1>8, ConfirmationsStay
  <2>2. CASE handling[p] = "append_alert"
    <3>0. handling'[p] = "append_alert" /\ candidateCalls'[p] = rest
      BY <2>2, <1>9, <1>10 DEF Moved
    <3>1. rest[1] \in StalingCalls /\ rest[1] \in CandidateCallSet /\ rest[1] \in Range(rest)
      BY <2>2, <1>10 DEF CandidateCallSet
    <3> SUFFICES ASSUME {"cut off", "alert beside"} \cap disturbed' = {},
                        NEW q \in Threads, handling'[q] = "append_alert",
                        Marking(candidateCalls'[q])
                 PROVE  FALSE
      <4>1. candidateCalls'[p][1] \notin AlertCalls BY <3>0, <3>1, CallKinds
      <4> QED BY <4>1, <3>0, Zenon DEF ConfirmationsFollow, Marking
    <3>2. "alert beside" \notin disturbed BY <1>3, <1>8, CallsAfter
    <3>3. handling[q] = "append_alert" BY <1>3, <1>8, CallsAfter
    <3>4. q = p BY <3>2, <3>3, <2>2, <1>3, NothingBeside
    <3>5. Marking(rest) BY <3>0, <3>4
    <3> QED BY <3>1, <3>5, CallKinds DEF Marking
  <2> QED BY <2>1, <2>2, <1>5
<1>19. ListsHold'
  <2>1. ASSUME "alert beside" \notin disturbed', responseEvent'.closed
        PROVE  \A q \in Threads : handling'[q] # "append_alert"
    <3>1. "alert beside" \notin disturbed BY <2>1, <1>3, <1>8, CallsAfter
    <3>2. handling[p] = "close_event" BY <2>1, <1>2, <1>5
    <3>3. ASSUME NEW q \in Threads PROVE handling[q] # "append_alert"
      <4>1. handling[p] \notin {"none", "import_risk_object_registry"} BY <3>2
      <4>2. handling[q] = "append_alert" => q # p BY <3>2
      <4> QED BY <3>1, <4>1, <4>2, <1>3, Zenon DEF Apart
    <3> QED BY <3>3, <1>3, <1>8, CallsAfter
  <2>2. ASSUME disturbed' = {}, ~responseEvent'.closed
        PROVE  /\ \A l \in Range(lists) : ListHolds(l)'
               /\ \A q \in Threads : \A c \in Waiting(q)' :
                    /\ c \in ListCalls => ListHolds(c.list)'
                    /\ c \in ImportCalls =>
                         /\ \A o \in DOMAIN c.records :
                              OnRecord(o) /\ ~object[o].stale => o \in DOMAIN c.rows
                         /\ \A o \in DOMAIN c.rows : c.rows[o].version = object[o].version + 1
    <3>1. disturbed = {} BY <2>2, <1>3, <1>8, CallsAfter
    <3>2. handling[p] = "append_alert" BY <2>2, <1>2, <1>5
    <3>3. OpenEvent
      <4>1. "alert beside" \notin disturbed BY <3>1
      <4> QED BY <4>1, <3>2, <1>3, Zenon DEF ListsHold, OpenEvent
    <3>4. /\ \A l \in Range(lists) : ListHolds(l)
          /\ \A q \in Threads : \A c \in Waiting(q) :
               /\ c \in ListCalls => ListHolds(c.list)
               /\ c \in ImportCalls =>
                    /\ \A o \in DOMAIN c.records :
                         OnRecord(o) /\ ~object[o].stale => o \in DOMAIN c.rows
                    /\ \A o \in DOMAIN c.rows : c.rows[o].version = object[o].version + 1
      BY <3>1, <3>3, <1>3, Zenon DEF ListsHold
    <3>5. \A l \in ListRecords : ListHolds(l) => ListHolds(l)'
      <4>1. Range(rest) \subseteq CandidateCallSet BY <1>6, InRange
      <4> QED BY <4>1, <1>2, <1>3, <1>7, <1>9, ListStays
    <3>6. \A l \in Range(lists) : l \in ListRecords BY <1>3, InRange DEF CandidateTypes
    <3>7. ASSUME NEW q \in Threads, NEW c \in Waiting(q)'
          PROVE  /\ c \in ListCalls => ListHolds(c.list)'
                 /\ c \in ImportCalls =>
                      /\ \A o \in DOMAIN c.records :
                           OnRecord(o) /\ ~object[o].stale => o \in DOMAIN c.rows
                      /\ \A o \in DOMAIN c.rows : c.rows[o].version = object[o].version + 1
      <4>1. c \in Waiting(q) \/ (c \in VersionCalls /\ c \in CandidateCallSet)
        BY <1>3, <1>8, CallsAfter
      <4>2. CASE c \in Waiting(q) BY <4>2, <3>4, <3>5, CallParts
      <4>3. CASE c \in VersionCalls /\ c \in CandidateCallSet BY <4>3, CallKinds
      <4> QED BY <4>1, <4>2, <4>3
    <3> QED BY <3>4, <3>5, <3>6, <3>7
  <2> QED BY <2>1, <2>2, <1>2, Zenon DEF ListsHold, OpenEvent, OnRecord
<1> QED BY <1>13, <1>14, <1>15, <1>16, <1>17, <1>18, <1>19 DEF CandidateInv

(***************************************************************************)
(* Candidate objects: a row written, and an import committed.              *)
(***************************************************************************)
\* The first of a sequence that has one.
LEMMA FirstInRange ==
  ASSUME NEW S, NEW s \in Seq(S), s # <<>>
  PROVE  s[1] \in Range(s) /\ s[1] \in S
<1>1. s[1] \in Range(s) BY HeadAndRest
<1>2. Range(s) \subseteq S BY InRange
<1> QED BY <1>1, <1>2

\* The calls left after a row is written.
LEMMA AfterWrite ==
  ASSUME CandidateTypes, CallsAreOrdered, NEW p \in Threads, candidateCalls[p] # <<>>,
         NEW calls, calls = Rest(p) \/ \E c \in VersionCalls : calls = <<c>> \o Rest(p),
         handling'[p] = IF calls = <<>> THEN "none" ELSE handling[p],
         \/ handling[p] = "append_alert" /\ Marking(candidateCalls[p])
         \/ handling[p] \in Decisions
  PROVE  /\ calls \in Seq(CandidateCallSet)
         /\ \A c \in Range(calls) : c \in Waiting(p) \/ c \in VersionCalls
         /\ \A c \in Range(Rest(p)) : c \in Range(calls)
         /\ Ordered(handling'[p], calls)
         /\ handling[p] = "append_alert" => Marking(calls)
<1>1. /\ Rest(p) \in Seq(CandidateCallSet) /\ Range(Rest(p)) \subseteq Waiting(p)
  BY NextCall
<1>2. CASE calls = Rest(p)
  <2>1. Ordered(handling'[p], Rest(p)) /\ (handling[p] = "append_alert" => Marking(Rest(p)))
    <3>1. handling[p] = "append_alert" => Marking(candidateCalls[p]) BY DEF Decisions
    <3> QED BY <3>1, <1>2, RestOrdered
  <2> QED BY <2>1, <1>1, <1>2
<1>3. CASE \E c \in VersionCalls : calls = <<c>> \o Rest(p)
  <2>1. PICK v \in VersionCalls : calls = <<v>> \o Rest(p) BY <1>3
  <2>2. v \in CandidateCallSet /\ v \in DecisionCalls /\ v \notin AddCalls
    <3>1. v \in CandidateCallSet /\ v \in DecisionCalls
      BY DEF CandidateCallSet, DecisionCalls
    <3> QED BY <3>1, CallKinds
  <2>3. PICK rest \in Seq(CandidateCallSet) : rest = Rest(p) BY <1>1
  <2>4. /\ calls \in Seq(CandidateCallSet) /\ calls # <<>> /\ Len(calls) = Len(rest) + 1
        /\ \A i \in 1..Len(rest) : calls[i + 1] = rest[i]
        /\ Range(calls) = {v} \cup Range(rest)
    BY <2>1, <2>2, <2>3, PutInFront
  <2>5. handling'[p] = handling[p] BY <2>4
  <2>6. ASSUME handling[p] = "append_alert", Marking(candidateCalls[p])
        PROVE  Ordered(handling'[p], calls) /\ Marking(calls)
    <3>1. Marking(calls) BY <2>3, <2>4, <2>6, <1>1 DEF Marking, Waiting
    <3>2. Len(calls) > 0
      <4>1. PICK n \in Nat : n = Len(calls) /\ n # 0 BY <2>4, EmptySeq
      <4>2. n > 0 BY <4>1
      <4> QED BY <4>1, <4>2, Zenon
    <3> QED BY <3>1, <3>2, <2>4, <2>5, <2>6 DEF Ordered, Revising, Decisions
  <2>7. ASSUME handling[p] \in Decisions PROVE Ordered(handling'[p], calls)
    <3>1. Ordered(handling[p], candidateCalls[p]) BY DEF CallsAreOrdered
    <3>2. /\ \A c \in Waiting(p) : c \in DecisionCalls
          /\ (\E c \in Waiting(p) : c \in AddCalls /\ c.run # Manual) =>
               candidateCalls[p][Len(candidateCalls[p])] \in RunCalls
      BY <3>1, <2>7, Zenon DEF Ordered, Waiting
    <3>3. \A c \in Range(calls) : c \in DecisionCalls BY <3>2, <2>2, <2>3, <2>4, <1>1
    <3>4. ASSUME NEW c \in Range(calls), c \in AddCalls, c.run # Manual
          PROVE  calls[Len(calls)] \in RunCalls
      <4>1. c \in Range(rest) BY <3>4, <2>2, <2>4
      <4>2. rest # <<>> BY <4>1, NoneInRange
      <4>3. PICK next \in Seq(CandidateCallSet) : next = candidateCalls[p]
        BY DEF CandidateTypes
      <4>4. rest[Len(rest)] \in RunCalls
        <5>1. c \in Waiting(p) BY <4>1, <2>3, <1>1
        <5>2. next[Len(next)] \in RunCalls BY <5>1, <3>2, <3>4, <4>3
        <5>3. PICK n \in Nat : n = Len(next) /\ n >= 1 BY <4>3, NextCall
        <5>4. /\ Len(rest) = n - 1
              /\ \A i \in 1..(n - 1) : rest[i] = next[i + 1]
          BY <2>3, <4>3, <5>3, NextCall
        <5>5. n - 1 # 0
          <6>1. Len(rest) # 0 BY <4>2, <2>3, EmptySeq
          <6> QED BY <6>1, <5>4, Zenon
        <5>6. \A k \in Nat : k >= 1 /\ k - 1 # 0 => k - 1 \in 1..(k - 1) /\ (k - 1) + 1 = k
          BY Z3
        <5>7. n - 1 \in 1..(n - 1) /\ (n - 1) + 1 = n BY <5>3, <5>5, <5>6, Zenon
        <5>8. rest[n - 1] = next[n] BY <5>4, <5>7, Zenon
        <5> QED BY <5>2, <5>3, <5>4, <5>8, Zenon
      <4>5. Len(rest) \in 1..Len(rest)
        <5>1. Len(rest) \in Nat \ {0} BY <4>2, <2>3, EmptySeq
        <5> QED BY <5>1
      <4>6. calls[Len(rest) + 1] = rest[Len(rest)] BY <4>5, <2>4
      <4> QED BY <4>4, <4>6, <2>4
    <3>5. handling'[p] \in Decisions /\ handling'[p] \notin {"none", "append_alert",
             "close_event", "import_risk_object_registry"}
      BY <2>5, <2>7 DEF Decisions
    <3> QED BY <3>3, <3>4, <3>5, <2>4, Zenon DEF Ordered
  <2>8. handling[p] \in Decisions => handling[p] # "append_alert" BY DEF Decisions
  <2>9. /\ Ordered(handling'[p], calls)
        /\ handling[p] = "append_alert" => Marking(calls)
    BY <2>6, <2>7, <2>8, Zenon
  <2>10. /\ \A c \in Range(calls) : c \in Waiting(p) \/ c \in VersionCalls
         /\ \A c \in Range(Rest(p)) : c \in Range(calls)
    BY <2>3, <2>4, <1>1
  <2> QED BY <2>4, <2>9, <2>10
<1> QED BY <1>2, <1>3

\* A row not written over a newer one is not brought back where it is out of date.
LEMMA ListAfterWrite ==
  ASSUME CandidateTypes, NEW p \in Threads, NEW calls, GoneOn(p, calls),
         registry' = registry, NEW o \in Objects, NEW row \in Rows,
         object' = [object EXCEPT ![o] = row], ~(row.version < object[o].version),
         \E c \in Waiting(p) : c \in ObjectCalls /\ c.object = o /\ c.row = row,
         NEW l \in ListRecords, ListHolds(l)
  PROVE  ListHolds(l)'
<1> SUFFICES ASSUME NEW x \in DOMAIN l.rows
             PROVE  /\ l.rows[x].version <= object'[x].version
                    /\ l.rows[x].run # Manual /\ l.rows[x].content # "profile" =>
                         l.rows[x].content = registry[x].content \/ Outdated(x, l.rows[x])'
  BY Zenon DEF ListHolds
<1>1. x \in Objects /\ l.rows[x] \in Rows BY ListParts
<1>2. PICK v \in Nat, w \in Nat : v = l.rows[x].version /\ w = object[x].version
  BY <1>1, RowsFromRows DEF CandidateTypes
<1>3. v <= w BY <1>2 DEF ListHolds
<1>4. object'[x] = IF x = o THEN row ELSE object[x] BY <1>1 DEF CandidateTypes
<1>5. PICK u \in Nat : u = row.version BY RowsFromRows
<1>6. l.rows[x].version <= object'[x].version
  <2>1. CASE x = o
    <3>1. u >= w BY <2>1, <1>2, <1>5
    <3>2. v <= u BY <3>1, <1>3
    <3> QED BY <3>2, <2>1, <1>2, <1>4, <1>5
  <2>2. CASE x # o BY <2>2, <1>2, <1>3, <1>4
  <2> QED BY <2>1, <2>2
<1>7. ASSUME Outdated(x, l.rows[x]) PROVE Outdated(x, l.rows[x])'
  <2>1. object'[x] # l.rows[x]
    <3>1. CASE x = o
      <4>1. u > v BY <3>1, <1>2, <1>5, <1>7 DEF Outdated
      <4>2. u # v BY <4>1
      <4> QED BY <4>2, <3>1, <1>2, <1>4, <1>5
    <3>2. CASE x # o BY <3>2, <1>4, <1>7 DEF Outdated
    <3> QED BY <3>1, <3>2
  <2>2. ASSUME NEW q \in Threads, NEW c \in Waiting(q)'
        PROVE  /\ c \in ObjectCalls /\ c.object = x => c.row.version > l.rows[x].version
               /\ c \in ImportCalls /\ x \in DOMAIN c.rows => c.rows[x].version > l.rows[x].version
    <3>1. c \in Waiting(q) \/ (c \in VersionCalls /\ c \in CandidateCallSet) BY CallsAfter
    <3>2. CASE c \in Waiting(q) BY <3>2, <1>7, Zenon DEF Outdated
    <3>3. CASE c \in VersionCalls /\ c \in CandidateCallSet BY <3>3, CallKinds
    <3> QED BY <3>1, <3>2, <3>3
  <2> QED BY <2>1, <2>2, Zenon DEF Outdated
<1> QED BY <1>6, <1>7, Zenon DEF ListHolds

\* save_event_risk_object: a row marked is one less to mark, and one written
\* over a newer one is on record.
LEMMA save_event_risk_objectKeeps ==
  ASSUME CandidateInv, CandidateAssumption, NEW p \in Threads, save_event_risk_object(p),
         disturbed' = disturbed \cup Accidents
  PROVE  CandidateInv'
<1>1. PICK call : call = Head(candidateCalls[p]) OBVIOUS
<1>2. PICK calls : calls = IF call.versioned
                           THEN <<VersionWrite(call.object, call.row)>> \o Rest(p) ELSE Rest(p)
  OBVIOUS
<1>3. /\ candidateCalls[p] # <<>> /\ call.kind = "object"
      /\ object' = [object EXCEPT ![call.object] = call.row] /\ Continue(p, calls)
      /\ UNCHANGED <<responseEvent, alerts, registry, registryHistory, runs, lists,
                     drafts, lapsed, runIds, stops>>
  BY <1>1, <1>2 DEF save_event_risk_object, Next_call, Same
<1>4. /\ CandidateTypes /\ CallsAreOrdered /\ RegistryIsOnRecord /\ StoredOK /\ CallsOK
      /\ Apart /\ ConfirmationsFollow /\ ListsHold /\ object \in [Objects -> Rows]
  BY DEF CandidateInv, CandidateTypes
<1>5. call \in ObjectCalls /\ call \in Waiting(p) BY <1>1, <1>3, <1>4, NextCall, CallKinds
<1>6. PICK o \in Objects, row \in Rows : o = call.object /\ row = call.row BY <1>5, CallParts
<1>7. object' = [object EXCEPT ![o] = row] /\ object' \in [Objects -> Rows]
      /\ \A x \in Objects : object'[x] = IF x = o THEN row ELSE object[x]
  <2>1. object' = [object EXCEPT ![o] = row] BY <1>3, <1>6
  <2> QED BY <2>1, <1>4
<1>8. RowOK(o, row) BY <1>4, <1>5, <1>6 DEF CallsOK, CandidateCallOK
<1>9. \/ handling[p] = "append_alert" /\ Marking(candidateCalls[p])
      \/ handling[p] \in Decisions
  BY <1>1, <1>3, <1>4, <1>5, WhoseCall
<1>10. calls = Rest(p) \/ \E c \in VersionCalls : calls = <<c>> \o Rest(p)
  <2>1. VersionWrite(o, row) \in VersionCalls
    <3>1. row.version \in Nat BY RowsFromRows
    <3> QED BY <3>1 DEF VersionWrite, VersionCalls
  <2> QED BY <2>1, <1>2, <1>6
<1>11. handling'[p] = IF calls = <<>> THEN "none" ELSE handling[p]
  <2>1. handling \in [Threads -> HandlerNames] BY <1>4 DEF CandidateTypes
  <2> QED BY <2>1, <1>3 DEF Continue
<1>12. /\ calls \in Seq(CandidateCallSet)
       /\ \A c \in Range(calls) : c \in Waiting(p) \/ c \in VersionCalls
       /\ \A c \in Range(Rest(p)) : c \in Range(calls)
       /\ Ordered(handling'[p], calls)
       /\ handling[p] = "append_alert" => Marking(calls)
  BY <1>3, <1>4, <1>9, <1>10, <1>11, AfterWrite
<1>13. GoneOn(p, calls)
  <2>1. \A r \in Range(runs') : \E k \in KnownRuns : k.id = r.id /\ k.screened = r.screened
    BY <1>3 DEF KnownRuns
  <2>2. Len(alerts') \in Nat /\ Len(alerts) <= Len(alerts')
    BY <1>3, <1>4, LenProperties DEF CandidateTypes
  <2> QED BY <2>1, <2>2, <1>3, <1>4, <1>12, GoesAlong
<1>14. CallsAreOrdered' /\ CallsOK' /\ Apart' BY <1>12, <1>13, CallsStay
<1>15. CandidateTypes' BY <1>3, <1>4, <1>7, <1>13 DEF CandidateTypes, GoneOn, Moved
<1>16. RegistryIsOnRecord' BY <1>3, <1>4 DEF RegistryIsOnRecord
<1>17. StoredOK'
  <2>1. /\ responseEvent'.alert \in 1..Len(alerts')
        /\ \A r \in Range(runs') : r.id <= runIds'
        /\ \A l \in Range(lists') : AreConfirmed(l.rows)
        /\ \A d \in drafts' : IsGrounded(d)
    BY <1>3, <1>4 DEF StoredOK
  <2>2. Growing BY <1>13 DEF GoneOn
  <2>3. \A x \in Objects : object'[x] = object[x] \/ \E r : r = object'[x] /\ RowOK(x, r)
    BY <1>7, <1>8
  <2> QED BY <2>1, <2>2, <2>3, StoredStays
<1>18. RunsAreFresh'
  <2>1. ClosedForGood => ClosedForGood'
    BY <1>3, <1>4, <1>13, ClosedStays DEF ClosedForGood
  <2> QED BY <2>1, <1>3, <1>13, RunsStay
<1>19. ConfirmationsFollow'
  <2> SUFFICES ASSUME {"cut off", "alert beside"} \cap disturbed' = {}
               PROVE  /\ (\A q \in Threads : handling'[q] = "append_alert" =>
                                              candidateCalls'[q][1] \in AlertCalls) =>
                           \A x \in Objects : OfLatest(object'[x])
                      /\ (\A q \in Threads : handling'[q] # "append_alert") =>
                           \A q \in Threads : \A c \in Waiting(q)' :
                             c \in ObjectCalls => OfLatest(c.row)
                      /\ \A q \in Threads :
                           handling'[q] = "append_alert" /\ Marking(candidateCalls'[q]) =>
                             \A x \in Objects : object'[x].status = "confirmed" /\ ~object'[x].stale =>
                               \E c \in Waiting(q)' : c \in ObjectCalls /\ c.object = x
    <3>1. \A r : OfLatest(r)' <=> OfLatest(r) BY <1>3 DEF OfLatest
    <3>2. \A x : OfLatest(object[x])' <=> OfLatest(object'[x]) BY <1>3 DEF OfLatest
    <3> QED BY <3>1, <3>2, Zenon DEF ConfirmationsFollow, Frozenable, Marking
  <2>1. {"cut off", "alert beside"} \cap disturbed = {} BY <1>4, <1>13, CallsAfter
  <2>2. CASE handling[p] = "append_alert"
    <3>1. Marking(candidateCalls[p]) /\ Marking(calls) BY <2>2, <1>9, <1>12 DEF Decisions
    <3>2. row.stale
      <4>1. call \in CandidateCallSet BY <1>4, <1>5, WaitingCalls
      <4>2. call \notin VersionCalls BY <4>1, <1>5, CallKinds
      <4> QED BY <4>2, <3>1, <1>5, <1>6 DEF Marking, Waiting
    <3>3. "alert beside" \notin disturbed BY <2>1
    <3>4. \A q \in Threads : q # p =>
            handling[q] # "append_alert" /\ \A c \in Waiting(q) : c \in ImportCalls
      BY <2>2, <3>3, <1>4, NothingBeside
    <3>5. ASSUME NEW x \in Objects, object'[x].status = "confirmed", ~object'[x].stale
          PROVE  \E c \in Waiting(p)' : c \in ObjectCalls /\ c.object = x
      <4>1. x # o /\ object'[x] = object[x] BY <3>2, <3>5, <1>7
      <4>2. Frozenable(x) BY <4>1, <3>5 DEF Frozenable
      <4>3. PICK c \in Waiting(p) : c \in ObjectCalls /\ c.object = x
        BY <4>2, <3>1, <2>1, <2>2, <1>4, Zenon DEF ConfirmationsFollow
      <4>4. c # call BY <4>1, <4>3, <1>6
      <4>5. c \in Range(Rest(p)) BY <4>4, <1>1, <1>3, <1>4, NextCall
      <4>6. c \in Waiting(p)' BY <4>5, <1>4, <1>12, <1>13, CallsAfter
      <4> QED BY <4>3, <4>6
    <3>6. ASSUME calls = <<>> PROVE \A x \in Objects : OfLatest(object'[x])
      <4>1. \A x \in Objects : ~(object'[x].status = "confirmed" /\ ~object'[x].stale)
        <5>1. Waiting(p)' = {} BY <3>6, <1>4, <1>13, CallsAfter, NoneInRange
        <5> QED BY <5>1, <3>5
      <4> QED BY <4>1 DEF OfLatest
    <3>7. calls # <<>> => handling'[p] = "append_alert" /\ candidateCalls'[p][1] \notin AlertCalls
      <4> SUFFICES ASSUME calls # <<>>
                   PROVE  handling'[p] = "append_alert" /\ candidateCalls'[p][1] \notin AlertCalls
        OBVIOUS
      <4>1. calls[1] \in Range(calls) /\ calls[1] \in CandidateCallSet
        <5>0. calls \in Seq(CandidateCallSet) /\ calls # <<>> BY <1>12
        <5> QED BY <5>0, FirstInRange, Zenon
      <4>2. calls[1] \notin AlertCalls BY <4>1, <3>1, CallKinds DEF Marking
      <4> QED BY <4>2, <2>2, <1>11, <1>13 DEF GoneOn, Moved
    <3>8. ASSUME NEW q \in Threads, handling'[q] = "append_alert"
          PROVE  q = p
      <4>1. handling[q] = "append_alert" BY <3>8, <1>4, <1>13, CallsAfter
      <4> QED BY <4>1, <3>4
    <3>9. ASSUME calls = <<>>, NEW q \in Threads, NEW c \in Waiting(q)', c \in ObjectCalls
          PROVE  FALSE
      <4>1. q # p BY <3>9, <1>4, <1>13, CallsAfter, NoneInRange
      <4>2. c \in Waiting(q) BY <4>1, <3>9, <1>4, <1>13, CallsAfter
      <4>3. c \in ImportCalls /\ c \in CandidateCallSet BY <4>1, <4>2, <3>4, <1>4, WaitingCalls
      <4> QED BY <4>3, <3>9, CallKinds
    <3> QED BY <3>5, <3>6, <3>7, <3>8, <3>9
  <2>3. CASE handling[p] # "append_alert"
    <3>1. handling[p] \in Decisions BY <2>3, <1>9
    <3>2. ASSUME NEW q \in Threads PROVE handling[q] # "append_alert"
      <4>1. handling[p] \notin {"none", "import_risk_object_registry"} BY <3>1 DEF Decisions
      <4>2. handling[q] = "append_alert" => q # p BY <2>3
      <4>3. "alert beside" \notin disturbed BY <2>1
      <4> QED BY <4>1, <4>2, <4>3, <1>4, Zenon DEF Apart
    <3>3. /\ \A x \in Objects : OfLatest(object[x])
          /\ \A q \in Threads : \A c \in Waiting(q) : c \in ObjectCalls => OfLatest(c.row)
      BY <2>1, <3>2, <1>4, Zenon DEF ConfirmationsFollow
    <3>4. OfLatest(row) BY <3>3, <1>5, <1>6
    <3>5. \A x \in Objects : OfLatest(object'[x])
      <4> TAKE x \in Objects
      <4>1. CASE x = o BY <4>1, <3>4, <1>7, Zenon
      <4>2. CASE x # o
        <5>1. object'[x] = object[x] BY <4>2, <1>7
        <5> QED BY <5>1, <3>3
      <4> QED BY <4>1, <4>2
    <3>6. ASSUME NEW q \in Threads, NEW c \in Waiting(q)', c \in ObjectCalls
          PROVE  OfLatest(c.row)
      <4>1. c \notin VersionCalls /\ c \in Waiting(q) BY <3>6, <1>4, <1>13, CallsAfter, CallKinds
      <4> QED BY <4>1, <3>3, <3>6
    <3>7. \A q \in Threads : handling'[q] # "append_alert" BY <3>2, <1>4, <1>13, CallsAfter
    <3> QED BY <3>5, <3>6, <3>7
  <2> QED BY <2>2, <2>3
<1>20. ListsHold'
  <2>1. ASSUME "alert beside" \notin disturbed', responseEvent.closed
        PROVE  \A q \in Threads : handling'[q] # "append_alert"
    <3>1. "alert beside" \notin disturbed BY <2>1, <1>4, <1>13, CallsAfter
    <3>2. \A q \in Threads : handling[q] # "append_alert" BY <3>1, <2>1, <1>4, Zenon DEF ListsHold
    <3> QED BY <3>2, <1>4, <1>13, CallsAfter
  <2>2. ASSUME disturbed' = {}, OpenEvent
        PROVE  /\ \A l \in Range(lists) : ListHolds(l)'
               /\ \A q \in Threads : \A c \in Waiting(q)' :
                    /\ c \in ListCalls => ListHolds(c.list)'
                    /\ c \notin ImportCalls
    <3>1. disturbed = {} BY <2>2, <1>4, <1>13, CallsAfter
    <3>2. /\ \A l \in Range(lists) : ListHolds(l)
          /\ \A q \in Threads : \A c \in Waiting(q) : c \in ListCalls => ListHolds(c.list)
      BY <3>1, <2>2, <1>4, Zenon DEF ListsHold
    <3>3. ~(row.version < object[o].version)
      <4>1. ~Overwritten BY <2>2, <1>13 DEF GoneOn, Accidents
      <4>2. object'[o] = row BY <1>7
      <4> QED BY <4>1, <4>2 DEF Overwritten
    <3>4. \A l \in ListRecords : ListHolds(l) => ListHolds(l)'
      <4>1. \E c \in Waiting(p) : c \in ObjectCalls /\ c.object = o /\ c.row = row
        BY <1>5, <1>6
      <4>2. registry' = registry /\ object' = [object EXCEPT ![o] = row] BY <1>3, <1>7
      <4> TAKE l \in ListRecords
      <4> HAVE ListHolds(l)
      <4> QED BY <3>3, <4>1, <4>2, <1>4, <1>13, ListAfterWrite
    <3>5. \A l \in Range(lists) : l \in ListRecords BY <1>4, InRange DEF CandidateTypes
    <3>6. \A q \in Threads : \A c \in Waiting(q) : c \notin ImportCalls
      <4>1. "import beside" \notin disturbed BY <3>1
      <4>2. handling[p] \in Decisions \cup {"append_alert"} BY <1>9
      <4> QED BY <4>1, <4>2, <1>4, ImportAlone
    <3>7. ASSUME NEW q \in Threads, NEW c \in Waiting(q)'
          PROVE  (c \in ListCalls => ListHolds(c.list)') /\ c \notin ImportCalls
      <4>1. c \in Waiting(q) \/ (c \in VersionCalls /\ c \in CandidateCallSet)
        BY <1>4, <1>13, CallsAfter
      <4>2. CASE c \in Waiting(q) BY <4>2, <3>2, <3>4, <3>6, CallParts
      <4>3. CASE c \in VersionCalls /\ c \in CandidateCallSet BY <4>3, CallKinds
      <4> QED BY <4>1, <4>2, <4>3
    <3> QED BY <3>2, <3>4, <3>5, <3>7
  <2> QED BY <2>1, <2>2, <1>3, Zenon DEF ListsHold, OpenEvent
<1> QED BY <1>14, <1>15, <1>16, <1>17, <1>18, <1>19, <1>20 DEF CandidateInv

(***************************************************************************)
(* Candidate objects: the import of the registry is committed.             *)
(***************************************************************************)
\* An import that meets no version on record writes the next one of each record.
LEMMA NextVersions ==
  ASSUME CandidateTypes, RegistryIsOnRecord, NEW call \in ImportCalls, Imported(call),
         ~ImportConflict(call), NEW o \in DOMAIN call.records
  PROVE  /\ o \in Objects /\ call.records[o] \in RegistryRecords
         /\ call.records[o].version = registry[o].version + 1
         /\ call.records[o].content \in Masters
         /\ call.records[o].content # registry[o].content
<1>1. o \in Objects /\ call.records[o] \in RegistryRecords BY ImportParts
<1>2. PICK v \in Nat : v = registry[o].version
  BY <1>1 DEF CandidateTypes, RegistryRecords
<1>3. PICK n \in 1..(v + 1) : n = call.records[o].version BY <1>2 DEF Imported
<1>4. ~(n \in 1..v)
  <2>1. SUFFICES ASSUME n \in 1..v PROVE FALSE
    OBVIOUS
  <2>2. PICK h \in registryHistory : h.object = o /\ h.version = n
    BY <2>1, <1>1, <1>2 DEF RegistryIsOnRecord
  <2> QED BY <2>2, <1>3 DEF ImportConflict
<1>5. n = v + 1 BY <1>2, <1>3, <1>4
<1>6. call.records[o].version = registry[o].version + 1 BY <1>2, <1>3, <1>5
<1> QED BY <1>1, <1>6 DEF Imported

\* The next version of each record of an import, put on record.
LEMMA RegistryGrows ==
  ASSUME CandidateTypes, RegistryIsOnRecord, NEW records,
         \A o \in DOMAIN records : /\ o \in Objects /\ records[o] \in RegistryRecords
                                   /\ records[o].version = registry[o].version + 1
                                   /\ records[o].content \in Masters
                                   /\ records[o].content # registry[o].content,
         registry' = [o \in Objects |-> IF o \in DOMAIN records THEN records[o] ELSE registry[o]],
         registryHistory' = registryHistory \cup
           {[object |-> o, version |-> records[o].version,
             content |-> records[o].content] : o \in DOMAIN records}
  PROVE  /\ RegistryIsOnRecord'
         /\ registry' \in [Objects -> RegistryRecords]
         /\ registryHistory' \subseteq [object : Objects, version : Nat \ {0}, content : Masters]
<1>1. \A o \in Objects : registry[o] \in RegistryRecords /\ registry[o].version \in Nat
  BY DEF CandidateTypes, RegistryRecords
<1>2. \A o \in Objects : registry'[o] = IF o \in DOMAIN records THEN records[o] ELSE registry[o]
  OBVIOUS
<1>3. \A o \in Objects : registry'[o] \in RegistryRecords BY <1>1, <1>2
<1>4. registry' \in [Objects -> RegistryRecords] BY <1>3
<1> DEFINE Old(h) == h \in registryHistory
           New(h) == /\ h.object \in DOMAIN records
                     /\ h.version = registry[h.object].version + 1
                     /\ h.content = records[h.object].content
<1>5. ASSUME NEW h \in registryHistory'
      PROVE  /\ h \in [object : Objects, version : Nat \ {0}, content : Masters]
             /\ Old(h) \/ New(h)
  <2>1. CASE h \in registryHistory BY <2>1 DEF CandidateTypes
  <2>2. CASE h \notin registryHistory
    <3>1. PICK o \in DOMAIN records :
            h = [object |-> o, version |-> records[o].version, content |-> records[o].content]
      BY <2>2
    <3>2. PICK v \in Nat : v = registry[o].version BY <1>1
    <3>3. h.object = o /\ h.version = v + 1 /\ h.content = records[o].content
      BY <3>1, <3>2
    <3>4. v + 1 \in Nat \ {0} BY <3>2
    <3>5. records[o].version = v + 1 BY <3>2
    <3> QED BY <3>1, <3>2, <3>3, <3>4, <3>5
  <2> QED BY <2>1, <2>2
<1>6. ASSUME NEW h \in registryHistory'
      PROVE  /\ h \in [object : Objects, version : Nat \ {0}, content : Masters]
             /\ h.object \in Objects /\ h.version \in Nat
             /\ registry'[h.object].version \in Nat
             /\ h.version <= registry'[h.object].version
             /\ h.version = registry'[h.object].version => h.content = registry'[h.object].content
  <2>1. /\ h \in [object : Objects, version : Nat \ {0}, content : Masters]
        /\ Old(h) \/ New(h)
    BY <1>5
  <2>2. h.object \in Objects /\ h.version \in Nat BY <2>1
  <2>3. PICK o \in Objects, k \in Nat, v \in Nat :
          o = h.object /\ k = h.version /\ v = registry[o].version
    BY <2>2, <1>1
  <2>4. CASE New(h)
    <3>1. o \in DOMAIN records /\ k = v + 1 /\ h.content = records[o].content
      BY <2>3, <2>4
    <3>2. registry'[o] = records[o] /\ records[o].version = v + 1 BY <3>1, <2>3, <1>2
    <3>3. registry'[o].version \in Nat /\ k <= registry'[o].version
      BY <3>1, <3>2, <2>3
    <3> QED BY <2>1, <2>2, <2>3, <3>1, <3>2, <3>3
  <2>5. CASE Old(h)
    <3>1. k <= v /\ (k = v => h.content = registry[o].content)
      BY <2>3, <2>5 DEF RegistryIsOnRecord
    <3>2. CASE o \in DOMAIN records
      <4>1. registry'[o].version = v + 1 BY <3>2, <2>3, <1>2
      <4>2. v + 1 \in Nat /\ k <= v + 1 /\ k # v + 1 BY <3>1, <2>3
      <4> QED BY <2>1, <2>2, <2>3, <4>1, <4>2
    <3>3. CASE o \notin DOMAIN records
      <4>1. registry'[o] = registry[o] BY <3>3, <1>2
      <4> QED BY <2>1, <2>2, <2>3, <3>1, <4>1
    <3> QED BY <3>2, <3>3
  <2> QED BY <2>1, <2>4, <2>5
<1>7. ASSUME NEW o \in Objects, NEW n \in 1..registry'[o].version
      PROVE  \E h \in registryHistory' : h.object = o /\ h.version = n
  <2>1. PICK v \in Nat : v = registry[o].version BY <1>1
  <2>2. CASE n \in 1..v
    <3>1. PICK h \in registryHistory : h.object = o /\ h.version = n
      BY <2>1, <2>2 DEF RegistryIsOnRecord
    <3> QED BY <3>1
  <2>3. CASE ~(n \in 1..v)
    <3>1. o \in DOMAIN records
      <4>1. SUFFICES ASSUME o \notin DOMAIN records PROVE FALSE
        OBVIOUS
      <4>2. registry'[o].version = v BY <4>1, <2>1, <1>2
      <4> QED BY <4>2, <2>3
    <3>2. registry'[o].version = v + 1 BY <3>1, <2>1, <1>2
    <3>3. n = v + 1 BY <3>2, <2>1, <2>3
    <3>4. PICK h : h = [object |-> o, version |-> records[o].version,
                        content |-> records[o].content]
      OBVIOUS
    <3>5. h \in registryHistory' /\ h.object = o /\ h.version = n
      BY <3>1, <3>3, <3>4, <2>1
    <3> QED BY <3>5
  <2> QED BY <2>2, <2>3
<1>8. ASSUME NEW g \in registryHistory', NEW h \in registryHistory', g.object = h.object
      PROVE  /\ g.version = h.version => g = h
             /\ g.version = h.version + 1 => g.content # h.content
  <2>1. /\ g \in [object : Objects, version : Nat \ {0}, content : Masters]
        /\ h \in [object : Objects, version : Nat \ {0}, content : Masters]
        /\ Old(g) \/ New(g)
        /\ Old(h) \/ New(h)
    BY <1>5
  <2>2. PICK o \in Objects : o = g.object /\ o = h.object BY <2>1, <1>8
  <2>3. PICK i \in Nat, j \in Nat : i = g.version /\ j = h.version BY <2>1
  <2>4. PICK v \in Nat : v = registry[o].version BY <1>1
  <2>5. CASE Old(g) /\ Old(h) BY <2>5, <1>8 DEF RegistryIsOnRecord
  <2>6. CASE New(g) /\ New(h)
    <3>1. i = v + 1 /\ j = v + 1 /\ g.content = h.content BY <2>2, <2>3, <2>4, <2>6
    <3>2. i = j /\ i # j + 1 BY <3>1, <2>4
    <3>3. \A a, b \in [object : Objects, version : Nat \ {0}, content : Masters] :
            a.object = b.object /\ a.version = b.version /\ a.content = b.content => a = b
      OBVIOUS
    <3>4. g = h BY <3>1, <3>2, <3>3, <2>1, <2>2, <2>3
    <3> QED BY <3>2, <3>4, <2>3
  <2>7. CASE New(g) /\ Old(h)
    <3>1. i = v + 1 /\ g.content = records[o].content /\ o \in DOMAIN records
      BY <2>2, <2>3, <2>4, <2>7
    <3>2. j <= v /\ (j = v => h.content = registry[o].content)
      BY <2>2, <2>3, <2>4, <2>7 DEF RegistryIsOnRecord
    <3>3. i # j /\ (i = j + 1 => j = v) BY <3>1, <3>2, <2>3, <2>4
    <3>4. g.version # h.version BY <3>3, <2>3
    <3>5. g.version = h.version + 1 => g.content # h.content
      BY <3>1, <3>2, <3>3, <2>3
    <3> QED BY <3>4, <3>5
  <2>8. CASE Old(g) /\ New(h)
    <3>1. j = v + 1 BY <2>2, <2>3, <2>4, <2>8
    <3>2. i <= v BY <2>2, <2>3, <2>4, <2>8 DEF RegistryIsOnRecord
    <3>3. i # j /\ i # j + 1 BY <3>1, <3>2, <2>3, <2>4
    <3> QED BY <3>3, <2>3
  <2> QED BY <2>1, <2>5, <2>6, <2>7, <2>8
<1>9. RegistryIsOnRecord'
  <2>1. \A h \in registryHistory' : h.version <= registry'[h.object].version BY <1>6
  <2>2. \A h \in registryHistory' :
          h.version = registry'[h.object].version => h.content = registry'[h.object].content
    BY <1>6
  <2> QED BY <2>1, <2>2, <1>7, <1>8, Zenon DEF RegistryIsOnRecord
<1> QED BY <1>4, <1>6, <1>9

\* commit_risk_object_registry_import: runs and rows are stale with the records.
LEMMA commit_risk_object_registry_importKeeps ==
  ASSUME CandidateInv, CandidateAssumption, NEW p \in Threads,
         commit_risk_object_registry_import(p), disturbed' = disturbed \cup Accidents
  PROVE  CandidateInv'
<1>1. PICK call : call = Head(candidateCalls[p]) OBVIOUS
<1>2. /\ candidateCalls[p] # <<>> /\ call.kind = "import" /\ Continue(p, Rest(p))
      /\ UNCHANGED <<responseEvent, alerts, lists, drafts, lapsed, runIds, stops>>
  BY <1>1 DEF commit_risk_object_registry_import, Next_call, Same
<1>3. /\ CandidateTypes /\ CallsAreOrdered /\ RegistryIsOnRecord /\ StoredOK /\ CallsOK
      /\ Apart /\ RunsAreFresh /\ ConfirmationsFollow /\ ListsHold
      /\ object \in [Objects -> Rows] /\ runs \in Seq(RunRecords)
  BY DEF CandidateInv, CandidateTypes
<1>4. call \in ImportCalls /\ call \in Waiting(p) /\ call \in CandidateCallSet
  BY <1>1, <1>2, <1>3, NextCall, CallKinds
<1>5. handling[p] = "import_risk_object_registry" /\ Len(candidateCalls[p]) = 1
  BY <1>1, <1>2, <1>3, <1>4, WhoseCall
<1>6. CASE ImportConflict(call)
  <2>1. UNCHANGED <<registry, registryHistory, object, runs>>
    BY <1>1, <1>6 DEF commit_risk_object_registry_import
  <2>2. UNCHANGED <<responseEvent, alerts, registry, registryHistory, object, runs, lists,
                    drafts, lapsed, runIds, stops>>
    BY <2>1, <1>2
  <2>3. candidateCalls[p] # <<>> /\ Continue(p, Rest(p)) BY <1>2
  <2>4. handling[p] # "append_alert" BY <1>5
  <2>5. Head(candidateCalls[p]) \notin ObjectCalls BY <1>1, <1>2, <1>4, CallKinds
  <2> QED BY <2>2, <2>3, <2>4, <2>5, RestKeeps
<1>7. CASE ~ImportConflict(call)
  <2>1. /\ registry' = [o \in Objects |-> IF o \in DOMAIN call.records
                                          THEN call.records[o] ELSE registry[o]]
        /\ registryHistory' = registryHistory \cup
             {[object |-> o, version |-> call.records[o].version,
               content |-> call.records[o].content] : o \in DOMAIN call.records}
        /\ object' = [o \in Objects |-> IF o \in DOMAIN call.rows
                                        THEN call.rows[o] ELSE object[o]]
        /\ runs' = [i \in DOMAIN runs |-> IF runs[i].id \in call.runs
                                          THEN [runs[i] EXCEPT !.status = "stale"] ELSE runs[i]]
    BY <1>1, <1>7 DEF commit_risk_object_registry_import
  <2>2. Imported(call) BY <1>3, <1>4 DEF CallsOK, CandidateCallOK
  <2>3. \A o \in DOMAIN call.records : /\ o \in Objects /\ call.records[o] \in RegistryRecords
                                       /\ call.records[o].version = registry[o].version + 1
                                       /\ call.records[o].content \in Masters
                                       /\ call.records[o].content # registry[o].content
    BY <1>3, <1>4, <1>7, <2>2, NextVersions
  <2>4. /\ RegistryIsOnRecord' /\ registry' \in [Objects -> RegistryRecords]
        /\ registryHistory' \subseteq [object : Objects, version : Nat \ {0}, content : Masters]
    BY <1>3, <2>1, <2>3, RegistryGrows
  <2>5. \A o \in Objects :
          \/ registry'[o] = registry[o]
          \/ registry'[o] \in RegistryRecords /\ registry'[o].version = registry[o].version + 1
    BY <2>1, <2>3
  <2>6. /\ object' \in [Objects -> Rows]
        /\ \A o \in Objects : object'[o] = IF o \in DOMAIN call.rows
                                           THEN call.rows[o] ELSE object[o]
        /\ \A o \in DOMAIN call.rows : o \in Objects /\ call.rows[o] \in Rows
    <3>1. \A o \in DOMAIN call.rows : o \in Objects /\ call.rows[o] \in Rows
      BY <1>4, ImportParts
    <3>2. \A o \in Objects : (IF o \in DOMAIN call.rows THEN call.rows[o] ELSE object[o]) \in Rows
      BY <3>1, <1>3
    <3> QED BY <3>1, <3>2, <2>1
  <2>7. PICK n \in Nat : n = Len(runs) /\ DOMAIN runs = 1..n /\ \A i \in 1..n : runs[i] \in RunRecords
    BY <1>3, LenProperties, ElementOfSeq
  <2>8. ASSUME NEW r \in RunRecords
        PROVE  /\ [r EXCEPT !.status = "stale"] \in RunRecords
               /\ [r EXCEPT !.status = "stale"].id = r.id
               /\ [r EXCEPT !.status = "stale"].screened = r.screened
               /\ [r EXCEPT !.status = "stale"].status = "stale"
    BY DEF RunRecords
  <2>9. /\ runs' \in Seq(RunRecords)
        /\ \A r \in Range(runs') : \E k \in Range(runs) :
             /\ k \in RunRecords /\ k.id = r.id /\ k.screened = r.screened
             /\ r.status = "completed" => r = k /\ k.id \notin call.runs
    <3>1. \A i \in 1..n : (IF runs[i].id \in call.runs THEN [runs[i] EXCEPT !.status = "stale"]
                           ELSE runs[i]) \in RunRecords
      BY <2>7, <2>8
    <3>2. runs' \in [1..n -> RunRecords] BY <2>1, <2>7, <3>1
    <3>3. runs' \in Seq(RunRecords) BY <2>7, <3>2, SeqDef
    <3>4. \A i \in 1..n : runs[i] \in Range(runs) BY <1>3, <2>7, InRange
    <3>5. ASSUME NEW r \in Range(runs')
          PROVE  \E k \in Range(runs) :
                   /\ k \in RunRecords /\ k.id = r.id /\ k.screened = r.screened
                   /\ r.status = "completed" => r = k /\ k.id \notin call.runs
      <4>1. PICK i \in DOMAIN runs' : r = runs'[i] BY DEF Range
      <4>2. i \in 1..n BY <4>1, <3>2
      <4>3. PICK k \in RunRecords : k = runs[i] /\ k \in Range(runs) BY <4>2, <3>4, <2>7
      <4>4. r = IF k.id \in call.runs THEN [k EXCEPT !.status = "stale"] ELSE k
        BY <4>1, <4>2, <4>3, <2>1, <2>7
      <4>5. CASE k.id \in call.runs BY <4>3, <4>4, <4>5, <2>8
      <4>6. CASE k.id \notin call.runs BY <4>3, <4>4, <4>6
      <4> QED BY <4>5, <4>6
    <3> QED BY <3>3, <3>5
  <2>10. \A r \in Range(runs') : \E k \in KnownRuns : k.id = r.id /\ k.screened = r.screened
    BY <2>9 DEF KnownRuns
  <2>11. PICK calls \in Seq(CandidateCallSet) : calls = <<>> /\ calls = Rest(p)
    <3>1. Rest(p) \in Seq(CandidateCallSet) /\ Len(Rest(p)) = 0
      <4>1. /\ Rest(p) \in Seq(CandidateCallSet)
            /\ Len(Rest(p)) = Len(candidateCalls[p]) - 1
        BY <1>2, <1>3, NextCall
      <4> QED BY <4>1, <1>5
    <3>2. Rest(p) = <<>> BY <3>1, EmptySeq
    <3> QED BY <3>1, <3>2
  <2>12. Range(calls) = {} BY <2>11, NoneInRange
  <2>13. GoneOn(p, calls)
    <3>1. Continue(p, calls) BY <2>11, <1>2
    <3>2. registryHistory \subseteq registryHistory' BY <2>1
    <3>3. Len(alerts') \in Nat /\ Len(alerts) <= Len(alerts')
      BY <1>2, <1>3, LenProperties DEF CandidateTypes
    <3> QED BY <1>2, <1>3, <2>5, <2>10, <2>12, <3>1, <3>2, <3>3, GoesAlong
  <2>14. handling'[p] = "none" /\ Waiting(p)' = {}
    BY <1>3, <2>11, <2>12, <2>13, CallsAfter DEF GoneOn
  <2>15. Ordered(handling'[p], calls) BY <2>11, <2>14 DEF Ordered, Decisions
  <2>16. CallsAreOrdered' /\ CallsOK' /\ Apart' BY <2>13, <2>15, CallsStay
  <2>17. CandidateTypes' BY <1>2, <1>3, <2>4, <2>6, <2>9, <2>13 DEF CandidateTypes, GoneOn, Moved
  <2>18. StoredOK'
    <3>1. /\ responseEvent'.alert \in 1..Len(alerts')
          /\ \A l \in Range(lists') : AreConfirmed(l.rows)
          /\ \A d \in drafts' : IsGrounded(d)
      BY <1>2, <1>3 DEF StoredOK
    <3>2. \A r \in Range(runs') : r.id <= runIds'
      <4>1. \A k \in Range(runs) : k.id <= runIds' BY <1>2, <1>3 DEF StoredOK
      <4> QED BY <4>1, <2>9
    <3>3. Growing BY <2>13 DEF GoneOn
    <3>4. \A o \in Objects : object'[o] = object[o] \/ \E row : row = object'[o] /\ RowOK(o, row)
      BY <2>2, <2>6 DEF Imported
    <3> QED BY <3>1, <3>2, <3>3, <3>4, StoredStays
  <2>19. disturbed \subseteq disturbed'
         /\ \A q \in Threads : handling'[q] = "append_alert" => handling[q] = "append_alert" /\ q # p
    BY <1>3, <2>13, <2>14, CallsAfter
  <2>20. ASSUME "import beside" \notin disturbed', NEW q \in Threads, NEW c \in Waiting(q)'
         PROVE  c \notin RunCalls /\ c \notin ImportCalls /\ c \notin ListCalls /\ c \notin ObjectCalls
    <3>1. q # p /\ c \in Waiting(q) BY <2>14, <2>20, <1>3, <2>13, CallsAfter
    <3>2. "import beside" \notin disturbed BY <2>19, <2>20
    <3>3. c \in EventCalls BY <3>1, <3>2, <1>3, <1>5, ImportAlone
    <3>4. c \in CandidateCallSet BY <3>1, <1>3, WaitingCalls
    <3> QED BY <3>3, <3>4, CallKinds
  <2>21. RunsAreFresh'
    <3> SUFFICES ASSUME "import beside" \notin disturbed'
                 PROVE  ClosedForGood' \/ \A r \in Range(runs') : r.status # "completed"
      BY <2>20, Zenon DEF RunsAreFresh
    <3>1. "import beside" \notin disturbed BY <2>19
    <3>2. ClosedForGood \/ \A r \in Range(runs) : r.status = "completed" => r.id \in call.runs
      BY <3>1, <1>3, <1>4, Zenon DEF RunsAreFresh
    <3>3. CASE ClosedForGood
      <4>1. responseEvent'.closed BY <3>3, <1>2 DEF ClosedForGood
      <4> QED BY <4>1, <3>3, <1>3, <2>13, ClosedStays
    <3>4. CASE \A r \in Range(runs) : r.status = "completed" => r.id \in call.runs
      BY <3>4, <2>9
    <3> QED BY <3>2, <3>3, <3>4
  <2>22. \A o \in Objects : OfLatest(object[o]) => OfLatest(object'[o])
    BY <2>2, <2>6 DEF Imported, OfLatest
  <2>23. ConfirmationsFollow'
    <3>1. \A x : OfLatest(x)' <=> OfLatest(x) BY <1>2 DEF OfLatest
    <3>2. \A o : OfLatest(object[o])' <=> OfLatest(object'[o]) BY <1>2 DEF OfLatest
    <3> SUFFICES ASSUME {"cut off", "alert beside"} \cap disturbed' = {}
                 PROVE  /\ (\A q \in Threads : handling'[q] = "append_alert" =>
                                                candidateCalls'[q][1] \in AlertCalls) =>
                             \A x \in Objects : OfLatest(object'[x])
                        /\ (\A q \in Threads : handling'[q] # "append_alert") =>
                             \A q \in Threads : \A c \in Waiting(q)' :
                               c \in ObjectCalls => OfLatest(c.row)
                        /\ \A q \in Threads :
                             handling'[q] = "append_alert" /\ Marking(candidateCalls'[q]) =>
                               \A x \in Objects : object'[x].status = "confirmed" /\ ~object'[x].stale =>
                                 \E c \in Waiting(q)' : c \in ObjectCalls /\ c.object = x
      BY <3>1, <3>2, Zenon DEF ConfirmationsFollow, Frozenable, Marking
    <3>3. {"cut off", "alert beside"} \cap disturbed = {} BY <2>19
    <3>4. \A q \in Threads : q # p => /\ candidateCalls'[q] = candidateCalls[q]
                                      /\ handling'[q] = handling[q] /\ Waiting(q)' = Waiting(q)
      BY <2>13 DEF GoneOn, Moved, Waiting
    <3>5. ASSUME \A q \in Threads : handling'[q] = "append_alert" =>
                                       candidateCalls'[q][1] \in AlertCalls
          PROVE  \A x \in Objects : OfLatest(object'[x])
      <4>1. \A q \in Threads : handling[q] = "append_alert" => candidateCalls[q][1] \in AlertCalls
        BY <3>4, <3>5, <1>5
      <4>2. \A x \in Objects : OfLatest(object[x])
        BY <4>1, <3>3, <1>3, Zenon DEF ConfirmationsFollow
      <4> QED BY <4>2, <2>22
    <3>6. ASSUME \A q \in Threads : handling'[q] # "append_alert",
                 NEW q \in Threads, NEW c \in Waiting(q)', c \in ObjectCalls
          PROVE  OfLatest(c.row)
      <4>1. \A r \in Threads : handling[r] # "append_alert" BY <3>4, <3>6, <1>5
      <4>2. c \in Waiting(q) BY <3>4, <3>6, <2>14
      <4> QED BY <4>1, <4>2, <3>3, <3>6, <1>3, Zenon DEF ConfirmationsFollow
    <3>7. ASSUME NEW q \in Threads, handling'[q] = "append_alert", Marking(candidateCalls'[q]),
                 NEW x \in Objects, object'[x].status = "confirmed", ~object'[x].stale
          PROVE  \E c \in Waiting(q)' : c \in ObjectCalls /\ c.object = x
      <4>1. q # p BY <3>7, <2>19
      <4>2. handling[q] = "append_alert" /\ Marking(candidateCalls[q]) /\ Waiting(q)' = Waiting(q)
        BY <4>1, <3>4, <3>7
      <4>3. x \notin DOMAIN call.rows BY <3>7, <2>2, <2>6 DEF Imported
      <4>4. Frozenable(x) BY <4>3, <3>7, <2>6 DEF Frozenable
      <4>5. PICK c \in Waiting(q) : c \in ObjectCalls /\ c.object = x
        BY <4>2, <4>4, <3>3, <1>3, Zenon DEF ConfirmationsFollow
      <4> QED BY <4>2, <4>5
    <3> QED BY <3>5, <3>6, <3>7
  <2>24. ListsHold'
    <3>1. ASSUME "alert beside" \notin disturbed', responseEvent.closed
          PROVE  \A q \in Threads : handling'[q] # "append_alert"
      <4>1. "alert beside" \notin disturbed BY <3>1, <2>19
      <4>2. \A q \in Threads : handling[q] # "append_alert" BY <4>1, <3>1, <1>3, Zenon DEF ListsHold
      <4> QED BY <4>2, <2>19
    <3>2. ASSUME disturbed' = {}, OpenEvent, NEW l \in Range(lists) PROVE ListHolds(l)'
      <4>1. disturbed = {} BY <3>2, <2>19
      <4>2. /\ ListHolds(l)
            /\ \A o \in DOMAIN call.records : OnRecord(o) /\ ~object[o].stale => o \in DOMAIN call.rows
            /\ \A o \in DOMAIN call.rows : call.rows[o].version = object[o].version + 1
        BY <4>1, <3>2, <1>3, <1>4, Zenon DEF ListsHold
      <4>3. l \in ListRecords /\ AreConfirmed(l.rows)
        <5>1. lists \in Seq(ListRecords) BY <1>3 DEF CandidateTypes
        <5> QED BY <5>1, <3>2, <1>3, InRange DEF StoredOK
      <4> SUFFICES ASSUME NEW x \in DOMAIN l.rows
                   PROVE  /\ l.rows[x].version <= object'[x].version
                          /\ l.rows[x].run # Manual /\ l.rows[x].content # "profile" =>
                               l.rows[x].content = registry'[x].content \/ Outdated(x, l.rows[x])'
        BY Zenon DEF ListHolds
      <4>4. x \in Objects /\ l.rows[x] \in Rows /\ object[x] \in Rows BY <4>3, <1>3, ListParts
      <4>5. l.rows[x].status = "confirmed" /\ l.rows[x].stale = FALSE
        BY <4>3, <4>4 DEF AreConfirmed, Rows
      <4>6. PICK v \in Nat, w \in Nat : v = l.rows[x].version /\ w = object[x].version
        BY <4>4, RowsFromRows
      <4>7. v <= w BY <4>2, <4>6 DEF ListHolds
      <4>8. l.rows[x].version <= object'[x].version
        <5>1. CASE x \in DOMAIN call.rows
          <6>1. object'[x].version = w + 1 BY <5>1, <4>2, <4>4, <4>6, <2>6
          <6>2. v <= w + 1 BY <4>6, <4>7
          <6> QED BY <6>1, <6>2, <4>6
        <5>2. CASE x \notin DOMAIN call.rows BY <5>2, <4>4, <4>6, <4>7, <2>6
        <5> QED BY <5>1, <5>2
      <4>9. object'[x] # l.rows[x] => Outdated(x, l.rows[x])'
        <5>1. "import beside" \notin disturbed' BY <3>2
        <5> QED BY <5>1, <2>20, Zenon DEF Outdated
      <4>10. CASE x \in DOMAIN call.rows
        <5>1. object'[x].stale BY <4>10, <4>4, <2>2, <2>6 DEF Imported
        <5> QED BY <5>1, <4>5, <4>8, <4>9
      <4>11. CASE x \notin DOMAIN call.rows /\ x \in DOMAIN call.records
        <5>1. object'[x] = object[x] BY <4>4, <4>11, <2>6
        <5>2. CASE object[x].stale BY <5>1, <5>2, <4>5, <4>8, <4>9
        <5>3. CASE ~OnRecord(x)
          <6>1. w = 0 BY <5>3, <4>6 DEF OnRecord
          <6>2. object[x].status = "absent"
            <7>1. WellFormed(object[x]) BY <4>4, <1>3 DEF StoredOK, RowOK
            <7> QED BY <7>1, <6>1, <4>6 DEF WellFormed
          <6> QED BY <6>2, <5>1, <4>5, <4>8, <4>9
        <5> QED BY <5>2, <5>3, <4>2, <4>11
      <4>12. CASE x \notin DOMAIN call.rows /\ x \notin DOMAIN call.records
        <5>1. object'[x] = object[x] /\ registry'[x] = registry[x]
          BY <4>4, <4>12, <2>1, <2>6
        <5>2. l.rows[x].run # Manual /\ l.rows[x].content # "profile" =>
                l.rows[x].content = registry[x].content \/ Outdated(x, l.rows[x])
          BY <4>2, Zenon DEF ListHolds
        <5>3. Outdated(x, l.rows[x]) => object[x] # l.rows[x] BY DEF Outdated
        <5> QED BY <5>1, <5>2, <5>3, <4>8, <4>9
      <4> QED BY <4>10, <4>11, <4>12
    <3>3. ASSUME disturbed' = {}, NEW q \in Threads, NEW c \in Waiting(q)'
          PROVE  c \notin ListCalls /\ c \notin ImportCalls
      <4>1. "import beside" \notin disturbed' BY <3>3
      <4> QED BY <4>1, <3>3, <2>20
    <3> QED BY <3>1, <3>2, <3>3, <1>2, Zenon DEF ListsHold, OpenEvent
  <2> QED BY <2>4, <2>16, <2>17, <2>18, <2>21, <2>23, <2>24 DEF CandidateInv
<1> QED BY <1>6, <1>7

(***************************************************************************)
(* Candidate objects: the invariant, and what follows from it.             *)
(***************************************************************************)
\* A step that stores nothing and moves no handler.
LEMMA NothingMoves ==
  ASSUME CandidateInv,
         UNCHANGED <<responseEvent, alerts, registry, registryHistory, object, runs, lists,
                     drafts, runIds, handling, candidateCalls, stops>>,
         lapsed \subseteq lapsed', disturbed \subseteq disturbed', Apart'
  PROVE  CandidateInv'
<1>1. /\ CandidateTypes /\ CallsAreOrdered /\ RegistryIsOnRecord /\ StoredOK /\ CallsOK
      /\ RunsAreFresh /\ ConfirmationsFollow /\ ListsHold
  BY DEF CandidateInv
<1>2. \A p \in Threads : Waiting(p)' = Waiting(p) BY DEF Waiting
<1>3. CandidateTypes' BY <1>1 DEF CandidateTypes
<1>4. CallsAreOrdered'
  <2> SUFFICES ASSUME NEW p \in Threads PROVE Ordered(handling[p], candidateCalls[p])'
    BY Zenon DEF CallsAreOrdered
  <2>1. Ordered(handling[p], candidateCalls[p]) BY <1>1 DEF CallsAreOrdered
  <2>2. Revising(candidateCalls[p])' <=> Revising(candidateCalls[p]) BY DEF Revising, Marking
  <2> QED BY <2>1, <2>2, Zenon DEF Ordered
<1>5. RegistryIsOnRecord' BY <1>1 DEF RegistryIsOnRecord
<1>6. Growing
  <2>1. KnownRuns' = KnownRuns BY <1>2 DEF KnownRuns
  <2>2. Len(alerts) \in Nat /\ runIds \in Nat BY <1>1, LenProperties DEF CandidateTypes
  <2> QED BY <2>1, <2>2 DEF Growing
<1>7. StoredOK'
  <2>1. /\ responseEvent'.alert \in 1..Len(alerts')
        /\ \A r \in Range(runs') : r.id <= runIds'
        /\ \A l \in Range(lists') : AreConfirmed(l.rows)
        /\ \A d \in drafts' : IsGrounded(d)
    BY <1>1 DEF StoredOK
  <2>2. \A o \in Objects : object'[o] = object[o] OBVIOUS
  <2> QED BY <2>1, <2>2, <1>6, StoredStays
<1>8. CallsOK'
  <2> SUFFICES ASSUME NEW p \in Threads, NEW c \in Waiting(p)' PROVE CandidateCallOK(c)'
    BY DEF CallsOK
  <2>1. c \in Waiting(p) BY <1>2
  <2>2. CandidateCallOK(c) /\ c \in CandidateCallSet BY <2>1, <1>1, WaitingCalls DEF CallsOK
  <2> QED BY <2>2, <1>1, <1>6, CallStays
<1>9. RunsAreFresh'
  <2>1. ASSUME NEW r, SawRegistry(r) PROVE SawRegistry(r)'
    <3>1. \A c : Usable(c)' => Usable(c) BY DEF Usable
    <3> QED BY <2>1, <3>1, Zenon DEF SawRegistry
  <2>2. ClosedForGood' <=> ClosedForGood BY DEF ClosedForGood
  <2> SUFFICES ASSUME "import beside" \notin disturbed
               PROVE  /\ ClosedForGood \/ \A r \in Range(runs) : r.status = "completed" =>
                                             SawRegistry(r)'
                      /\ \A p \in Threads : \A c \in Waiting(p) :
                           /\ c \in RunCalls => SawRegistry(c.run)'
                           /\ c \in ImportCalls => ClosedForGood \/
                                \A r \in Range(runs) : r.status = "completed" => r.id \in c.runs
    BY <1>2, <2>2 DEF RunsAreFresh
  <2> QED BY <1>1, <2>1, Zenon DEF RunsAreFresh
<1>10. ConfirmationsFollow'
  <2>1. \A row : OfLatest(row)' <=> OfLatest(row) BY DEF OfLatest
  <2> SUFFICES ASSUME {"cut off", "alert beside"} \cap disturbed = {}
               PROVE  /\ (\A p \in Threads : handling[p] = "append_alert" =>
                                                candidateCalls[p][1] \in AlertCalls) =>
                           \A o \in Objects : OfLatest(object[o])
                      /\ (\A p \in Threads : handling[p] # "append_alert") =>
                           \A p \in Threads : \A c \in Waiting(p) :
                             c \in ObjectCalls => OfLatest(c.row)
                      /\ \A p \in Threads :
                           handling[p] = "append_alert" /\ Marking(candidateCalls[p]) =>
                             \A o \in Objects : Frozenable(o) =>
                               \E c \in Waiting(p) : c \in ObjectCalls /\ c.object = o
    <3>1. \A o \in Objects : OfLatest(object[o])' <=> OfLatest(object[o]) BY DEF OfLatest
    <3>2. \A o : Frozenable(o)' <=> Frozenable(o) BY DEF Frozenable
    <3>3. \A p \in Threads : Marking(candidateCalls[p])' <=> Marking(candidateCalls[p])
      BY DEF Marking
    <3>4. {"cut off", "alert beside"} \cap disturbed' = {} =>
            {"cut off", "alert beside"} \cap disturbed = {}
      OBVIOUS
    <3> QED BY <1>2, <2>1, <3>1, <3>2, <3>3, <3>4 DEF ConfirmationsFollow
  <2> QED BY <1>1, Zenon DEF ConfirmationsFollow
<1>11. ListsHold'
  <2>1. \A l : ListHolds(l)' <=> ListHolds(l)
    <3>1. \A o, row : Outdated(o, row)' <=> Outdated(o, row) BY <1>2 DEF Outdated
    <3> QED BY <3>1 DEF ListHolds
  <2> SUFFICES ASSUME TRUE
               PROVE  /\ "alert beside" \notin disturbed /\ responseEvent.closed =>
                           \A p \in Threads : handling[p] # "append_alert"
                      /\ disturbed = {} /\ OpenEvent =>
                           /\ \A l \in Range(lists) : ListHolds(l)
                           /\ \A p \in Threads : \A c \in Waiting(p) :
                                /\ c \in ListCalls => ListHolds(c.list)
                                /\ c \in ImportCalls =>
                                     /\ \A o \in DOMAIN c.records :
                                          OnRecord(o) /\ ~object[o].stale => o \in DOMAIN c.rows
                                     /\ \A o \in DOMAIN c.rows :
                                          c.rows[o].version = object[o].version + 1
    <3>1. disturbed' = {} => disturbed = {} OBVIOUS
    <3>2. "alert beside" \notin disturbed' => "alert beside" \notin disturbed OBVIOUS
    <3> QED BY <1>2, <2>1, <3>1, <3>2 DEF ListsHold, OpenEvent, OnRecord
  <2> QED BY <1>1, Zenon DEF ListsHold
<1> QED BY <1>3, <1>4, <1>5, <1>7, <1>8, <1>9, <1>10, <1>11 DEF CandidateInv

\* The invariant holds of an event just created.
LEMMA CandidateInitOK ==
  ASSUME CandidateInit, CandidateAssumption
  PROVE  CandidateInv
<1> USE DEF CandidateInit
<1>1. 1 \in 1..1 /\ 0 \in Nat /\ 1 \in Nat /\ 0 \in 0..0 /\ 0 \in 0..1 /\ 1..0 = {} OBVIOUS
<1>2. PICK untouched \in Rows : untouched = Untouched BY DEF Untouched, Rows, Statuses, Manual
<1>3. alerts \in Seq(Warnings) /\ Len(alerts) = 1 BY CandidateAssumption DEF CandidateAssumption
<1>4. \A p \in Threads : Waiting(p) = {} /\ handling[p] = "none" /\ candidateCalls[p] = <<>>
  BY NoneInRange DEF Waiting
<1>5. Range(runs) = {} /\ Range(lists) = {} BY NoneInRange
<1>6. KnownRuns = {} BY <1>4, <1>5 DEF KnownRuns
<1>7. /\ \A o \in Objects : object[o] = untouched /\ registry[o] = Unregistered
      /\ Unregistered \in RegistryRecords /\ Unregistered.version = 0
  BY <1>2 DEF Unregistered, RegistryRecords
<1>8. CandidateTypes
  <2>1. responseEvent \in EventRows BY DEF EventRows
  <2>2. \A S : <<>> \in Seq(S) BY EmptySeq
  <2>3. registry \in [Objects -> RegistryRecords] BY <1>7
  <2>4. object \in [Objects -> Rows] BY <1>2
  <2>5. handling \in [Threads -> HandlerNames] BY DEF HandlerNames
  <2>6. candidateCalls \in [Threads -> Seq(CandidateCallSet)] BY <2>2
  <2>7. runs \in Seq(RunRecords) /\ lists \in Seq(ListRecords) BY <2>2
  <2> QED BY <1>3, <2>1, <2>3, <2>4, <2>5, <2>6, <2>7 DEF CandidateTypes
<1>9. CallsAreOrdered BY <1>4 DEF CallsAreOrdered, Ordered, Decisions
<1>10. RegistryIsOnRecord BY <1>1, <1>7 DEF RegistryIsOnRecord
<1>11. RowOK(1, untouched) /\ \A o : RowOK(o, untouched)
  <2>1. WellFormed(untouched) BY <1>1, <1>2, <1>3 DEF WellFormed, Untouched, Manual
  <2>2. untouched.run = Manual BY <1>2 DEF Untouched
  <2> QED BY <2>1, <2>2 DEF RowOK, Explained
<1>12. StoredOK BY <1>1, <1>3, <1>5, <1>7, <1>11 DEF StoredOK
<1>13. CallsOK BY <1>4 DEF CallsOK
<1>14. Apart BY <1>4 DEF Apart
<1>15. RunsAreFresh BY <1>4, <1>5 DEF RunsAreFresh
<1>16. ConfirmationsFollow
  <2>1. \A o \in Objects : OfLatest(object[o]) BY <1>2, <1>7 DEF OfLatest, Untouched
  <2> QED BY <2>1, <1>4 DEF ConfirmationsFollow
<1>17. ListsHold BY <1>4, <1>5 DEF ListsHold
<1> QED BY <1>8, <1>9, <1>10, <1>12, <1>13, <1>14, <1>15, <1>16, <1>17 DEF CandidateInv

\* Every step keeps the invariant.
LEMMA CandidateStep ==
  ASSUME CandidateInv, CandidateAssumption, [CandidateNext]_candidateVars
  PROVE  CandidateInv'
<1>1. CASE UNCHANGED candidateVars
  <2>1. /\ UNCHANGED <<responseEvent, alerts, registry, registryHistory, object, runs, lists,
                       drafts, runIds, handling, candidateCalls, stops>>
        /\ lapsed' = lapsed /\ disturbed' = disturbed
    BY <1>1 DEF candidateVars, situation
  <2>2. Apart' BY <2>1 DEF CandidateInv, Apart
  <2> QED BY <2>1, <2>2, NothingMoves
<1>2. CASE CandidateNext
  <2>1. disturbed' = disturbed \cup Accidents BY <1>2 DEF CandidateNext
  <2>2. CASE lapse
    <3>1. /\ UNCHANGED <<responseEvent, alerts, registry, registryHistory, object, runs, lists,
                         drafts, runIds, handling, candidateCalls, stops>>
          /\ lapsed \subseteq lapsed'
      BY <2>2 DEF lapse, situation
    <3>2. handling' \in [Threads -> HandlerNames] BY <3>1 DEF CandidateInv, CandidateTypes
    <3>3. Apart' BY <2>1, <3>2, ApartStays
    <3>4. disturbed \subseteq disturbed' BY <2>1
    <3> QED BY <3>1, <3>3, <3>4, NothingMoves
  <2>3. ASSUME NEW p \in Threads, Handler(p) PROVE CandidateInv'
    <3>1. CASE append_alert(p) BY <2>1, <3>1, append_alertKeeps
    <3>2. CASE add_risk_objects(p) BY <2>1, <3>2, add_risk_objectsKeeps
    <3>3. CASE discover_risk_objects(p) BY <2>1, <3>3, discover_risk_objectsKeeps
    <3>4. CASE verify_risk_object(p) BY <2>1, <3>4, verify_risk_objectKeeps
    <3>5. CASE import_risk_object_registry(p) BY <2>1, <3>5, import_risk_object_registryKeeps
    <3>6. CASE freeze_candidate_object_list(p) BY <2>1, <3>6, freezeKeeps
    <3>7. CASE create_task(p) BY <2>1, <3>7, create_taskKeeps
    <3>8. CASE close_event(p) BY <2>1, <3>8, close_eventKeeps
    <3> QED BY <2>3, <3>1, <3>2, <3>3, <3>4, <3>5, <3>6, <3>7, <3>8 DEF Handler
  <2>4. ASSUME NEW p \in Threads, Transaction(p) PROVE CandidateInv'
    <3>1. CASE save_alert_snapshot(p) BY <2>1, <3>1, save_alert_snapshotKeeps
    <3>2. CASE save_response_event(p) BY <2>1, <3>2, save_response_eventKeeps
    <3>3. CASE staling(p) BY <2>1, <3>3, stalingKeeps
    <3>4. CASE add(p) BY <2>1, <3>4, addKeeps
    <3>5. CASE save_event_risk_object(p) BY <2>1, <3>5, save_event_risk_objectKeeps
    <3>6. CASE save_risk_object_version(p) BY <2>1, <3>6, save_risk_object_versionKeeps
    <3>7. CASE save_candidate_run(p) BY <2>1, <3>7, save_candidate_runKeeps
    <3>8. CASE commit_risk_object_registry_import(p)
      BY <2>1, <3>8, commit_risk_object_registry_importKeeps
    <3>9. CASE save_candidate_object_list(p) BY <2>1, <3>9, save_candidate_object_listKeeps
    <3>10. CASE save_response_task(p) BY <2>1, <3>10, save_response_taskKeeps
    <3> QED BY <2>4, <3>1, <3>2, <3>3, <3>4, <3>5, <3>6, <3>7, <3>8, <3>9, <3>10 DEF Transaction
  <2>5. ASSUME NEW p \in Threads, stop(p) PROVE CandidateInv' BY <2>1, <2>5, stopKeeps
  <2> QED BY <1>2, <2>2, <2>3, <2>4, <2>5 DEF CandidateNext
<1> QED BY <1>1, <1>2

\* Every version up to the one a record has is on record once, with its content.
LEMMA VersionsOnRecord ==
  ASSUME CandidateTypes, RegistryIsOnRecord, NEW o \in Objects
  PROVE  /\ registry[o].version \in Nat
         /\ {h.version : h \in {k \in registryHistory : k.object = o}} = 1..registry[o].version
         /\ \A n \in 1..registry[o].version :
              \E h \in registryHistory :
                /\ h.object = o /\ h.version = n
                /\ {g.content : g \in {k \in registryHistory : k.object = o /\ k.version = n}}
                     = {h.content}
<1>1. PICK v \in Nat : v = registry[o].version BY DEF CandidateTypes, RegistryRecords
<1>2. \A h \in registryHistory : h.version \in Nat \ {0} BY DEF CandidateTypes
<1>3. \A n \in 1..v : \E h \in registryHistory : h.object = o /\ h.version = n
  BY <1>1 DEF RegistryIsOnRecord
<1>4. \A h \in registryHistory : h.object = o => h.version \in 1..v
  <2> TAKE h \in registryHistory
  <2> HAVE h.object = o
  <2>1. h.version <= v BY <1>1 DEF RegistryIsOnRecord
  <2>2. PICK k \in Nat \ {0} : k = h.version BY <1>2
  <2>3. k \in 1..v BY <2>1, <2>2, <1>1
  <2> QED BY <2>2, <2>3
<1>5. {h.version : h \in {k \in registryHistory : k.object = o}} = 1..v BY <1>3, <1>4
<1>6. ASSUME NEW n \in 1..v
      PROVE  \E h \in registryHistory :
               /\ h.object = o /\ h.version = n
               /\ {g.content : g \in {k \in registryHistory : k.object = o /\ k.version = n}}
                    = {h.content}
  <2>1. PICK h \in registryHistory : h.object = o /\ h.version = n BY <1>3
  <2>2. \A g \in registryHistory : g.object = o /\ g.version = n => g = h
    BY <2>1 DEF RegistryIsOnRecord
  <2>3. {k \in registryHistory : k.object = o /\ k.version = n} = {h} BY <2>1, <2>2
  <2> QED BY <2>1, <2>3
<1> QED BY <1>1, <1>5, <1>6

\* So the history tells the whole story of a record.
LEMMA HistoryIsTold ==
  ASSUME CandidateTypes, RegistryIsOnRecord
  PROVE  RegistryHistoryExplains
<1> SUFFICES ASSUME NEW o \in Objects, NEW n \in 1..registry[o].version
             PROVE  LET at(k) == {h.content : h \in {g \in registryHistory :
                                                       g.object = o /\ g.version = k}}
                    IN /\ Cardinality(at(n)) = 1
                       /\ n = registry[o].version => at(n) = {registry[o].content}
                       /\ n > 1 => at(n) # at(n - 1)
  BY DEF RegistryHistoryExplains, CandidateTypes
<1> DEFINE at(k) == {h.content : h \in {g \in registryHistory : g.object = o /\ g.version = k}}
<1>1. PICK v \in Nat : v = registry[o].version BY VersionsOnRecord
<1>2. PICK h \in registryHistory : h.object = o /\ h.version = n /\ at(n) = {h.content}
  BY VersionsOnRecord
<1>3. ASSUME n > 1 PROVE at(n) # at(n - 1)
  <2>1. PICK m \in 1..v : m = n - 1 /\ n = m + 1 BY <1>1, <1>3
  <2>2. PICK g \in registryHistory : g.object = o /\ g.version = m /\ at(m) = {g.content}
    BY <1>1, VersionsOnRecord
  <2>3. h.content # g.content BY <1>2, <2>1, <2>2 DEF RegistryIsOnRecord
  <2>4. at(m) # at(n) BY <1>2, <2>2, <2>3
  <2> QED BY <2>1, <2>4
<1>4. n = registry[o].version => at(n) = {registry[o].content}
  BY <1>2 DEF RegistryIsOnRecord
<1>5. Cardinality(at(n)) = 1 BY <1>2, FS_Singleton
<1> QED BY <1>3, <1>4, <1>5

\* What the invariant says of what is stored.
LEMMA InvIsSafe ==
  ASSUME CandidateInv
  PROVE  ScreeningIsCurrent /\ ListedDraftsAreGrounded
<1>1. /\ CandidateTypes /\ RegistryIsOnRecord /\ StoredOK /\ RunsAreFresh
      /\ ConfirmationsFollow
      /\ DOMAIN object = Objects /\ DOMAIN registry = Objects /\ DOMAIN handling = Threads
      /\ object \in [Objects -> Rows] /\ responseEvent \in EventRows /\ alerts \in Seq(Warnings)
  BY DEF CandidateInv, CandidateTypes
<1>2. CandidateTypeOK
  <2>1. responseEvent.closed \in BOOLEAN BY <1>1 DEF EventRows
  <2>2. responseEvent.alert \in DOMAIN alerts BY <1>1, LenProperties DEF StoredOK
  <2>3. \A o \in Objects : WellFormed(object[o]) BY <1>1 DEF StoredOK, RowOK
  <2>4. \A o \in Objects :
          {h.version : h \in {k \in registryHistory : k.object = o}} = 1..registry[o].version
    BY <1>1, VersionsOnRecord
  <2> QED BY <1>1, <2>1, <2>2, <2>3, <2>4 DEF CandidateTypeOK
<1>3. RegistryHistoryExplains BY <1>1, HistoryIsTold
<1>4. CompletedRunsAreCurrent
  <2>1. SUFFICES ASSUME "import beside" \notin disturbed, ~responseEvent.closed,
                        NEW r \in Range(runs), r.status = "completed"
                 PROVE  SawRegistry(r)
    BY <1>1 DEF CompletedRunsAreCurrent, SawRegistry
  <2>2. ~ClosedForGood BY <2>1 DEF ClosedForGood
  <2> QED BY <1>1, <2>1, <2>2, Zenon DEF RunsAreFresh
<1>5. ConfirmationsAreRecent
  <2>1. SUFFICES ASSUME {"cut off", "alert beside"} \cap disturbed = {},
                        \A p \in Threads : handling[p] # "append_alert", NEW o \in Objects,
                        Frozenable(o)
                 PROVE  object[o].verifiedUnder = Len(alerts)
    BY <1>1 DEF ConfirmationsAreRecent
  <2>2. OfLatest(object[o]) BY <1>1, <2>1, Zenon DEF ConfirmationsFollow
  <2> QED BY <2>1, <2>2 DEF OfLatest, Frozenable
<1>6. ListedDraftsAreGrounded BY <1>1 DEF ListedDraftsAreGrounded, StoredOK, IsGrounded
<1> QED BY <1>2, <1>3, <1>4, <1>5, <1>6 DEF ScreeningIsCurrent

\* In every reachable state the calls under way and what is stored fit together.
THEOREM CandidatesHold == CandidateSpec => []CandidateInv
<1>1. CandidateInit => CandidateInv BY CandidateInitOK, CandidateAssumption
<1>2. CandidateInv /\ [CandidateNext]_candidateVars => CandidateInv'
  BY CandidateStep, CandidateAssumption
<1> QED BY <1>1, <1>2, PTL DEF CandidateSpec

\* What the last screening and the confirmations say is said of the alert and
\* the registry as they are now (discover_risk_objects, verify_risk_object,
\* append_alert, import_risk_object_registry).
THEOREM ScreeningSafe == CandidateSpec => []ScreeningIsCurrent
<1>1. CandidateInv => ScreeningIsCurrent BY InvIsSafe
<1> QED BY <1>1, CandidatesHold, PTL

\* A task drafted from a frozen list orders what was confirmed under the latest
\* warning on the master data then held (freeze_candidate_object_list, create_task).
THEOREM DraftsSafe == CandidateSpec => []ListedDraftsAreGrounded
<1>1. CandidateInv => ListedDraftsAreGrounded BY InvIsSafe
<1> QED BY <1>1, CandidatesHold, PTL
=============================================================================
