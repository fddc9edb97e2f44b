----------------------------- MODULE TaskProofs -----------------------------
(***************************************************************************)
(* Proofs about the task life cycle.                                       *)
(*   Inductive: every handler leaves only transactions that satisfy        *)
(*   WriteOK, and every transaction that satisfies WriteOK keeps the       *)
(*   tables sound, however handlers interleave and fail.                   *)
(*   SerialInductive: handlers that run one at a time, and may fail, move  *)
(*   rows along the state machine and leave what is settled alone.         *)
(*   Explained: if they do not fail either, the histories kept beside a    *)
(*   task account for its row.                                             *)
(***************************************************************************)
EXTENDS TaskSafety, FiniteSetTheorems, SequenceTheorems, TLAPS

-----------------------------------------------------------------------------
(***************************************************************************)
(* Transactions and their types.                                           *)
(***************************************************************************)
\* A transaction of each kind carries what its Store action stores.
LEMMA WriteFields ==
  ASSUME NEW w \in Writes
  PROVE  /\ w.kind = "task" => w.task \in Tasks /\ w.rec \in TaskRecords
         /\ w.kind = "decision" =>
              w.task \in Tasks /\ w.rec \in TaskRecords /\ w.approval \in ApprovalRecords
         /\ w.kind = "snapshot" => w.task \in Tasks /\ w.version \in Nat
         /\ w.kind = "feedback" => w.task \in Tasks /\ w.entry \in FeedbackRecords
         /\ w.kind = "escalation" => w.task \in Tasks /\ w.entry \in EscalationRecords
         /\ w.kind = "assignment" => w.task \in Tasks /\ w.entry \in AssignmentRecords
         /\ w.kind = "extension" => w.extension \in Extensions /\ w.rec \in ExtensionRecords
         /\ w.kind = "signature" => /\ w.task \in Tasks
                                    /\ w.action \in {"submitted", "verified"}
                                    /\ w.by \in Operators
  BY DEF Writes

\* The constructors of transactions yield transactions.
LEMMA TaskWriteType ==
  ASSUME NEW t \in Tasks, NEW rec \in TaskRecords
  PROVE  TaskWrite(t, rec) \in Writes
  BY DEF TaskWrite, Writes

LEMMA DecisionWriteType ==
  ASSUME NEW t \in Tasks, NEW rec \in TaskRecords, NEW a \in ApprovalRecords
  PROVE  DecisionWrite(t, rec, a) \in Writes
  BY DEF DecisionWrite, Writes

LEMMA OtherWriteTypes ==
  ASSUME NEW t \in Tasks, NEW o \in Operators
  PROVE  /\ \A v \in Nat : SnapshotWrite(t, v) \in Writes
         /\ \A r \in Reports : FeedbackWrite(t, r, o) \in Writes
         /\ \A from \in TaskStatus : \A to \in {"duty_officer", "reviewer"} :
              EscalationWrite(t, from, to) \in Writes
         /\ \A v \in Nat : AssignmentWrite(t, v, o) \in Writes
         /\ \A action \in {"submitted", "verified"} : SignatureWrite(t, action, o) \in Writes
  BY DEF SnapshotWrite, FeedbackWrite, EscalationWrite, AssignmentWrite, SignatureWrite,
         Writes, FeedbackRecords, EscalationRecords, AssignmentRecords

LEMMA ExtensionWriteType ==
  ASSUME NEW x \in Extensions, NEW rec \in ExtensionRecords
  PROVE  ExtensionWrite(x, rec) \in Writes
  BY DEF ExtensionWrite, Writes

LEMMA CloseWriteType == CloseWrite \in Writes
  BY DEF CloseWrite, Writes

\* A row whose status is a task status is a complete record.
LEMMA StoredRow ==
  ASSUME TypeOK, NEW t \in Tasks, Stored(t)
  PROVE  task[t] \in TaskRecords
  BY DEF TypeOK, Stored, Blank

-----------------------------------------------------------------------------
(***************************************************************************)
(* Pending transactions.                                                   *)
(***************************************************************************)
\* What a handler may leave to be stored.
SoundWrites(ws) == ws \in Seq(Writes) /\ \A i \in DOMAIN ws : WriteOK(ws[i])

LEMMA OneWrite ==
  ASSUME NEW w \in Writes, WriteOK(w)
  PROVE  SoundWrites(<<w>>)
  BY DEF SoundWrites

LEMMA TwoWrites ==
  ASSUME NEW v \in Writes, WriteOK(v), NEW w \in Writes, WriteOK(w)
  PROVE  SoundWrites(<<v, w>>)
  BY DEF SoundWrites

LEMMA JoinedWrites ==
  ASSUME NEW v, NEW w, SoundWrites(v), SoundWrites(w)
  PROVE  SoundWrites(v \o w)
  BY DEF SoundWrites

\* Transactions without a condition are always sound.
LEMMA PlainWrites ==
  ASSUME NEW w, w.kind \in {"snapshot", "feedback", "escalation", "assignment",
                            "signature", "close"}
  PROVE  WriteOK(w)
  BY DEF WriteOK

\* A handler that leaves sound transactions preserves the invariant.
LEMMA ReplyStep ==
  ASSUME Inductive, NEW p \in Processes, NEW ws, SoundWrites(ws), Reply(p, ws)
  PROVE  Inductive'
<1>1. todo' \in [Processes -> Seq(Writes)]
  BY DEF Inductive, TypeOK, Reply, SoundWrites
<1>2. UNCHANGED <<event, task, approvals, outbox, snapshots, feedback, escalations,
                  assignments, extension, signed, clock>>
  BY DEF Reply, db
<1>3. TypeOK'
  BY <1>1, <1>2 DEF Inductive, TypeOK
<1>4. ASSUME NEW w \in Pending' PROVE WriteOK(w)'
  <2>1. w \in Pending \/ \E i \in DOMAIN ws : w = ws[i]
    BY DEF Pending, Reply, Inductive, TypeOK
  <2>2. WriteOK(w)
    BY <2>1 DEF Inductive, SoundWrites
  <2> QED BY <2>2, <1>2 DEF WriteOK, Backed, Stored
<1> QED
  BY <1>2, <1>3, <1>4
     DEF Inductive, ExtensionsOfStoredTasks, ApprovalIntegrity, DispatchedOncePerVersion,
         DispatchIsSound, Stored

-----------------------------------------------------------------------------
(***************************************************************************)
(* The Store actions.                                                      *)
(***************************************************************************)
LEMMA HeadWrite ==
  ASSUME Inductive, NEW p \in Processes, todo[p] # <<>>
  PROVE  Head(todo[p]) \in Writes /\ WriteOK(Head(todo[p]))
<1>1. todo[p] \in Seq(Writes) /\ 1 \in DOMAIN todo[p] /\ Head(todo[p]) = todo[p][1]
  BY DEF Inductive, TypeOK
<1>2. Head(todo[p]) \in Pending
  BY <1>1 DEF Pending
<1> QED BY <1>1, <1>2 DEF Inductive

\* A transaction that has run, or was abandoned, leaves no new one behind.
LEMMA TodoShrinks ==
  ASSUME Inductive, NEW p \in Processes, todo[p] # <<>>,
         todo' = [todo EXCEPT ![p] = Tail(@)] \/ todo' = [todo EXCEPT ![p] = <<>>]
  PROVE  todo' \in [Processes -> Seq(Writes)] /\ Pending' \subseteq Pending
<1>1. todo \in [Processes -> Seq(Writes)]
  BY DEF Inductive, TypeOK
<1>2. Tail(todo[p]) \in Seq(Writes) /\ \A i \in DOMAIN Tail(todo[p]) :
        i + 1 \in DOMAIN todo[p] /\ Tail(todo[p])[i] = todo[p][i + 1]
  BY <1>1
<1>3. todo' \in [Processes -> Seq(Writes)]
  <2>1. todo' = [todo EXCEPT ![p] = Tail(todo[p])] \/ todo' = [todo EXCEPT ![p] = <<>>]
    BY <1>1
  <2>2. <<>> \in Seq(Writes)
    OBVIOUS
  <2> QED BY <1>1, <1>2, <2>1, <2>2
<1>4. ASSUME NEW w \in Pending' PROVE w \in Pending
  <2>1. PICK q \in Processes : \E i \in DOMAIN todo'[q] : w = todo'[q][i]
    BY DEF Pending
  <2>2. CASE q = p
    <3>1. todo'[p] = Tail(todo[p])
      BY <1>1, <2>1, <2>2
    <3> QED BY <1>2, <2>1, <2>2, <3>1 DEF Pending
  <2>3. CASE q # p
    BY <1>1, <2>1, <2>3 DEF Pending
  <2> QED BY <2>2, <2>3
<1> QED BY <1>3, <1>4

\* A transaction that leaves tasks, outbox and extensions alone.
LEMMA OtherTable ==
  ASSUME Inductive, NEW p \in Processes, todo[p] # <<>>,
         todo' = [todo EXCEPT ![p] = Tail(@)] \/ todo' = [todo EXCEPT ![p] = <<>>],
         UNCHANGED <<task, outbox, extension>>, TypeOK'
  PROVE  Inductive'
<1>1. ASSUME NEW w \in Pending' PROVE WriteOK(w)'
  <2>1. WriteOK(w)
    BY TodoShrinks DEF Inductive
  <2> QED BY <2>1 DEF WriteOK, Backed, Stored
<1> QED
  BY <1>1
     DEF Inductive, ExtensionsOfStoredTasks, ApprovalIntegrity, DispatchedOncePerVersion,
         DispatchIsSound, Stored

LEMMA AbandonedStep ==
  ASSUME Inductive, NEW p \in Processes, todo[p] # <<>>, Abandoned(p)
  PROVE  Inductive'
<1>1. todo' \in [Processes -> Seq(Writes)]
  BY TodoShrinks DEF Abandoned
<1>2. TypeOK'
  BY <1>1 DEF Abandoned, db, Inductive, TypeOK
<1> QED BY <1>2, OtherTable DEF Abandoned, db

LEMMA OtherStores ==
  ASSUME Inductive, NEW p \in Processes,
         \/ store_snapshot(p) \/ store_feedback(p) \/ store_escalation(p)
         \/ store_assignment(p) \/ store_signature(p) \/ store_close(p)
  PROVE  Inductive'
<1> DEFINE w == Head(todo[p])
<1>1. todo[p] # <<>> /\ todo' = [todo EXCEPT ![p] = Tail(@)]
  BY DEF store_snapshot, store_feedback, store_escalation, store_assignment,
         store_signature, store_close, Stored_write, Next_write
<1>2. todo' \in [Processes -> Seq(Writes)] /\ w \in Writes
  BY <1>1, TodoShrinks, HeadWrite
<1>3. CASE store_snapshot(p)
  <2>1. w.task \in Tasks /\ w.version \in Nat
    BY <1>2, <1>3, WriteFields DEF store_snapshot, Next_write
  <2>2. TypeOK'
    BY <1>2, <1>3, <2>1 DEF store_snapshot, Stored_write, Inductive, TypeOK
  <2> QED BY <1>1, <1>3, <2>2, OtherTable DEF store_snapshot
<1>4. CASE store_feedback(p)
  <2>1. w.task \in Tasks /\ w.entry \in FeedbackRecords
    BY <1>2, <1>4, WriteFields DEF store_feedback, Next_write
  <2>2. feedback' \in [Tasks -> Seq(FeedbackRecords)]
    BY <1>4, <2>1 DEF store_feedback, Inductive, TypeOK
  <2>3. TypeOK'
    BY <1>2, <1>4, <2>2 DEF store_feedback, Stored_write, Inductive, TypeOK
  <2> QED BY <1>1, <1>4, <2>3, OtherTable DEF store_feedback
<1>5. CASE store_escalation(p)
  <2>1. w.task \in Tasks /\ w.entry \in EscalationRecords
    BY <1>2, <1>5, WriteFields DEF store_escalation, Next_write
  <2>2. TypeOK'
    BY <1>2, <1>5, <2>1 DEF store_escalation, Stored_write, Inductive, TypeOK
  <2> QED BY <1>1, <1>5, <2>2, OtherTable DEF store_escalation
<1>6. CASE store_assignment(p)
  <2>1. w.task \in Tasks /\ w.entry \in AssignmentRecords
    BY <1>2, <1>6, WriteFields DEF store_assignment, Next_write
  <2>2. TypeOK'
    BY <1>2, <1>6, <2>1 DEF store_assignment, Stored_write, Inductive, TypeOK
  <2> QED BY <1>1, <1>6, <2>2, OtherTable DEF store_assignment
<1>7. CASE store_signature(p)
  <2>1. w.task \in Tasks /\ w.action \in {"submitted", "verified"} /\ w.by \in Operators
    BY <1>2, <1>7, WriteFields DEF store_signature, Next_write
  <2>2. signed' \in [Tasks -> [submitted : Operators \cup {NoOne},
                               verified : Operators \cup {NoOne}]]
    BY <1>7, <2>1 DEF store_signature, Inductive, TypeOK
  <2>3. TypeOK'
    BY <1>2, <1>7, <2>2 DEF store_signature, Stored_write, Inductive, TypeOK
  <2> QED BY <1>1, <1>7, <2>3, OtherTable DEF store_signature
<1>8. CASE store_close(p)
  <2>1. TypeOK'
    BY <1>2, <1>8 DEF store_close, Stored_write, Inductive, TypeOK
  <2> QED BY <1>1, <1>8, <2>1, OtherTable DEF store_close
<1> QED BY <1>3, <1>4, <1>5, <1>6, <1>7, <1>8

\* Where the outbox only grows and stored tasks stay stored, what was pending
\* stays sound.
LEMMA PendingStaysSound ==
  ASSUME Inductive, NEW p \in Processes, todo[p] # <<>>,
         todo' = [todo EXCEPT ![p] = Tail(@)], outbox \subseteq outbox',
         \A t \in Tasks : Stored(t) => Stored(t)'
  PROVE  \A w \in Pending' : WriteOK(w)'
<1> SUFFICES ASSUME NEW w \in Pending' PROVE WriteOK(w)'
  OBVIOUS
<1>1. w \in Pending /\ w \in Writes /\ WriteOK(w)
  <2>1. w \in Pending
    BY TodoShrinks
  <2>2. \A q \in Processes : \A i \in DOMAIN todo[q] : todo[q][i] \in Writes
    BY DEF Inductive, TypeOK
  <2> QED BY <2>1, <2>2 DEF Inductive, Pending
<1>2. w.kind = "task" => Backed(w.task, w.rec)'
  BY <1>1 DEF WriteOK, Backed
<1>3. w.kind = "extension" => Stored(w.rec.task)'
  <2>1. w.kind = "extension" => w.rec.task \in Tasks
    BY <1>1, WriteFields DEF ExtensionRecords
  <2> QED BY <1>1, <2>1 DEF WriteOK
<1> QED BY <1>1, <1>2, <1>3 DEF WriteOK

\* A complete record is stored.
LEMMA RecordIsStored ==
  ASSUME NEW rec \in TaskRecords
  PROVE  rec.status # "absent"
  BY DEF TaskRecords, TaskStatus

\* A request that exists names a task.
LEMMA RequestedTask ==
  ASSUME Inductive, NEW x \in Extensions, extension[x].status # "absent"
  PROVE  extension[x].task \in Tasks /\ extension[x] \in ExtensionRecords
<1>1. extension[x] \in ExtensionRecords
  BY DEF Inductive, TypeOK
<1> QED BY <1>1 DEF ExtensionRecords

LEMMA TaskStore ==
  ASSUME Inductive, NEW p \in Processes, store_task(p)
  PROVE  Inductive'
<1> DEFINE w == Head(todo[p])
<1>1. /\ todo[p] # <<>> /\ w.kind = "task"
      /\ todo' = [todo EXCEPT ![p] = Tail(@)]
      /\ task' = [task EXCEPT ![w.task] = w.rec]
      /\ UNCHANGED <<event, approvals, outbox, snapshots, feedback, escalations,
                     assignments, extension, signed, clock>>
  BY DEF store_task, Stored_write, Next_write
<1>2. w.task \in Tasks /\ w.rec \in TaskRecords /\ Backed(w.task, w.rec)
  BY <1>1, HeadWrite, WriteFields DEF WriteOK
<1>3. TypeOK'
  BY <1>1, <1>2, TodoShrinks DEF Inductive, TypeOK
<1>4. \A t \in Tasks : task'[t] = IF t = w.task THEN w.rec ELSE task[t]
  BY <1>1, <1>2 DEF Inductive, TypeOK
<1>5. \A t \in Tasks : Stored(t) => Stored(t)'
  BY <1>2, <1>4, RecordIsStored DEF Stored
<1>6. \A v \in Pending' : WriteOK(v)'
  BY <1>1, <1>5, PendingStaysSound
<1>7. ApprovalIntegrity'
  BY <1>1, <1>2, <1>4 DEF Inductive, ApprovalIntegrity, Backed
<1>8. ExtensionsOfStoredTasks'
  BY <1>1, <1>5, RequestedTask DEF Inductive, ExtensionsOfStoredTasks
<1>9. DispatchedOncePerVersion' /\ DispatchIsSound'
  BY <1>1 DEF Inductive, DispatchedOncePerVersion, DispatchIsSound
<1> QED BY <1>3, <1>6, <1>7, <1>8, <1>9 DEF Inductive

LEMMA DecisionStore ==
  ASSUME Inductive, NEW p \in Processes, store_decision(p)
  PROVE  Inductive'
<1> DEFINE w == Head(todo[p])
           a == w.approval
<1>1. /\ todo[p] # <<>> /\ w.kind = "decision"
      /\ todo' = [todo EXCEPT ![p] = Tail(@)]
      /\ task' = [task EXCEPT ![w.task] = w.rec]
      /\ approvals' = approvals \cup {a}
      /\ outbox' = IF a.decision = "approved" THEN outbox \cup {a} ELSE outbox
      /\ a.decision = "approved" => ~KeyTaken(a)
      /\ UNCHANGED <<event, snapshots, feedback, escalations, assignments, extension,
                     signed, clock>>
  BY DEF store_decision, Stored_write, Next_write
<1>2. w.task \in Tasks /\ w.rec \in TaskRecords /\ a \in ApprovalRecords /\ WriteOK(w)
  BY <1>1, HeadWrite, WriteFields
<1>3. TypeOK'
  BY <1>1, <1>2, TodoShrinks DEF Inductive, TypeOK
<1>4. \A t \in Tasks : task'[t] = IF t = w.task THEN w.rec ELSE task[t]
  BY <1>1, <1>2 DEF Inductive, TypeOK
<1>5. \A t \in Tasks : Stored(t) => Stored(t)'
  BY <1>2, <1>4, RecordIsStored DEF Stored
<1>6. \A v \in Pending' : WriteOK(v)'
  BY <1>1, <1>5, PendingStaysSound
<1>7. IF a.decision = "approved"
      THEN Entitles(a, w.task, w.rec) /\ a.hash[2] \in Sound
      ELSE w.rec.status = "draft"
  BY <1>1, <1>2 DEF WriteOK
<1>8. ApprovalIntegrity'
  BY <1>1, <1>4, <1>7
     DEF Inductive, ApprovalIntegrity, ApprovedStatuses, ExecutionStatuses, TakeOverStatuses
<1>9. ExtensionsOfStoredTasks'
  BY <1>1, <1>5, RequestedTask DEF Inductive, ExtensionsOfStoredTasks
<1>10. DispatchedOncePerVersion'
  BY <1>1 DEF Inductive, DispatchedOncePerVersion, KeyTaken
<1>11. DispatchIsSound'
  BY <1>1, <1>7 DEF Inductive, DispatchIsSound, Entitles
<1> QED BY <1>3, <1>6, <1>8, <1>9, <1>10, <1>11 DEF Inductive

LEMMA ExtensionStore ==
  ASSUME Inductive, NEW p \in Processes, store_extension(p)
  PROVE  Inductive'
<1> DEFINE w == Head(todo[p])
<1>1. /\ todo[p] # <<>> /\ w.kind = "extension"
      /\ todo' = [todo EXCEPT ![p] = Tail(@)]
      /\ extension' = [extension EXCEPT ![w.extension] = w.rec]
      /\ UNCHANGED <<event, task, approvals, outbox, snapshots, feedback, escalations,
                     assignments, signed, clock>>
  BY DEF store_extension, Stored_write, Next_write
<1>2. w.extension \in Extensions /\ w.rec \in ExtensionRecords /\ Stored(w.rec.task)
  BY <1>1, HeadWrite, WriteFields DEF WriteOK
<1>3. TypeOK'
  BY <1>1, <1>2, TodoShrinks DEF Inductive, TypeOK
<1>4. \A v \in Pending' : WriteOK(v)'
  BY <1>1, PendingStaysSound DEF Stored
<1>5. ExtensionsOfStoredTasks'
  BY <1>1, <1>2 DEF Inductive, TypeOK, ExtensionsOfStoredTasks, Stored
<1> QED
  BY <1>1, <1>3, <1>4, <1>5
     DEF Inductive, ApprovalIntegrity, DispatchedOncePerVersion, DispatchIsSound

\* Every transaction, and every failure of one, preserves the invariant.
LEMMA StoreStep ==
  ASSUME Inductive, NEW p \in Processes, Store(p)
  PROVE  Inductive'
<1>1. CASE decision_conflict(p) \/ snapshot_conflict(p) \/ assignment_conflict(p)
  BY <1>1, AbandonedStep
     DEF decision_conflict, snapshot_conflict, assignment_conflict, Next_write
<1> QED
  BY <1>1, TaskStore, DecisionStore, ExtensionStore, OtherStores DEF Store

-----------------------------------------------------------------------------
(***************************************************************************)
(* The handlers.                                                           *)
(***************************************************************************)
\* Rewriting a row without touching what its approval covers keeps the
\* approval, provided the row is not moved into an approved status.
LEMMA RewrittenRow ==
  ASSUME NEW t \in Tasks, NEW old \in TaskRecords, NEW rec \in TaskRecords,
         Backed(t, old),
         rec.status \in ApprovedStatuses =>
           /\ old.status \in ApprovedStatuses
           /\ rec.version = old.version /\ rec.content = old.content
           /\ rec.policy = old.policy /\ rec.draftedBy = old.draftedBy
           /\ rec.approved = old.approved
  PROVE  TaskWrite(t, rec) \in Writes /\ WriteOK(TaskWrite(t, rec))
<1>1. Backed(t, rec)
  BY DEF Backed, Entitles, PayloadHash
<1> QED BY <1>1, TaskWriteType DEF TaskWrite, WriteOK

LEMMA MovedRow ==
  ASSUME NEW t \in Tasks, NEW old \in TaskRecords, NEW to \in TaskStatus, Backed(t, old),
         to \in ApprovedStatuses => old.status \in ApprovedStatuses
  PROVE  LET w == TaskWrite(t, [old EXCEPT !.status = to]) IN w \in Writes /\ WriteOK(w)
<1>1. [old EXCEPT !.status = to] \in TaskRecords
  BY DEF TaskRecords
<1> QED BY <1>1, RewrittenRow DEF TaskRecords

LEMMA StoredRowBacked ==
  ASSUME Inductive, NEW t \in Tasks, Stored(t)
  PROVE  task[t] \in TaskRecords /\ Backed(t, task[t])
  BY StoredRow DEF Inductive, ApprovalIntegrity, Backed

\* A row in a task status exists.
LEMMA StatusIsStored ==
  ASSUME NEW t \in Tasks, task[t].status \in TaskStatus
  PROVE  Stored(t)
  BY DEF Stored, TaskStatus

\* A new row is a draft.
LEMMA DraftRow ==
  ASSUME NEW t \in Tasks, NEW rec \in TaskRecords, rec.status = "draft"
  PROVE  TaskWrite(t, rec) \in Writes /\ WriteOK(TaskWrite(t, rec))
<1>1. Backed(t, rec)
  BY DEF Backed, ApprovedStatuses, ExecutionStatuses, TakeOverStatuses
<1> QED BY <1>1, TaskWriteType DEF TaskWrite, WriteOK

LEMMA SnapshotPlain ==
  ASSUME NEW t \in Tasks, NEW v \in Nat
  PROVE  SnapshotWrite(t, v) \in Writes /\ WriteOK(SnapshotWrite(t, v))
  BY DEF SnapshotWrite, Writes, WriteOK

LEMMA CreateStep ==
  ASSUME Inductive, NEW p \in Processes, create_task(p)
  PROVE  Inductive'
<1>1. PICK q \in Identities, t \in Tasks, c \in Contents, policy \in ApprovalPolicy :
        LET rec == [Blank EXCEPT !.status = "draft", !.version = 1, !.content = c,
                                 !.policy = policy, !.draftedBy = q.id]
        IN  Reply(p, <<TaskWrite(t, rec), SnapshotWrite(t, 1)>>)
  BY DEF create_task
<1> DEFINE rec == [Blank EXCEPT !.status = "draft", !.version = 1, !.content = c,
                                !.policy = policy, !.draftedBy = q.id]
<1>2. rec \in TaskRecords /\ rec.status = "draft"
  BY DEF Blank, TaskRecords, TaskStatus, Operators, None, Deadlines
<1>3. SoundWrites(<<TaskWrite(t, rec), SnapshotWrite(t, 1)>>)
  BY <1>2, DraftRow, SnapshotPlain, TwoWrites
<1> QED BY <1>1, <1>3, ReplyStep

LEMMA EditedRow ==
  ASSUME NEW old \in TaskRecords, NEW v \in Nat, NEW c \in Contents,
         NEW policy \in ApprovalPolicy
  PROVE  [old EXCEPT !.version = v, !.content = c, !.policy = policy] \in TaskRecords
  BY DEF TaskRecords

LEMMA UpdateStep ==
  ASSUME Inductive, NEW p \in Processes, update_task(p)
  PROVE  Inductive'
<1>1. PICK t \in Tasks, c \in Contents, policy \in ApprovalPolicy :
        /\ Editable(task[t])
        /\ LET rec == [task[t] EXCEPT !.version = @ + 1, !.content = c, !.policy = policy]
           IN  Reply(p, <<TaskWrite(t, rec), SnapshotWrite(t, rec.version)>>)
  BY DEF update_task
<1> DEFINE rec == [task[t] EXCEPT !.version = @ + 1, !.content = c, !.policy = policy]
<1>2. task[t] \in TaskRecords /\ task[t].status = "draft"
  BY <1>1, StoredRowBacked DEF Editable, Stored
<1>3. task[t].version + 1 \in Nat
  BY <1>2 DEF TaskRecords
<1>4. rec \in TaskRecords /\ rec.status = "draft" /\ rec.version \in Nat
  <2>1. rec.status = "draft" /\ rec.version = task[t].version + 1
    BY <1>2 DEF TaskRecords
  <2> QED BY <1>2, <1>3, <2>1, EditedRow
<1>5. SoundWrites(<<TaskWrite(t, rec), SnapshotWrite(t, rec.version)>>)
  BY <1>4, DraftRow, SnapshotPlain, TwoWrites
<1> QED BY <1>1, <1>5, ReplyStep

\* A handler that makes one checked transition out of the statuses given.
LEMMA TransitionStep ==
  ASSUME Inductive, NEW p \in Processes, NEW t \in Tasks, NEW to \in TaskStatus,
         task[t].status \in TaskStatus,
         to \in ApprovedStatuses => task[t].status \in ApprovedStatuses,
         Transition(p, t, task[t], to)
  PROVE  Inductive'
<1>1. task[t] \in TaskRecords /\ Backed(t, task[t])
  BY StatusIsStored, StoredRowBacked
<1>2. SoundWrites(<<TaskWrite(t, [task[t] EXCEPT !.status = to])>>)
  BY <1>1, MovedRow, OneWrite
<1> QED BY <1>2, ReplyStep DEF Transition

LEMMA TransitionSteps ==
  ASSUME Inductive, NEW p \in Processes,
         submit_task(p) \/ acknowledge_task(p) \/ start_task(p)
  PROVE  Inductive'
<1> USE DEF TaskStatus, ApprovedStatuses, ExecutionStatuses, TakeOverStatuses
<1>1. CASE submit_task(p)
  <2>1. PICK t \in Tasks :
          task[t].status = "draft" /\ Transition(p, t, task[t], "pending_approval")
    BY <1>1 DEF submit_task
  <2> QED BY <2>1, TransitionStep
<1>2. CASE acknowledge_task(p)
  <2>1. PICK t \in Tasks : /\ task[t].status \in {"issued", "escalated", "blocked"}
                           /\ Transition(p, t, task[t], "acknowledged")
    BY <1>2 DEF acknowledge_task
  <2> QED BY <2>1, TransitionStep
<1>3. CASE start_task(p)
  <2>1. PICK t \in Tasks : /\ task[t].status \in {"acknowledged", "escalated", "blocked"}
                           /\ Transition(p, t, task[t], "in_progress")
    BY <1>3 DEF start_task
  <2> QED BY <2>1, TransitionStep
<1> QED BY <1>1, <1>2, <1>3

LEMMA PendingApprovalRow ==
  ASSUME Inductive, NEW t \in Tasks, task[t].status = "pending_approval"
  PROVE  task[t] \in TaskRecords
  BY StatusIsStored, StoredRowBacked DEF TaskStatus

\* The approval decide_task records for a person who may decide.
LEMMA ApprovalType ==
  ASSUME NEW q \in Identities, NEW t \in Tasks, NEW rec \in TaskRecords,
         NEW decision \in {"approved", "rejected"}
  PROVE  Approval(q, t, rec, decision) \in ApprovalRecords
<1>1. PayloadHash(rec) \in Hashes
  BY DEF PayloadHash, Hashes, TaskRecords
<1>2. q.id \in Operators /\ q.role \in OperatorRole
  BY IdentitiesAssumption DEF Operators
<1> QED BY <1>1, <1>2 DEF Approval, ApprovalRecords

LEMMA ApproveStep ==
  ASSUME Inductive, NEW p \in Processes, approve_task(p)
  PROVE  Inductive'
<1>1. PICK q \in Identities, t \in Tasks :
        /\ MayDecide(q, task[t])
        /\ task[t].status = "pending_approval"
        /\ RulesPass(task[t])
        /\ LET rec == [task[t] EXCEPT !.status = "issued", !.approved = PayloadHash(task[t])]
           IN  Reply(p, <<DecisionWrite(t, rec, Approval(q, t, task[t], "approved"))>>)
  BY DEF approve_task
<1> DEFINE old == task[t]
           rec == [old EXCEPT !.status = "issued", !.approved = PayloadHash(old)]
           a   == Approval(q, t, old, "approved")
           w   == DecisionWrite(t, rec, a)
<1>2. old \in TaskRecords
  BY <1>1, PendingApprovalRow
<1>3. PayloadHash(old) \in Hashes
  BY <1>2 DEF PayloadHash, Hashes, TaskRecords
<1>4. rec \in TaskRecords /\ a \in ApprovalRecords
  BY <1>2, <1>3, ApprovalType DEF TaskRecords, TaskStatus
<1>5. Entitles(a, t, rec)
  <2>1. /\ rec.version = old.version /\ rec.content = old.content /\ rec.policy = old.policy
        /\ rec.draftedBy = old.draftedBy /\ rec.approved = PayloadHash(old)
    BY <1>2 DEF TaskRecords
  <2>2. PayloadHash(rec) = PayloadHash(old)
    BY <2>1 DEF PayloadHash
  <2>3. a.task = t /\ a.hash = PayloadHash(old) /\ a.decision = "approved"
        /\ a.by = q.id /\ a.role = q.role
    BY DEF Approval
  <2> QED BY <1>1, <2>1, <2>2, <2>3 DEF Entitles, MayDecide
<1>6. a.hash[2] \in Sound /\ a.decision = "approved"
  BY <1>1 DEF Approval, PayloadHash, RulesPass
<1>7. w \in Writes /\ WriteOK(w)
  BY <1>4, <1>5, <1>6, DecisionWriteType DEF WriteOK, DecisionWrite
<1> QED BY <1>1, <1>7, OneWrite, ReplyStep

LEMMA RejectStep ==
  ASSUME Inductive, NEW p \in Processes, reject_task(p)
  PROVE  Inductive'
<1>1. PICK q \in Identities, t \in Tasks :
        /\ task[t].status = "pending_approval"
        /\ LET rec == [task[t] EXCEPT !.status = "draft", !.version = @ + 1]
           IN  Reply(p, <<DecisionWrite(t, rec, Approval(q, t, task[t], "rejected")),
                          SnapshotWrite(t, rec.version)>>)
  BY DEF reject_task
<1> DEFINE old == task[t]
           rec == [old EXCEPT !.status = "draft", !.version = old.version + 1]
           a   == Approval(q, t, old, "rejected")
           w   == DecisionWrite(t, rec, a)
<1>2. old \in TaskRecords /\ old.version + 1 \in Nat
  BY <1>1, PendingApprovalRow DEF TaskRecords
<1>3. rec \in TaskRecords
  BY <1>2 DEF TaskRecords, TaskStatus
<1>4. rec.status = "draft" /\ rec.version \in Nat
  BY <1>2, <1>3 DEF TaskRecords
<1>5. a \in ApprovalRecords /\ a.decision = "rejected"
  BY <1>2, ApprovalType DEF Approval
<1>6. w \in Writes /\ WriteOK(w)
  BY <1>3, <1>4, <1>5, DecisionWriteType DEF WriteOK, DecisionWrite
<1> QED BY <1>1, <1>4, <1>6, SnapshotPlain, TwoWrites, ReplyStep

LEMMA AssignStep ==
  ASSUME Inductive, NEW p \in Processes, assign_task(p)
  PROVE  Inductive'
<1>1. PICK assignee \in Identities, t \in Tasks :
        /\ task[t].status \in ExecutionStatuses
        /\ LET rec == [task[t] EXCEPT !.assignee = assignee.id, !.assignmentVersion = @ + 1]
           IN  Reply(p, <<TaskWrite(t, rec),
                          AssignmentWrite(t, rec.assignmentVersion, assignee.id)>>)
  BY DEF assign_task
<1> DEFINE old == task[t]
           rec == [old EXCEPT !.assignee = assignee.id,
                              !.assignmentVersion = old.assignmentVersion + 1]
           v   == AssignmentWrite(t, rec.assignmentVersion, assignee.id)
<1>2. old \in TaskRecords /\ Backed(t, old) /\ assignee.id \in Operators
  BY <1>1, StatusIsStored, StoredRowBacked
     DEF ExecutionStatuses, TakeOverStatuses, TaskStatus, Operators
<1>3. old.assignmentVersion + 1 \in Nat
  BY <1>2 DEF TaskRecords
<1>4. rec \in TaskRecords
  BY <1>2, <1>3 DEF TaskRecords
<1>5. /\ rec.assignmentVersion \in Nat
      /\ rec.status = old.status /\ rec.version = old.version /\ rec.content = old.content
      /\ rec.policy = old.policy /\ rec.draftedBy = old.draftedBy
      /\ rec.approved = old.approved
  BY <1>2, <1>3 DEF TaskRecords
<1>6. TaskWrite(t, rec) \in Writes /\ WriteOK(TaskWrite(t, rec))
  BY <1>2, <1>4, <1>5, RewrittenRow
<1>7. v \in Writes /\ WriteOK(v)
  BY <1>2, <1>5, OtherWriteTypes DEF AssignmentWrite, WriteOK
<1> QED BY <1>1, <1>6, <1>7, TwoWrites, ReplyStep

LEMMA VerifyStep ==
  ASSUME Inductive, NEW p \in Processes, verify_completion(p)
  PROVE  Inductive'
<1>1. PICK q \in Identities, t \in Tasks, target \in {"completed", "in_progress"} :
        /\ task[t].status = "pending_verification"
        /\ LET update == <<TaskWrite(t, [task[t] EXCEPT !.status = target])>>
           IN  Reply(p, IF target = "completed"
                        THEN update \o <<SignatureWrite(t, "verified", q.id)>>
                        ELSE update)
  BY DEF verify_completion
<1> DEFINE update == <<TaskWrite(t, [task[t] EXCEPT !.status = target])>>
           s == SignatureWrite(t, "verified", q.id)
<1>2. task[t] \in TaskRecords /\ Backed(t, task[t])
  BY <1>1, StatusIsStored, StoredRowBacked DEF TaskStatus
<1>3. SoundWrites(update)
  BY <1>1, <1>2, MovedRow, OneWrite DEF TaskStatus, ApprovedStatuses
<1>4. SoundWrites(<<s>>)
  <2>1. s \in Writes /\ WriteOK(s)
    BY OtherWriteTypes DEF Operators, SignatureWrite, WriteOK
  <2> QED BY <2>1, OneWrite
<1>5. SoundWrites(update \o <<s>>)
  BY <1>3, <1>4, JoinedWrites
<1> QED BY <1>1, <1>3, <1>5, ReplyStep

\* Cancelling and waiving leave the approved statuses.
LEMMA CancelStep ==
  ASSUME Inductive, NEW p \in Processes, cancel_task(p) \/ waive_task(p)
  PROVE  Inductive'
<1>1. PICK t \in Tasks, to \in {"cancelled", "waived"} :
        Stored(t) /\ Transition(p, t, task[t], to)
  BY DEF cancel_task, waive_task
<1>2. task[t].status \in TaskStatus
  BY <1>1, StoredRowBacked DEF TaskRecords
<1> QED
  BY <1>1, <1>2, TransitionStep
     DEF TaskStatus, ApprovedStatuses, ExecutionStatuses, TakeOverStatuses

LEMMA TakeOverStep ==
  ASSUME Inductive, NEW p \in Processes, take_over_task(p)
  PROVE  Inductive'
<1>1. PICK q \in Identities, t \in Tasks :
        /\ task[t].status \in TakeOverStatuses
        /\ Transition(p, t, [task[t] EXCEPT !.assignee = q.id], "taken_over")
  BY DEF take_over_task
<1> DEFINE old == task[t]
           rec == [[old EXCEPT !.assignee = q.id] EXCEPT !.status = "taken_over"]
<1>2. old \in TaskRecords /\ Backed(t, old) /\ q.id \in Operators
  BY <1>1, StatusIsStored, StoredRowBacked DEF TakeOverStatuses, TaskStatus, Operators
<1>3. /\ rec \in TaskRecords
      /\ rec.version = old.version /\ rec.content = old.content
      /\ rec.policy = old.policy /\ rec.draftedBy = old.draftedBy
      /\ rec.approved = old.approved
  BY <1>2 DEF TaskRecords, TaskStatus
<1>4. old.status \in ApprovedStatuses
  BY <1>1 DEF ApprovedStatuses, ExecutionStatuses
<1>5. SoundWrites(<<TaskWrite(t, rec)>>)
  BY <1>2, <1>3, <1>4, RewrittenRow, OneWrite
<1> QED BY <1>1, <1>5, ReplyStep DEF Transition

LEMMA RequestStep ==
  ASSUME Inductive, NEW p \in Processes, request_deadline_extension(p)
  PROVE  Inductive'
<1>1. PICK q \in Identities, t \in Tasks, x \in Extensions, proposal \in Proposals :
        /\ task[t].status \in TakeOverStatuses
        /\ Reply(p, <<ExtensionWrite(x, [status |-> "requested", task |-> t, by |-> q.id,
                                         proposal |-> proposal])>>)
  BY DEF request_deadline_extension
<1> DEFINE rec == [status |-> "requested", task |-> t, by |-> q.id, proposal |-> proposal]
<1>2. rec \in ExtensionRecords
  BY ProposalsAssumption DEF ExtensionRecords, Operators, Deadlines
<1>3. Stored(t)
  BY <1>1, StatusIsStored DEF TakeOverStatuses, TaskStatus
<1>4. ExtensionWrite(x, rec) \in Writes /\ WriteOK(ExtensionWrite(x, rec))
  BY <1>2, <1>3, ExtensionWriteType DEF ExtensionWrite, WriteOK
<1> QED BY <1>1, <1>4, OneWrite, ReplyStep

\* Granting an extension replaces the effective deadlines and nothing else.
LEMMA ExtendedRow ==
  ASSUME NEW old \in TaskRecords, NEW proposal \in Deadlines
  PROVE  /\ Extended(old, proposal) \in TaskRecords
         /\ Extended(old, proposal) = [old EXCEPT !.effective = Extended(old, proposal).effective]
<1>1. old.effective \in Deadlines /\ old.content \in Contents
  BY DEF TaskRecords
<1>2. Due[old.content] \in [ack : Nat, start : Nat, complete : Nat, verify : Nat]
  BY <1>1, ContentsAssumption
<1>3. StartDeadline(old) \in Nat /\ VerificationDeadline(old) \in Nat
  BY <1>1, <1>2 DEF StartDeadline, VerificationDeadline, Deadlines
<1> DEFINE eff == [start    |-> IF proposal.start # None THEN proposal.start
                                                         ELSE StartDeadline(old),
                   complete |-> proposal.complete,
                   verify   |-> IF proposal.verify # None THEN proposal.verify
                                                          ELSE VerificationDeadline(old)]
<1>4. eff \in Deadlines
  BY <1>3 DEF Deadlines
<1>5. Extended(old, proposal) = [old EXCEPT !.effective = eff]
  BY DEF Extended
<1> HIDE DEF eff
<1> QED BY <1>4, <1>5 DEF TaskRecords

LEMMA DecideExtensionStep ==
  ASSUME Inductive, NEW p \in Processes, decide_deadline_extension(p)
  PROVE  Inductive'
<1>1. PICK x \in Extensions, approved \in BOOLEAN :
        LET ext     == extension[x]
            decided == [ext EXCEPT !.status = IF approved THEN "approved" ELSE "rejected"]
            record  == <<ExtensionWrite(x, decided)>>
        IN  /\ ext.status = "requested"
            /\ Reply(p, IF approved
                        THEN record \o <<TaskWrite(ext.task, Extended(task[ext.task], ext.proposal))>>
                        ELSE record)
  BY DEF decide_deadline_extension
<1> DEFINE ext     == extension[x]
           t       == ext.task
           decided == [ext EXCEPT !.status = IF approved THEN "approved" ELSE "rejected"]
           update  == TaskWrite(t, Extended(task[t], ext.proposal))
<1>2. ext \in ExtensionRecords /\ t \in Tasks /\ Stored(t)
  BY <1>1, RequestedTask DEF Inductive, ExtensionsOfStoredTasks
<1>3. ext.proposal \in Deadlines /\ decided \in ExtensionRecords /\ decided.task = t
  BY <1>2 DEF ExtensionRecords
<1>4. SoundWrites(<<ExtensionWrite(x, decided)>>)
  <2>1. ExtensionWrite(x, decided) \in Writes /\ WriteOK(ExtensionWrite(x, decided))
    BY <1>2, <1>3, ExtensionWriteType DEF ExtensionWrite, WriteOK
  <2> QED BY <2>1, OneWrite
<1>5. task[t] \in TaskRecords /\ Backed(t, task[t])
  BY <1>2, StoredRowBacked
<1>6. SoundWrites(<<update>>)
  <2> DEFINE rec == Extended(task[t], ext.proposal)
  <2>1. rec \in TaskRecords /\ rec = [task[t] EXCEPT !.effective = rec.effective]
    BY <1>3, <1>5, ExtendedRow
  <2> HIDE DEF rec
  <2>2. /\ rec.status = task[t].status
        /\ rec.version = task[t].version /\ rec.content = task[t].content
        /\ rec.policy = task[t].policy /\ rec.draftedBy = task[t].draftedBy
        /\ rec.approved = task[t].approved
    BY <1>5, <2>1 DEF TaskRecords
  <2>3. TaskWrite(t, rec) \in Writes /\ WriteOK(TaskWrite(t, rec))
    BY <1>2, <1>5, <2>1, <2>2, RewrittenRow
  <2> QED BY <2>3, OneWrite DEF rec
<1>7. SoundWrites(<<ExtensionWrite(x, decided)>> \o <<update>>)
  BY <1>4, <1>6, JoinedWrites
<1> QED BY <1>1, <1>4, <1>7, ReplyStep

LEMMA FeedbackStep ==
  ASSUME Inductive, NEW p \in Processes, submit_feedback(p)
  PROVE  Inductive'
<1>1. PICK q \in Identities, t \in Tasks, r \in Reports :
        /\ task[t].status \in ExecutionStatuses
        /\ Reply(p, FeedbackWrites(t, task[t], r, q.id))
  BY DEF submit_feedback
<1> DEFINE old      == task[t]
           category == CategoryOf[r]
           target   == FeedbackTarget(old, category)
           refused  == category # "situation_update" /\ ~can_transition(old.status, target)
           report   == <<FeedbackWrite(t, r, q.id)>>
           alarm    == IF category = "blocked"
                       THEN <<EscalationWrite(t, old.status, "duty_officer")>> ELSE <<>>
           update   == <<TaskWrite(t, [old EXCEPT !.status = target])>>
           signature == IF category = "completion"
                        THEN <<SignatureWrite(t, "submitted", q.id)>> ELSE <<>>
<1>2. old \in TaskRecords /\ Backed(t, old) /\ old.status \in ApprovedStatuses
  BY <1>1, StatusIsStored, StoredRowBacked
     DEF ExecutionStatuses, TakeOverStatuses, TaskStatus, ApprovedStatuses
<1>3. q.id \in Operators /\ old.status \in TaskStatus
  BY <1>2 DEF Operators, TaskRecords
<1>4. category \in Categories
  BY ReportsAssumption
<1>5. target \in TaskStatus
  BY <1>3, <1>4 DEF FeedbackTarget, Categories, TaskStatus
<1>6. SoundWrites(update)
  BY <1>2, <1>5, MovedRow, OneWrite
<1>7. SoundWrites(<<>>)
  BY DEF SoundWrites
<1>8. SoundWrites(report)
  <2>1. FeedbackWrite(t, r, q.id) \in Writes /\ WriteOK(FeedbackWrite(t, r, q.id))
    BY <1>3, OtherWriteTypes DEF FeedbackWrite, WriteOK
  <2> QED BY <2>1, OneWrite
<1>9. SoundWrites(alarm)
  <2>1. /\ EscalationWrite(t, old.status, "duty_officer") \in Writes
        /\ WriteOK(EscalationWrite(t, old.status, "duty_officer"))
    BY <1>3, OtherWriteTypes DEF EscalationWrite, WriteOK
  <2> QED BY <2>1, <1>7, OneWrite
<1>10. SoundWrites(signature)
  <2>1. /\ SignatureWrite(t, "submitted", q.id) \in Writes
        /\ WriteOK(SignatureWrite(t, "submitted", q.id))
    BY <1>3, OtherWriteTypes DEF SignatureWrite, WriteOK
  <2> QED BY <2>1, <1>7, OneWrite
<1>11. FeedbackWrites(t, old, r, q.id)
         = report \o (IF refused THEN <<>> ELSE alarm \o update \o signature)
  BY DEF FeedbackWrites
<1> HIDE DEF report, alarm, update, signature, refused
<1>12. SoundWrites(FeedbackWrites(t, old, r, q.id))
  <2>1. SoundWrites(alarm \o update \o signature)
    BY <1>6, <1>9, <1>10, JoinedWrites
  <2> QED BY <1>7, <1>8, <1>11, <2>1, JoinedWrites
<1> QED BY <1>1, <1>12, ReplyStep

LEMMA Halves ==
  ASSUME NEW n \in Nat, NEW i \in 1..(2 * n)
  PROVE  (i + 1) \div 2 \in 1..n
  OBVIOUS

\* The sweep escalates only rows in approved statuses.
LEMMA SweepStep ==
  ASSUME Inductive, NEW p \in Processes, run_deadline_sweep(p)
  PROVE  Inductive'
<1> DEFINE late == {t \in Tasks : Overdue(task[t])}
           n    == Cardinality(late)
<1>1. PICK order \in [1..n -> late] : Reply(p, SweepWrites(order))
  BY DEF run_deadline_sweep
<1>2. n \in Nat
  BY TasksAssumption, FS_Subset, FS_CardinalityType
<1>3. Len(order) = n
  BY <1>1, <1>2
<1>4. \A t \in late : /\ task[t] \in TaskRecords /\ Backed(t, task[t])
                      /\ task[t].status \in TaskStatus
  <2> SUFFICES ASSUME NEW t \in late
               PROVE  /\ task[t] \in TaskRecords /\ Backed(t, task[t])
                      /\ task[t].status \in TaskStatus
    OBVIOUS
  <2>1. task[t].status \in TaskStatus
    BY DEF Overdue, TaskStatus
  <2> QED BY <2>1, StatusIsStored, StoredRowBacked
<1>5. \A t \in late : task[t].status \in ApprovedStatuses
  BY DEF Overdue, ApprovedStatuses, ExecutionStatuses, TakeOverStatuses
<1>6. \A t \in late : LET w == TaskWrite(t, [task[t] EXCEPT !.status = "escalated"])
                      IN  w \in Writes /\ WriteOK(w)
  BY <1>4, <1>5, MovedRow DEF TaskStatus
<1>7. \A t \in late : LET w == EscalationWrite(t, task[t].status, "reviewer")
                      IN  w \in Writes /\ WriteOK(w)
  BY <1>4 DEF EscalationWrite, WriteOK, Writes, EscalationRecords
<1>8. \A i \in 1..(2 * n) : (i + 1) \div 2 \in 1..n /\ order[(i + 1) \div 2] \in late
  BY <1>1, <1>2, Halves
<1> DEFINE ws == SweepWrites(order)
<1>9. /\ ws = [i \in 1..(2 * n) |-> ws[i]]
      /\ \A i \in 1..(2 * n) : ws[i] \in Writes /\ WriteOK(ws[i])
  BY <1>3, <1>6, <1>7, <1>8 DEF SweepWrites
<1> HIDE DEF ws
<1>10. SoundWrites(ws)
  <2>1. ws \in [1..(2 * n) -> Writes] /\ 2 * n \in Nat /\ DOMAIN ws = 1..(2 * n)
    BY <1>2, <1>9
  <2> QED BY <1>9, <2>1 DEF SoundWrites
<1> QED BY <1>1, <1>10, ReplyStep DEF ws

LEMMA CloseStep ==
  ASSUME Inductive, NEW p \in Processes, close_event(p)
  PROVE  Inductive'
<1>1. SoundWrites(<<CloseWrite>>)
  BY CloseWriteType, OneWrite DEF CloseWrite, WriteOK
<1> QED BY <1>1, ReplyStep DEF close_event

LEMMA TickStep ==
  ASSUME Inductive, tick
  PROVE  Inductive'
<1>1. UNCHANGED <<event, task, approvals, outbox, snapshots, feedback, escalations,
                  assignments, extension, signed, todo>> /\ clock' = clock + 1
  BY DEF tick, db
<1>2. TypeOK'
  BY <1>1 DEF Inductive, TypeOK
<1>3. \A w \in Pending' : WriteOK(w)'
  BY <1>1 DEF Inductive, Pending, WriteOK, Backed, Stored
<1> QED
  BY <1>1, <1>2, <1>3
     DEF Inductive, ExtensionsOfStoredTasks, ApprovalIntegrity, DispatchedOncePerVersion,
         DispatchIsSound, Stored

LEMMA Stuttering ==
  ASSUME Inductive, UNCHANGED vars
  PROVE  Inductive'
<1>1. UNCHANGED <<event, task, approvals, outbox, snapshots, feedback, escalations,
                  assignments, extension, signed, clock, todo>>
  BY DEF vars, db
<1>2. TypeOK'
  BY <1>1 DEF Inductive, TypeOK
<1>3. \A w \in Pending' : WriteOK(w)'
  BY <1>1 DEF Inductive, Pending, WriteOK, Backed, Stored
<1> QED
  BY <1>1, <1>2, <1>3
     DEF Inductive, ExtensionsOfStoredTasks, ApprovalIntegrity, DispatchedOncePerVersion,
         DispatchIsSound, Stored

-----------------------------------------------------------------------------
(***************************************************************************)
(* The invariant and its consequences.                                     *)
(***************************************************************************)
LEMMA InitInductive ==
  ASSUME Init
  PROVE  Inductive
<1>1. TypeOK
  BY DEF Init, TypeOK
<1>2. Pending = {}
  BY DEF Init, Pending
<1>3. ApprovalIntegrity
  BY DEF Init, ApprovalIntegrity, Blank, ApprovedStatuses, ExecutionStatuses, TakeOverStatuses
<1> QED
  BY <1>1, <1>2, <1>3
     DEF Init, Inductive, ExtensionsOfStoredTasks, DispatchedOncePerVersion, DispatchIsSound

LEMMA NextInductive ==
  ASSUME Inductive, [Next]_vars
  PROVE  Inductive'
<1>1. ASSUME NEW p \in Threads, Draft(p) PROVE Inductive'
  <2>1. p \in Processes
    BY DEF Processes
  <2> QED
    BY <1>1, <2>1, CreateStep, UpdateStep, TransitionSteps, ApproveStep, RejectStep DEF Draft
<1>2. ASSUME NEW p \in Threads, Execute(p) PROVE Inductive'
  <2>1. p \in Processes
    BY DEF Processes
  <2> QED
    BY <1>2, <2>1, TransitionSteps, AssignStep, FeedbackStep, VerifyStep DEF Execute
<1>3. ASSUME NEW p \in Threads, Intervene(p) PROVE Inductive'
  <2>1. p \in Processes
    BY DEF Processes
  <2> QED
    BY <1>3, <2>1, CancelStep, TakeOverStep, RequestStep, DecideExtensionStep, CloseStep
       DEF Intervene
<1>4. ASSUME NEW p \in Processes, crash(p) PROVE Inductive'
  BY <1>4, AbandonedStep DEF crash
<1> QED
  BY <1>1, <1>2, <1>3, <1>4, SweepStep, StoreStep, TickStep, Stuttering DEF Next

\* Inductive is an invariant for any number of tasks, threads, operators,
\* contents and extensions, with transactions failing anywhere.
THEOREM InductiveInvariant == Spec => []Inductive
<1>1. Init => Inductive
  BY InitInductive
<1>2. Inductive /\ [Next]_vars => Inductive'
  BY NextInductive
<1> QED BY <1>1, <1>2, PTL DEF Spec

\* Every table row, and every transaction under way, is well formed.
THEOREM TypeCorrect == Spec => []TypeOK
<1>1. Inductive => TypeOK
  BY DEF Inductive
<1> QED BY <1>1, InductiveInvariant, PTL

\* No task is under execution or completed unless somebody entitled approved
\* exactly its version and content, and that payload was queued for dispatch,
\* whatever handlers raced and wherever they failed.
THEOREM ApprovalSafe == Spec => []ApprovalIntegrity
<1>1. Inductive => ApprovalIntegrity
  BY DEF Inductive
<1> QED BY <1>1, InductiveInvariant, PTL

\* No task version is dispatched twice, however many reviewers race, and what
\* is dispatched passed the rules and was decided by a reviewer or commander.
THEOREM DispatchSafe == Spec => [](DispatchedOncePerVersion /\ DispatchIsSound)
<1>1. Inductive => DispatchedOncePerVersion /\ DispatchIsSound
  BY DEF Inductive
<1> QED BY <1>1, InductiveInvariant, PTL

-----------------------------------------------------------------------------
(***************************************************************************)
(* One handler at a time: what is pending.                                 *)
(***************************************************************************)
LEMMA OneProcess ==
  ASSUME OneAtATime, NEW p \in Processes, NEW s \in Processes
  PROVE  p = s
  BY DEF OneAtATime, Processes

LEMMA IdlePending ==
  ASSUME OneAtATime, NEW p \in Processes, todo[p] = <<>>
  PROVE  /\ Pending = {}
         /\ \A kind, t : Of(kind, t) = {}
         /\ \A t : RowWrites(t) = {} /\ Targets(t) = {task[t]}
<1>1. Pending = {}
  BY OneProcess DEF Pending
<1> QED BY <1>1 DEF Of, RowWrites, Targets

\* A handler starts with what it leaves to be stored.
LEMMA RepliedPending ==
  ASSUME OneAtATime, TypeOK, NEW p \in Processes, NEW ws, Reply(p, ws)
  PROVE  /\ Pending' = {ws[i] : i \in DOMAIN ws}
         /\ \A s \in Processes : todo'[s] = ws
         /\ UNCHANGED <<event, task, approvals, outbox, snapshots, feedback, escalations,
                        assignments, extension, signed, clock>>
<1>1. todo'[p] = ws
  BY DEF Reply, TypeOK
<1>2. \A s \in Processes : todo'[s] = ws
  BY <1>1, OneProcess
<1>3. Pending' = {ws[i] : i \in DOMAIN ws}
  BY <1>2 DEF Pending
<1> QED BY <1>2, <1>3 DEF Reply, db

\* The transaction at the head has run.
LEMMA RestPending ==
  ASSUME OneAtATime, TypeOK, InPlace, NEW p \in Processes, todo[p] # <<>>,
         todo' = [todo EXCEPT ![p] = Tail(@)]
  PROVE  /\ Pending = Pending' \cup {Head(todo[p])}
         /\ InPlace'
         /\ Head(todo[p]).kind \in {"snapshot", "assignment", "signature", "close"} => Pending' = {}
         /\ \A w \in Pending' : w.kind \notin {"feedback", "decision"}
<1> DEFINE q == todo[p]
           n == Len(q)
<1>1. q \in Seq(Writes) /\ q # <<>> /\ n \in Nat /\ n >= 1 /\ DOMAIN q = 1..n /\ Head(q) = q[1]
  BY DEF TypeOK
<1>2. PICK r \in Seq(Writes) :
        r = Tail(q) /\ Len(r) = n - 1 /\ DOMAIN r = 1..(n - 1) /\ \A i \in 1..(n - 1) : r[i] = q[i + 1]
  <2> HIDE DEF q, n
  <2>1. n = Len(q)
    BY DEF n
  <2>2. Tail(q) \in Seq(Writes) /\ Len(Tail(q)) = n - 1 /\ \A i \in 1..(n - 1) : Tail(q)[i] = q[i + 1]
    BY <1>1, <2>1
  <2>3. DOMAIN Tail(q) = 1..(n - 1)
    BY <2>2
  <2> QED BY <2>2, <2>3
<1>3. \A s \in Processes : todo'[s] = r
  BY <1>2, OneProcess DEF TypeOK
<1>4. Pending' = {r[i] : i \in DOMAIN r}
  BY <1>3 DEF Pending
<1>5. Pending = {q[i] : i \in DOMAIN q}
  BY OneProcess DEF Pending
<1> HIDE DEF q, n
<1>6. \A i \in 1..(n - 1) : i + 1 \in 1..n /\ i + 1 # 1
  BY <1>1
<1>7. \A k \in 1..n : k # 1 => k - 1 \in 1..(n - 1) /\ (k - 1) + 1 = k
  BY <1>1
<1>8. Pending = Pending' \cup {Head(q)}
  <2>1. ASSUME NEW w \in Pending' \cup {Head(q)}  PROVE w \in Pending
    BY <1>1, <1>2, <1>4, <1>5, <1>6
  <2>2. ASSUME NEW w \in Pending, w # Head(q)  PROVE w \in Pending'
    <3>1. PICK k \in 1..n : w = q[k]
      BY <1>1, <1>5
    <3>2. k # 1
      BY <1>1, <2>2, <3>1
    <3>3. k - 1 \in 1..(n - 1) /\ r[k - 1] = q[k]
      BY <1>2, <1>7, <3>2
    <3> QED BY <1>2, <1>4, <3>1, <3>3
  <2> QED BY <2>1, <2>2
<1>9. \A i \in DOMAIN q : /\ q[i].kind \in {"feedback", "decision"} => i = 1
                          /\ q[i].kind \in {"snapshot", "assignment", "signature", "close"} => i = n
  BY DEF InPlace, q, n
<1>10. \A i \in DOMAIN r :
         /\ r[i].kind \notin {"feedback", "decision"}
         /\ r[i].kind \in {"snapshot", "assignment", "signature", "close"} => i = Len(r)
  <2> SUFFICES ASSUME NEW i \in 1..(n - 1)
               PROVE  /\ r[i].kind \notin {"feedback", "decision"}
                      /\ r[i].kind \in {"snapshot", "assignment", "signature", "close"} => i = n - 1
    BY <1>2
  <2>1. r[i] = q[i + 1] /\ i + 1 \in DOMAIN q /\ i + 1 # 1
    BY <1>1, <1>2, <1>6
  <2> QED BY <1>1, <1>9, <2>1
<1>11. InPlace'
  BY <1>3, <1>10 DEF InPlace
<1>12. ASSUME Head(q).kind \in {"snapshot", "assignment", "signature", "close"}
       PROVE  Pending' = {}
  <2>1. n = 1
    BY <1>1, <1>9, <1>12
  <2>2. DOMAIN r = {}
    BY <1>2, <2>1
  <2> QED BY <1>4, <2>2
<1>13. \A w \in Pending' : w.kind \notin {"feedback", "decision"}
  BY <1>4, <1>10
<1> QED BY <1>8, <1>11, <1>12, <1>13 DEF q

\* Nothing is pending once a handler has failed.
LEMMA AbandonedPending ==
  ASSUME OneAtATime, TypeOK, NEW p \in Processes, Abandoned(p)
  PROVE  /\ todo'[p] = <<>> /\ \A s \in Processes : todo'[s] = <<>>
         /\ Pending' = {} /\ InPlace'
         /\ UNCHANGED <<event, task, approvals, outbox, snapshots, feedback, escalations,
                        assignments, extension, signed, clock>>
<1>1. todo'[p] = <<>>
  BY DEF Abandoned, TypeOK
<1>2. \A s \in Processes : todo'[s] = <<>> /\ DOMAIN (todo'[s]) = {}
  BY <1>1, OneProcess
<1> QED BY <1>1, <1>2 DEF Abandoned, db, Pending, InPlace

-----------------------------------------------------------------------------
(***************************************************************************)
(* One handler at a time: rows move along the state machine.               *)
(***************************************************************************)
\* What a handler may ask of the row of a task.
GuardedRow(w) ==
  /\ IF Stored(w.task)
     THEN w.rec.status = task[w.task].status \/ can_transition(task[w.task].status, w.rec.status)
     ELSE event = "active" /\ w.rec.status = "draft"
  /\ (\E a \in outbox : a.task = w.task) =>
       /\ w.kind = "task" /\ PayloadHash(w.rec) = PayloadHash(task[w.task])
       /\ w.rec.status \notin {"draft", "pending_approval"}
  /\ w.kind = "decision" /\ w.approval.decision = "approved" => w.rec.status = "issued"

IsRowWrite(w) == w.kind \in {"task", "decision"}

Placed(ws) ==
  \A i \in DOMAIN ws :
    /\ ws[i].kind \in {"feedback", "decision"} => i = 1
    /\ ws[i].kind \in {"snapshot", "assignment", "signature", "close"} => i = Len(ws)

LEMMA RowWriteFacts ==
  ASSUME NEW t \in Tasks
  PROVE  RowWrites(t) = {w \in Pending : IsRowWrite(w) /\ w.task = t}
  BY DEF RowWrites, Of, IsRowWrite

LEMMA ReplySerial ==
  ASSUME OneAtATime, SerialInductive, Inductive', NEW p \in Processes,
         NEW ws, Reply(p, ws), Placed(ws),
         \A i \in DOMAIN ws : IsRowWrite(ws[i]) => GuardedRow(ws[i]),
         \A i, j \in DOMAIN ws :
           IsRowWrite(ws[i]) /\ IsRowWrite(ws[j]) /\ ws[i].task = ws[j].task =>
             ws[i].rec = ws[j].rec,
         \A i \in DOMAIN ws : ws[i].kind = "close" =>
           Finished /\ \A j \in DOMAIN ws : ~IsRowWrite(ws[j])
  PROVE  SerialInductive'
<1>1. TypeOK
  BY DEF SerialInductive, Inductive
<1>2. /\ Pending' = {ws[i] : i \in DOMAIN ws}
      /\ \A s \in Processes : todo'[s] = ws
      /\ UNCHANGED <<event, task, approvals, outbox>>
  BY <1>1, RepliedPending
<1>3. InPlace'
  BY <1>2 DEF InPlace, Placed
<1>4. ASSUME NEW t \in Tasks, NEW w \in RowWrites(t)'
      PROVE  IsRowWrite(w) /\ w.task = t /\ \E i \in DOMAIN ws : w = ws[i]
  BY <1>2, <1>4 DEF RowWrites, Of, IsRowWrite
<1>5. MovesGuarded'
  <2> SUFFICES ASSUME NEW t \in Tasks, NEW w \in RowWrites(t)'
               PROVE  /\ IF Stored(t) THEN \/ w.rec.status = task[t].status
                                           \/ can_transition(task[t].status, w.rec.status)
                         ELSE event = "active" /\ w.rec.status = "draft"
                      /\ \A v \in RowWrites(t)' : v.rec = w.rec
    BY <1>2 DEF MovesGuarded, Stored
  <2> QED BY <1>4 DEF GuardedRow
<1>6. FrozenRows'
  <2>1. ASSUME NEW a \in outbox  PROVE a.task \in Tasks /\ Stored(a.task)
    BY <1>1 DEF TypeOK, ApprovalRecords, SerialInductive, FrozenRows
  <2>2. ASSUME NEW a \in outbox, NEW w \in RowWrites(a.task)'
        PROVE  /\ w.kind = "task" /\ a.hash = PayloadHash(w.rec)
               /\ w.rec.status \notin {"draft", "pending_approval"}
    <3>1. a.hash = PayloadHash(task[a.task])
      BY DEF SerialInductive, SettledIsFinal, DispatchedTaskIsFrozen
    <3>2. GuardedRow(w) /\ w.task = a.task
      BY <1>4, <2>1
    <3> QED BY <3>1, <3>2 DEF GuardedRow
  <2>3. ASSUME NEW t \in Tasks, NEW w \in Of("decision", t)', w.approval.decision = "approved"
        PROVE  w.rec.status = "issued"
    <3>1. w \in RowWrites(t)' /\ w.kind = "decision"
      BY DEF RowWrites, Of
    <3> QED BY <1>4, <2>3, <3>1 DEF GuardedRow
  <2> QED BY <1>2, <2>1, <2>2, <2>3 DEF FrozenRows, Stored
<1>7. Closing'
  <2> SUFFICES ASSUME NEW w \in Pending', w.kind = "close"
               PROVE  Finished' /\ \A t \in Tasks : RowWrites(t)' = {}
    BY DEF Closing
  <2>1. Finished /\ \A j \in DOMAIN ws : ~IsRowWrite(ws[j])
    BY <1>2
  <2>2. Finished'
    BY <1>2, <2>1 DEF Finished, Stored
  <2> QED BY <1>4, <2>1, <2>2
<1>8. SettledIsFinal'
  BY <1>2 DEF SerialInductive, SettledIsFinal, DispatchedTaskIsFrozen, ClosedEventIsFinished, Stored
<1> QED BY <1>3, <1>5, <1>6, <1>7, <1>8 DEF SerialInductive

\* What was not yet approved was not dispatched.
LEMMA NotDispatched ==
  ASSUME SerialInductive, NEW t \in Tasks, task[t].status \in {"absent", "draft", "pending_approval"}
  PROVE  ~ \E a \in outbox : a.task = t
<1> SUFFICES ASSUME NEW a \in outbox, a.task = t  PROVE FALSE
  OBVIOUS
<1>1. Stored(t) /\ task[t].status \notin {"draft", "pending_approval"}
  BY DEF SerialInductive, FrozenRows, SettledIsFinal, DispatchedTaskIsFrozen
<1> QED BY <1>1 DEF Stored

\* A stored row that keeps its payload and moves as the state machine allows.
LEMMA MoveGuarded ==
  ASSUME SerialInductive, NEW t \in Tasks, Stored(t), NEW rec,
         PayloadHash(rec) = PayloadHash(task[t]),
         rec.status = task[t].status \/ can_transition(task[t].status, rec.status)
  PROVE  /\ GuardedRow(TaskWrite(t, rec)) /\ TaskWrite(t, rec).task = t
         /\ TaskWrite(t, rec).rec = rec /\ TaskWrite(t, rec).kind = "task"
<1> DEFINE w == TaskWrite(t, rec)
<1>1. w.kind = "task" /\ w.task = t /\ w.rec = rec
  BY DEF TaskWrite
<1>2. ASSUME NEW a \in outbox, a.task = t
      PROVE  rec.status \notin {"draft", "pending_approval"}
  <2>1. task[t].status \notin {"draft", "pending_approval"}
    BY <1>2 DEF SerialInductive, SettledIsFinal, DispatchedTaskIsFrozen
  <2>2. can_transition(task[t].status, rec.status) => rec.status \notin {"draft", "pending_approval"}
    BY <2>1 DEF can_transition, ALLOWED_TASK_TRANSITIONS
  <2> QED BY <2>1, <2>2
<1> HIDE DEF w
<1>3. GuardedRow(w)
  BY <1>1, <1>2 DEF GuardedRow
<1> QED BY <1>1, <1>3 DEF w


\* The same for handlers with one, two or three transactions.
LEMMA OneSerial ==
  ASSUME OneAtATime, SerialInductive, Inductive', NEW p \in Processes, NEW v,
         Reply(p, <<v>>), IsRowWrite(v) => GuardedRow(v), v.kind = "close" => Finished
  PROVE  SerialInductive'
<1> DEFINE ws == <<v>>
<1>1. DOMAIN ws = 1..1 /\ Len(ws) = 1 /\ ws[1] = v
  OBVIOUS
<1>2. ~(v.kind = "close" /\ IsRowWrite(v))
  BY DEF IsRowWrite
<1> HIDE DEF ws
<1>3. Placed(ws)
  BY <1>1 DEF Placed
<1>4. Reply(p, ws)
  BY DEF ws
<1> QED BY <1>1, <1>2, <1>3, <1>4, ReplySerial

LEMMA TwoSerial ==
  ASSUME OneAtATime, SerialInductive, Inductive', NEW p \in Processes, NEW v, NEW w,
         Reply(p, <<v, w>>),
         v.kind \notin {"snapshot", "assignment", "signature", "close"},
         w.kind \notin {"feedback", "decision", "close"},
         IsRowWrite(v) => GuardedRow(v), IsRowWrite(w) => GuardedRow(w),
         ~(IsRowWrite(v) /\ IsRowWrite(w))
  PROVE  SerialInductive'
<1> DEFINE ws == <<v, w>>
<1>1. DOMAIN ws = 1..2 /\ Len(ws) = 2 /\ ws[1] = v /\ ws[2] = w
  OBVIOUS
<1> HIDE DEF ws
<1>2. \A i \in 1..2 : i = 1 \/ i = 2
  OBVIOUS
<1>3. Placed(ws)
  BY <1>1, <1>2 DEF Placed
<1>4. Reply(p, ws)
  BY DEF ws
<1> QED BY <1>1, <1>2, <1>3, <1>4, ReplySerial

LEMMA ThreeSerial ==
  ASSUME OneAtATime, SerialInductive, Inductive', NEW p \in Processes, NEW v, NEW w, NEW x,
         Reply(p, <<v, w, x>>),
         v.kind = "feedback",
         w.kind \in {"escalation", "task"}, x.kind \in {"task", "signature"},
         IsRowWrite(w) => GuardedRow(w), IsRowWrite(x) => GuardedRow(x),
         ~(IsRowWrite(w) /\ IsRowWrite(x))
  PROVE  SerialInductive'
<1> DEFINE ws == <<v, w, x>>
<1>1. DOMAIN ws = 1..3 /\ Len(ws) = 3 /\ ws[1] = v /\ ws[2] = w /\ ws[3] = x
  OBVIOUS
<1> HIDE DEF ws
<1>2. \A i \in 1..3 : i = 1 \/ i = 2 \/ i = 3
  OBVIOUS
<1>3. Placed(ws)
  BY <1>1, <1>2 DEF Placed
<1>4. Reply(p, ws)
  BY DEF ws
<1>5. ~IsRowWrite(v)
  BY DEF IsRowWrite
<1> QED BY <1>1, <1>2, <1>3, <1>4, <1>5, ReplySerial

\* What was not yet approved may become any draft, and may be decided.
LEMMA NewRowGuarded ==
  ASSUME SerialInductive, NEW t \in Tasks, NEW rec,
         task[t].status \in {"absent", "draft", "pending_approval"},
         ~Stored(t) => event = "active" /\ rec.status = "draft",
         Stored(t) => rec.status = task[t].status \/ can_transition(task[t].status, rec.status)
  PROVE  /\ GuardedRow(TaskWrite(t, rec)) /\ TaskWrite(t, rec).kind = "task"
         /\ \A a : (a.decision = "approved" => rec.status = "issued") =>
              GuardedRow(DecisionWrite(t, rec, a)) /\ DecisionWrite(t, rec, a).kind = "decision"
<1>1. ~ \E a \in outbox : a.task = t
  BY NotDispatched
<1> QED BY <1>1 DEF GuardedRow, TaskWrite, DecisionWrite

LEMMA ActiveIs ==
  ASSUME TypeOK, ActiveEvent
  PROVE  event = "active"
  BY DEF TypeOK, ActiveEvent

LEMMA CreateSerial ==
  ASSUME OneAtATime, SerialInductive, Inductive', NEW p \in Processes, create_task(p)
  PROVE  SerialInductive'
<1>1. PICK q \in Identities, t \in Tasks, c \in Contents, policy \in ApprovalPolicy :
        LET rec == [Blank EXCEPT !.status = "draft", !.version = 1, !.content = c,
                                 !.policy = policy, !.draftedBy = q.id]
        IN  /\ ActiveEvent /\ ~Stored(t)
            /\ Reply(p, <<TaskWrite(t, rec), SnapshotWrite(t, 1)>>)
  BY DEF create_task, Unclaimed
<1> DEFINE rec == [Blank EXCEPT !.status = "draft", !.version = 1, !.content = c,
                                !.policy = policy, !.draftedBy = q.id]
<1>2. rec.status = "draft"
  BY DEF Blank
<1>3. event = "active" /\ task[t].status = "absent"
  BY <1>1, ActiveIs DEF SerialInductive, Inductive, Stored
<1> HIDE DEF rec
<1>4. GuardedRow(TaskWrite(t, rec)) /\ TaskWrite(t, rec).kind = "task"
  BY <1>1, <1>2, <1>3, NewRowGuarded DEF Stored
<1>5. SnapshotWrite(t, 1).kind = "snapshot"
  BY DEF SnapshotWrite
<1>6. Reply(p, <<TaskWrite(t, rec), SnapshotWrite(t, 1)>>)
  BY <1>1 DEF rec
<1> QED BY <1>4, <1>5, <1>6, TwoSerial DEF IsRowWrite

LEMMA UpdateSerial ==
  ASSUME OneAtATime, SerialInductive, Inductive', NEW p \in Processes, update_task(p)
  PROVE  SerialInductive'
<1>1. PICK t \in Tasks, c \in Contents, policy \in ApprovalPolicy :
        LET rec == [task[t] EXCEPT !.version = @ + 1, !.content = c, !.policy = policy]
        IN  /\ task[t].status = "draft"
            /\ Reply(p, <<TaskWrite(t, rec), SnapshotWrite(t, rec.version)>>)
  BY DEF update_task, Editable
<1> DEFINE rec == [task[t] EXCEPT !.version = @ + 1, !.content = c, !.policy = policy]
<1>2. task[t] \in TaskRecords /\ Stored(t)
  BY <1>1, StoredRow DEF SerialInductive, Inductive, Stored
<1>3. rec.status = "draft"
  BY <1>1, <1>2 DEF TaskRecords
<1>4. Reply(p, <<TaskWrite(t, rec), SnapshotWrite(t, rec.version)>>)
  BY <1>1
<1> HIDE DEF rec
<1>5. GuardedRow(TaskWrite(t, rec)) /\ TaskWrite(t, rec).kind = "task"
  BY <1>1, <1>2, <1>3, NewRowGuarded
<1>6. SnapshotWrite(t, rec.version).kind = "snapshot"
  BY DEF SnapshotWrite
<1> QED BY <1>4, <1>5, <1>6, TwoSerial DEF IsRowWrite

\* A handler that only asks for a legal transition of a stored task.
LEMMA TransitionSerial ==
  ASSUME OneAtATime, SerialInductive, Inductive', NEW p \in Processes, NEW t \in Tasks,
         NEW rec \in TaskRecords, NEW to, Stored(t), rec.status = task[t].status,
         PayloadHash(rec) = PayloadHash(task[t]), Transition(p, t, rec, to)
  PROVE  SerialInductive'
<1> DEFINE new == [rec EXCEPT !.status = to]
<1>1. new.status = to /\ PayloadHash(new) = PayloadHash(task[t])
  BY DEF TaskRecords, PayloadHash
<1>2. can_transition(task[t].status, to) /\ Reply(p, <<TaskWrite(t, new)>>)
  BY DEF Transition
<1> HIDE DEF new
<1>3. GuardedRow(TaskWrite(t, new)) /\ TaskWrite(t, new).kind = "task"
  BY <1>1, <1>2, MoveGuarded
<1> QED BY <1>2, <1>3, OneSerial

LEMMA TransitionsSerial ==
  ASSUME OneAtATime, SerialInductive, Inductive', NEW p \in Processes,
         \/ submit_task(p) \/ acknowledge_task(p) \/ start_task(p)
         \/ cancel_task(p) \/ waive_task(p)
  PROVE  SerialInductive'
<1>1. PICK t \in Tasks, to \in TaskStatus : Stored(t) /\ Transition(p, t, task[t], to)
  <2>1. CASE submit_task(p)
    BY <2>1 DEF submit_task, Stored, TaskStatus
  <2>2. CASE acknowledge_task(p)
    BY <2>2 DEF acknowledge_task, Stored, TaskStatus
  <2>3. CASE start_task(p)
    BY <2>3 DEF start_task, Stored, TaskStatus
  <2>4. CASE cancel_task(p) \/ waive_task(p)
    BY <2>4 DEF cancel_task, waive_task, TaskStatus
  <2> QED BY <2>1, <2>2, <2>3, <2>4
<1>2. task[t] \in TaskRecords
  BY <1>1, StoredRow DEF SerialInductive, Inductive
<1> QED BY <1>1, <1>2, TransitionSerial

LEMMA TakeOverSerial ==
  ASSUME OneAtATime, SerialInductive, Inductive', NEW p \in Processes, take_over_task(p)
  PROVE  SerialInductive'
<1>1. PICK q \in Identities, t \in Tasks :
        /\ task[t].status \in TakeOverStatuses
        /\ Transition(p, t, [task[t] EXCEPT !.assignee = q.id], "taken_over")
  BY DEF take_over_task
<1> DEFINE rec == [task[t] EXCEPT !.assignee = q.id]
<1>2. task[t] \in TaskRecords /\ Stored(t) /\ q.id \in Operators
  BY <1>1, StoredRow DEF SerialInductive, Inductive, Stored, TakeOverStatuses, Operators
<1>3. /\ rec \in TaskRecords /\ rec.status = task[t].status
      /\ PayloadHash(rec) = PayloadHash(task[t])
  BY <1>2 DEF TaskRecords, PayloadHash
<1> QED BY <1>1, <1>2, <1>3, TransitionSerial

LEMMA ApproveSerial ==
  ASSUME OneAtATime, SerialInductive, Inductive', NEW p \in Processes, approve_task(p)
  PROVE  SerialInductive'
<1>1. PICK q \in Identities, t \in Tasks :
        LET rec == [task[t] EXCEPT !.status = "issued", !.approved = PayloadHash(task[t])]
        IN  /\ task[t].status = "pending_approval"
            /\ Reply(p, <<DecisionWrite(t, rec, Approval(q, t, task[t], "approved"))>>)
  BY DEF approve_task
<1> DEFINE rec == [task[t] EXCEPT !.status = "issued", !.approved = PayloadHash(task[t])]
           a == Approval(q, t, task[t], "approved")
<1>2. task[t] \in TaskRecords /\ Stored(t)
  BY <1>1, StoredRow DEF SerialInductive, Inductive, Stored
<1>3. rec.status = "issued" /\ can_transition(task[t].status, "issued")
  BY <1>1, <1>2 DEF TaskRecords, can_transition, ALLOWED_TASK_TRANSITIONS
<1>4. Reply(p, <<DecisionWrite(t, rec, a)>>)
  BY <1>1
<1> HIDE DEF rec, a
<1>5. GuardedRow(DecisionWrite(t, rec, a)) /\ DecisionWrite(t, rec, a).kind = "decision"
  BY <1>1, <1>2, <1>3, NewRowGuarded
<1> QED BY <1>4, <1>5, OneSerial

LEMMA RejectSerial ==
  ASSUME OneAtATime, SerialInductive, Inductive', NEW p \in Processes, reject_task(p)
  PROVE  SerialInductive'
<1>1. PICK q \in Identities, t \in Tasks :
        LET rec == [task[t] EXCEPT !.status = "draft", !.version = @ + 1]
        IN  /\ task[t].status = "pending_approval"
            /\ Reply(p, <<DecisionWrite(t, rec, Approval(q, t, task[t], "rejected")),
                          SnapshotWrite(t, rec.version)>>)
  BY DEF reject_task
<1> DEFINE rec == [task[t] EXCEPT !.status = "draft", !.version = @ + 1]
           a == Approval(q, t, task[t], "rejected")
<1>2. task[t] \in TaskRecords /\ Stored(t)
  BY <1>1, StoredRow DEF SerialInductive, Inductive, Stored
<1>3. rec.status = "draft" /\ can_transition(task[t].status, "draft")
  BY <1>1, <1>2 DEF TaskRecords, can_transition, ALLOWED_TASK_TRANSITIONS
<1>4. Reply(p, <<DecisionWrite(t, rec, a), SnapshotWrite(t, rec.version)>>)
  BY <1>1
<1>5. a.decision = "rejected"
  BY DEF Approval
<1> HIDE DEF rec, a
<1>6. GuardedRow(DecisionWrite(t, rec, a)) /\ DecisionWrite(t, rec, a).kind = "decision"
  BY <1>1, <1>2, <1>3, <1>5, NewRowGuarded
<1>7. SnapshotWrite(t, rec.version).kind = "snapshot"
  BY DEF SnapshotWrite
<1> QED BY <1>4, <1>6, <1>7, TwoSerial DEF IsRowWrite

LEMMA AssignSerial ==
  ASSUME OneAtATime, SerialInductive, Inductive', NEW p \in Processes, assign_task(p)
  PROVE  SerialInductive'
<1>1. PICK assignee \in Identities, t \in Tasks :
        LET rec == [task[t] EXCEPT !.assignee = assignee.id, !.assignmentVersion = @ + 1]
        IN  /\ task[t].status \in ExecutionStatuses
            /\ Reply(p, <<TaskWrite(t, rec),
                          AssignmentWrite(t, rec.assignmentVersion, assignee.id)>>)
  BY DEF assign_task
<1> DEFINE rec == [task[t] EXCEPT !.assignee = assignee.id, !.assignmentVersion = @ + 1]
           v == AssignmentWrite(t, rec.assignmentVersion, assignee.id)
<1>2. task[t] \in TaskRecords /\ Stored(t)
  BY <1>1, StoredRow
     DEF SerialInductive, Inductive, Stored, ExecutionStatuses, TakeOverStatuses
<1>3. rec.status = task[t].status /\ PayloadHash(rec) = PayloadHash(task[t])
  BY <1>2 DEF TaskRecords, PayloadHash
<1>4. Reply(p, <<TaskWrite(t, rec), v>>)
  BY <1>1
<1>5. v.kind = "assignment"
  BY DEF AssignmentWrite
<1> HIDE DEF rec, v
<1>6. GuardedRow(TaskWrite(t, rec)) /\ TaskWrite(t, rec).kind = "task"
  BY <1>2, <1>3, MoveGuarded
<1> QED BY <1>4, <1>5, <1>6, TwoSerial DEF IsRowWrite


\* Appending to short sequences.
LEMMA Joined ==
  ASSUME NEW a, NEW b, NEW c
  PROVE  /\ <<a>> \o <<b>> = <<a, b>>
         /\ <<a>> \o (<<b>> \o <<c>> \o <<>>) = <<a, b, c>>
         /\ <<a>> \o (<<>> \o <<b>> \o <<c>>) = <<a, b, c>>
         /\ <<a>> \o (<<>> \o <<b>> \o <<>>) = <<a, b>>
<1> DEFINE S == {a, b, c}
<1>1. /\ <<a>> \o <<b>> \in Seq(S) /\ Len(<<a>> \o <<b>>) = 2
      /\ \A i \in 1..2 : (<<a>> \o <<b>>)[i] = <<a, b>>[i]
  OBVIOUS
<1>2. /\ <<b>> \o <<c>> \in Seq(S) /\ Len(<<b>> \o <<c>>) = 2
      /\ \A i \in 1..2 : (<<b>> \o <<c>>)[i] = <<b, c>>[i]
  OBVIOUS
<1>3. /\ <<a>> \o <<b, c>> \in Seq(S) /\ Len(<<a>> \o <<b, c>>) = 3
      /\ \A i \in 1..3 : (<<a>> \o <<b, c>>)[i] = <<a, b, c>>[i]
  OBVIOUS
<1>4. /\ <<a, b>> \in Seq(S) /\ <<b, c>> \in Seq(S) /\ <<a, b, c>> \in Seq(S)
      /\ Len(<<a, b>>) = 2 /\ Len(<<b, c>>) = 2 /\ Len(<<a, b, c>>) = 3
  OBVIOUS
<1>5. <<>> \o <<b>> = <<b>> /\ <<b>> \o <<>> = <<b>> /\ <<b, c>> \o <<>> = <<b, c>>
  OBVIOUS
<1> HIDE DEF S
<1>6. <<a>> \o <<b>> = <<a, b>> /\ <<b>> \o <<c>> = <<b, c>>
  BY <1>1, <1>2, <1>4, SeqEqual
<1>7. <<a>> \o <<b, c>> = <<a, b, c>>
  BY <1>3, <1>4, SeqEqual
<1> QED BY <1>5, <1>6, <1>7

LEMMA FeedbackSerial ==
  ASSUME OneAtATime, SerialInductive, Inductive', NEW p \in Processes, submit_feedback(p)
  PROVE  SerialInductive'
<1>1. PICK q \in Identities, t \in Tasks, r \in Reports :
        /\ task[t].status \in ExecutionStatuses
        /\ Reply(p, FeedbackWrites(t, task[t], r, q.id))
  BY DEF submit_feedback
<1> DEFINE target == FeedbackTarget(task[t], CategoryOf[r])
           new == [task[t] EXCEPT !.status = target]
           report == FeedbackWrite(t, r, q.id)
           update == TaskWrite(t, new)
<1>2. task[t] \in TaskRecords /\ Stored(t)
  BY <1>1, StoredRow
     DEF SerialInductive, Inductive, Stored, ExecutionStatuses, TakeOverStatuses
<1>3. new.status = target /\ PayloadHash(new) = PayloadHash(task[t])
  BY <1>2 DEF TaskRecords, PayloadHash
<1>4. report.kind = "feedback"
  BY DEF FeedbackWrite
<1>5. CASE CategoryOf[r] # "situation_update" /\ ~can_transition(task[t].status, target)
  <2>1. Reply(p, <<report>>)
    BY <1>1, <1>5 DEF FeedbackWrites
  <2> HIDE DEF report
  <2> QED BY <1>4, <2>1, OneSerial DEF IsRowWrite
<1>6. CASE CategoryOf[r] = "situation_update" \/ can_transition(task[t].status, target)
  <2>1. target = task[t].status \/ can_transition(task[t].status, target)
    BY <1>6 DEF FeedbackTarget
  <2>2. GuardedRow(update) /\ update.kind = "task"
    <3> HIDE DEF new, target
    <3> QED BY <1>2, <1>3, <2>1, MoveGuarded
  <2>3. CASE CategoryOf[r] = "blocked"
    <3> DEFINE alarm == EscalationWrite(t, task[t].status, "duty_officer")
    <3>1. alarm.kind = "escalation"
      BY DEF EscalationWrite
    <3>2. Reply(p, <<report, alarm, update>>)
      BY <1>1, <1>6, <2>3, Joined DEF FeedbackWrites
    <3> HIDE DEF report, alarm, update
    <3> QED BY <1>4, <2>2, <3>1, <3>2, ThreeSerial DEF IsRowWrite
  <2>4. CASE CategoryOf[r] = "completion"
    <3> DEFINE signature == SignatureWrite(t, "submitted", q.id)
    <3>1. signature.kind = "signature"
      BY DEF SignatureWrite
    <3>2. Reply(p, <<report, update, signature>>)
      BY <1>1, <1>6, <2>4, Joined DEF FeedbackWrites
    <3> HIDE DEF report, signature, update
    <3> QED BY <1>4, <2>2, <3>1, <3>2, ThreeSerial DEF IsRowWrite
  <2>5. CASE CategoryOf[r] \notin {"blocked", "completion"}
    <3>1. Reply(p, <<report, update>>)
      BY <1>1, <1>6, <2>5, Joined DEF FeedbackWrites
    <3> HIDE DEF report, update
    <3> QED BY <1>4, <2>2, <3>1, TwoSerial DEF IsRowWrite
  <2> QED BY <2>3, <2>4, <2>5
<1> QED BY <1>5, <1>6

LEMMA VerifySerial ==
  ASSUME OneAtATime, SerialInductive, Inductive', NEW p \in Processes, verify_completion(p)
  PROVE  SerialInductive'
<1>1. PICK q \in Identities, t \in Tasks, target \in {"completed", "in_progress"} :
        /\ task[t].status = "pending_verification"
        /\ LET update == <<TaskWrite(t, [task[t] EXCEPT !.status = target])>>
           IN  Reply(p, IF target = "completed"
                        THEN update \o <<SignatureWrite(t, "verified", q.id)>>
                        ELSE update)
  BY DEF verify_completion
<1> DEFINE new == [task[t] EXCEPT !.status = target]
           s == SignatureWrite(t, "verified", q.id)
           update == TaskWrite(t, new)
<1>2. task[t] \in TaskRecords /\ Stored(t)
  BY <1>1, StoredRow DEF SerialInductive, Inductive, Stored
<1>3. /\ new.status = target /\ PayloadHash(new) = PayloadHash(task[t])
      /\ can_transition(task[t].status, target)
  BY <1>1, <1>2 DEF TaskRecords, PayloadHash, can_transition, ALLOWED_TASK_TRANSITIONS
<1>4. s.kind = "signature"
  BY DEF SignatureWrite
<1>5. GuardedRow(update) /\ update.kind = "task"
  <2> HIDE DEF new
  <2> QED BY <1>2, <1>3, MoveGuarded
<1>6. Reply(p, <<update, s>>) \/ Reply(p, <<update>>)
  BY <1>1, Joined
<1> HIDE DEF update, s
<1> QED BY <1>4, <1>5, <1>6, OneSerial, TwoSerial DEF IsRowWrite

LEMMA ExtensionsSerial ==
  ASSUME OneAtATime, SerialInductive, Inductive', NEW p \in Processes,
         request_deadline_extension(p) \/ decide_deadline_extension(p)
  PROVE  SerialInductive'
<1>1. CASE request_deadline_extension(p)
  <2>1. PICK x, rec : Reply(p, <<ExtensionWrite(x, rec)>>)
    BY <1>1 DEF request_deadline_extension
  <2>2. ExtensionWrite(x, rec).kind = "extension"
    BY DEF ExtensionWrite
  <2> QED BY <2>1, <2>2, OneSerial DEF IsRowWrite
<1>2. CASE decide_deadline_extension(p)
  <2>1. PICK x \in Extensions, approved \in BOOLEAN :
          LET ext     == extension[x]
              decided == [ext EXCEPT !.status = IF approved THEN "approved" ELSE "rejected"]
              record  == <<ExtensionWrite(x, decided)>>
          IN  /\ ext.status = "requested"
              /\ Reply(p, IF approved
                          THEN record
                               \o <<TaskWrite(ext.task, Extended(task[ext.task], ext.proposal))>>
                          ELSE record)
    BY <1>2 DEF decide_deadline_extension
  <2> DEFINE ext     == extension[x]
             t       == ext.task
             decided == [ext EXCEPT !.status = IF approved THEN "approved" ELSE "rejected"]
             new     == Extended(task[t], ext.proposal)
             v       == ExtensionWrite(x, decided)
             update  == TaskWrite(t, new)
  <2>2. ext \in ExtensionRecords /\ t \in Tasks /\ Stored(t)
    BY <2>1, RequestedTask DEF SerialInductive, Inductive, ExtensionsOfStoredTasks
  <2>3. task[t] \in TaskRecords /\ ext.proposal \in Deadlines
    BY <2>2, StoredRow DEF SerialInductive, Inductive, ExtensionRecords
  <2>4. new.status = task[t].status /\ PayloadHash(new) = PayloadHash(task[t])
    <3>1. new = [task[t] EXCEPT !.effective = new.effective]
      BY <2>3, ExtendedRow
    <3> HIDE DEF new
    <3> QED BY <2>3, <3>1 DEF PayloadHash, TaskRecords
  <2>5. v.kind = "extension"
    BY DEF ExtensionWrite
  <2>6. Reply(p, <<v, update>>) \/ Reply(p, <<v>>)
    BY <2>1, Joined
  <2> HIDE DEF new, v
  <2>7. GuardedRow(update) /\ update.kind = "task"
    BY <2>2, <2>4, MoveGuarded
  <2> HIDE DEF update
  <2> QED BY <2>5, <2>6, <2>7, OneSerial, TwoSerial DEF IsRowWrite
<1> QED BY <1>1, <1>2

LEMMA CloseSerial ==
  ASSUME OneAtATime, SerialInductive, Inductive', NEW p \in Processes, close_event(p)
  PROVE  SerialInductive'
<1>1. Reply(p, <<CloseWrite>>) /\ Finished
  BY DEF close_event, Finished
<1>2. CloseWrite.kind = "close"
  BY DEF CloseWrite
<1> QED BY <1>1, <1>2, OneSerial DEF IsRowWrite

\* The sweep escalates late tasks, which the state machine allows for each.
LEMMA SweepSerial ==
  ASSUME OneAtATime, SerialInductive, Inductive', NEW p \in Processes, run_deadline_sweep(p)
  PROVE  SerialInductive'
<1> DEFINE late == {t \in Tasks : Overdue(task[t])}
           n    == Cardinality(late)
           new(t) == [task[t] EXCEPT !.status = "escalated"]
<1>1. PICK order \in [1..n -> late] : Reply(p, SweepWrites(order))
  BY DEF run_deadline_sweep
<1>2. n \in Nat
  BY TasksAssumption, FS_Subset, FS_CardinalityType
<1>3. Len(order) = n
  BY <1>1, <1>2
<1>4. \A i \in 1..(2 * n) : order[(i + 1) \div 2] \in late
  BY <1>1, <1>2, Halves
<1>5. ASSUME NEW t \in late
      PROVE  GuardedRow(TaskWrite(t, new(t))) /\ TaskWrite(t, new(t)).kind = "task"
             /\ TaskWrite(t, new(t)).task = t /\ TaskWrite(t, new(t)).rec = new(t)
  <2>1. task[t] \in TaskRecords /\ Stored(t)
    BY StoredRow DEF SerialInductive, Inductive, Overdue, Stored
  <2>2. new(t).status = "escalated" /\ PayloadHash(new(t)) = PayloadHash(task[t])
    BY <2>1 DEF TaskRecords, PayloadHash
  <2>3. can_transition(task[t].status, "escalated")
    BY DEF Overdue, can_transition, ALLOWED_TASK_TRANSITIONS
  <2>4. t \in Tasks
    OBVIOUS
  <2> HIDE DEF new, late
  <2> QED BY <2>1, <2>2, <2>3, <2>4, MoveGuarded
<1>6. \A t \in late : EscalationWrite(t, task[t].status, "reviewer").kind = "escalation"
  BY DEF EscalationWrite
<1> DEFINE ws == SweepWrites(order)
<1>7. /\ DOMAIN ws = 1..(2 * n)
      /\ \A i \in 1..(2 * n) : \E t \in late :
           \/ ws[i] = TaskWrite(t, new(t))
           \/ ws[i] = EscalationWrite(t, task[t].status, "reviewer")
  BY <1>3, <1>4 DEF SweepWrites
<1>8. Reply(p, ws)
  BY <1>1
<1> HIDE DEF ws, late, new
<1>9. \A i \in 1..(2 * n) :
        \/ ws[i].kind = "escalation"
        \/ /\ ws[i].kind = "task" /\ GuardedRow(ws[i]) /\ ws[i].rec = new(ws[i].task)
  BY <1>5, <1>6, <1>7
<1>10. Placed(ws)
  BY <1>7, <1>9 DEF Placed
<1>11. /\ \A i \in DOMAIN ws : IsRowWrite(ws[i]) => GuardedRow(ws[i]) /\ ws[i].rec = new(ws[i].task)
       /\ \A i \in DOMAIN ws : ws[i].kind # "close"
  BY <1>7, <1>9 DEF IsRowWrite
<1>12. \A i, j \in DOMAIN ws :
         IsRowWrite(ws[i]) /\ IsRowWrite(ws[j]) /\ ws[i].task = ws[j].task => ws[i].rec = ws[j].rec
  BY <1>11
<1> QED BY <1>8, <1>10, <1>11, <1>12, ReplySerial

-----------------------------------------------------------------------------
(***************************************************************************)
(* One handler at a time: the transactions.                                *)
(***************************************************************************)
\* Steps that leave the rows, the outbox and the event alone.
LEMMA ShrunkSerial ==
  ASSUME SerialInductive, Inductive', InPlace', Pending' \subseteq Pending,
         UNCHANGED <<event, task, outbox>>
  PROVE  SerialInductive'
<1>1. \A t \in Tasks : RowWrites(t)' \subseteq RowWrites(t) /\ (Stored(t) <=> Stored(t)')
  BY DEF RowWrites, Of, Stored
<1>2. MovesGuarded'
  <2> SUFFICES ASSUME NEW t \in Tasks, NEW w \in RowWrites(t)'
               PROVE  /\ IF Stored(t) THEN \/ w.rec.status = task[t].status
                                           \/ can_transition(task[t].status, w.rec.status)
                         ELSE event = "active" /\ w.rec.status = "draft"
                      /\ \A v \in RowWrites(t)' : v.rec = w.rec
    BY DEF MovesGuarded, Stored
  <2> QED BY <1>1 DEF SerialInductive, MovesGuarded
<1>3. FrozenRows'
  <2>1. ASSUME NEW a \in outbox
        PROVE  /\ Stored(a.task)
               /\ \A w \in RowWrites(a.task)' :
                    /\ w.kind = "task" /\ a.hash = PayloadHash(w.rec)
                    /\ w.rec.status \notin {"draft", "pending_approval"}
    <3>1. RowWrites(a.task)' \subseteq RowWrites(a.task)
      BY DEF RowWrites, Of
    <3> QED BY <3>1 DEF SerialInductive, FrozenRows
  <2>2. \A t \in Tasks : Of("decision", t)' \subseteq Of("decision", t)
    BY DEF Of
  <2>3. \A t \in Tasks : \A w \in Of("decision", t)' :
          w.approval.decision = "approved" => w.rec.status = "issued"
    BY <2>2 DEF SerialInductive, FrozenRows
  <2> QED BY <2>1, <2>3 DEF FrozenRows, Stored
<1>4. Closing'
  <2> SUFFICES ASSUME NEW w \in Pending', w.kind = "close"
               PROVE  Finished' /\ \A t \in Tasks : RowWrites(t)' = {}
    BY DEF Closing
  <2>1. Finished /\ \A t \in Tasks : RowWrites(t) = {}
    BY DEF SerialInductive, Closing
  <2> QED BY <1>1, <2>1 DEF Finished, Stored
<1>5. SettledIsFinal'
  BY DEF SerialInductive, SettledIsFinal, DispatchedTaskIsFrozen, ClosedEventIsFinished, Stored
<1> QED BY <1>2, <1>3, <1>4, <1>5 DEF SerialInductive

LEMMA AbandonedSerial ==
  ASSUME OneAtATime, SerialInductive, Inductive', NEW p \in Processes, Abandoned(p)
  PROVE  SerialInductive'
<1>1. TypeOK
  BY DEF SerialInductive, Inductive
<1>2. Pending' = {} /\ InPlace' /\ UNCHANGED <<event, task, outbox>>
  BY <1>1, AbandonedPending
<1> QED BY <1>2, ShrunkSerial

LEMMA OtherStoresSerial ==
  ASSUME OneAtATime, SerialInductive, Inductive', NEW p \in Processes,
         \/ store_snapshot(p) \/ store_feedback(p) \/ store_escalation(p)
         \/ store_assignment(p) \/ store_extension(p) \/ store_signature(p)
  PROVE  SerialInductive'
<1>1. /\ todo[p] # <<>> /\ todo' = [todo EXCEPT ![p] = Tail(@)]
      /\ UNCHANGED <<event, task, outbox>>
  BY DEF store_snapshot, store_feedback, store_escalation, store_assignment, store_extension,
         store_signature, Next_write, Stored_write
<1>2. InPlace' /\ Pending' \subseteq Pending
  BY <1>1, RestPending DEF SerialInductive, Inductive
<1> QED BY <1>1, <1>2, ShrunkSerial

LEMMA CloseStoreSerial ==
  ASSUME OneAtATime, SerialInductive, Inductive', NEW p \in Processes, store_close(p)
  PROVE  SerialInductive'
<1>1. /\ todo[p] # <<>> /\ Head(todo[p]).kind = "close"
      /\ todo' = [todo EXCEPT ![p] = Tail(@)]
      /\ event' = "closed" /\ UNCHANGED <<task, outbox>>
  BY DEF store_close, Next_write, Stored_write
<1>2. InPlace' /\ Pending' = {} /\ Head(todo[p]) \in Pending
  BY <1>1, RestPending DEF SerialInductive, Inductive
<1>3. Finished
  BY <1>1, <1>2 DEF SerialInductive, Closing
<1>4. ClosedEventIsFinished'
  BY <1>1, <1>3 DEF Finished, ClosedEventIsFinished, Stored
<1>5. SettledIsFinal'
  BY <1>1, <1>4 DEF SerialInductive, SettledIsFinal, DispatchedTaskIsFrozen
<1>6. \A t : RowWrites(t)' = {} /\ Of("decision", t)' = {}
  BY <1>2 DEF RowWrites, Of
<1>7. FrozenRows'
  BY <1>1, <1>6 DEF SerialInductive, FrozenRows, Stored
<1>8. MovesGuarded' /\ Closing'
  BY <1>2, <1>6 DEF MovesGuarded, Closing
<1> QED BY <1>2, <1>5, <1>7, <1>8 DEF SerialInductive

\* What the row write at the head of the transactions under way is.
LEMMA HeadRow ==
  ASSUME OneAtATime, SerialInductive, NEW p \in Processes, todo[p] # <<>>,
         IsRowWrite(Head(todo[p])),
         todo' = [todo EXCEPT ![p] = Tail(@)],
         task' = [task EXCEPT ![Head(todo[p]).task] = Head(todo[p]).rec]
  PROVE  LET w == Head(todo[p]) IN
         /\ w \in Writes /\ w.task \in Tasks /\ w.rec \in TaskRecords
         /\ w \in RowWrites(w.task)
         /\ \A t \in Tasks : RowWrites(t)' \subseteq RowWrites(t)
         /\ \A t \in Tasks : task'[t] = IF t = w.task THEN w.rec ELSE task[t]
         /\ \A t \in Tasks : Stored(t) \/ t = w.task => Stored(t)'
<1> DEFINE w == Head(todo[p])
<1>1. w \in Pending /\ Pending' \subseteq Pending
  BY RestPending DEF SerialInductive, Inductive
<1>2. w \in Writes
  BY HeadWrite DEF SerialInductive
<1>3. w.task \in Tasks /\ w.rec \in TaskRecords
  BY <1>2, WriteFields DEF IsRowWrite
<1>4. \A t \in Tasks : task'[t] = IF t = w.task THEN w.rec ELSE task[t]
  BY <1>3 DEF SerialInductive, Inductive, TypeOK
<1>5. w.rec.status # "absent"
  BY <1>3, RecordIsStored
<1>6. \A t \in Tasks : Stored(t) \/ t = w.task => Stored(t)'
  BY <1>4, <1>5 DEF Stored
<1>8. w \in RowWrites(w.task)
  BY <1>1 DEF RowWrites, Of, IsRowWrite
<1>9. \A t \in Tasks : RowWrites(t)' \subseteq RowWrites(t)
  BY <1>1 DEF RowWrites, Of
<1> QED BY <1>2, <1>3, <1>4, <1>6, <1>8, <1>9

LEMMA RowSerial ==
  ASSUME OneAtATime, SerialInductive, NEW p \in Processes, todo[p] # <<>>,
         IsRowWrite(Head(todo[p])),
         todo' = [todo EXCEPT ![p] = Tail(@)], event' = event,
         task' = [task EXCEPT ![Head(todo[p]).task] = Head(todo[p]).rec]
  PROVE  InPlace' /\ MovesGuarded' /\ Closing' /\ ClosedEventIsFinished'
<1> DEFINE w == Head(todo[p])
<1>1. /\ w.task \in Tasks /\ w.rec \in TaskRecords /\ w \in RowWrites(w.task)
      /\ \A t \in Tasks : RowWrites(t)' \subseteq RowWrites(t)
      /\ \A t \in Tasks : task'[t] = IF t = w.task THEN w.rec ELSE task[t]
      /\ \A t \in Tasks : Stored(t) \/ t = w.task => Stored(t)'
  BY HeadRow
<1>2. InPlace' /\ Pending' \subseteq Pending
  BY RestPending DEF SerialInductive, Inductive
<1> HIDE DEF w
<1>3. \A t \in Tasks : t # w.task => (Stored(t)' <=> Stored(t))
  BY <1>1 DEF Stored
<1>4. MovesGuarded'
  <2> SUFFICES ASSUME NEW t \in Tasks, NEW v \in RowWrites(t)'
               PROVE  /\ IF Stored(t)' THEN \/ v.rec.status = task'[t].status
                                            \/ can_transition(task'[t].status, v.rec.status)
                         ELSE event' = "active" /\ v.rec.status = "draft"
                      /\ \A u \in RowWrites(t)' : u.rec = v.rec
    BY DEF MovesGuarded
  <2>1. v \in RowWrites(t) /\ \A u \in RowWrites(t)' : u.rec = v.rec
    BY <1>1 DEF SerialInductive, MovesGuarded
  <2>2. CASE t = w.task
    <3>1. v.rec = w.rec
      BY <1>1, <2>1, <2>2 DEF SerialInductive, MovesGuarded
    <3>2. task'[t] = w.rec /\ Stored(t)'
      BY <1>1, <2>2
    <3> QED BY <2>1, <3>1, <3>2
  <2>3. CASE t # w.task
    <3>1. task'[t] = task[t] /\ (Stored(t)' <=> Stored(t))
      BY <1>1, <1>3, <2>3
    <3> QED BY <2>1, <3>1 DEF SerialInductive, MovesGuarded
  <2> QED BY <2>2, <2>3
<1>5. \A u \in Pending : u.kind # "close"
  BY <1>1 DEF SerialInductive, Closing
<1>6. Closing'
  BY <1>2, <1>5 DEF Closing
<1>7. ASSUME event = "closed"  PROVE Finished'
  <2>1. Finished
    BY <1>7 DEF SerialInductive, SettledIsFinal, ClosedEventIsFinished, Finished
  <2>2. /\ Stored(w.task)
        /\ \/ w.rec.status = task[w.task].status
           \/ can_transition(task[w.task].status, w.rec.status)
    BY <1>1, <1>7 DEF SerialInductive, MovesGuarded
  <2>3. task[w.task].status \in TERMINAL_TASK_STATUSES
    <3>1. w.task \in Tasks
      BY <1>1
    <3> QED BY <2>1, <2>2, <3>1 DEF Finished
  <2>4. w.rec.status \in TERMINAL_TASK_STATUSES
    BY <2>2, <2>3
       DEF can_transition, ALLOWED_TASK_TRANSITIONS, TERMINAL_TASK_STATUSES, TakeOverStatuses
  <2>5. \A t \in Tasks : Stored(t)' => task'[t].status \in TERMINAL_TASK_STATUSES
    BY <1>1, <1>3, <2>1, <2>4 DEF Finished
  <2>6. \E t \in Tasks : Stored(t)'
    BY <1>1
  <2> QED BY <2>5, <2>6 DEF Finished
<1>8. ClosedEventIsFinished'
  BY <1>7 DEF ClosedEventIsFinished, Finished
<1> QED BY <1>2, <1>4, <1>6, <1>8

LEMMA TaskStoreSerial ==
  ASSUME OneAtATime, SerialInductive, Inductive', NEW p \in Processes, store_task(p)
  PROVE  SerialInductive'
<1> DEFINE w == Head(todo[p])
<1>1. /\ todo[p] # <<>> /\ w.kind = "task"
      /\ todo' = [todo EXCEPT ![p] = Tail(@)]
      /\ task' = [task EXCEPT ![w.task] = w.rec]
      /\ UNCHANGED <<event, outbox>>
  BY DEF store_task, Next_write, Stored_write
<1>2. InPlace' /\ MovesGuarded' /\ Closing' /\ ClosedEventIsFinished'
  BY <1>1, RowSerial DEF IsRowWrite
<1>3. /\ w.task \in Tasks /\ w \in RowWrites(w.task)
      /\ \A t \in Tasks : RowWrites(t)' \subseteq RowWrites(t)
      /\ \A t \in Tasks : task'[t] = IF t = w.task THEN w.rec ELSE task[t]
      /\ \A t \in Tasks : Stored(t) \/ t = w.task => Stored(t)'
  BY <1>1, HeadRow DEF IsRowWrite
<1> HIDE DEF w
<1>4. \A a \in outbox : a.task \in Tasks
  BY DEF SerialInductive, Inductive, TypeOK, ApprovalRecords
<1>5. FrozenRows'
  <2>1. ASSUME NEW a \in outbox
        PROVE  /\ Stored(a.task)'
               /\ \A v \in RowWrites(a.task)' :
                    /\ v.kind = "task" /\ a.hash = PayloadHash(v.rec)
                    /\ v.rec.status \notin {"draft", "pending_approval"}
    BY <1>3, <1>4 DEF SerialInductive, FrozenRows
  <2>2. \A t \in Tasks : \A v \in Of("decision", t)' : v \in RowWrites(t)
    BY <1>3 DEF RowWrites
  <2>3. \A t \in Tasks : \A v \in Of("decision", t)' : v \in Of("decision", t)
    BY <2>2 DEF RowWrites, Of
  <2> QED BY <1>1, <2>1, <2>3 DEF SerialInductive, FrozenRows
<1>6. DispatchedTaskIsFrozen'
  <2> SUFFICES ASSUME NEW a \in outbox
               PROVE  /\ \A b \in outbox : a.task = b.task => a = b
                      /\ a.hash = PayloadHash(task'[a.task])
                      /\ task'[a.task].status \notin {"draft", "pending_approval"}
    BY <1>1 DEF DispatchedTaskIsFrozen, PayloadHash
  <2>1. CASE a.task = w.task
    BY <1>3, <2>1 DEF SerialInductive, FrozenRows, SettledIsFinal, DispatchedTaskIsFrozen
  <2>2. CASE a.task # w.task
    BY <1>3, <1>4, <2>2 DEF SerialInductive, SettledIsFinal, DispatchedTaskIsFrozen
  <2> QED BY <2>1, <2>2
<1> QED BY <1>2, <1>5, <1>6 DEF SerialInductive, SettledIsFinal

LEMMA DecisionStoreSerial ==
  ASSUME OneAtATime, SerialInductive, Inductive', NEW p \in Processes, store_decision(p)
  PROVE  SerialInductive'
<1> DEFINE w == Head(todo[p])
           new == w.approval
<1>1. /\ todo[p] # <<>> /\ w.kind = "decision"
      /\ todo' = [todo EXCEPT ![p] = Tail(@)]
      /\ task' = [task EXCEPT ![w.task] = w.rec]
      /\ outbox' = IF new.decision = "approved" THEN outbox \cup {new} ELSE outbox
      /\ event' = event
  BY DEF store_decision, Next_write, Stored_write
<1>2. InPlace' /\ MovesGuarded' /\ Closing' /\ ClosedEventIsFinished'
  BY <1>1, RowSerial DEF IsRowWrite
<1>3. /\ w.task \in Tasks /\ w \in RowWrites(w.task)
      /\ \A t \in Tasks : RowWrites(t)' \subseteq RowWrites(t)
      /\ \A t \in Tasks : task'[t] = IF t = w.task THEN w.rec ELSE task[t]
      /\ \A t \in Tasks : Stored(t) \/ t = w.task => Stored(t)'
  BY <1>1, HeadRow DEF IsRowWrite
<1>4. \A v \in Pending' : v.kind # "decision"
  BY <1>1, RestPending DEF SerialInductive, Inductive
<1>5. new.decision = "approved" =>
        /\ new.task = w.task /\ new.hash = PayloadHash(w.rec) /\ w.rec.status = "issued"
  <2>1. WriteOK(w)
    BY <1>1, HeadWrite DEF SerialInductive
  <2>2. w \in Of("decision", w.task)
    BY <1>1, <1>3 DEF RowWrites, Of
  <2> QED BY <1>1, <1>3, <2>1, <2>2 DEF WriteOK, Entitles, SerialInductive, FrozenRows
<1> HIDE DEF w, new
<1>6. \A a \in outbox : a.task \in Tasks /\ a.task # w.task
  BY <1>1, <1>3
     DEF SerialInductive, Inductive, TypeOK, ApprovalRecords, FrozenRows
<1>7. \A t \in Tasks : \A v \in RowWrites(t)' : v.kind = "task"
  BY <1>4 DEF RowWrites, Of
<1>8. \A t \in Tasks : t = w.task => \A v \in RowWrites(t)' : v.rec = w.rec
  BY <1>3 DEF SerialInductive, MovesGuarded
<1>9. FrozenRows'
  <2>1. ASSUME NEW a \in outbox'
        PROVE  /\ Stored(a.task)'
               /\ \A v \in RowWrites(a.task)' :
                    /\ v.kind = "task" /\ a.hash = PayloadHash(v.rec)
                    /\ v.rec.status \notin {"draft", "pending_approval"}
    <3>1. CASE a \in outbox
      BY <1>3, <1>6, <3>1 DEF SerialInductive, FrozenRows
    <3>2. CASE a = new /\ new.decision = "approved"
      BY <1>3, <1>5, <1>7, <1>8, <3>2
    <3> QED BY <1>1, <3>1, <3>2
  <2>2. \A t \in Tasks : Of("decision", t)' = {}
    BY <1>4 DEF Of
  <2> QED BY <2>1, <2>2 DEF FrozenRows
<1>10. DispatchedTaskIsFrozen'
  <2> SUFFICES ASSUME NEW a \in outbox'
               PROVE  /\ \A b \in outbox' : a.task = b.task => a = b
                      /\ a.hash = PayloadHash(task'[a.task])
                      /\ task'[a.task].status \notin {"draft", "pending_approval"}
    BY DEF DispatchedTaskIsFrozen, PayloadHash
  <2>1. CASE a \in outbox
    BY <1>1, <1>3, <1>5, <1>6, <2>1 DEF SerialInductive, SettledIsFinal, DispatchedTaskIsFrozen
  <2>2. CASE a = new /\ new.decision = "approved"
    <3>1. \A b \in outbox' : a.task = b.task => a = b
      BY <1>1, <1>5, <1>6, <2>2
    <3> QED BY <1>3, <1>5, <2>2, <3>1
  <2> QED BY <1>1, <2>1, <2>2
<1> QED BY <1>2, <1>9, <1>10 DEF SerialInductive, SettledIsFinal

LEMMA StoreSerial ==
  ASSUME OneAtATime, SerialInductive, Inductive', NEW p \in Processes, Store(p) \/ crash(p)
  PROVE  SerialInductive'
<1>1. CASE decision_conflict(p) \/ snapshot_conflict(p) \/ assignment_conflict(p) \/ crash(p)
  BY <1>1, AbandonedSerial DEF decision_conflict, snapshot_conflict, assignment_conflict, crash
<1>2. CASE store_task(p) \/ store_decision(p) \/ store_close(p)
  BY <1>2, TaskStoreSerial, DecisionStoreSerial, CloseStoreSerial
<1> QED BY <1>1, <1>2, OtherStoresSerial DEF Store


LEMMA InitSerial ==
  ASSUME Init
  PROVE  SerialInductive
<1>1. Pending = {} /\ \A p \in Processes : DOMAIN todo[p] = {}
  BY DEF Init, Pending
<1>2. \A t : RowWrites(t) = {} /\ Of("decision", t) = {}
  BY <1>1 DEF RowWrites, Of
<1>3. InPlace /\ Closing
  BY <1>1 DEF InPlace, Closing
<1>4. MovesGuarded /\ FrozenRows
  BY <1>2 DEF Init, MovesGuarded, FrozenRows
<1>5. SettledIsFinal
  BY DEF Init, SettledIsFinal, DispatchedTaskIsFrozen, ClosedEventIsFinished
<1> QED BY <1>3, <1>4, <1>5, InitInductive DEF SerialInductive

LEMMA NextSerial ==
  ASSUME OneAtATime, SerialInductive, [Next]_vars
  PROVE  SerialInductive'
<1>1. Inductive'
  BY NextInductive DEF SerialInductive
<1>2. ASSUME NEW p \in Threads, Draft(p) \/ Execute(p) \/ Intervene(p)
      PROVE  SerialInductive'
  <2>1. p \in Processes
    BY DEF Processes
  <2>2. CASE Draft(p)
    BY <1>1, <2>1, <2>2, CreateSerial, UpdateSerial, TransitionsSerial, ApproveSerial,
       RejectSerial DEF Draft
  <2>3. CASE Execute(p)
    BY <1>1, <2>1, <2>3, TransitionsSerial, AssignSerial, FeedbackSerial, VerifySerial
       DEF Execute
  <2>4. CASE Intervene(p)
    BY <1>1, <2>1, <2>4, TransitionsSerial, TakeOverSerial, ExtensionsSerial, CloseSerial
       DEF Intervene
  <2> QED BY <1>2, <2>2, <2>3, <2>4
<1>3. ASSUME UNCHANGED <<event, task, outbox, todo>>
      PROVE  SerialInductive'
  <2>1. Pending' = Pending /\ InPlace'
    BY <1>3 DEF Pending, InPlace, SerialInductive
  <2> QED BY <1>1, <1>3, <2>1, ShrunkSerial
<1>4. CASE tick \/ UNCHANGED vars
  BY <1>3, <1>4 DEF tick, vars, db
<1> QED BY <1>1, <1>2, <1>4, SweepSerial, StoreSerial DEF Next

\* With one handler at a time the strengthened invariant holds of any number
\* of tasks, operators and contents, with transactions failing anywhere.
THEOREM SerialInvariant ==
  ASSUME OneAtATime
  PROVE  Spec => []SerialInductive
<1>1. Init => SerialInductive
  BY InitSerial
<1>2. SerialInductive /\ [Next]_vars => SerialInductive'
  BY NextSerial
<1> QED BY <1>1, <1>2, PTL DEF Spec

\* With one handler at a time, a dispatched task is never decided again nor
\* changed, whatever is reported about it, and a closed event stays finished:
\* nobody creates or reopens a task in it, and what close_event found terminal
\* is terminal when it stores the closing, wherever handlers fail.
THEOREM SettledSafe ==
  ASSUME OneAtATime
  PROVE  Spec => []SettledIsFinal
<1>1. SerialInductive => SettledIsFinal
  BY DEF SerialInductive
<1> QED BY <1>1, SerialInvariant, PTL

\* Only save_response_task and commit_task_decision write rows.
LEMMA RowsWritten ==
  ASSUME Next, task' # task
  PROVE  \E p \in Processes :
           /\ todo[p] # <<>> /\ IsRowWrite(Head(todo[p]))
           /\ todo' = [todo EXCEPT ![p] = Tail(@)]
           /\ task' = [task EXCEPT ![Head(todo[p]).task] = Head(todo[p]).rec]
<1>1. ASSUME NEW p \in Threads, Draft(p) PROVE FALSE
  BY <1>1 DEF Draft, create_task, update_task, submit_task, approve_task, reject_task,
              Transition, Reply, db
<1>2. ASSUME NEW p \in Threads, Execute(p) PROVE FALSE
  BY <1>2 DEF Execute, acknowledge_task, start_task, assign_task, submit_feedback,
              verify_completion, Transition, Reply, db
<1>3. ASSUME NEW p \in Threads, Intervene(p) PROVE FALSE
  BY <1>3 DEF Intervene, cancel_task, waive_task, take_over_task, request_deadline_extension,
              decide_deadline_extension, close_event, Transition, Reply, db
<1>4. ASSUME NEW p \in Processes, run_deadline_sweep(p) \/ crash(p) PROVE FALSE
  BY <1>4 DEF run_deadline_sweep, crash, Abandoned, Reply, db
<1>5. ~tick
  BY DEF tick, db
<1>6. PICK p \in Processes : Store(p)
  BY <1>1, <1>2, <1>3, <1>4, <1>5 DEF Next
<1>7. store_task(p) \/ store_decision(p)
  BY <1>6 DEF Store, decision_conflict, snapshot_conflict, assignment_conflict, store_snapshot,
              store_feedback, store_escalation, store_assignment, store_extension,
              store_signature, store_close, Abandoned, db
<1> QED
  BY <1>7 DEF store_task, store_decision, Next_write, Stored_write, IsRowWrite

\* With one handler at a time every change of a stored status is a transition
\* of the guarded state machine, the sweep's, the feedback's and the decisions'
\* included: no row is stored over one that has moved since it was read.
THEOREM GuardedSafe ==
  ASSUME OneAtATime
  PROVE  Spec => GuardedTransitions
<1> DEFINE Guarded == \A t \in Tasks : Stored(t) /\ task'[t].status # task[t].status =>
                        can_transition(task[t].status, task'[t].status)
<1>1. SerialInductive /\ [Next]_vars => [Guarded]_task
  <2> SUFFICES ASSUME SerialInductive, [Next]_vars, task' # task, NEW t \in Tasks, Stored(t),
                      task'[t].status # task[t].status
               PROVE  can_transition(task[t].status, task'[t].status)
    OBVIOUS
  <2>1. Next
    BY DEF vars, db
  <2>2. PICK p \in Processes :
           /\ todo[p] # <<>> /\ IsRowWrite(Head(todo[p]))
           /\ todo' = [todo EXCEPT ![p] = Tail(@)]
           /\ task' = [task EXCEPT ![Head(todo[p]).task] = Head(todo[p]).rec]
    BY <2>1, RowsWritten
  <2>3. LET w == Head(todo[p]) IN
        w \in RowWrites(w.task) /\ task'[t] = IF t = w.task THEN w.rec ELSE task[t]
    BY <2>2, HeadRow
  <2> QED BY <2>3 DEF SerialInductive, MovesGuarded
<1>2. Spec => [][Guarded]_task
  BY <1>1, SerialInvariant, PTL DEF Spec
<1> QED BY <1>2 DEF GuardedTransitions, Guarded


-----------------------------------------------------------------------------
(***************************************************************************)
(* One handler at a time and no failures: the histories.                   *)
(***************************************************************************)
\* What the histories say between two handlers.
LEMMA IdleTold ==
  ASSUME OneAtATime, NEW p \in Processes, todo[p] = <<>>, NEW t \in Tasks, Told(t)
  PROVE  /\ snapshots[t] = 1..task[t].version
         /\ VersionsAssigned(t) = 1..task[t].assignmentVersion
         /\ \/ task[t].assignee = NoOne \/ InCharge(task[t].assignee)
            \/ [version |-> task[t].assignmentVersion, assignee |-> task[t].assignee]
                 \in assignments[t]
         /\ task[t].status = "pending_verification" =>
              \E o \in Operators :
                /\ signed[t]["submitted"] = o
                /\ \E i \in Completions(t) :
                     feedback[t][i].by = o /\ \A j \in Completions(t) : j <= i
         /\ task[t].status = "completed" =>
              \E o, v \in Operators : /\ signed[t]["submitted"] = o /\ signed[t]["verified"] = v
                                      /\ o # v /\ task[t].assignee # v
<1>1. Targets(t) = {task[t]} /\ \A kind : Of(kind, t) = {}
  BY IdlePending
<1>2. /\ VersionsExplain(t, task[t]) /\ AssignmentsExplain(t, task[t])
      /\ SignaturesExplain(t, task[t])
  BY <1>1 DEF Told
<1>3. /\ snapshots[t] = 1..task[t].version
      /\ VersionsAssigned(t) = 1..task[t].assignmentVersion
      /\ \/ task[t].assignee = NoOne \/ InCharge(task[t].assignee)
         \/ [version |-> task[t].assignmentVersion, assignee |-> task[t].assignee]
              \in assignments[t]
  BY <1>1, <1>2 DEF VersionsExplain, AssignmentsExplain
<1>4. /\ \A action, o : Signs(t, action, o) <=> signed[t][action] = o
      /\ \A o : ReportedLast(t, o) <=>
           \E i \in Completions(t) :
             feedback[t][i].by = o /\ \A j \in Completions(t) : j <= i
  BY <1>1 DEF Signs, ReportedLast
<1> QED BY <1>2, <1>3, <1>4 DEF SignaturesExplain

\* A handler that stores nothing about t.
LEMMA UntouchedTold ==
  ASSUME OneAtATime, TypeOK, NEW p \in Processes, todo[p] = <<>>, NEW ws, Reply(p, ws),
         NEW t \in Tasks, Told(t),
         \A w \in Pending' : w.kind \in {"extension", "close", "escalation"} \/ w.task # t
  PROVE  Told(t)'
<1>1. UNCHANGED <<task, snapshots, feedback, assignments, signed>>
  BY RepliedPending
<1>2. Targets(t) = {task[t]} /\ \A kind : Of(kind, t) = {}
  BY IdlePending
<1>3. \A kind \in {"task", "decision", "snapshot", "assignment", "signature", "feedback"} :
        Of(kind, t)' = {}
  BY DEF Of
<1>4. Targets(t)' = {task[t]}
  BY <1>1, <1>3 DEF Targets, RowWrites
<1> QED
  BY <1>1, <1>2, <1>3, <1>4
     DEF Told, VersionsExplain, AssignmentsExplain, SignaturesExplain, Signs, ReportedLast,
         Completions, VersionsAssigned

\* A handler that asks for row rec of t, with no new version and no assignment.
LEMMA MovedTold ==
  ASSUME OneAtATime, TypeOK, NEW p \in Processes, todo[p] = <<>>, NEW ws, Reply(p, ws),
         NEW t \in Tasks, Told(t), NEW rec, Targets(t)' = {rec},
         Of("snapshot", t)' = {}, Of("assignment", t)' = {},
         rec.version = task[t].version,
         rec.assignmentVersion = task[t].assignmentVersion,
         rec.assignee = task[t].assignee \/ InCharge(rec.assignee),
         SignaturesExplain(t, rec)'
  PROVE  Told(t)'
<1>1. UNCHANGED <<task, snapshots, feedback, assignments, signed>>
  BY RepliedPending
<1>2. /\ snapshots[t] = 1..task[t].version
      /\ VersionsAssigned(t) = 1..task[t].assignmentVersion
      /\ \/ task[t].assignee = NoOne \/ InCharge(task[t].assignee)
         \/ [version |-> task[t].assignmentVersion, assignee |-> task[t].assignee]
              \in assignments[t]
  BY IdleTold
<1>3. VersionsExplain(t, rec)'
  BY <1>1, <1>2 DEF VersionsExplain
<1>4. AssignmentsExplain(t, rec)'
  BY <1>1, <1>2 DEF AssignmentsExplain, VersionsAssigned, InCharge
<1> QED BY <1>3, <1>4 DEF Told

\* A row that is neither under verification nor verified needs no signatures.
LEMMA Unsigned ==
  ASSUME NEW t, NEW rec, rec.status \notin {"pending_verification", "completed"}
  PROVE  SignaturesExplain(t, rec)'
  BY DEF SignaturesExplain

\* What is pending when a handler has replied with one, two or three writes.
LEMMA PendingWrites ==
  ASSUME OneAtATime, TypeOK, NEW p \in Processes
  PROVE  /\ \A v : Reply(p, <<v>>) => Pending' = {v}
         /\ \A v, w : Reply(p, <<v, w>>) => Pending' = {v, w}
         /\ \A v, w, x : Reply(p, <<v, w, x>>) => Pending' = {v, w, x}
<1>1. ASSUME NEW v, Reply(p, <<v>>)  PROVE Pending' = {v}
  <2>1. Pending' = {<<v>>[i] : i \in DOMAIN <<v>>}
    BY <1>1, RepliedPending
  <2> QED BY <2>1
<1>2. ASSUME NEW v, NEW w, Reply(p, <<v, w>>)  PROVE Pending' = {v, w}
  <2>1. Pending' = {<<v, w>>[i] : i \in DOMAIN <<v, w>>}
    BY <1>2, RepliedPending
  <2>2. DOMAIN <<v, w>> = {1, 2}
    OBVIOUS
  <2> QED BY <2>1, <2>2
<1>3. ASSUME NEW v, NEW w, NEW x, Reply(p, <<v, w, x>>)  PROVE Pending' = {v, w, x}
  <2>1. Pending' = {<<v, w, x>>[i] : i \in DOMAIN <<v, w, x>>}
    BY <1>3, RepliedPending
  <2>2. DOMAIN <<v, w, x>> = {1, 2, 3}
    OBVIOUS
  <2> QED BY <2>1, <2>2
<1> QED BY <1>1, <1>2, <1>3

\* A handler whose writes, but for the extension and the closing, are of task t.
LEMMA OneTaskTold ==
  ASSUME OneAtATime, TypeOK, NEW p \in Processes, todo[p] = <<>>, NEW ws, Reply(p, ws),
         \A s \in Tasks : Told(s),
         NEW t \in Tasks, Told(t)',
         \A w \in Pending' : w.kind \in {"extension", "close"} \/ w.task = t
  PROVE  \A s \in Tasks : Told(s)'
<1> SUFFICES ASSUME NEW s \in Tasks, s # t  PROVE Told(s)'
  OBVIOUS
<1> QED BY UntouchedTold

\* A handler that stores one new row of t and nothing that follows from it.
LEMMA RowOnlyTold ==
  ASSUME OneAtATime, TypeOK, NEW p \in Processes, todo[p] = <<>>, \A s \in Tasks : Told(s),
         NEW t \in Tasks, NEW w, Reply(p, <<w>>), IsRowWrite(w), w.task = t,
         w.rec.version = task[t].version,
         w.rec.assignmentVersion = task[t].assignmentVersion,
         w.rec.assignee = task[t].assignee \/ InCharge(w.rec.assignee),
         w.rec.status \notin {"pending_verification", "completed"}
  PROVE  \A s \in Tasks : Told(s)'
<1>1. Pending' = {w}
  BY PendingWrites
<1>2. RowWrites(t)' = {w} /\ Of("snapshot", t)' = {} /\ Of("assignment", t)' = {}
  BY <1>1 DEF RowWrites, Of, IsRowWrite
<1>3. Targets(t)' = {w.rec}
  BY <1>2 DEF Targets
<1>4. PICK rec : rec = w.rec
  OBVIOUS
<1>5. SignaturesExplain(t, rec)'
  BY <1>4, Unsigned
<1>6. Told(t)'
  BY <1>2, <1>3, <1>4, <1>5, MovedTold
<1> QED BY <1>1, <1>6, OneTaskTold


LEMMA TransitionsTold ==
  ASSUME OneAtATime, TypeOK, NEW p \in Processes, todo[p] = <<>>, \A s \in Tasks : Told(s),
         \/ submit_task(p) \/ acknowledge_task(p) \/ start_task(p)
         \/ cancel_task(p) \/ waive_task(p) \/ take_over_task(p)
  PROVE  \A s \in Tasks : Told(s)'
<1>1. PICK t, old, to :
        /\ t \in Tasks /\ Stored(t) /\ Transition(p, t, old, to)
        /\ \/ old = task[t]
           \/ \E q \in Identities : old = [task[t] EXCEPT !.assignee = q.id]
                                    /\ q.role \in APPROVAL_ROLES
        /\ to \notin {"pending_verification", "completed"}
  <2>1. CASE submit_task(p)
    BY <2>1 DEF submit_task, Stored
  <2>2. CASE acknowledge_task(p)
    BY <2>2 DEF acknowledge_task, Stored
  <2>3. CASE start_task(p)
    BY <2>3 DEF start_task, Stored
  <2>4. CASE cancel_task(p) \/ waive_task(p)
    BY <2>4 DEF cancel_task, waive_task
  <2>5. CASE take_over_task(p)
    BY <2>5 DEF take_over_task, Stored, TakeOverStatuses, APPROVAL_ROLES
  <2> QED BY <2>1, <2>2, <2>3, <2>4, <2>5
<1>2. task[t] \in TaskRecords
  BY <1>1, StoredRow
<1>3. PICK rec : rec = [old EXCEPT !.status = to]
  OBVIOUS
<1>4. /\ rec.version = task[t].version /\ rec.assignmentVersion = task[t].assignmentVersion
      /\ rec.assignee = task[t].assignee \/ InCharge(rec.assignee)
      /\ rec.status = to
  BY <1>1, <1>2, <1>3 DEF TaskRecords, InCharge
<1>5. Reply(p, <<TaskWrite(t, rec)>>)
  BY <1>1, <1>3 DEF Transition
<1>6. /\ IsRowWrite(TaskWrite(t, rec)) /\ TaskWrite(t, rec).task = t
      /\ TaskWrite(t, rec).rec = rec
  BY DEF TaskWrite, IsRowWrite
<1> QED BY <1>1, <1>4, <1>5, <1>6, RowOnlyTold

LEMMA ApproveTold ==
  ASSUME OneAtATime, TypeOK, NEW p \in Processes, todo[p] = <<>>, \A s \in Tasks : Told(s),
         approve_task(p)
  PROVE  \A s \in Tasks : Told(s)'
<1>1. PICK t, rec, a :
        /\ t \in Tasks /\ task[t].status = "pending_approval"
        /\ rec = [task[t] EXCEPT !.status = "issued", !.approved = PayloadHash(task[t])]
        /\ Reply(p, <<DecisionWrite(t, rec, a)>>)
  BY DEF approve_task
<1>2. task[t] \in TaskRecords
  BY <1>1, StoredRow DEF Stored
<1>3. /\ rec.version = task[t].version /\ rec.assignmentVersion = task[t].assignmentVersion
      /\ rec.assignee = task[t].assignee /\ rec.status = "issued"
  BY <1>1, <1>2 DEF TaskRecords
<1>4. /\ IsRowWrite(DecisionWrite(t, rec, a)) /\ DecisionWrite(t, rec, a).task = t
      /\ DecisionWrite(t, rec, a).rec = rec
  BY DEF DecisionWrite, IsRowWrite
<1> QED BY <1>1, <1>3, <1>4, RowOnlyTold

\* A handler that stores a draft of the next version, and its snapshot.
LEMMA DraftTold ==
  ASSUME OneAtATime, TypeOK, NEW p \in Processes, todo[p] = <<>>, \A s \in Tasks : Told(s),
         NEW t \in Tasks, task[t].version \in Nat,
         NEW w, NEW v, Reply(p, <<w, v>>), IsRowWrite(w), w.task = t,
         v = SnapshotWrite(t, w.rec.version), w.rec.status = "draft",
         w.rec.version = task[t].version + 1,
         w.rec.assignmentVersion = task[t].assignmentVersion,
         w.rec.assignee = task[t].assignee
  PROVE  \A s \in Tasks : Told(s)'
<1>1. Pending' = {w, v}
  BY PendingWrites
<1>2. v.kind = "snapshot" /\ v.task = t /\ v.version = w.rec.version
  BY DEF SnapshotWrite
<1>3. RowWrites(t)' = {w} /\ Of("snapshot", t)' = {v} /\ Of("assignment", t)' = {}
  BY <1>1, <1>2 DEF RowWrites, Of, IsRowWrite
<1>4. Targets(t)' = {w.rec}
  BY <1>3 DEF Targets
<1>5. PICK rec : rec = w.rec
  OBVIOUS
<1>6. UNCHANGED <<task, snapshots, feedback, assignments, signed>>
  BY RepliedPending
<1>7. /\ snapshots[t] = 1..task[t].version
      /\ VersionsAssigned(t) = 1..task[t].assignmentVersion
      /\ \/ task[t].assignee = NoOne \/ InCharge(task[t].assignee)
         \/ [version |-> task[t].assignmentVersion, assignee |-> task[t].assignee]
              \in assignments[t]
  BY IdleTold
<1>8. VersionsExplain(t, rec)'
  <2>1. rec.version # 0 /\ rec.version - 1 = task[t].version
    BY <1>5
  <2> QED BY <1>2, <1>3, <1>5, <1>6, <1>7, <2>1 DEF VersionsExplain
<1>9. AssignmentsExplain(t, rec)'
  BY <1>3, <1>5, <1>6, <1>7 DEF AssignmentsExplain, VersionsAssigned, InCharge
<1>10. SignaturesExplain(t, rec)'
  BY <1>5, Unsigned
<1>11. Told(t)'
  BY <1>4, <1>5, <1>8, <1>9, <1>10 DEF Told
<1> QED BY <1>1, <1>2, <1>11, OneTaskTold

LEMMA DraftsTold ==
  ASSUME OneAtATime, TypeOK, NEW p \in Processes, todo[p] = <<>>, \A s \in Tasks : Told(s),
         create_task(p) \/ update_task(p) \/ reject_task(p)
  PROVE  \A s \in Tasks : Told(s)'
<1>1. ASSUME NEW t \in Tasks, NEW w, NEW rec,
             Reply(p, <<w, SnapshotWrite(t, rec.version)>>),
             IsRowWrite(w), w.task = t, w.rec = rec, rec.status = "draft",
             task[t].version \in Nat, rec.version = task[t].version + 1,
             rec.assignmentVersion = task[t].assignmentVersion,
             rec.assignee = task[t].assignee
      PROVE  \A s \in Tasks : Told(s)'
  BY <1>1, DraftTold
<1>2. ASSUME NEW t, NEW rec, NEW a
      PROVE  /\ IsRowWrite(TaskWrite(t, rec)) /\ TaskWrite(t, rec).task = t
             /\ TaskWrite(t, rec).rec = rec
             /\ IsRowWrite(DecisionWrite(t, rec, a)) /\ DecisionWrite(t, rec, a).task = t
             /\ DecisionWrite(t, rec, a).rec = rec
  BY DEF TaskWrite, DecisionWrite, IsRowWrite
<1>3. CASE create_task(p)
  <2>1. PICK q \in Identities, t \in Tasks, c \in Contents, policy \in ApprovalPolicy :
          LET new == [Blank EXCEPT !.status = "draft", !.version = 1, !.content = c,
                                   !.policy = policy, !.draftedBy = q.id]
          IN  ~Stored(t) /\ Reply(p, <<TaskWrite(t, new), SnapshotWrite(t, 1)>>)
    BY <1>3 DEF create_task, Unclaimed
  <2>2. PICK rec : rec = [Blank EXCEPT !.status = "draft", !.version = 1, !.content = c,
                                       !.policy = policy, !.draftedBy = q.id]
    OBVIOUS
  <2>3. task[t] = Blank
    BY <2>1, RecordIsStored DEF Stored, TypeOK
  <2>4. /\ rec.status = "draft" /\ rec.version = 1
        /\ rec.assignmentVersion = task[t].assignmentVersion /\ rec.assignee = task[t].assignee
        /\ task[t].version = 0
    BY <2>2, <2>3 DEF Blank
  <2>5. Reply(p, <<TaskWrite(t, rec), SnapshotWrite(t, rec.version)>>)
    BY <2>1, <2>2, <2>4
  <2>6. task[t].version \in Nat /\ rec.version = task[t].version + 1
    BY <2>4
  <2> QED BY <1>1, <1>2, <2>4, <2>5, <2>6
<1>4. CASE update_task(p)
  <2>1. PICK t, c, policy, rec :
          /\ t \in Tasks /\ c \in Contents /\ policy \in ApprovalPolicy
          /\ rec = [task[t] EXCEPT !.version = @ + 1, !.content = c, !.policy = policy]
          /\ task[t].status = "draft"
          /\ Reply(p, <<TaskWrite(t, rec), SnapshotWrite(t, rec.version)>>)
    BY <1>4 DEF update_task, Editable
  <2>2. task[t] \in TaskRecords
    BY <2>1, StoredRow DEF Stored
  <2>3. /\ rec.status = "draft" /\ rec.version = task[t].version + 1
        /\ rec.assignmentVersion = task[t].assignmentVersion /\ rec.assignee = task[t].assignee
        /\ task[t].version \in Nat
    BY <2>1, <2>2 DEF TaskRecords
  <2>4. t \in Tasks /\ Reply(p, <<TaskWrite(t, rec), SnapshotWrite(t, rec.version)>>)
    BY <2>1
  <2> QED BY <1>1, <1>2, <2>3, <2>4
<1>5. CASE reject_task(p)
  <2>1. PICK t, rec, a :
          /\ t \in Tasks /\ rec = [task[t] EXCEPT !.status = "draft", !.version = @ + 1]
          /\ task[t].status = "pending_approval"
          /\ Reply(p, <<DecisionWrite(t, rec, a), SnapshotWrite(t, rec.version)>>)
    BY <1>5 DEF reject_task
  <2>2. task[t] \in TaskRecords
    BY <2>1, StoredRow DEF Stored
  <2>3. /\ rec.status = "draft" /\ rec.version = task[t].version + 1
        /\ rec.assignmentVersion = task[t].assignmentVersion /\ rec.assignee = task[t].assignee
        /\ task[t].version \in Nat
    BY <2>1, <2>2 DEF TaskRecords
  <2>4. t \in Tasks /\ Reply(p, <<DecisionWrite(t, rec, a), SnapshotWrite(t, rec.version)>>)
    BY <2>1
  <2> QED BY <1>1, <1>2, <2>3, <2>4
<1> QED BY <1>3, <1>4, <1>5

LEMMA AssignTold ==
  ASSUME OneAtATime, TypeOK, NEW p \in Processes, todo[p] = <<>>, \A s \in Tasks : Told(s),
         assign_task(p)
  PROVE  \A s \in Tasks : Told(s)'
<1>1. PICK o, t, rec :
        /\ o \in Operators /\ t \in Tasks /\ task[t].status \in ExecutionStatuses
        /\ rec = [task[t] EXCEPT !.assignee = o, !.assignmentVersion = @ + 1]
        /\ Reply(p, <<TaskWrite(t, rec), AssignmentWrite(t, rec.assignmentVersion, o)>>)
  BY DEF assign_task, Operators
<1>2. task[t] \in TaskRecords
  BY <1>1, StoredRow DEF Stored, ExecutionStatuses, TakeOverStatuses
<1>3. /\ rec.version = task[t].version /\ rec.assignmentVersion = task[t].assignmentVersion + 1
      /\ rec.assignee = o /\ rec.status = task[t].status
      /\ task[t].assignmentVersion \in Nat
  BY <1>1, <1>2 DEF TaskRecords
<1>4. PICK w, v : w = TaskWrite(t, rec) /\ v = AssignmentWrite(t, rec.assignmentVersion, o)
  OBVIOUS
<1>5. /\ w.kind = "task" /\ w.task = t /\ w.rec = rec
      /\ v.kind = "assignment" /\ v.task = t
      /\ v.entry = [version |-> rec.assignmentVersion, assignee |-> o]
  BY <1>4 DEF TaskWrite, AssignmentWrite
<1>6. Reply(p, <<w, v>>)
  BY <1>1, <1>4
<1>7. Pending' = {w, v}
  BY <1>6, PendingWrites
<1>8. RowWrites(t)' = {w} /\ Of("snapshot", t)' = {} /\ Of("assignment", t)' = {v}
  BY <1>5, <1>7 DEF RowWrites, Of
<1>9. Targets(t)' = {rec}
  BY <1>5, <1>8 DEF Targets
<1>10. UNCHANGED <<task, snapshots, feedback, assignments, signed>>
  BY <1>6, RepliedPending
<1>11. /\ snapshots[t] = 1..task[t].version
       /\ VersionsAssigned(t) = 1..task[t].assignmentVersion
  BY <1>1, IdleTold
<1>12. VersionsExplain(t, rec)'
  BY <1>3, <1>8, <1>10, <1>11 DEF VersionsExplain
<1>13. AssignmentsExplain(t, rec)'
  <2>1. rec.assignmentVersion # 0 /\ rec.assignmentVersion - 1 = task[t].assignmentVersion
    BY <1>3
  <2>2. VersionsAssigned(t)' = 1..(rec.assignmentVersion - 1)
    BY <1>10, <1>11, <2>1 DEF VersionsAssigned
  <2> QED BY <1>3, <1>5, <1>8, <2>1, <2>2 DEF AssignmentsExplain
<1>14. SignaturesExplain(t, rec)'
  BY <1>1, <1>3, Unsigned DEF ExecutionStatuses, TakeOverStatuses
<1>15. Told(t)'
  BY <1>9, <1>12, <1>13, <1>14 DEF Told
<1> QED BY <1>1, <1>5, <1>6, <1>7, <1>15, OneTaskTold

\* Granting an extension keeps the people and the status of the row.
LEMMA ExtensionsTold ==
  ASSUME OneAtATime, Inductive, NEW p \in Processes, todo[p] = <<>>, \A s \in Tasks : Told(s),
         request_deadline_extension(p) \/ decide_deadline_extension(p)
  PROVE  \A s \in Tasks : Told(s)'
<1>1. TypeOK
  BY DEF Inductive
<1>2. ASSUME NEW x, NEW r, Reply(p, <<ExtensionWrite(x, r)>>)
      PROVE  \A s \in Tasks : Told(s)'
  <2>1. Pending' = {ExtensionWrite(x, r)}
    BY <1>1, <1>2, PendingWrites
  <2>2. ExtensionWrite(x, r).kind = "extension"
    BY DEF ExtensionWrite
  <2> QED BY <1>1, <1>2, <2>1, <2>2, UntouchedTold
<1>3. CASE request_deadline_extension(p)
  BY <1>2, <1>3 DEF request_deadline_extension
<1>4. CASE decide_deadline_extension(p)
  <2>1. PICK x, approved, r, t, rec :
          /\ x \in Extensions /\ approved \in BOOLEAN /\ extension[x].status = "requested" /\ t = extension[x].task
          /\ rec = Extended(task[t], extension[x].proposal)
          /\ Reply(p, IF approved THEN <<ExtensionWrite(x, r)>> \o <<TaskWrite(t, rec)>>
                                  ELSE <<ExtensionWrite(x, r)>>)
    BY <1>4 DEF decide_deadline_extension
  <2>2. CASE ~approved
    BY <1>2, <2>1, <2>2
  <2>3. CASE approved
    <3>1. extension[x] \in ExtensionRecords /\ t \in Tasks /\ Stored(t)
      BY <2>1, RequestedTask DEF Inductive, ExtensionsOfStoredTasks
    <3>2. task[t] \in TaskRecords /\ extension[x].proposal \in Deadlines
      BY <1>1, <3>1, StoredRow DEF ExtensionRecords
    <3>3. rec = [task[t] EXCEPT !.effective = rec.effective]
      BY <2>1, <3>2, ExtendedRow
    <3>4. /\ rec.version = task[t].version /\ rec.assignmentVersion = task[t].assignmentVersion
          /\ rec.assignee = task[t].assignee /\ rec.status = task[t].status
      BY <3>2, <3>3 DEF TaskRecords
    <3>5. PICK v, w : v = ExtensionWrite(x, r) /\ w = TaskWrite(t, rec)
      OBVIOUS
    <3>6. v.kind = "extension" /\ w.kind = "task" /\ w.task = t /\ w.rec = rec
      BY <3>5 DEF ExtensionWrite, TaskWrite
    <3>7. Reply(p, <<v, w>>)
      BY <2>1, <2>3, <3>5, Joined
    <3>8. Pending' = {v, w}
      BY <1>1, <3>7, PendingWrites
    <3>9. /\ RowWrites(t)' = {w} /\ Of("snapshot", t)' = {} /\ Of("assignment", t)' = {}
          /\ Of("signature", t)' = {} /\ Of("feedback", t)' = {}
      BY <3>6, <3>8 DEF RowWrites, Of
    <3>10. Targets(t)' = {rec}
      BY <3>6, <3>9 DEF Targets
    <3>11. SignaturesExplain(t, rec)'
      <4>1. UNCHANGED <<feedback, signed>>
        BY <1>1, <3>7, RepliedPending
      <4>2. SignaturesExplain(t, task[t]) /\ \A kind : Of(kind, t) = {}
        BY <3>1, IdlePending DEF Told
      <4> QED
        BY <3>4, <3>9, <4>1, <4>2 DEF SignaturesExplain, Signs, ReportedLast, Completions
    <3>12. Told(t)'
      BY <1>1, <3>1, <3>4, <3>7, <3>9, <3>10, <3>11, MovedTold
    <3> QED BY <1>1, <3>1, <3>6, <3>7, <3>8, <3>12, OneTaskTold
  <2> QED BY <2>2, <2>3
<1> QED BY <1>3, <1>4

LEMMA CloseTold ==
  ASSUME OneAtATime, TypeOK, NEW p \in Processes, todo[p] = <<>>, \A s \in Tasks : Told(s),
         close_event(p)
  PROVE  \A s \in Tasks : Told(s)'
<1>1. Reply(p, <<CloseWrite>>) /\ CloseWrite.kind = "close"
  BY DEF close_event, CloseWrite
<1>2. Pending' = {CloseWrite}
  BY <1>1, PendingWrites
<1> QED BY <1>1, <1>2, UntouchedTold


\* A completion report is signed by whoever reported it; the others move the
\* task to where nothing has to be signed.
LEMMA FeedbackTold ==
  ASSUME OneAtATime, TypeOK, NEW p \in Processes, todo[p] = <<>>, \A s \in Tasks : Told(s),
         submit_feedback(p)
  PROVE  \A s \in Tasks : Told(s)'
<1>1. PICK o \in Operators, t \in Tasks, r \in Reports :
        /\ task[t].status \in ExecutionStatuses
        /\ Reply(p, FeedbackWrites(t, task[t], r, o))
  BY DEF submit_feedback, Operators
<1>2. PICK target, rec, report, update :
        /\ target = FeedbackTarget(task[t], CategoryOf[r])
        /\ rec = [task[t] EXCEPT !.status = target]
        /\ report = FeedbackWrite(t, r, o)
        /\ update = TaskWrite(t, rec)
  OBVIOUS
<1>3. task[t] \in TaskRecords
  BY <1>1, StoredRow DEF Stored, ExecutionStatuses, TakeOverStatuses
<1>4. /\ rec.version = task[t].version /\ rec.assignmentVersion = task[t].assignmentVersion
      /\ rec.assignee = task[t].assignee /\ rec.status = target
  BY <1>2, <1>3 DEF TaskRecords
<1>5. /\ report.kind = "feedback" /\ report.task = t
      /\ report.entry = [report |-> r, by |-> o]
      /\ update.kind = "task" /\ update.task = t /\ update.rec = rec
  BY <1>2 DEF FeedbackWrite, TaskWrite
<1>6. task[t].status \notin {"pending_verification", "completed"}
  BY <1>1 DEF ExecutionStatuses, TakeOverStatuses
<1>7. ASSUME NEW ws, Reply(p, ws), NEW row, Targets(t)' = {row},
             row = task[t] \/ row = rec,
             \A w \in Pending' : \/ w.kind = "escalation"
                                 \/ w.kind \in {"feedback", "task", "signature"} /\ w.task = t,
             SignaturesExplain(t, row)'
      PROVE  \A s \in Tasks : Told(s)'
  <2>1. Of("snapshot", t)' = {} /\ Of("assignment", t)' = {}
    BY <1>7 DEF Of
  <2>2. /\ row.version = task[t].version /\ row.assignmentVersion = task[t].assignmentVersion
        /\ row.assignee = task[t].assignee
    BY <1>4, <1>7
  <2>3. Told(t)'
    BY <1>7, <2>1, <2>2, MovedTold
  <2>4. ASSUME NEW s \in Tasks, s # t  PROVE Told(s)'
    BY <1>7, <2>4, UntouchedTold
  <2> QED BY <2>3, <2>4
<1>8. CASE CategoryOf[r] # "situation_update" /\ ~can_transition(task[t].status, target)
  <2>1. Reply(p, <<report>>)
    BY <1>1, <1>2, <1>8 DEF FeedbackWrites
  <2>2. Pending' = {report}
    BY <2>1, PendingWrites
  <2>3. PICK row : row = task[t]
    OBVIOUS
  <2>4. RowWrites(t)' = {} /\ task' = task
    BY <1>5, <2>1, <2>2, RepliedPending DEF RowWrites, Of
  <2>5. Targets(t)' = {row}
    BY <2>3, <2>4 DEF Targets
  <2>6. SignaturesExplain(t, row)'
    BY <1>6, <2>3, Unsigned
  <2> QED BY <1>5, <1>7, <2>1, <2>2, <2>3, <2>5, <2>6
<1>9. ASSUME Pending' = {report, update} \/ \E x : Pending' = {report, update, x}
                                               /\ x.kind \in {"escalation", "signature"}
      PROVE  Targets(t)' = {rec}
  <2>1. RowWrites(t)' = {update}
    BY <1>5, <1>9 DEF RowWrites, Of
  <2> QED BY <1>5, <2>1 DEF Targets
<1>10. CASE CategoryOf[r] = "completion" /\ can_transition(task[t].status, target)
  <2>1. PICK signature : signature = SignatureWrite(t, "submitted", o)
    OBVIOUS
  <2>2. /\ signature.kind = "signature" /\ signature.task = t
        /\ signature.action = "submitted" /\ signature.by = o
    BY <2>1 DEF SignatureWrite
  <2>3. Reply(p, <<report, update, signature>>)
    BY <1>1, <1>2, <1>10, <2>1, Joined DEF FeedbackWrites
  <2>4. Pending' = {report, update, signature}
    BY <2>3, PendingWrites
  <2>5. Targets(t)' = {rec}
    BY <1>9, <2>2, <2>4
  <2>6. Of("signature", t)' = {signature} /\ Of("feedback", t)' = {report}
    BY <1>5, <2>2, <2>4 DEF Of
  <2>7. Signs(t, "submitted", o)' /\ ReportedLast(t, o)'
    BY <1>5, <1>10, <2>2, <2>6 DEF Signs, ReportedLast
  <2>8. rec.status = "pending_verification"
    BY <1>2, <1>4, <1>10 DEF FeedbackTarget
  <2>9. SignaturesExplain(t, rec)'
    BY <2>7, <2>8 DEF SignaturesExplain
  <2> QED BY <1>5, <1>7, <2>2, <2>3, <2>4, <2>5, <2>9
<1>11. CASE /\ CategoryOf[r] # "completion"
            /\ CategoryOf[r] = "situation_update" \/ can_transition(task[t].status, target)
  <2>1. CategoryOf[r] \in Categories
    BY ReportsAssumption
  <2>2. target \notin {"pending_verification", "completed"}
    BY <1>2, <1>6, <1>11, <2>1 DEF FeedbackTarget, Categories
  <2>3. SignaturesExplain(t, rec)'
    BY <1>4, <2>2, Unsigned
  <2>4. CASE CategoryOf[r] = "blocked"
    <3>1. PICK alarm : alarm = EscalationWrite(t, task[t].status, "duty_officer")
      OBVIOUS
    <3>2. alarm.kind = "escalation"
      BY <3>1 DEF EscalationWrite
    <3>3. Reply(p, <<report, alarm, update>>)
      BY <1>1, <1>2, <1>11, <2>4, <3>1, Joined DEF FeedbackWrites
    <3>4. Pending' = {report, update, alarm}
      BY <3>3, PendingWrites
    <3>5. Targets(t)' = {rec}
      BY <1>9, <3>2, <3>4
    <3> QED BY <1>5, <1>7, <2>3, <3>2, <3>3, <3>4, <3>5
  <2>5. CASE CategoryOf[r] # "blocked"
    <3>1. Reply(p, <<report, update>>)
      BY <1>1, <1>2, <1>11, <2>5, Joined DEF FeedbackWrites
    <3>2. Pending' = {report, update}
      BY <3>1, PendingWrites
    <3>3. Targets(t)' = {rec}
      BY <1>9, <3>2
    <3> QED BY <1>5, <1>7, <2>3, <3>1, <3>2, <3>3
  <2> QED BY <2>4, <2>5
<1> QED BY <1>8, <1>10, <1>11

\* Whoever may verify did not report the last completion, which is the one
\* the timeline was signed with.
LEMMA VerifyTold ==
  ASSUME OneAtATime, TypeOK, NEW p \in Processes, todo[p] = <<>>, \A s \in Tasks : Told(s),
         verify_completion(p)
  PROVE  \A s \in Tasks : Told(s)'
<1>1. PICK q \in Identities, t \in Tasks, target \in {"completed", "in_progress"} :
        /\ task[t].status = "pending_verification"
        /\ MayVerify(q, t)
        /\ LET update == <<TaskWrite(t, [task[t] EXCEPT !.status = target])>>
           IN  Reply(p, IF target = "completed"
                        THEN update \o <<SignatureWrite(t, "verified", q.id)>>
                        ELSE update)
  BY DEF verify_completion
<1>2. PICK v, rec, update, signature :
        /\ v \in Operators /\ v = q.id
        /\ rec = [task[t] EXCEPT !.status = target]
        /\ update = TaskWrite(t, rec)
        /\ signature = SignatureWrite(t, "verified", v)
  BY DEF Operators
<1>3. task[t] \in TaskRecords
  BY <1>1, StoredRow DEF Stored
<1>4. /\ rec.version = task[t].version /\ rec.assignmentVersion = task[t].assignmentVersion
      /\ rec.assignee = task[t].assignee /\ rec.status = target
  BY <1>2, <1>3 DEF TaskRecords
<1>5. /\ update.kind = "task" /\ update.task = t /\ update.rec = rec
      /\ signature.kind = "signature" /\ signature.task = t
      /\ signature.action = "verified" /\ signature.by = v
  BY <1>2 DEF SignatureWrite, TaskWrite
<1>6. CASE target = "in_progress"
  <2>1. Reply(p, <<update>>)
    BY <1>1, <1>2, <1>6
  <2> QED BY <1>4, <1>5, <1>6, <2>1, RowOnlyTold DEF IsRowWrite
<1>7. CASE target = "completed"
  <2>1. Reply(p, <<update, signature>>)
    BY <1>1, <1>2, <1>7, Joined
  <2>2. Pending' = {update, signature}
    BY <2>1, PendingWrites
  <2>3. /\ RowWrites(t)' = {update} /\ Of("snapshot", t)' = {} /\ Of("assignment", t)' = {}
        /\ Of("signature", t)' = {signature}
    BY <1>5, <2>2 DEF RowWrites, Of
  <2>4. Targets(t)' = {rec}
    BY <1>5, <2>3 DEF Targets
  <2>5. PICK o \in Operators :
          /\ signed[t]["submitted"] = o
          /\ \E i \in Completions(t) : feedback[t][i].by = o /\ \A j \in Completions(t) : j <= i
    BY <1>1, IdleTold
  <2>6. o # v /\ task[t].assignee # v
    BY <1>1, <1>2, <2>5 DEF MayVerify, Completions
  <2>7. Signs(t, "submitted", o)' /\ Signs(t, "verified", v)'
    <3>1. signed' = signed
      BY <2>1, RepliedPending
    <3> QED BY <1>5, <2>3, <2>5, <3>1 DEF Signs
  <2>8. SignaturesExplain(t, rec)'
    BY <1>2, <1>4, <1>7, <2>6, <2>7 DEF SignaturesExplain
  <2>9. Told(t)'
    BY <1>4, <2>1, <2>3, <2>4, <2>8, MovedTold
  <2> QED BY <1>5, <2>1, <2>2, <2>9, OneTaskTold
<1> QED BY <1>1, <1>6, <1>7

LEMMA SweepTold ==
  ASSUME OneAtATime, TypeOK, NEW p \in Processes, todo[p] = <<>>, \A s \in Tasks : Told(s),
         run_deadline_sweep(p)
  PROVE  \A s \in Tasks : Told(s)'
<1> DEFINE late == {t \in Tasks : Overdue(task[t])}
           n    == Cardinality(late)
<1>1. PICK order, ws :
        order \in [1..n -> late] /\ Reply(p, ws) /\ ws = SweepWrites(order)
  BY DEF run_deadline_sweep
<1>2. n \in Nat
  BY TasksAssumption, FS_Subset, FS_CardinalityType
<1>3. Len(order) = n
  BY <1>1, <1>2
<1>4. \A i \in 1..(2 * n) : order[(i + 1) \div 2] \in late
  BY <1>1, <1>2, Halves
<1>5. /\ DOMAIN ws = 1..(2 * n)
      /\ \A i \in 1..(2 * n) : \E t \in late :
           \/ ws[i] = TaskWrite(t, [task[t] EXCEPT !.status = "escalated"])
           \/ ws[i] = EscalationWrite(t, task[t].status, "reviewer")
  BY <1>1, <1>3, <1>4 DEF SweepWrites
<1>6. Pending' = {ws[i] : i \in DOMAIN ws}
  BY <1>1, RepliedPending
<1>7. \A w \in Pending' :
        \/ w.kind = "escalation"
        \/ w.kind = "task" /\ w.rec = [task[w.task] EXCEPT !.status = "escalated"]
  BY <1>5, <1>6 DEF TaskWrite, EscalationWrite
<1> HIDE DEF late, n
<1>8. ASSUME NEW t \in Tasks  PROVE Told(t)'
  <2>1. CASE RowWrites(t)' = {}
    <3>1. \A w \in Pending' : w.kind = "escalation" \/ w.task # t
      BY <1>7, <2>1 DEF RowWrites, Of
    <3> QED BY <1>1, <3>1, UntouchedTold
  <2>2. CASE RowWrites(t)' # {}
    <3>1. PICK rec : rec = [task[t] EXCEPT !.status = "escalated"]
      OBVIOUS
    <3>2. \A w \in RowWrites(t)' : w.rec = rec
      BY <1>7, <3>1 DEF RowWrites, Of
    <3>3. Targets(t)' = {rec}
      BY <2>2, <3>2 DEF Targets
    <3>4. Of("snapshot", t)' = {} /\ Of("assignment", t)' = {}
      BY <1>7 DEF Of
    <3>5. task[t] \in TaskRecords \/ task[t] = Blank
      BY DEF TypeOK
    <3>6. /\ rec.version = task[t].version /\ rec.assignmentVersion = task[t].assignmentVersion
          /\ rec.assignee = task[t].assignee /\ rec.status = "escalated"
      BY <3>1, <3>5 DEF TaskRecords, Blank
    <3>7. SignaturesExplain(t, rec)'
      BY <3>6, Unsigned
    <3> QED BY <1>1, <3>3, <3>4, <3>6, <3>7, MovedTold
  <2> QED BY <2>1, <2>2
<1> QED BY <1>8


\* A transaction that neither writes the histories of t nor changes what its
\* row will be.
LEMMA SameTold ==
  ASSUME NEW t \in Tasks, Told(t), Targets(t)' \subseteq Targets(t),
         Of("snapshot", t)' = Of("snapshot", t), snapshots'[t] = snapshots[t],
         Of("assignment", t)' = Of("assignment", t), assignments'[t] = assignments[t],
         Of("signature", t)' = Of("signature", t), signed'[t] = signed[t],
         Of("feedback", t)' = Of("feedback", t), feedback'[t] = feedback[t]
  PROVE  Told(t)'
<1> SUFFICES ASSUME NEW rec \in Targets(t)'
             PROVE  /\ VersionsExplain(t, rec)' /\ AssignmentsExplain(t, rec)'
                    /\ SignaturesExplain(t, rec)'
  BY DEF Told
<1>1. /\ VersionsExplain(t, rec) /\ AssignmentsExplain(t, rec)
      /\ SignaturesExplain(t, rec)
  BY DEF Told
<1>2. VersionsExplain(t, rec)'
  BY <1>1 DEF VersionsExplain
<1>3. AssignmentsExplain(t, rec)'
  BY <1>1 DEF AssignmentsExplain, VersionsAssigned, InCharge
<1>4. SignaturesExplain(t, rec)'
  BY <1>1 DEF SignaturesExplain, Signs, ReportedLast, Completions
<1> QED BY <1>2, <1>3, <1>4

\* The transaction that has run is no longer pending; all others still are.
LEMMA StillPending ==
  ASSUME OneAtATime, Explained, NEW p \in Processes, todo[p] # <<>>,
         todo' = [todo EXCEPT ![p] = Tail(@)]
  PROVE  LET w == Head(todo[p]) IN
         /\ w \in Pending /\ w \in Writes
         /\ \A kind, t : ~(w.kind = kind /\ w.task = t) => Of(kind, t)' = Of(kind, t)
         /\ \A t : ~(IsRowWrite(w) /\ w.task = t) => RowWrites(t)' = RowWrites(t)
         /\ w.kind \in {"snapshot", "assignment", "signature", "close"} =>
              Pending' = {} /\ Pending = {w}
         /\ \A v \in Pending' : v.kind \notin {"feedback", "decision"}
<1> DEFINE w == Head(todo[p])
<1>1. /\ Pending = Pending' \cup {w}
      /\ w.kind \in {"snapshot", "assignment", "signature", "close"} => Pending' = {}
      /\ \A v \in Pending' : v.kind \notin {"feedback", "decision"}
  BY RestPending DEF Explained, SerialInductive, Inductive
<1>2. w \in Writes
  BY HeadWrite DEF Explained, SerialInductive
<1> HIDE DEF w
<1>3. ASSUME NEW kind, NEW t, ~(w.kind = kind /\ w.task = t)  PROVE Of(kind, t)' = Of(kind, t)
  BY <1>1, <1>3 DEF Of
<1>4. ASSUME NEW t, ~(IsRowWrite(w) /\ w.task = t)  PROVE RowWrites(t)' = RowWrites(t)
  <2>1. ~(w.kind = "task" /\ w.task = t) /\ ~(w.kind = "decision" /\ w.task = t)
    BY <1>4 DEF IsRowWrite
  <2> QED BY <1>3, <2>1 DEF RowWrites
<1> QED BY <1>1, <1>2, <1>3, <1>4 DEF w

\* The row of a task becomes the one its histories already explain.
LEMMA RowStoreTold ==
  ASSUME OneAtATime, Explained, NEW p \in Processes, store_task(p) \/ store_decision(p)
  PROVE  \A t \in Tasks : Told(t)'
<1>1. PICK w : w = Head(todo[p])
  OBVIOUS
<1>2. /\ todo[p] # <<>> /\ IsRowWrite(w)
      /\ todo' = [todo EXCEPT ![p] = Tail(@)]
      /\ task' = [task EXCEPT ![w.task] = w.rec]
      /\ UNCHANGED <<snapshots, feedback, assignments, signed>>
  BY <1>1 DEF store_task, store_decision, Next_write, Stored_write, IsRowWrite
<1>3. /\ w \in RowWrites(w.task)
      /\ \A t \in Tasks : RowWrites(t)' \subseteq RowWrites(t)
      /\ \A t \in Tasks : task'[t] = IF t = w.task THEN w.rec ELSE task[t]
      /\ w.task \in Tasks
  BY <1>1, <1>2, HeadRow DEF Explained
<1>4. /\ \A kind, t : ~(w.kind = kind /\ w.task = t) => Of(kind, t)' = Of(kind, t)
      /\ \A t : ~(IsRowWrite(w) /\ w.task = t) => RowWrites(t)' = RowWrites(t)
  BY <1>1, <1>2, StillPending
<1> SUFFICES ASSUME NEW t \in Tasks  PROVE Told(t)'
  OBVIOUS
<1>5. Targets(t)' \subseteq Targets(t)
  <2>1. CASE t = w.task
    <3>1. \A v \in RowWrites(t) : v.rec = w.rec
      BY <1>3, <2>1 DEF Explained, SerialInductive, MovesGuarded
    <3>2. Targets(t) = {w.rec}
      BY <1>3, <2>1, <3>1 DEF Targets
    <3>3. Targets(t)' = {w.rec}
      BY <1>3, <2>1, <3>1 DEF Targets
    <3> QED BY <3>2, <3>3
  <2>2. CASE t # w.task
    BY <1>3, <1>4, <2>2 DEF Targets
  <2> QED BY <2>1, <2>2
<1>6. /\ Of("snapshot", t)' = Of("snapshot", t) /\ Of("assignment", t)' = Of("assignment", t)
      /\ Of("signature", t)' = Of("signature", t) /\ Of("feedback", t)' = Of("feedback", t)
  BY <1>2, <1>4 DEF IsRowWrite
<1> QED BY <1>2, <1>5, <1>6, SameTold DEF Explained

LEMMA PlainStoreTold ==
  ASSUME OneAtATime, Explained, NEW p \in Processes,
         store_escalation(p) \/ store_extension(p) \/ store_close(p)
  PROVE  \A t \in Tasks : Told(t)'
<1>1. PICK w : w = Head(todo[p])
  OBVIOUS
<1>2. /\ todo[p] # <<>> /\ w.kind \in {"escalation", "extension", "close"}
      /\ todo' = [todo EXCEPT ![p] = Tail(@)]
      /\ UNCHANGED <<task, snapshots, feedback, assignments, signed>>
  BY <1>1 DEF store_escalation, store_extension, store_close, Next_write, Stored_write
<1>3. /\ \A kind, t : ~(w.kind = kind /\ w.task = t) => Of(kind, t)' = Of(kind, t)
      /\ \A t : ~(IsRowWrite(w) /\ w.task = t) => RowWrites(t)' = RowWrites(t)
  BY <1>1, <1>2, StillPending
<1> SUFFICES ASSUME NEW t \in Tasks  PROVE Told(t)'
  OBVIOUS
<1>4. Targets(t)' = Targets(t)
  <2>1. RowWrites(t)' = RowWrites(t)
    BY <1>2, <1>3 DEF IsRowWrite
  <2> QED BY <1>2, <2>1 DEF Targets
<1> QED BY <1>2, <1>3, <1>4, SameTold DEF Explained

\* What is left when the last transaction of a handler is at the head.
LEMMA LastPending ==
  ASSUME OneAtATime, Explained, NEW p \in Processes, todo[p] # <<>>,
         Head(todo[p]).kind \in {"snapshot", "assignment", "signature"}
  PROVE  LET w == Head(todo[p]) IN
         /\ w \in Writes /\ w.task \in Tasks
         /\ \A kind, t : Of(kind, t) = IF w.kind = kind /\ w.task = t THEN {w} ELSE {}
         /\ \A t \in Tasks : Targets(t) = {task[t]}
         /\ VersionsExplain(w.task, task[w.task]) /\ AssignmentsExplain(w.task, task[w.task])
         /\ SignaturesExplain(w.task, task[w.task])
<1> DEFINE w == Head(todo[p])
           q == todo[p]
<1>1. q \in Seq(Writes) /\ q # <<>> /\ Head(q) = q[1] /\ 1 \in DOMAIN q /\ DOMAIN q = 1..Len(q)
  BY DEF Explained, SerialInductive, Inductive, TypeOK
<1>2. Len(q) = 1
  BY <1>1 DEF Explained, SerialInductive, InPlace
<1>3. Pending = {w}
  <2>1. Pending = {q[i] : i \in DOMAIN q}
    BY OneProcess DEF Pending
  <2>2. DOMAIN q = {1}
    BY <1>1, <1>2
  <2> QED BY <1>1, <2>1, <2>2
<1>4. w \in Writes
  BY <1>1
<1>5. w.task \in Tasks
  BY <1>4, WriteFields
<1> HIDE DEF w
<1>6. \A kind, t : Of(kind, t) = IF w.kind = kind /\ w.task = t THEN {w} ELSE {}
  BY <1>3 DEF Of
<1>7. w.kind \in {"snapshot", "assignment", "signature"}
  BY DEF w
<1>8. \A t \in Tasks : Targets(t) = {task[t]}
  BY <1>6, <1>7 DEF Targets, RowWrites
<1>9. /\ VersionsExplain(w.task, task[w.task]) /\ AssignmentsExplain(w.task, task[w.task])
      /\ SignaturesExplain(w.task, task[w.task])
  BY <1>5, <1>8 DEF Explained, Told
<1> QED BY <1>4, <1>5, <1>6, <1>8, <1>9 DEF w

\* Nothing is pending after it.
LEMMA NothingPending ==
  ASSUME OneAtATime, Explained, NEW p \in Processes, todo[p] # <<>>,
         Head(todo[p]).kind \in {"snapshot", "assignment", "signature"},
         todo' = [todo EXCEPT ![p] = Tail(@)], task' = task
  PROVE  \A t \in Tasks : Targets(t)' = {task[t]} /\ \A kind : Of(kind, t)' = {}
<1>1. Pending' = {}
  BY StillPending
<1> QED BY <1>1 DEF Targets, RowWrites, Of

LEMMA SnapshotStoreTold ==
  ASSUME OneAtATime, Explained, NEW p \in Processes, store_snapshot(p)
  PROVE  \A t \in Tasks : Told(t)'
<1>1. PICK w : w = Head(todo[p])
  OBVIOUS
<1>2. /\ todo[p] # <<>> /\ w.kind = "snapshot"
      /\ todo' = [todo EXCEPT ![p] = Tail(@)]
      /\ snapshots' = [snapshots EXCEPT ![w.task] = @ \cup {w.version}]
      /\ UNCHANGED <<task, feedback, assignments, signed>>
  BY <1>1 DEF store_snapshot, Next_write, Stored_write
<1>3. /\ w \in Writes /\ w.task \in Tasks
      /\ \A kind, t : Of(kind, t) = IF w.kind = kind /\ w.task = t THEN {w} ELSE {}
      /\ \A t \in Tasks : Targets(t) = {task[t]}
      /\ VersionsExplain(w.task, task[w.task])
  BY <1>1, <1>2, LastPending
<1>4. \A t \in Tasks : Targets(t)' = {task[t]} /\ \A kind : Of(kind, t)' = {}
  BY <1>1, <1>2, NothingPending
<1>5. /\ w.version = task[w.task].version /\ task[w.task].version # 0
      /\ snapshots[w.task] = 1..(task[w.task].version - 1)
  BY <1>2, <1>3 DEF VersionsExplain
<1>6. w.version \in Nat
  BY <1>2, <1>3, WriteFields
<1>7. snapshots'[w.task] = 1..task[w.task].version
  <2>1. snapshots'[w.task] = snapshots[w.task] \cup {w.version}
    BY <1>2, <1>3 DEF Explained, SerialInductive, Inductive, TypeOK
  <2>2. 1..(w.version - 1) \cup {w.version} = 1..w.version
    BY <1>5, <1>6
  <2> QED BY <1>5, <2>1, <2>2
<1> SUFFICES ASSUME NEW t \in Tasks  PROVE Told(t)'
  OBVIOUS
<1>8. CASE t # w.task
  <2>1. snapshots'[t] = snapshots[t]
    BY <1>2, <1>8 DEF Explained, SerialInductive, Inductive, TypeOK
  <2> QED BY <1>2, <1>3, <1>4, <1>8, <2>1, SameTold DEF Explained
<1>9. CASE t = w.task
  <2>1. PICK rec : rec = task[t]
    OBVIOUS
  <2>2. Told(t) /\ rec \in Targets(t)
    BY <1>3, <2>1 DEF Explained
  <2>3. VersionsExplain(t, rec)'
    BY <1>4, <1>7, <1>9, <2>1 DEF VersionsExplain
  <2>4. AssignmentsExplain(t, rec)'
    BY <1>2, <1>3, <1>4, <2>2 DEF Told, AssignmentsExplain, VersionsAssigned, InCharge
  <2>5. SignaturesExplain(t, rec)'
    BY <1>2, <1>3, <1>4, <2>2
       DEF Told, SignaturesExplain, Signs, ReportedLast, Completions
  <2> QED BY <1>4, <2>1, <2>3, <2>4, <2>5 DEF Told
<1> QED BY <1>8, <1>9

LEMMA AssignmentStoreTold ==
  ASSUME OneAtATime, Explained, NEW p \in Processes, store_assignment(p)
  PROVE  \A t \in Tasks : Told(t)'
<1>1. PICK w : w = Head(todo[p])
  OBVIOUS
<1>2. /\ todo[p] # <<>> /\ w.kind = "assignment"
      /\ todo' = [todo EXCEPT ![p] = Tail(@)]
      /\ assignments' = [assignments EXCEPT ![w.task] = @ \cup {w.entry}]
      /\ UNCHANGED <<task, snapshots, feedback, signed>>
  BY <1>1 DEF store_assignment, Next_write, Stored_write
<1>3. /\ w \in Writes /\ w.task \in Tasks
      /\ \A kind, t : Of(kind, t) = IF w.kind = kind /\ w.task = t THEN {w} ELSE {}
      /\ \A t \in Tasks : Targets(t) = {task[t]}
      /\ AssignmentsExplain(w.task, task[w.task])
  BY <1>1, <1>2, LastPending
<1>4. \A t \in Tasks : Targets(t)' = {task[t]} /\ \A kind : Of(kind, t)' = {}
  BY <1>1, <1>2, NothingPending
<1>5. PICK n, o : n = task[w.task].assignmentVersion /\ o = task[w.task].assignee
  OBVIOUS
<1>6. /\ w.entry = [version |-> n, assignee |-> o] /\ n # 0
      /\ VersionsAssigned(w.task) = 1..(n - 1)
  BY <1>2, <1>3, <1>5 DEF AssignmentsExplain
<1>7. n \in Nat
  BY <1>3, <1>5 DEF Explained, SerialInductive, Inductive, TypeOK, TaskRecords, Blank
<1>8. \A t \in Tasks : assignments'[t] = IF t = w.task THEN assignments[t] \cup {w.entry}
                                                       ELSE assignments[t]
  BY <1>2, <1>3 DEF Explained, SerialInductive, Inductive, TypeOK
<1> SUFFICES ASSUME NEW t \in Tasks  PROVE Told(t)'
  OBVIOUS
<1>9. CASE t # w.task
  BY <1>2, <1>3, <1>4, <1>8, <1>9, SameTold DEF Explained
<1>10. CASE t = w.task
  <2>1. PICK rec : rec = task[t]
    OBVIOUS
  <2>2. Told(t) /\ rec \in Targets(t) /\ rec.assignmentVersion = n /\ rec.assignee = o
    BY <1>3, <1>5, <1>10, <2>1 DEF Explained
  <2>3. VersionsExplain(t, rec)'
    BY <1>2, <1>3, <1>4, <2>2 DEF Told, VersionsExplain
  <2>4. AssignmentsExplain(t, rec)'
    <3>1. VersionsAssigned(t)' = VersionsAssigned(t) \cup {n}
      <4>1. assignments'[t] = assignments[t] \cup {w.entry}
        BY <1>8, <1>10
      <4>2. w.entry.version = n
        BY <1>6
      <4> QED BY <4>1, <4>2 DEF VersionsAssigned
    <3>2. 1..(n - 1) \cup {n} = 1..n
      BY <1>6, <1>7
    <3>3. VersionsAssigned(t)' = 1..n
      BY <1>6, <1>10, <3>1, <3>2
    <3>4. [version |-> n, assignee |-> o] \in assignments'[t]
      BY <1>6, <1>8, <1>10
    <3> QED BY <1>4, <2>2, <3>3, <3>4 DEF AssignmentsExplain
  <2>5. SignaturesExplain(t, rec)'
    BY <1>2, <1>3, <1>4, <2>2
       DEF Told, SignaturesExplain, Signs, ReportedLast, Completions
  <2> QED BY <1>4, <2>1, <2>3, <2>4, <2>5 DEF Told
<1> QED BY <1>9, <1>10

LEMMA SignatureStoreTold ==
  ASSUME OneAtATime, Explained, NEW p \in Processes, store_signature(p)
  PROVE  \A t \in Tasks : Told(t)'
<1>1. PICK w : w = Head(todo[p])
  OBVIOUS
<1>2. /\ todo[p] # <<>> /\ w.kind = "signature"
      /\ todo' = [todo EXCEPT ![p] = Tail(@)]
      /\ signed' = [signed EXCEPT ![w.task][w.action] = w.by]
      /\ UNCHANGED <<task, snapshots, feedback, assignments>>
  BY <1>1 DEF store_signature, Next_write, Stored_write
<1>3. /\ w \in Writes /\ w.task \in Tasks
      /\ \A kind, t : Of(kind, t) = IF w.kind = kind /\ w.task = t THEN {w} ELSE {}
      /\ \A t \in Tasks : Targets(t) = {task[t]}
  BY <1>1, <1>2, LastPending
<1>4. \A t \in Tasks : Targets(t)' = {task[t]} /\ \A kind : Of(kind, t)' = {}
  BY <1>1, <1>2, NothingPending
<1>5. w.action \in {"submitted", "verified"}
  BY <1>2, <1>3, WriteFields
<1>6. \A t \in Tasks : signed[t] \in [submitted : Operators \cup {NoOne},
                                      verified : Operators \cup {NoOne}]
  BY DEF Explained, SerialInductive, Inductive, TypeOK
<1>7. \A t \in Tasks : signed'[t] = IF t = w.task THEN [signed[t] EXCEPT ![w.action] = w.by]
                                                  ELSE signed[t]
  BY <1>2, <1>3 DEF Explained, SerialInductive, Inductive, TypeOK
<1> SUFFICES ASSUME NEW t \in Tasks  PROVE Told(t)'
  OBVIOUS
<1>8. CASE t # w.task
  BY <1>2, <1>3, <1>4, <1>7, <1>8, SameTold DEF Explained
<1>9. CASE t = w.task
  <2>1. PICK rec : rec = task[t]
    OBVIOUS
  <2>2. Told(t) /\ rec \in Targets(t)
    BY <1>3, <2>1 DEF Explained
  <2>3. VersionsExplain(t, rec)'
    BY <1>2, <1>3, <1>4, <2>2 DEF Told, VersionsExplain
  <2>4. AssignmentsExplain(t, rec)'
    BY <1>2, <1>3, <1>4, <2>2 DEF Told, AssignmentsExplain, VersionsAssigned, InCharge
  <2>5. \A o : \A action \in {"submitted", "verified"} : Signs(t, action, o) => Signs(t, action, o)'
    <3> SUFFICES ASSUME NEW action \in {"submitted", "verified"}, NEW o, Signs(t, action, o)
                 PROVE  Signs(t, action, o)'
      OBVIOUS
    <3>1. Of("signature", t) = {w}
      BY <1>2, <1>3, <1>9
    <3>2. IF action = w.action THEN w.by = o ELSE signed[t][action] = o
      BY <3>1 DEF Signs
    <3>3. signed'[t][action] = o
      BY <1>5, <1>6, <1>7, <1>9, <3>2
    <3> QED BY <1>4, <3>3 DEF Signs
  <2>6. \A o : ReportedLast(t, o) => ReportedLast(t, o)'
    BY <1>2, <1>3, <1>4 DEF ReportedLast, Completions
  <2>7. SignaturesExplain(t, rec)'
    <3>1. SignaturesExplain(t, rec)
      BY <2>2 DEF Told
    <3> QED BY <2>5, <2>6, <3>1 DEF SignaturesExplain
  <2> QED BY <1>4, <2>1, <2>3, <2>4, <2>7 DEF Told
<1> QED BY <1>8, <1>9

\* The report that has been stored is the last one.
LEMMA FeedbackStoreTold ==
  ASSUME OneAtATime, Explained, NEW p \in Processes, store_feedback(p)
  PROVE  \A t \in Tasks : Told(t)'
<1>1. PICK w : w = Head(todo[p])
  OBVIOUS
<1>2. /\ todo[p] # <<>> /\ w.kind = "feedback"
      /\ todo' = [todo EXCEPT ![p] = Tail(@)]
      /\ feedback' = [feedback EXCEPT ![w.task] = Append(@, w.entry)]
      /\ UNCHANGED <<task, snapshots, assignments, signed>>
  BY <1>1 DEF store_feedback, Next_write, Stored_write
<1>3. /\ w \in Pending /\ w \in Writes
      /\ \A kind, t : ~(w.kind = kind /\ w.task = t) => Of(kind, t)' = Of(kind, t)
      /\ \A t : ~(IsRowWrite(w) /\ w.task = t) => RowWrites(t)' = RowWrites(t)
      /\ \A v \in Pending' : v.kind \notin {"feedback", "decision"}
  BY <1>1, <1>2, StillPending
<1>4. w.task \in Tasks
  BY <1>2, <1>3, WriteFields
<1>5. ASSUME NEW t \in Tasks  PROVE Targets(t)' = Targets(t)
  <2>1. RowWrites(t)' = RowWrites(t)
    BY <1>2, <1>3 DEF IsRowWrite
  <2> QED BY <1>2, <2>1 DEF Targets
<1> SUFFICES ASSUME NEW t \in Tasks  PROVE Told(t)'
  OBVIOUS
<1>6. CASE t # w.task
  <2>1. feedback'[t] = feedback[t]
    BY <1>2, <1>6 DEF Explained, SerialInductive, Inductive, TypeOK
  <2> QED BY <1>2, <1>3, <1>5, <1>6, <2>1, SameTold DEF Explained
<1>7. CASE t = w.task
  <2> SUFFICES ASSUME NEW rec \in Targets(t)
               PROVE  /\ VersionsExplain(t, rec)' /\ AssignmentsExplain(t, rec)'
                      /\ SignaturesExplain(t, rec)'
    BY <1>5 DEF Told
  <2>1. VersionsExplain(t, rec) /\ AssignmentsExplain(t, rec) /\ SignaturesExplain(t, rec)
    BY DEF Explained, Told
  <2>2. /\ Of("snapshot", t)' = Of("snapshot", t) /\ Of("assignment", t)' = Of("assignment", t)
        /\ Of("signature", t)' = Of("signature", t) /\ Of("feedback", t)' = {}
        /\ w \in Of("feedback", t)
    <3>1. /\ Of("snapshot", t)' = Of("snapshot", t)
          /\ Of("assignment", t)' = Of("assignment", t)
          /\ Of("signature", t)' = Of("signature", t)
      BY <1>2, <1>3
    <3>2. Of("feedback", t)' = {} /\ w \in Of("feedback", t)
      BY <1>2, <1>3, <1>7 DEF Of
    <3> QED BY <3>1, <3>2
  <2>3. VersionsExplain(t, rec)'
    BY <1>2, <2>1, <2>2 DEF VersionsExplain
  <2>4. AssignmentsExplain(t, rec)'
    BY <1>2, <2>1, <2>2 DEF AssignmentsExplain, VersionsAssigned, InCharge
  <2>5. \A action, o : Signs(t, action, o) => Signs(t, action, o)'
    BY <1>2, <2>2 DEF Signs
  <2>6. ASSUME NEW o, ReportedLast(t, o)  PROVE ReportedLast(t, o)'
    <3>1. CategoryOf[w.entry.report] = "completion" /\ w.entry.by = o
      BY <2>2, <2>6 DEF ReportedLast
    <3>2. feedback[t] \in Seq(FeedbackRecords) /\ w.entry \in FeedbackRecords
      BY <1>2, <1>3, WriteFields DEF Explained, SerialInductive, Inductive, TypeOK
    <3>3. feedback'[t] = Append(feedback[t], w.entry)
      BY <1>2, <1>7 DEF Explained, SerialInductive, Inductive, TypeOK
    <3> DEFINE f == feedback'[t]
               n == Len(feedback[t]) + 1
    <3>4. DOMAIN f = 1..n /\ n \in Nat /\ n \in 1..n /\ f[n] = w.entry
      BY <3>2, <3>3
    <3>5. Completions(t)' = {i \in DOMAIN f : CategoryOf[f[i].report] = "completion"}
      BY DEF Completions
    <3> HIDE DEF f, n
    <3>6. n \in Completions(t)' /\ \A j \in Completions(t)' : j <= n
      BY <3>1, <3>4, <3>5
    <3>7. f[n].by = o
      BY <3>1, <3>4
    <3> QED BY <2>2, <3>6, <3>7 DEF ReportedLast, f
  <2>7. SignaturesExplain(t, rec)'
    BY <2>1, <2>5, <2>6 DEF SignaturesExplain
  <2> QED BY <2>3, <2>4, <2>7
<1> QED BY <1>6, <1>7

\* No transaction of a handler running alone meets a conflict.
LEMMA NoConflict ==
  ASSUME OneAtATime, Explained, NEW p \in Processes,
         decision_conflict(p) \/ snapshot_conflict(p) \/ assignment_conflict(p)
  PROVE  FALSE
<1>1. PICK w : w = Head(todo[p])
  OBVIOUS
<1>2. todo[p] # <<>>
  BY DEF decision_conflict, snapshot_conflict, assignment_conflict, Next_write
<1>3. CASE decision_conflict(p)
  <2>1. PICK m \in outbox :
          w.kind = "decision" /\ w.approval.decision = "approved" /\ m.task = w.approval.task
    BY <1>1, <1>3 DEF decision_conflict, Next_write, KeyTaken
  <2>2. w \in Writes /\ WriteOK(w) /\ w \in Pending
    <3>1. 1 \in DOMAIN todo[p] /\ Head(todo[p]) = todo[p][1]
      BY <1>2 DEF Explained, SerialInductive, Inductive, TypeOK
    <3> QED BY <1>1, <1>2, <3>1, HeadWrite DEF Explained, SerialInductive, Pending
  <2>3. w.approval.task = w.task
    BY <2>1, <2>2 DEF WriteOK, Entitles
  <2>4. w \in RowWrites(m.task)
    BY <2>1, <2>2, <2>3 DEF RowWrites, Of
  <2> QED BY <2>1, <2>4 DEF Explained, SerialInductive, FrozenRows
<1>4. CASE snapshot_conflict(p)
  <2>1. w.kind = "snapshot" /\ w.version \in snapshots[w.task]
    BY <1>1, <1>4 DEF snapshot_conflict, Next_write
  <2>2. w \in Writes /\ w \in Of("snapshot", w.task) /\ VersionsExplain(w.task, task[w.task])
    BY <1>1, <1>2, <2>1, LastPending
  <2>3. w.version = task[w.task].version /\ w.version \in Nat
        /\ snapshots[w.task] = 1..(w.version - 1)
    BY <2>1, <2>2, WriteFields DEF VersionsExplain
  <2> QED BY <2>1, <2>3
<1>5. CASE assignment_conflict(p)
  <2>1. w.kind = "assignment" /\ \E a \in assignments[w.task] : a.version = w.entry.version
    BY <1>1, <1>5 DEF assignment_conflict, Next_write, VersionAssigned
  <2>2. w \in Writes /\ w \in Of("assignment", w.task)
        /\ AssignmentsExplain(w.task, task[w.task])
    BY <1>1, <1>2, <2>1, LastPending
  <2>3. /\ VersionsAssigned(w.task) = 1..(w.entry.version - 1)
        /\ w.entry.version \in Nat
    BY <2>1, <2>2, WriteFields DEF AssignmentsExplain, AssignmentRecords
  <2>4. w.entry.version \in VersionsAssigned(w.task)
    BY <2>1 DEF VersionsAssigned
  <2> QED BY <2>3, <2>4
<1> QED BY <1>3, <1>4, <1>5

LEMMA InitTold ==
  ASSUME Init
  PROVE  Explained
<1>1. SerialInductive
  BY InitSerial
<1>2. ASSUME NEW t \in Tasks  PROVE Told(t)
  <2>1. \A kind : Of(kind, t) = {}
    BY DEF Init, Pending, Of
  <2>2. Targets(t) = {Blank}
    BY <2>1 DEF Init, Targets, RowWrites
  <2>3. VersionsExplain(t, Blank)
    BY <2>1 DEF Init, VersionsExplain, Blank
  <2>4. AssignmentsExplain(t, Blank)
    BY <2>1 DEF Init, AssignmentsExplain, VersionsAssigned, Blank
  <2>5. SignaturesExplain(t, Blank)
    BY DEF SignaturesExplain, Blank
  <2> QED BY <2>2, <2>3, <2>4, <2>5 DEF Told
<1> QED BY <1>1, <1>2 DEF Explained

LEMMA NextTold ==
  ASSUME OneAtATime, NothingFails, Explained, [Next]_vars
  PROVE  Explained'
<1>1. SerialInductive'
  BY NextSerial DEF Explained
<1>2. Inductive /\ TypeOK /\ \A s \in Tasks : Told(s)
  BY DEF Explained, SerialInductive, Inductive
<1>3. ASSUME NEW p \in Threads, Draft(p)  PROVE \A t \in Tasks : Told(t)'
  <2>1. p \in Processes
    BY DEF Processes
  <2>2. todo[p] = <<>>
    BY <1>3 DEF Draft, create_task, update_task, submit_task, approve_task, reject_task, Called
  <2> QED
    BY <1>2, <1>3, <2>1, <2>2, DraftsTold, TransitionsTold, ApproveTold DEF Draft
<1>4. ASSUME NEW p \in Threads, Execute(p)  PROVE \A t \in Tasks : Told(t)'
  <2>1. p \in Processes
    BY DEF Processes
  <2>2. todo[p] = <<>>
    BY <1>4 DEF Execute, acknowledge_task, start_task, assign_task, submit_feedback,
                verify_completion, Called
  <2> QED
    BY <1>2, <1>4, <2>1, <2>2, TransitionsTold, AssignTold, FeedbackTold, VerifyTold
       DEF Execute
<1>5. ASSUME NEW p \in Threads, Intervene(p)  PROVE \A t \in Tasks : Told(t)'
  <2>1. p \in Processes
    BY DEF Processes
  <2>2. todo[p] = <<>>
    BY <1>5 DEF Intervene, cancel_task, waive_task, take_over_task,
                request_deadline_extension, decide_deadline_extension, close_event, Called
  <2> QED
    BY <1>2, <1>5, <2>1, <2>2, TransitionsTold, ExtensionsTold, CloseTold DEF Intervene
<1>6. ASSUME NEW p \in Processes, run_deadline_sweep(p)  PROVE \A t \in Tasks : Told(t)'
  <2>1. todo[p] = <<>>
    BY <1>6 DEF run_deadline_sweep, Called
  <2> QED BY <1>2, <1>6, <2>1, SweepTold
<1>7. ASSUME NEW p \in Processes, Store(p)  PROVE \A t \in Tasks : Told(t)'
  BY <1>7, NoConflict, RowStoreTold, PlainStoreTold, SnapshotStoreTold, AssignmentStoreTold,
     SignatureStoreTold, FeedbackStoreTold DEF Store
<1>8. ASSUME NEW p \in Processes, crash(p)  PROVE FALSE
  BY <1>8 DEF crash, NothingFails
<1>9. ASSUME UNCHANGED <<task, snapshots, feedback, assignments, signed, todo>>
      PROVE  \A t \in Tasks : Told(t)'
  <2> SUFFICES ASSUME NEW t \in Tasks  PROVE Told(t)'
    OBVIOUS
  <2>1. \A kind : Of(kind, t)' = Of(kind, t)
    BY <1>9 DEF Of, Pending
  <2>2. Targets(t)' = Targets(t)
    <3>1. RowWrites(t)' = RowWrites(t)
      BY <2>1 DEF RowWrites
    <3> QED BY <1>9, <3>1 DEF Targets
  <2> QED BY <1>2, <1>9, <2>1, <2>2, SameTold
<1>10. CASE tick \/ UNCHANGED vars
  BY <1>1, <1>9, <1>10 DEF tick, vars, db, Explained
<1> QED BY <1>1, <1>3, <1>4, <1>5, <1>6, <1>7, <1>8, <1>10 DEF Next, Explained

\* With one handler at a time and no failures, every handler leaves histories
\* that explain the rows it stores.
THEOREM ExplainedInvariant ==
  ASSUME OneAtATime, NothingFails
  PROVE  Spec => []Explained
<1>1. Init => Explained
  BY InitTold
<1>2. Explained /\ [Next]_vars => Explained'
  BY NextTold
<1> QED BY <1>1, <1>2, PTL DEF Spec

\* What the state says once no handler is under way.
LEMMA QuietTold ==
  ASSUME Explained, Quiet, NEW t \in Tasks
  PROVE  /\ \A kind : Of(kind, t) = {}
         /\ VersionsExplain(t, task[t]) /\ AssignmentsExplain(t, task[t])
         /\ SignaturesExplain(t, task[t])
<1>1. Pending = {}
  BY DEF Quiet, Pending
<1>2. (\A kind : Of(kind, t) = {}) /\ Targets(t) = {task[t]}
  BY <1>1 DEF Of, RowWrites, Targets
<1> QED BY <1>2 DEF Explained, Told

\* With one handler at a time and no failures, the version history of every
\* task is complete after every handler, and the assignment history accounts
\* for whoever is on the task.
THEOREM HistoriesSafe ==
  ASSUME OneAtATime, NothingFails
  PROVE  Spec => []HistoriesExplain
<1>1. Explained => HistoriesExplain
  <2> SUFFICES ASSUME Explained, Quiet, NEW t \in Tasks
               PROVE  /\ snapshots[t] = 1..task[t].version
                      /\ {a.version : a \in assignments[t]} = 1..task[t].assignmentVersion
                      /\ task[t].assignee = NoOne
                         \/ [version |-> task[t].assignmentVersion, assignee |-> task[t].assignee]
                              \in assignments[t]
                         \/ \E q \in Identities :
                              q.id = task[t].assignee /\ q.role \in APPROVAL_ROLES
    BY DEF HistoriesExplain, VersionHistoryComplete, AssignmentHistoryExplains
  <2> QED BY QuietTold DEF VersionsExplain, AssignmentsExplain, VersionsAssigned, InCharge
<1> QED BY <1>1, ExplainedInvariant, PTL

\* With one handler at a time and no failures, nobody verifies a completion
\* they reported or executed, and both signatures are in the timeline.
THEOREM VerificationSafe ==
  ASSUME OneAtATime, NothingFails
  PROVE  Spec => []VerifiedIndependently
<1>1. Explained => VerifiedIndependently
  <2> SUFFICES ASSUME Explained, Quiet, NEW t \in Tasks, task[t].status = "completed"
               PROVE  /\ signed[t].submitted # NoOne /\ signed[t].verified # NoOne
                      /\ signed[t].submitted # signed[t].verified
                      /\ task[t].assignee # signed[t].verified
    BY DEF VerifiedIndependently
  <2>1. PICK o \in Operators, v \in Operators :
          Signs(t, "submitted", o) /\ Signs(t, "verified", v) /\ o # v /\ task[t].assignee # v
    BY QuietTold DEF SignaturesExplain
  <2>2. signed[t].submitted = o /\ signed[t].verified = v
    BY <2>1, QuietTold DEF Signs
  <2>3. o # NoOne /\ v # NoOne
    BY IdentitiesAssumption
  <2> QED BY <2>1, <2>2, <2>3
<1> QED BY <1>1, ExplainedInvariant, PTL
=============================================================================
