----------------------------- MODULE TaskSafety -----------------------------
(***************************************************************************)
(* What the task life cycle promises.                                      *)
(***************************************************************************)
EXTENDS TaskLifecycle

\* Statuses only an approved task reaches.
ApprovedStatuses == ExecutionStatuses \cup {"pending_verification", "completed"}

-----------------------------------------------------------------------------
(***************************************************************************)
(* Types.                                                                  *)
(***************************************************************************)
Deadlines == [start : Nat, complete : Nat, verify : Nat]
Hashes    == Nat \X Contents

TaskRecords ==
  [status : TaskStatus, version : Nat, content : Contents, policy : ApprovalPolicy,
   draftedBy : Operators, approved : Hashes \cup {<<>>},
   assignee : Operators \cup {NoOne}, assignmentVersion : Nat, effective : Deadlines]

ApprovalRecords ==
  [task : Tasks, hash : Hashes, decision : {"approved", "rejected"},
   by : Operators, role : OperatorRole]

FeedbackRecords   == [report : Reports, by : Operators]
EscalationRecords == [previous : TaskStatus, target : {"duty_officer", "reviewer"}]
AssignmentRecords == [version : Nat, assignee : Operators]
ExtensionRecords  ==
  [status : {"requested", "approved", "rejected"}, task : Tasks, by : Operators,
   proposal : Deadlines]

Writes ==
  [kind : {"task"}, task : Tasks, rec : TaskRecords]
  \cup [kind : {"decision"}, task : Tasks, rec : TaskRecords, approval : ApprovalRecords]
  \cup [kind : {"snapshot"}, task : Tasks, version : Nat]
  \cup [kind : {"feedback"}, task : Tasks, entry : FeedbackRecords]
  \cup [kind : {"escalation"}, task : Tasks, entry : EscalationRecords]
  \cup [kind : {"assignment"}, task : Tasks, entry : AssignmentRecords]
  \cup [kind : {"extension"}, extension : Extensions, rec : ExtensionRecords]
  \cup [kind : {"signature"}, task : Tasks, action : {"submitted", "verified"}, by : Operators]
  \cup [kind : {"close"}]

\* Type invariant of the tables and of the transactions handlers still have
\* to run; a task row is a complete record or does not exist.
TypeOK ==
  /\ event \in {"active", "closed"}
  /\ task \in [Tasks -> TaskRecords \cup {Blank}]
  /\ approvals \subseteq ApprovalRecords
  /\ outbox \subseteq approvals
  /\ snapshots \in [Tasks -> SUBSET Nat]
  /\ feedback \in [Tasks -> Seq(FeedbackRecords)]
  /\ escalations \in [Tasks -> SUBSET EscalationRecords]
  /\ assignments \in [Tasks -> SUBSET AssignmentRecords]
  /\ extension \in [Extensions -> ExtensionRecords \cup {[status |-> "absent"]}]
  /\ signed \in [Tasks -> [submitted : Operators \cup {NoOne}, verified : Operators \cup {NoOne}]]
  /\ clock \in Nat
  /\ todo \in [Processes -> Seq(Writes)]

-----------------------------------------------------------------------------
(***************************************************************************)
(* Approval.                                                               *)
(***************************************************************************)
\* a is an approval that entitles record rec of task t to be executed: it was
\* given for exactly the version and content in rec, by a person the approval
\* policy in rec allows to decide.
Entitles(a, t, rec) ==
  /\ a.task = t /\ a.decision = "approved"
  /\ a.hash = PayloadHash(rec) /\ a.hash = rec.approved
  /\ a.role \in APPROVAL_ROLES
  /\ rec.policy = "commander_required" => a.role = "commander" /\ a.by # rec.draftedBy

\* "The payload hash of a formal task must be that of the approved version":
\* whatever handlers raced, a task whose status says it was issued carries the
\* version and content somebody entitled approved, and decide_task queued that
\* very payload for dispatch.
ApprovalIntegrity ==
  \A t \in Tasks : task[t].status \in ApprovedStatuses =>
    \E a \in outbox : Entitles(a, t, task[t])

\* "A task version is dispatched only once": two dispatch messages never carry
\* the same version and content of a task, although two reviewers may have
\* read the same pending task and both approved it (decide_task).
DispatchedOncePerVersion ==
  \A a, b \in outbox : a.task = b.task /\ a.hash = b.hash => a = b

\* Every dispatch message carries content that passed the rule evaluation and
\* was decided by a reviewer or commander, even when the draft it came from
\* was edited by another handler between submission and approval.
DispatchIsSound ==
  \A a \in outbox : /\ a.decision = "approved" /\ a.role \in APPROVAL_ROLES
                    /\ a.hash[2] \in Sound

\* A task is dispatched at most once in its life, and from then on the task
\* stays at the dispatched version and content (decide_task, update_task).
DispatchedTaskIsFrozen ==
  \A a \in outbox :
    /\ \A b \in outbox : a.task = b.task => a = b
    /\ a.hash = PayloadHash(task[a.task])
    /\ task[a.task].status \notin {"draft", "pending_approval"}

-----------------------------------------------------------------------------
(***************************************************************************)
(* State machine.                                                          *)
(***************************************************************************)
\* Every change of a stored status is a transition of the guarded state
\* machine ("illegal transitions must be rejected"), whichever handlers wrote.
GuardedTransitions ==
  [][\A t \in Tasks : Stored(t) /\ task'[t].status # task[t].status =>
       can_transition(task[t].status, task'[t].status)]_task

\* A closed event has only terminal tasks, and at least one (close_event
\* against every handler that creates or moves a task).
ClosedEventIsFinished ==
  event = "closed" =>
    /\ \E t \in Tasks : Stored(t)
    /\ \A t \in Tasks : Stored(t) => task[t].status \in TERMINAL_TASK_STATUSES

\* What was dispatched is not changed any more, and what was closed is finished
\* (decide_task, update_task, close_event).
SettledIsFinal == DispatchedTaskIsFrozen /\ ClosedEventIsFinished

\* Only an approved task is ever completed by execution, and the people who
\* signed the last completion and its verification are two different people,
\* neither of them missing from the timeline (submit_feedback, verify_completion).
Quiet == \A p \in Processes : todo[p] = <<>>

VerifiedIndependently ==
  \A t \in Tasks : Quiet /\ task[t].status = "completed" =>
    /\ signed[t].submitted # NoOne /\ signed[t].verified # NoOne
    /\ signed[t].submitted # signed[t].verified
    /\ task[t].assignee # signed[t].verified

-----------------------------------------------------------------------------
(***************************************************************************)
(* Histories kept beside the task.                                         *)
(***************************************************************************)
\* Between handlers the version history of a task is complete and has no
\* version the task has not reached (create, update, reject).
VersionHistoryComplete ==
  Quiet => \A t \in Tasks : snapshots[t] = 1..task[t].version

\* Between handlers the assignment history explains the assignee: its
\* versions are exactly those the task counted, and the operator on the task
\* is the last one assigned or a reviewer or commander who took it over.
AssignmentHistoryExplains ==
  Quiet => \A t \in Tasks :
    /\ {a.version : a \in assignments[t]} = 1..task[t].assignmentVersion
    /\ task[t].assignee = NoOne
       \/ [version |-> task[t].assignmentVersion, assignee |-> task[t].assignee] \in assignments[t]
       \/ \E q \in Identities : q.id = task[t].assignee /\ q.role \in APPROVAL_ROLES

\* Both histories kept beside a task tell how its row came to be (assign_task,
\* take_over_task, update_task, decide_task).
HistoriesExplain == VersionHistoryComplete /\ AssignmentHistoryExplains

-----------------------------------------------------------------------------
\* A task past its deadline in an open event does not stay that way: the
\* worker's sweep escalates it unless somebody moves it first.
OverdueIsHandled ==
  \A t \in Tasks : (event = "active" /\ Overdue(task[t])) ~> ~(event = "active" /\ Overdue(task[t]))

-----------------------------------------------------------------------------
(***************************************************************************)
(* The inductive strengthening of the approval properties: what holds of   *)
(* the rows holds of every transaction a handler has decided on and not    *)
(* yet run.                                                                *)
(***************************************************************************)
Pending == UNION {{todo[p][i] : i \in DOMAIN todo[p]} : p \in Processes}

Backed(t, rec) == rec.status \in ApprovedStatuses => \E a \in outbox : Entitles(a, t, rec)

WriteOK(w) ==
  /\ w.kind = "task" => Backed(w.task, w.rec)
  /\ w.kind = "decision" =>
       IF w.approval.decision = "approved"
       THEN Entitles(w.approval, w.task, w.rec) /\ w.approval.hash[2] \in Sound
       ELSE w.rec.status = "draft"
  /\ w.kind = "extension" => Stored(w.rec.task)

\* Needed because decide_deadline_extension rewrites the row of the task the
\* request names.
ExtensionsOfStoredTasks ==
  \A x \in Extensions : extension[x].status # "absent" => Stored(extension[x].task)

Inductive ==
  /\ TypeOK
  /\ ExtensionsOfStoredTasks
  /\ \A w \in Pending : WriteOK(w)
  /\ ApprovalIntegrity
  /\ DispatchedOncePerVersion
  /\ DispatchIsSound
-----------------------------------------------------------------------------
(***************************************************************************)
(* The strengthening where one handler runs at a time: what is promised of *)
(* the rows holds of them as they will be when the handler under way ends. *)
(***************************************************************************)
OneAtATime == Threads = {Worker}

Of(kind, t) == {w \in Pending : w.kind = kind /\ w.task = t}
RowWrites(t) == Of("task", t) \cup Of("decision", t)

\* The row of t once the transactions under way have run.
Targets(t) ==
  IF RowWrites(t) = {} THEN {task[t]} ELSE {w.rec : w \in RowWrites(t)}

\* A report or a decision comes first; what follows from a new row comes last.
InPlace ==
  \A p \in Processes : \A i \in DOMAIN todo[p] :
    /\ todo[p][i].kind \in {"feedback", "decision"} => i = 1
    /\ todo[p][i].kind \in {"snapshot", "assignment", "signature", "close"} => i = Len(todo[p])

\* A row is moved along the state machine, always to the same record.
MovesGuarded ==
  \A t \in Tasks : \A w \in RowWrites(t) :
    /\ IF Stored(t) THEN \/ w.rec.status = task[t].status
                         \/ can_transition(task[t].status, w.rec.status)
       ELSE event = "active" /\ w.rec.status = "draft"
    /\ \A v \in RowWrites(t) : v.rec = w.rec

\* What was dispatched is neither decided again nor moved back or changed.
FrozenRows ==
  /\ \A a \in outbox :
       /\ Stored(a.task)
       /\ \A w \in RowWrites(a.task) :
            /\ w.kind = "task" /\ a.hash = PayloadHash(w.rec)
            /\ w.rec.status \notin {"draft", "pending_approval"}
  /\ \A t \in Tasks : \A w \in Of("decision", t) :
       w.approval.decision = "approved" => w.rec.status = "issued"

Finished ==
  /\ \E t \in Tasks : Stored(t)
  /\ \A t \in Tasks : Stored(t) => task[t].status \in TERMINAL_TASK_STATUSES
Closing == (\E w \in Pending : w.kind = "close") => Finished /\ \A t \in Tasks : RowWrites(t) = {}

SerialInductive ==
  /\ Inductive
  /\ InPlace
  /\ MovesGuarded
  /\ FrozenRows
  /\ Closing
  /\ SettledIsFinal

\* No transaction fails for a reason of its own.
NothingFails == "crash" \notin Handlers

\* The histories of t explain row rec, or will once they are complete.
VersionsExplain(t, rec) ==
  /\ Of("snapshot", t) = {} => snapshots[t] = 1..rec.version
  /\ \A w \in Of("snapshot", t) :
       w.version = rec.version /\ rec.version # 0 /\ snapshots[t] = 1..(rec.version - 1)

VersionsAssigned(t) == {a.version : a \in assignments[t]}

InCharge(o) == \E q \in Identities : q.id = o /\ q.role \in APPROVAL_ROLES

AssignmentsExplain(t, rec) ==
  /\ Of("assignment", t) = {} =>
       /\ VersionsAssigned(t) = 1..rec.assignmentVersion
       /\ \/ rec.assignee = NoOne \/ InCharge(rec.assignee)
          \/ [version |-> rec.assignmentVersion, assignee |-> rec.assignee] \in assignments[t]
  /\ \A w \in Of("assignment", t) :
       /\ w.entry = [version |-> rec.assignmentVersion, assignee |-> rec.assignee]
       /\ rec.assignmentVersion # 0
       /\ VersionsAssigned(t) = 1..(rec.assignmentVersion - 1)

\* o signs the last action on t, o reported its completion last.
Signs(t, action, o) ==
  LET coming == {w \in Of("signature", t) : w.action = action}
  IN  IF coming = {} THEN signed[t][action] = o ELSE \A w \in coming : w.by = o

Completions(t) == {i \in DOMAIN feedback[t] : CategoryOf[feedback[t][i].report] = "completion"}
ReportedLast(t, o) ==
  IF Of("feedback", t) = {}
  THEN \E i \in Completions(t) : feedback[t][i].by = o /\ \A j \in Completions(t) : j <= i
  ELSE \A w \in Of("feedback", t) :
         CategoryOf[w.entry.report] = "completion" /\ w.entry.by = o

SignaturesExplain(t, rec) ==
  /\ rec.status = "pending_verification" =>
       \E o \in Operators : Signs(t, "submitted", o) /\ ReportedLast(t, o)
  /\ rec.status = "completed" =>
       \E o, v \in Operators : /\ Signs(t, "submitted", o) /\ Signs(t, "verified", v)
                               /\ o # v /\ rec.assignee # v

Told(t) ==
  \A rec \in Targets(t) :
    VersionsExplain(t, rec) /\ AssignmentsExplain(t, rec) /\ SignaturesExplain(t, rec)

Explained == SerialInductive /\ \A t \in Tasks : Told(t)
=============================================================================
