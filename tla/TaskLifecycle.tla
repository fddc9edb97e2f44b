--------------------------- MODULE TaskLifecycle ---------------------------
(***************************************************************************)
(* The life of the tasks of one response event: drafting, approval,        *)
(* execution, feedback, verification, deadlines and the closing of the     *)
(* event (flood_system/response_workflow/service.py).                      *)
(*                                                                         *)
(* Every handler reads the database, computes, and then stores its results *)
(* with a sequence of repository calls, each of them a transaction of its  *)
(* own; request threads and the worker share the database, so handlers     *)
(* interleave between those transactions.  A handler is therefore an       *)
(* action of process p that performs the reads and the guards and leaves   *)
(* in todo[p] the transactions the handler still has to run; the Store     *)
(* actions run them one by one.  save_response_task overwrites the whole   *)
(* row with the record computed from what was read.  With one client       *)
(* thread and no worker the handlers are atomic up to their own failures.  *)
(***************************************************************************)
EXTENDS TaskStateMachine, Integers, Sequences, FiniteSets

CONSTANTS
  Tasks,        \* task identifiers
  Threads,      \* request threads of the API process
  Worker,       \* the background worker's process
  Identities,   \* records [id, role]: the authenticated operators
  Contents,     \* what a task orders: all the payload hash covers but its version
  Sound,        \* the contents that pass the rule evaluation
  Due,          \* Due[c] = [ack, start, complete, verify]: the deadlines in content c
  Reports,      \* field reports, one per feedback dedupe key
  CategoryOf,   \* how classify_feedback classifies a report
  Covers,       \* <<r, c>>: report r holds every evidence type content c requires
  Extensions,   \* identifiers of deadline extension requests
  Proposals,    \* [start, complete, verify] an extension may propose
  Handlers,     \* the handlers clients call in this instance
  NoOne,        \* no operator
  MaxVersion, MaxAssignments, MaxFeedback, MaxClock   \* bounds of the instance

Processes == Threads \cup {Worker}
Operators == {q.id : q \in Identities}
None == 0       \* an absent deadline; deadlines and the clock are positive

Categories == {"blocked", "completion", "partial_completion", "situation_update"}

ASSUME TasksAssumption == IsFiniteSet(Tasks)
ASSUME IdentitiesAssumption ==
  /\ \A q \in Identities : q.role \in OperatorRole /\ q = [id |-> q.id, role |-> q.role]
  /\ NoOne \notin Operators
ASSUME ContentsAssumption ==
  /\ Sound \subseteq Contents
  /\ Due \in [Contents -> [ack : Nat, start : Nat, complete : Nat, verify : Nat]]
ASSUME ReportsAssumption ==
  /\ CategoryOf \in [Reports -> Categories]
  /\ Covers \subseteq Reports \X Contents
ASSUME ProposalsAssumption ==
  Proposals \subseteq [start : Nat, complete : Nat, verify : Nat]
ASSUME BoundsAssumption ==
  /\ MaxVersion \in Nat
  /\ MaxAssignments \in Nat
  /\ MaxFeedback \in Nat
  /\ MaxClock \in Nat

VARIABLES
  event,        \* status of the event
  task,         \* response_tasks: the row of each task
  approvals,    \* response_approvals
  outbox,       \* response_outbox: the approval each message carries
  snapshots,    \* response_task_versions: versions stored per task
  feedback,     \* response_feedback per task, in the order it was stored
  escalations,  \* response_escalations per task
  assignments,  \* response_task_assignments per task
  extension,    \* response_deadline_extensions
  signed,       \* actors of the last completion_submitted / completion_verified entries
  clock,
  todo          \* transactions each process still has to run

db   == <<event, task, approvals, outbox, snapshots, feedback, escalations,
          assignments, extension, signed>>
vars == <<db, clock, todo>>

(***************************************************************************)
(* Records.                                                                *)
(***************************************************************************)
\* Blank stands for a row that does not exist yet.
Blank == [status |-> "absent", version |-> 0, content |-> NoOne,
          policy |-> "reviewer_required", draftedBy |-> NoOne, approved |-> <<>>,
          assignee |-> NoOne, assignmentVersion |-> 0,
          effective |-> [start |-> None, complete |-> None, verify |-> None]]

Stored(t) == task[t].status # "absent"

\* _event(event_id, active=True): "closed events are read-only".
\* Seeded fault: the check is forgotten.
AnyEvent == TRUE
ActiveEvent  == event # "closed"

\* _task_payload_hash: equal for two records of a task exactly when version
\* and content are; status, policy and assignee are not part of it.
\* Seeded fault: the hash leaves the content out.
VersionHash(rec) == <<rec.version>>
PayloadHash(rec) == <<rec.version, rec.content>>

\* _evaluate_task_rules without HARD_BLOCK.
\* Seeded fault: the findings are recorded and not enforced.
RulesRecorded(rec) == TRUE
RulesPass(rec) == rec.content \in Sound

TaskWrite(t, rec)        == [kind |-> "task", task |-> t, rec |-> rec]
DecisionWrite(t, rec, a) == [kind |-> "decision", task |-> t, rec |-> rec, approval |-> a]
SnapshotWrite(t, v)      == [kind |-> "snapshot", task |-> t, version |-> v]
FeedbackWrite(t, r, o)   == [kind |-> "feedback", task |-> t, entry |-> [report |-> r, by |-> o]]
EscalationWrite(t, from, to) ==
  [kind |-> "escalation", task |-> t, entry |-> [previous |-> from, target |-> to]]
\* Seeded fault: recorded under the version before the assignment.
StaleAssignmentWrite(t, v, o) ==
  [kind |-> "assignment", task |-> t, entry |-> [version |-> v - 1, assignee |-> o]]
AssignmentWrite(t, v, o) == [kind |-> "assignment", task |-> t, entry |-> [version |-> v, assignee |-> o]]
ExtensionWrite(x, rec)   == [kind |-> "extension", extension |-> x, rec |-> rec]
SignatureWrite(t, action, o) == [kind |-> "signature", task |-> t, action |-> action, by |-> o]
CloseWrite               == [kind |-> "close"]

(***************************************************************************)
(* Steps shared by the handlers.                                           *)
(***************************************************************************)
Called(p, handler) == handler \in Handlers /\ todo[p] = <<>>

\* The handler has read all it reads; what it will store is writes.
Reply(p, writes) ==
  /\ todo' = [todo EXCEPT ![p] = writes]
  /\ UNCHANGED <<db, clock>>

\* Seeded fault: a caller of ensure_transition forgets it.
UncheckedTransition(p, t, rec, to) ==
  Reply(p, <<TaskWrite(t, [rec EXCEPT !.status = to])>>)
Transition(p, t, rec, to) ==
  /\ can_transition(rec.status, to)
  /\ Reply(p, <<TaskWrite(t, [rec EXCEPT !.status = to])>>)

Unclaimed(t) ==
  ~Stored(t) /\ \A p \in Processes : \A i \in DOMAIN todo[p] :
     todo[p][i].kind = "task" => todo[p][i].task # t

(***************************************************************************)
(* Drafting and approval.                                                  *)
(***************************************************************************)
create_task(p) ==
  \E q \in Identities, t \in Tasks, c \in Contents, policy \in ApprovalPolicy :
    /\ Called(p, "create_task")
    /\ q.role \in EDIT_ROLES
    /\ ActiveEvent
    /\ Unclaimed(t)
    /\ LET rec == [Blank EXCEPT !.status = "draft", !.version = 1, !.content = c,
                                !.policy = policy, !.draftedBy = q.id]
       IN  Reply(p, <<TaskWrite(t, rec), SnapshotWrite(t, 1)>>)

\* Seeded fault: a task awaiting acknowledgement is still editable.
EditableUntilAcknowledged(rec) == rec.status \in {"draft", "pending_approval", "issued"}
Editable(rec) == rec.status = "draft"

update_task(p) ==
  \E q \in Identities, t \in Tasks, c \in Contents, policy \in ApprovalPolicy :
    /\ Called(p, "update_task")
    /\ q.role \in EDIT_ROLES
    /\ ActiveEvent
    /\ Editable(task[t])
    /\ task[t].version < MaxVersion
    /\ LET rec == [task[t] EXCEPT !.version = @ + 1, !.content = c, !.policy = policy]
       IN  Reply(p, <<TaskWrite(t, rec), SnapshotWrite(t, rec.version)>>)

submit_task(p) ==
  \E q \in Identities, t \in Tasks :
    /\ Called(p, "submit_task")
    /\ q.role \in EDIT_ROLES
    /\ ActiveEvent
    /\ task[t].status = "draft"
    /\ RulesPass(task[t])
    /\ Transition(p, t, task[t], "pending_approval")

Approval(q, t, rec, decision) ==
  [task |-> t, hash |-> PayloadHash(rec), decision |-> decision,
   by |-> q.id, role |-> q.role]

\* Who may decide: a high-risk task needs a commander who did not draft it.
\* Seeded fault: the drafter of a high-risk task may approve it.
AnyCommanderMayDecide(q, rec) ==
  /\ q.role \in APPROVAL_ROLES
  /\ rec.policy = "commander_required" => q.role = "commander"
MayDecide(q, rec) ==
  /\ q.role \in APPROVAL_ROLES
  /\ rec.policy = "commander_required" => q.role = "commander" /\ q.id # rec.draftedBy

approve_task(p) ==
  \E q \in Identities, t \in Tasks :
    /\ Called(p, "decide_task")
    /\ MayDecide(q, task[t])
    /\ ActiveEvent
    /\ task[t].status = "pending_approval"
    /\ RulesPass(task[t])
    /\ LET rec == [task[t] EXCEPT !.status = "issued", !.approved = PayloadHash(task[t])]
       IN  Reply(p, <<DecisionWrite(t, rec, Approval(q, t, task[t], "approved"))>>)

reject_task(p) ==
  \E q \in Identities, t \in Tasks :
    /\ Called(p, "decide_task")
    /\ MayDecide(q, task[t])
    /\ ActiveEvent
    /\ task[t].status = "pending_approval"
    /\ task[t].version < MaxVersion
    /\ LET rec == [task[t] EXCEPT !.status = "draft", !.version = @ + 1]
       IN  Reply(p, <<DecisionWrite(t, rec, Approval(q, t, task[t], "rejected")),
                      SnapshotWrite(t, rec.version)>>)

(***************************************************************************)
(* Execution.                                                              *)
(***************************************************************************)
acknowledge_task(p) ==
  \E q \in Identities, t \in Tasks :
    /\ Called(p, "acknowledge_task")
    /\ q.role \in EXECUTION_ROLES
    /\ ActiveEvent
    /\ task[t].approved # <<>> => task[t].approved = PayloadHash(task[t])
    /\ task[t].status \in {"issued", "escalated", "blocked"}
    /\ Transition(p, t, task[t], "acknowledged")

start_task(p) ==
  \E q \in Identities, t \in Tasks :
    /\ Called(p, "start_task")
    /\ q.role = "field_operator" /\ q.id = task[t].assignee
    /\ ActiveEvent
    /\ task[t].status \in {"acknowledged", "escalated", "blocked"}
    /\ Transition(p, t, task[t], "in_progress")

\* Statuses in which a task can be assigned and takes feedback.
ExecutionStatuses == TakeOverStatuses \cup {"taken_over"}

assign_task(p) ==
  \E q, assignee \in Identities, t \in Tasks :
    /\ Called(p, "assign_task")
    /\ q.role \in {"liaison", "reviewer", "commander"}
    /\ assignee.role = "field_operator"
    /\ ActiveEvent
    /\ task[t].status \in ExecutionStatuses
    /\ task[t].assignee # assignee.id
    /\ task[t].assignmentVersion < MaxAssignments
    /\ LET rec == [task[t] EXCEPT !.assignee = assignee.id, !.assignmentVersion = @ + 1]
       IN  Reply(p, <<TaskWrite(t, rec),
                      AssignmentWrite(t, rec.assignmentVersion, assignee.id)>>)

(***************************************************************************)
(* submit_feedback stores the feedback before it checks the transition:    *)
(* when that is illegal the feedback stays and nothing else happens.       *)
(***************************************************************************)
FeedbackTarget(rec, category) ==
  CASE category = "blocked"            -> "blocked"
    [] category = "completion"         -> "pending_verification"
    [] category = "partial_completion" -> "partially_completed"
    [] category = "situation_update"   -> rec.status

FeedbackWrites(t, rec, r, o) ==
  LET category  == CategoryOf[r]
      target    == FeedbackTarget(rec, category)
      refused   == category # "situation_update" /\ ~can_transition(rec.status, target)
      alarm     == IF category = "blocked"
                   THEN <<EscalationWrite(t, rec.status, "duty_officer")>> ELSE <<>>
      update    == <<TaskWrite(t, [rec EXCEPT !.status = target])>>
      signature == IF category = "completion"
                   THEN <<SignatureWrite(t, "submitted", o)>> ELSE <<>>
  IN  <<FeedbackWrite(t, r, o)>> \o (IF refused THEN <<>> ELSE alarm \o update \o signature)

submit_feedback(p) ==
  \E q \in Identities, t \in Tasks, r \in Reports :
    /\ Called(p, "submit_feedback")
    /\ q.role \in EXECUTION_ROLES
    /\ task[t].assignee # NoOne /\ q.role = "field_operator" => q.id = task[t].assignee
    /\ ActiveEvent
    /\ \A i \in DOMAIN feedback[t] : feedback[t][i].report # r   \* else merged as duplicate
    /\ task[t].status \in ExecutionStatuses
    /\ CategoryOf[r] = "completion" => <<r, task[t].content>> \in Covers
    /\ Len(feedback[t]) < MaxFeedback
    /\ Reply(p, FeedbackWrites(t, task[t], r, q.id))

\* The executor and whoever submitted the latest completion may not verify.
\* Seeded fault: only the executor is kept from verifying.
SubmitterMayVerify(q, t) == q.role \in EDIT_ROLES /\ task[t].assignee # q.id
MayVerify(q, t) ==
  LET completions == {i \in DOMAIN feedback[t] : CategoryOf[feedback[t][i].report] = "completion"}
  IN  /\ q.role \in EDIT_ROLES
      /\ \A i \in completions :
           (\A j \in completions : j <= i) => feedback[t][i].by # q.id
      /\ task[t].assignee # q.id

verify_completion(p) ==
  \E q \in Identities, t \in Tasks, target \in {"completed", "in_progress"} :
    /\ Called(p, "verify_completion")
    /\ task[t].status = "pending_verification"
    /\ MayVerify(q, t)
    /\ LET update == <<TaskWrite(t, [task[t] EXCEPT !.status = target])>>
       IN  Reply(p, IF target = "completed"
                    THEN update \o <<SignatureWrite(t, "verified", q.id)>>
                    ELSE update)

(***************************************************************************)
(* Commander and reviewer interventions; none of them looks at the event.  *)
(***************************************************************************)
cancel_task(p) ==
  \E q \in Identities, t \in Tasks :
    /\ Called(p, "cancel_task")
    /\ q.role = "commander"
    /\ Stored(t)
    /\ Transition(p, t, task[t], "cancelled")

waive_task(p) ==
  \E q \in Identities, t \in Tasks :
    /\ Called(p, "waive_task")
    /\ q.role = "commander"
    /\ Stored(t)
    /\ Transition(p, t, task[t], "waived")

take_over_task(p) ==
  \E q \in Identities, t \in Tasks :
    /\ Called(p, "take_over_task")
    /\ q.role \in {"reviewer", "commander"}
    /\ task[t].status \in TakeOverStatuses
    /\ Transition(p, t, [task[t] EXCEPT !.assignee = q.id], "taken_over")

(***************************************************************************)
(* Deadlines.                                                              *)
(***************************************************************************)
StartDeadline(rec) ==
  IF rec.effective.start # None THEN rec.effective.start ELSE Due[rec.content].start
CompletionDeadline(rec) ==
  IF rec.effective.complete # None THEN rec.effective.complete ELSE Due[rec.content].complete
VerificationDeadline(rec) ==
  IF rec.effective.verify # None THEN rec.effective.verify ELSE Due[rec.content].verify

request_deadline_extension(p) ==
  \E q \in Identities, t \in Tasks, x \in Extensions, proposal \in Proposals :
    /\ Called(p, "request_deadline_extension")
    /\ q.role \in EXECUTION_ROLES
    /\ task[t].status \in TakeOverStatuses
    /\ proposal.complete > CompletionDeadline(task[t])
    /\ extension[x].status = "absent"
    /\ \A s \in Processes : \A i \in DOMAIN todo[s] :
         todo[s][i].kind = "extension" => todo[s][i].extension # x
    /\ Reply(p, <<ExtensionWrite(x, [status |-> "requested", task |-> t, by |-> q.id,
                                     proposal |-> proposal])>>)

\* The deadlines in force once an extension is granted.
Extended(rec, proposal) ==
  [rec EXCEPT !.effective =
     [start    |-> IF proposal.start # None THEN proposal.start ELSE StartDeadline(rec),
      complete |-> proposal.complete,
      verify   |-> IF proposal.verify # None THEN proposal.verify
                                             ELSE VerificationDeadline(rec)]]

decide_deadline_extension(p) ==
  \E q \in Identities, x \in Extensions, approved \in BOOLEAN :
    LET ext == extension[x]
        decided == [ext EXCEPT !.status = IF approved THEN "approved" ELSE "rejected"]
        record  == <<ExtensionWrite(x, decided)>>
    IN  /\ Called(p, "decide_deadline_extension")
        /\ q.role \in {"reviewer", "commander"}
        /\ ext.status = "requested"
        /\ ext.by # q.id
        /\ Reply(p, IF approved
                    THEN record \o <<TaskWrite(ext.task, Extended(task[ext.task], ext.proposal))>>
                    ELSE record)

Passed(deadline) == deadline # None /\ deadline < clock

Overdue(rec) ==
  \/ rec.status = "issued" /\ Passed(Due[rec.content].ack)
  \/ rec.status = "acknowledged" /\ Passed(StartDeadline(rec))
  \/ /\ rec.status \in {"in_progress", "partially_completed", "blocked"}
     /\ Passed(CompletionDeadline(rec))
  \/ rec.status = "pending_verification" /\ Passed(VerificationDeadline(rec))

\* The sweep escalates the tasks one after the other, all from the same read.
\* Seeded fault: the escalation is recorded, the task keeps its status.
RecordOnly(order) ==
  [i \in DOMAIN order |-> EscalationWrite(order[i], task[order[i]].status, "reviewer")]
SweepWrites(order) ==
  [i \in 1..(2 * Len(order)) |->
     LET t == order[(i + 1) \div 2]
     IN  IF i % 2 = 1 THEN TaskWrite(t, [task[t] EXCEPT !.status = "escalated"])
                      ELSE EscalationWrite(t, task[t].status, "reviewer")]

run_deadline_sweep(p) ==
  /\ Called(p, IF p = Worker THEN "worker_sweep" ELSE "run_deadline_sweep")
  /\ ActiveEvent
  /\ LET late == {t \in Tasks : Overdue(task[t])}
     IN  /\ late # {}
         /\ \E order \in [1..Cardinality(late) -> late] :
              /\ \A t \in late : \E i \in DOMAIN order : order[i] = t
              /\ Reply(p, SweepWrites(order))

close_event(p) ==
  \E q \in Identities :
    /\ Called(p, "close_event")
    /\ q.role \in {"reviewer", "commander"}
    /\ ActiveEvent
    /\ \E t \in Tasks : Stored(t)
    /\ \A t \in Tasks : Stored(t) => task[t].status \in TERMINAL_TASK_STATUSES
    /\ Reply(p, <<CloseWrite>>)

(***************************************************************************)
(* The transactions.                                                       *)
(***************************************************************************)
Next_write(p, kind) == todo[p] # <<>> /\ Head(todo[p]).kind = kind

Stored_write(p) == todo' = [todo EXCEPT ![p] = Tail(@)] /\ UNCHANGED clock

\* An exception: the rest of the handler does not run.
Abandoned(p) == todo' = [todo EXCEPT ![p] = <<>>] /\ UNCHANGED <<db, clock>>

\* save_response_task: an unconditional upsert of the whole record.
store_task(p) ==
  /\ Next_write(p, "task")
  /\ LET w == Head(todo[p]) IN task' = [task EXCEPT ![w.task] = w.rec]
  /\ Stored_write(p)
  /\ UNCHANGED <<event, approvals, outbox, snapshots, feedback, escalations,
                 assignments, extension, signed>>

\* The outbox has one row per idempotency key, which is task and payload hash.
KeyTaken(a) == \E m \in outbox : m.task = a.task /\ m.hash = a.hash

\* commit_task_decision: approval, outbox message and task in one transaction.
store_decision(p) ==
  LET w == Head(todo[p])
      a == w.approval
  IN  /\ Next_write(p, "decision")
      /\ a.decision = "approved" => ~KeyTaken(a)
      /\ approvals' = approvals \cup {a}
      /\ outbox' = IF a.decision = "approved" THEN outbox \cup {a} ELSE outbox
      /\ task' = [task EXCEPT ![w.task] = w.rec]
      /\ Stored_write(p)
      /\ UNCHANGED <<event, snapshots, feedback, escalations, assignments, extension, signed>>

decision_conflict(p) ==
  /\ Next_write(p, "decision")
  /\ Head(todo[p]).approval.decision = "approved" /\ KeyTaken(Head(todo[p]).approval)
  /\ Abandoned(p)

store_snapshot(p) ==
  /\ Next_write(p, "snapshot")
  /\ LET w == Head(todo[p])
     IN  /\ w.version \notin snapshots[w.task]
         /\ snapshots' = [snapshots EXCEPT ![w.task] = @ \cup {w.version}]
  /\ Stored_write(p)
  /\ UNCHANGED <<event, task, approvals, outbox, feedback, escalations,
                 assignments, extension, signed>>

snapshot_conflict(p) ==
  /\ Next_write(p, "snapshot")
  /\ Head(todo[p]).version \in snapshots[Head(todo[p]).task]
  /\ Abandoned(p)

store_feedback(p) ==
  /\ Next_write(p, "feedback")
  /\ LET w == Head(todo[p])
     IN  feedback' = [feedback EXCEPT ![w.task] = Append(@, w.entry)]
  /\ Stored_write(p)
  /\ UNCHANGED <<event, task, approvals, outbox, snapshots, escalations,
                 assignments, extension, signed>>

store_escalation(p) ==
  /\ Next_write(p, "escalation")
  /\ LET w == Head(todo[p])
     IN  escalations' = [escalations EXCEPT ![w.task] = @ \cup {w.entry}]
  /\ Stored_write(p)
  /\ UNCHANGED <<event, task, approvals, outbox, snapshots, feedback,
                 assignments, extension, signed>>

\* UNIQUE(task_id, assignment_version).
VersionAssigned(w) == \E a \in assignments[w.task] : a.version = w.entry.version

store_assignment(p) ==
  /\ Next_write(p, "assignment")
  /\ LET w == Head(todo[p])
     IN  /\ ~VersionAssigned(w)
         /\ assignments' = [assignments EXCEPT ![w.task] = @ \cup {w.entry}]
  /\ Stored_write(p)
  /\ UNCHANGED <<event, task, approvals, outbox, snapshots, feedback, escalations,
                 extension, signed>>

assignment_conflict(p) ==
  /\ Next_write(p, "assignment")
  /\ VersionAssigned(Head(todo[p]))
  /\ Abandoned(p)

store_extension(p) ==
  /\ Next_write(p, "extension")
  /\ LET w == Head(todo[p]) IN extension' = [extension EXCEPT ![w.extension] = w.rec]
  /\ Stored_write(p)
  /\ UNCHANGED <<event, task, approvals, outbox, snapshots, feedback, escalations,
                 assignments, signed>>

store_signature(p) ==
  /\ Next_write(p, "signature")
  /\ LET w == Head(todo[p]) IN signed' = [signed EXCEPT ![w.task][w.action] = w.by]
  /\ Stored_write(p)
  /\ UNCHANGED <<event, task, approvals, outbox, snapshots, feedback, escalations,
                 assignments, extension>>

store_close(p) ==
  /\ Next_write(p, "close")
  /\ event' = "closed"
  /\ Stored_write(p)
  /\ UNCHANGED <<task, approvals, outbox, snapshots, feedback, escalations,
                 assignments, extension, signed>>

Store(p) ==
  \/ store_task(p) \/ store_decision(p) \/ decision_conflict(p)
  \/ store_snapshot(p) \/ snapshot_conflict(p)
  \/ store_feedback(p) \/ store_escalation(p)
  \/ store_assignment(p) \/ assignment_conflict(p)
  \/ store_extension(p) \/ store_signature(p) \/ store_close(p)

\* A repository call fails (database locked, process killed) between two
\* transactions of a handler.
crash(p) ==
  /\ "crash" \in Handlers
  /\ todo[p] # <<>>
  /\ Abandoned(p)

tick ==
  /\ clock < MaxClock
  /\ clock' = clock + 1
  /\ UNCHANGED <<db, todo>>

(***************************************************************************)
(* The specification.                                                      *)
(***************************************************************************)
Init ==
  /\ event = "active"
  /\ task = [t \in Tasks |-> Blank]
  /\ approvals = {}
  /\ outbox = {}
  /\ snapshots = [t \in Tasks |-> {}]
  /\ feedback = [t \in Tasks |-> <<>>]
  /\ escalations = [t \in Tasks |-> {}]
  /\ assignments = [t \in Tasks |-> {}]
  /\ extension = [x \in Extensions |-> [status |-> "absent"]]
  /\ signed = [t \in Tasks |-> [submitted |-> NoOne, verified |-> NoOne]]
  /\ clock = 1
  /\ todo = [p \in Processes |-> <<>>]

Draft(p) ==
  \/ create_task(p) \/ update_task(p) \/ submit_task(p)
  \/ approve_task(p) \/ reject_task(p)

Execute(p) ==
  \/ acknowledge_task(p) \/ start_task(p) \/ assign_task(p)
  \/ submit_feedback(p) \/ verify_completion(p)

Intervene(p) ==
  \/ cancel_task(p) \/ waive_task(p) \/ take_over_task(p)
  \/ request_deadline_extension(p) \/ decide_deadline_extension(p)
  \/ close_event(p)

Next ==
  \/ \E p \in Threads : Draft(p) \/ Execute(p) \/ Intervene(p)
  \/ \E p \in Processes : run_deadline_sweep(p) \/ Store(p) \/ crash(p)
  \/ tick

Spec == Init /\ [][Next]_vars

\* The worker repeats its cycle for ever; clients owe nothing.
FairSpec == Spec /\ WF_vars(run_deadline_sweep(Worker)) /\ WF_vars(Store(Worker))
=============================================================================
