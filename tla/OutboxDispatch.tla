--------------------------- MODULE OutboxDispatch ---------------------------
(***************************************************************************)
(* Dispatch of approved tasks: decide_task leaves a message in the outbox, *)
(* request threads and the worker hand pending messages to the simulated   *)
(* gateway, record the callbacks the gateway answers with, and settle the  *)
(* message; the external service sends further callbacks.                  *)
(*                                                                         *)
(* Nothing is locked: a dispatcher works through the rows it read when its *)
(* batch was listed, every repository call is a transaction of its own,    *)
(* and save_outbox_message overwrites the whole row.  As in TaskLifecycle  *)
(* todo[p] holds what process p still has to do, one transaction a step.   *)
(***************************************************************************)
EXTENDS Integers, Sequences, FiniteSets

CONSTANTS
  Messages,      \* numbered in the order decide_task creates them
  Threads,       \* request threads of the API process
  Worker,        \* the background worker's process; an element of Threads in an
                 \* instance that runs one handler at a time
  Scenarios,     \* gateway scenarios clients ask for
  ExternalKeys,  \* idempotency keys of callbacks the external service sends
  Versions,      \* versions those callbacks carry
  MaxBatch,      \* max_messages of a process_outbox request
  MaxCrashes     \* bound on failures of an instance

Processes == Threads \cup {Worker}

ASSUME MessagesAssumption == Messages \subseteq Nat /\ IsFiniteSet(Messages)
ASSUME ScenariosAssumption ==
  Scenarios \subseteq
    {"normal", "timeout", "reject", "partial_success", "duplicate_callback", "out_of_order_callback"}
ASSUME CallbacksAssumption ==
  /\ Versions \subseteq Nat \ {0}
  /\ ExternalKeys \cap (Messages \X {1, 2}) = {}
ASSUME BoundsAssumption == MaxBatch \in Nat \ {0} /\ MaxCrashes \in Nat

VARIABLES
  outbox,      \* response_outbox: [status, last_error, callback_count] of each message
  callbacks,   \* response_dispatch_callbacks per message, in insertion order
  approved,    \* messages whose task still has the approved payload hash
  accepted,    \* how often the gateway took a message (0, 1, 2 for more)
  production,  \* FLOOD_ENVIRONMENT is "production"
  crashes,
  todo         \* what each process still has to do

vars == <<outbox, callbacks, approved, accepted, production, crashes, todo>>

(***************************************************************************)
(* Records.                                                                *)
(***************************************************************************)
OutboxStatus == {"pending", "sent", "partially_sent", "failed", "manual_takeover"}

Row(status, error, count) == [status |-> status, last_error |-> error, callback_count |-> count]
Blank == Row("absent", "none", 0)
Fresh == Row("pending", "none", 0)

DispatchStep(m, row, scenario) ==
  [kind |-> "dispatch", message |-> m, row |-> row, scenario |-> scenario]
ReadCallback(m, version, key) ==
  [kind |-> "read_callback", message |-> m, version |-> version, key |-> key]
InsertCallback(m, callback) == [kind |-> "insert_callback", message |-> m, callback |-> callback]
\* row carries the verdict; the count is filled in.
CountStep(m, row) == [kind |-> "count", message |-> m, row |-> row]
RecountStep(m) == [kind |-> "recount", message |-> m]
SaveStep(m, row) == [kind |-> "save", message |-> m, row |-> row]

\* Seeded fault: a partially sent message is dispatched again.
FinallySettled(row) == row.status \in {"sent", "failed", "manual_takeover"}
IsSettled(row) == row.status \in {"sent", "partially_sent", "failed", "manual_takeover"}

Idle(p) == todo[p] = <<>>
At(p, kind) == todo[p] # <<>> /\ Head(todo[p]).kind = kind

\* The current step of p is done and replaced by steps.
Continue(p, steps) == todo' = [todo EXCEPT ![p] = steps \o Tail(@)]

(***************************************************************************)
(* Requests.                                                               *)
(***************************************************************************)
\* commit_task_decision inserts the message; with feature.simulated_dispatch
\* the thread dispatches it at once.
decide_task(p) ==
  \E m \in Messages, inline \in BOOLEAN :
    /\ Idle(p)
    /\ outbox[m] = Blank
    /\ \A k \in Messages : k < m => outbox[k] # Blank
    /\ outbox' = [outbox EXCEPT ![m] = Fresh]
    /\ todo' = [todo EXCEPT ![p] = IF inline THEN <<DispatchStep(m, Fresh, "normal")>> ELSE <<>>]
    /\ UNCHANGED <<callbacks, approved, accepted, production, crashes>>

\* get_outbox_message returned a row; without one the request is refused.
\* Seeded fault: a message nobody created is taken for one.
AnyMessage(m) == m \in Messages
Found(m) == outbox[m] # Blank

\* list_outbox_messages(status=pending, limit): the oldest MaxBatch messages.
\* Seeded fault: the limit is off by one.
ShortBatch ==
  LET queue == {m \in Messages : outbox[m].status = "pending"}
  IN  {m \in queue : Cardinality({k \in queue : k <= m}) < MaxBatch}
Batch ==
  LET queue == {m \in Messages : outbox[m].status = "pending"}
  IN  {m \in queue : Cardinality({k \in queue : k < m}) < MaxBatch}

\* In the order they were created.
DispatchAll(messages, scenario) ==
  {[i \in DOMAIN order |-> DispatchStep(order[i], outbox[order[i]], scenario)] :
     order \in {o \in [1..Cardinality(messages) -> messages] :
                  \A i, j \in DOMAIN o : i < j => o[i] < o[j]}}

process_outbox(p) ==
  \E messages \in SUBSET Messages,
     scenario \in IF p \in Threads THEN Scenarios ELSE {"normal"} :
    /\ Idle(p)
    /\ messages # {}
    /\ \A m \in messages : Found(m)
    /\ messages = Batch \/ (p \in Threads /\ Cardinality(messages) = 1)   \* by message_id
    /\ \E steps \in DispatchAll(messages, scenario) : todo' = [todo EXCEPT ![p] = steps]
    /\ UNCHANGED <<outbox, callbacks, approved, accepted, production, crashes>>

ingest_simulated_dispatch_callback(p) ==
  \E m \in Messages, version \in Versions, key \in ExternalKeys :
    /\ Idle(p)
    /\ ~production
    /\ Found(m)
    /\ todo' = [todo EXCEPT ![p] = <<ReadCallback(m, version, key), RecountStep(m)>>]
    /\ UNCHANGED <<outbox, callbacks, approved, accepted, production, crashes>>

\* A stale save_response_task replaces the row of the task, or puts back what
\* another stale save had replaced (TaskLifecycle).
rewrite_task ==
  \E m \in Messages :
    /\ outbox[m] # Blank
    /\ approved' = IF m \in approved THEN approved \ {m} ELSE approved \cup {m}
    /\ UNCHANGED <<outbox, callbacks, accepted, production, crashes, todo>>

(***************************************************************************)
(* _dispatch_outbox_message, on the row as it was when the batch was read. *)
(***************************************************************************)
\* Callback versions the gateway answers with, in order.
CallbackVersions(scenario) ==
  CASE scenario \in {"reject", "partial_success"} -> <<1>>
    [] scenario = "duplicate_callback"            -> <<1, 1, 2>>
    [] scenario = "out_of_order_callback"         -> <<2, 1>>
    [] scenario = "normal"                        -> <<1, 2>>

Verdict(scenario) ==
  CASE scenario = "reject"          -> Row("failed", "rejected", 0)
    [] scenario = "partial_success" -> Row("partially_sent", "none", 0)
    [] OTHER                        -> Row("sent", "none", 0)

\* Seeded fault: the message is settled before its callbacks are recorded.
SettleFirst(m, scenario) ==
  LET versions == CallbackVersions(scenario)
  IN  <<CountStep(m, Verdict(scenario))>>
      \o [i \in DOMAIN versions |-> ReadCallback(m, versions[i], <<m, versions[i]>>)]
AnswerSteps(m, scenario) ==
  LET versions == CallbackVersions(scenario)
  IN  [i \in DOMAIN versions |-> ReadCallback(m, versions[i], <<m, versions[i]>>)]
      \o <<CountStep(m, Verdict(scenario))>>

dispatch_settled(p) ==
  /\ At(p, "dispatch")
  /\ IsSettled(Head(todo[p]).row)
  /\ Continue(p, <<>>)
  /\ UNCHANGED <<outbox, callbacks, approved, accepted, production, crashes>>

PayloadMatches(m) == m \in approved

dispatch_mismatch(p) ==
  LET s == Head(todo[p])
  IN  /\ At(p, "dispatch") /\ ~IsSettled(s.row)
      /\ ~PayloadMatches(s.message)
      /\ Continue(p, <<SaveStep(s.message, Row("failed", "hash_mismatch", s.row.callback_count))>>)
      /\ UNCHANGED <<outbox, callbacks, approved, accepted, production, crashes>>

dispatch_disabled(p) ==
  LET s == Head(todo[p])
  IN  /\ At(p, "dispatch") /\ ~IsSettled(s.row)
      /\ PayloadMatches(s.message) /\ production
      /\ Continue(p, <<SaveStep(s.message,
                                Row("manual_takeover", "gateway_disabled", s.row.callback_count))>>)
      /\ UNCHANGED <<outbox, callbacks, approved, accepted, production, crashes>>

dispatch_timeout(p) ==
  LET s == Head(todo[p])
  IN  /\ At(p, "dispatch") /\ ~IsSettled(s.row)
      /\ PayloadMatches(s.message) /\ ~production
      /\ s.scenario = "timeout"
      /\ Continue(p, <<SaveStep(s.message, Row("pending", "timeout", s.row.callback_count))>>)
      /\ UNCHANGED <<outbox, callbacks, approved, accepted, production, crashes>>

dispatch_answered(p) ==
  LET s == Head(todo[p])
  IN  /\ At(p, "dispatch") /\ ~IsSettled(s.row)
      /\ PayloadMatches(s.message) /\ ~production
      /\ s.scenario # "timeout"
      /\ accepted' = IF s.scenario = "reject" \/ accepted[s.message] = 2 THEN accepted
                     ELSE [accepted EXCEPT ![s.message] = @ + 1]
      /\ Continue(p, AnswerSteps(s.message, s.scenario))
      /\ UNCHANGED <<outbox, callbacks, approved, production, crashes>>

Dispatch(p) ==
  \/ dispatch_settled(p) \/ dispatch_mismatch(p) \/ dispatch_disabled(p)
  \/ dispatch_timeout(p) \/ dispatch_answered(p)

(***************************************************************************)
(* _record_dispatch_callback.                                              *)
(***************************************************************************)
KeyRecorded(key) == \E m \in Messages : \E i \in DOMAIN callbacks[m] : callbacks[m][i].key = key

RecordedVersions(m) == {callbacks[m][i].version : i \in DOMAIN callbacks[m]}

\* Seeded fault: a repeated version passes as in order.
LooseSequence(m, version) ==
  IF \E v \in RecordedVersions(m) : version < v THEN "out_of_order" ELSE "in_order"
SequenceState(m, version) ==
  IF \E v \in RecordedVersions(m) : version <= v THEN "out_of_order" ELSE "in_order"

read_callback(p) ==
  LET s == Head(todo[p])
  IN  /\ At(p, "read_callback")
      /\ Continue(p, IF KeyRecorded(s.key) THEN <<>>
                     ELSE <<InsertCallback(s.message,
                              [key |-> s.key, version |-> s.version,
                               sequence |-> SequenceState(s.message, s.version)])>>)
      /\ UNCHANGED <<outbox, callbacks, approved, accepted, production, crashes>>

\* INSERT ... ON CONFLICT(idempotency_key) DO NOTHING.
\* Seeded fault: no conflict clause and no UNIQUE constraint.
NeverRecorded(key) == FALSE
Conflicts(key) == KeyRecorded(key)

insert_callback(p) ==
  LET s == Head(todo[p])
  IN  /\ At(p, "insert_callback")
      /\ callbacks' = IF Conflicts(s.callback.key) THEN callbacks
                      ELSE [callbacks EXCEPT ![s.message] = Append(@, s.callback)]
      /\ Continue(p, <<>>)
      /\ UNCHANGED <<outbox, approved, accepted, production, crashes>>

(***************************************************************************)
(* Counting the callbacks and saving the message.                          *)
(***************************************************************************)
Counted(m, row) == [row EXCEPT !.callback_count = Len(callbacks[m])]

count_callbacks(p) ==
  LET s == Head(todo[p])
  IN  /\ At(p, "count")
      /\ Continue(p, <<SaveStep(s.message, Counted(s.message, s.row))>>)
      /\ UNCHANGED <<outbox, callbacks, approved, accepted, production, crashes>>

\* ingest_simulated_dispatch_callback reads the message again first.
\* Seeded fault: it saves the message as it was when it was created.
CreatedRow(m) == Fresh
CurrentRow(m) == outbox[m]

recount_callbacks(p) ==
  LET s == Head(todo[p])
  IN  /\ At(p, "recount")
      /\ Continue(p, <<SaveStep(s.message, Counted(s.message, CurrentRow(s.message)))>>)
      /\ UNCHANGED <<outbox, callbacks, approved, accepted, production, crashes>>

save_outbox_message(p) ==
  LET s == Head(todo[p])
  IN  /\ At(p, "save")
      /\ outbox' = [outbox EXCEPT ![s.message] = s.row]
      /\ Continue(p, <<>>)
      /\ UNCHANGED <<callbacks, approved, accepted, production, crashes>>

\* A repository call fails: the handler ends, what it stored stays.
crash(p) ==
  /\ ~Idle(p)
  /\ crashes < MaxCrashes
  /\ crashes' = crashes + 1
  /\ todo' = [todo EXCEPT ![p] = <<>>]
  /\ UNCHANGED <<outbox, callbacks, approved, accepted, production>>

(***************************************************************************)
(* The specification.                                                      *)
(***************************************************************************)
Init ==
  /\ outbox = [m \in Messages |-> Blank]
  /\ callbacks = [m \in Messages |-> <<>>]
  /\ approved = Messages
  /\ accepted = [m \in Messages |-> 0]
  /\ production \in BOOLEAN
  /\ crashes = 0
  /\ todo = [p \in Processes |-> <<>>]

Step(p) ==
  \/ Dispatch(p) \/ read_callback(p) \/ insert_callback(p)
  \/ count_callbacks(p) \/ recount_callbacks(p) \/ save_outbox_message(p)

Next ==
  \/ \E p \in Threads : decide_task(p) \/ ingest_simulated_dispatch_callback(p)
  \/ \E p \in Processes : process_outbox(p) \/ Step(p) \/ crash(p)
  \/ rewrite_task

Spec == Init /\ [][Next]_vars

\* The worker repeats its cycle for ever and survives the failure of one.
FairSpec == Spec /\ WF_vars(process_outbox(Worker)) /\ WF_vars(Step(Worker))
=============================================================================
