----------------------------- MODULE MCTaskStages -----------------------------
(***************************************************************************)
(* One handler of the task life cycle at a time, for TLC: the drafting,    *)
(* deciding and closing of two tasks, and the execution of one.  Neither   *)
(* part holds the cases of the other, so each is explored by itself; scope *)
(* says which.                                                             *)
(***************************************************************************)
EXTENDS TaskSafety

CONSTANTS
  draft, order,            \* tasks
  rita, carl, fred,        \* operators
  good,                    \* a content
  done, done2, stuck       \* reports

VARIABLE scope

Person(id, role) == [id |-> id, role |-> role]
People ==
  {Person(rita, "reviewer"), Person(carl, "commander"), Person(fred, "field_operator")}

\* All deadlines of the one content at time 1.
MCDue == [c \in Contents |-> [ack |-> 1, start |-> 1, complete |-> 1, verify |-> 1]]
MCCategoryOf == [r \in Reports |-> IF r = stuck THEN "blocked" ELSE "completion"]
AllCovered == Reports \X Contents

StageHandlers ==
  {"create_task", "update_task", "submit_task", "decide_task", "acknowledge_task", "cancel_task",
   "waive_task", "take_over_task", "close_event", "start_task", "assign_task", "submit_feedback",
   "verify_completion", "worker_sweep"}

\* Two tasks are drafted, decided, cancelled or waived until the event closes.
Decided(p) ==
  \/ Draft(p) \/ acknowledge_task(p) \/ cancel_task(p) \/ waive_task(p)
  \/ take_over_task(p) \/ close_event(p)

\* One approved task is assigned, executed, reported on and verified.
Executed(p) ==
  \/ create_task(p) /\ Head(todo'[p]).task = order
  \/ submit_task(p) \/ approve_task(p)
  \/ Execute(p) \/ take_over_task(p) \/ run_deadline_sweep(p)

StagesInit == Init /\ scope \in {"decided", "executed"}

StagesNext ==
  /\ \/ \E p \in Processes :
          \/ scope = "decided" /\ Decided(p)
          \/ scope = "executed" /\ Executed(p)
          \/ Store(p)
     \/ scope = "executed" /\ tick
  /\ UNCHANGED scope

StagesSpec == StagesInit /\ [][StagesNext]_<<vars, scope>>
=============================================================================
