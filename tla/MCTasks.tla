------------------------------- MODULE MCTasks -------------------------------
(***************************************************************************)
(* Small instances of the task life cycle for TLC, in which handlers race  *)
(* or the worker sweeps; MCTaskStages has those with one handler at a time.*)
(***************************************************************************)
EXTENDS TaskSafety

CONSTANTS rita, carl, fred, nobody,   \* operators
          good, bad, done             \* contents, a report

Person(id, role) == [id |-> id, role |-> role]

Deciders == {Person(rita, "reviewer"), Person(carl, "commander")}
Racers   == Deciders \cup {Person(fred, "field_operator")}

MCCategoryOf == [r \in Reports |-> "completion"]
AllCovered == Reports \X Contents

\* All deadlines of the content at time 1; an extension to 2.
MCDue == [c \in Contents |-> [ack |-> 1, start |-> 1, complete |-> 1, verify |-> 1]]
OneProposal == {[start |-> None, complete |-> 2, verify |-> None]}

Drafting == {"create_task", "update_task", "submit_task", "decide_task"}
RaceHandlers ==
  Drafting \cup {"acknowledge_task", "assign_task", "start_task", "cancel_task", "crash"}
DeadlineHandlers ==
  {"create_task", "submit_task", "decide_task", "acknowledge_task", "take_over_task",
   "submit_feedback", "verify_completion", "request_deadline_extension",
   "decide_deadline_extension", "waive_task", "close_event", "worker_sweep"}
=============================================================================
