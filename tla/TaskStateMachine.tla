-------------------------- MODULE TaskStateMachine --------------------------
(***************************************************************************)
(* The guarded state machine of response tasks and the role sets of the    *)
(* workflow service: the constant part of the task life cycle              *)
(* (flood_system/response_workflow/state_machine.py).                      *)
(***************************************************************************)

TaskStatus ==
  {"draft", "pending_approval", "issued", "acknowledged", "in_progress",
   "pending_verification", "completed", "escalated", "waived", "blocked",
   "partially_completed", "cancelled", "taken_over"}

TERMINAL_TASK_STATUSES == {"completed", "waived", "cancelled"}

\* Statuses a commander or reviewer may take a task over from.
TakeOverStatuses ==
  {"issued", "acknowledged", "in_progress", "blocked", "escalated",
   "partially_completed"}

ALLOWED_TASK_TRANSITIONS ==
  {<<"draft", "pending_approval">>,
   <<"pending_approval", "draft">>,
   <<"pending_approval", "issued">>,
   <<"issued", "acknowledged">>,
   <<"issued", "blocked">>,
   <<"issued", "escalated">>,
   <<"acknowledged", "in_progress">>,
   <<"acknowledged", "blocked">>,
   <<"acknowledged", "escalated">>,
   <<"in_progress", "blocked">>,
   <<"in_progress", "partially_completed">>,
   <<"in_progress", "pending_verification">>,
   <<"in_progress", "escalated">>,
   <<"blocked", "acknowledged">>,
   <<"blocked", "in_progress">>,
   <<"blocked", "escalated">>,
   <<"partially_completed", "pending_verification">>,
   <<"partially_completed", "blocked">>,
   <<"partially_completed", "escalated">>,
   <<"pending_verification", "completed">>,
   <<"pending_verification", "in_progress">>,
   <<"pending_verification", "escalated">>,
   <<"escalated", "acknowledged">>,
   <<"escalated", "in_progress">>,
   <<"escalated", "blocked">>,
   <<"taken_over", "pending_verification">>,
   <<"taken_over", "blocked">>}
  \cup ((TaskStatus \ TERMINAL_TASK_STATUSES) \X {"cancelled", "waived"})
  \cup (TakeOverStatuses \X {"taken_over"})

\* ensure_transition raises exactly when this is false.
can_transition(source, target) == <<source, target>> \in ALLOWED_TASK_TRANSITIONS

(***************************************************************************)
(* Roles.                                                                  *)
(***************************************************************************)
OperatorRole ==
  {"duty_officer", "reviewer", "commander", "liaison", "field_operator",
   "auditor", "admin", "external_service"}

EDIT_ROLES      == {"duty_officer", "reviewer", "commander", "admin"}
APPROVAL_ROLES  == {"reviewer", "commander"}
EXECUTION_ROLES == {"liaison", "field_operator", "duty_officer", "reviewer", "commander"}

ApprovalPolicy == {"reviewer_required", "commander_required"}
=============================================================================
