------------------------------- MODULE MCAgents -------------------------------
(***************************************************************************)
(* The agents' supervisor and the health of its loop, for TLC.  The two    *)
(* share no table: whether a sweep succeeds is all the loop's health knows *)
(* of it, and there it may always do either.  So every behaviour of both   *)
(* is an interleaving of theirs and each is explored alone; scope says     *)
(* which, and in which small instance.                                     *)
(***************************************************************************)
EXTENDS SupervisorLoop, AgentSupervisor

VARIABLE scope

vars == <<agentVars, loopVars, scope>>

(***************************************************************************)
(* The scopes.  The constants are in agents.cfg: the flood has had a run   *)
(* and a memory, the storm has had neither.                                *)
(***************************************************************************)
\* A scope is about one event, some kinds of triggers, what agents report where they
\* have the choice, n data changes, and those who run the event without a trigger.
Within(event, types, reports, n, tickers) ==
  /\ data'[event] <= n
  /\ \A e \in Events \ {event} : data'[e] = data[e] /\ memory'[e] = memory[e]
  /\ \A t \in Callers :
        \/ work'[t].stage \in {"idle", "dead"}
        \/ /\ work'[t].event = event /\ work'[t].type \in types \cup {"sweep"}
           /\ work'[t].type = "sweep" => t \in tickers
           /\ LET choices == Outcomes(work'[t].agent) \cap reports IN
                work'[t].stage = "complete" /\ choices # {} => work'[t].outcome \in choices

\* Observations and simulations of the known event.
Steady == /\ Within("flood", {"observation", "simulation"}, Reports, 3, {LoopThread})
          /\ budgets' = budgets
\* A transaction fails, the process restarts.
Broken == Within("flood", {"resource"}, {"stop"}, 2, {LoopThread})
\* The unknown event: a manual tick beside the loop.
Fresh  == /\ Within("storm", {"resolved"}, {"stop"}, 2, Callers \ {LoopThread})
          /\ budgets' = budgets

Scope ==
  \/ scope = "steady" /\ Steady
  \/ scope = "broken" /\ Broken
  \/ scope = "fresh" /\ Fresh

\* The loop's health: a retry, a circuit that opens at the second exhausted cycle.
\* In scope "circuit" an operator runs the loop by hand meanwhile; in scope "fragile"
\* nobody does, but a record cannot be stored and the process restarts.
LoopScope ==
  \/ scope = "circuit" /\ stoppages' = stoppages
  \/ scope = "fragile" /\ \A t \in Operators : job'[t] = job[t]

(***************************************************************************)
(* Specification.                                                          *)
(***************************************************************************)
Init ==
  /\ scope \in {"steady", "broken", "fresh", "circuit", "fragile"}
  /\ AgentInit /\ LoopInit

Next ==
  /\ \/ AgentNext /\ Scope /\ UNCHANGED loopVars
     \/ LoopNext /\ LoopScope /\ UNCHANGED agentVars
  /\ UNCHANGED scope

Spec == Init /\ [][Next]_vars

\* The steps that are owed (AgentFairness, LoopFairness).
Fairness ==
  /\ \A t \in Callers : WF_vars(RunStep(t) /\ Scope /\ UNCHANGED <<loopVars, scope>>)
  /\ WF_vars(LoopStep /\ Scope /\ UNCHANGED <<loopVars, scope>>)
  /\ \A e \in Events :
        SF_vars(tick(LoopThread, e) /\ Scope /\ UNCHANGED <<loopVars, scope>>)
  /\ WF_vars(SchedulerStep /\ LoopScope /\ UNCHANGED <<agentVars, scope>>)
  /\ WF_vars(cooldown_ends /\ LoopScope /\ UNCHANGED <<agentVars, scope>>)
  /\ \A t \in Operators :
        WF_vars(OperatorStep(t) /\ LoopScope /\ UNCHANGED <<agentVars, scope>>)

FairSpec == Spec /\ Fairness

(***************************************************************************)
(* AgentSupervisor brings RunsAreOrderly, AcknowledgedAreCovered and       *)
(* TriggersSettle, SupervisorLoop brings CircuitIsSound and CircuitRecovers.*)
(***************************************************************************)
\* New data are looked at by a completed run in the end: what a coalesced or
\* handed-over trigger leaves out, a sweep finds - unless the loop died or a failed
\* start left its mark on the event.  Nobody sweeps in scope "fresh".
NewDataAreSeen ==
  \A e \in Events :
    scope \in {"steady", "broken"} /\ seen[e] # data[e] /\ e \in Known
    ~> \/ seen[e] = data[e]
       \/ work[LoopThread].stage = "dead"
       \/ e \in leaked
\* Whatever arrives is looked at, and so is its trigger.
DataAreSeen == TriggersSettle /\ NewDataAreSeen
=============================================================================
