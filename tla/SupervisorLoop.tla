---------------------------- MODULE SupervisorLoop ----------------------------
(***************************************************************************)
(* The health of the background supervisor (SupervisorLoopService in       *)
(* v2/multi_agent.py): its thread sweeps, retries, counts exhausted cycles *)
(* and opens a circuit after too many; operators' manual runs close it.    *)
(* Both sides change one health record, each time by copying it, replacing *)
(* it in memory and storing it, without a lock.  What a sweep does is in   *)
(* AgentSupervisor; here it succeeds or fails.                             *)
(***************************************************************************)
EXTENDS Naturals, Sequences

CONSTANTS Operators,     \* threads of manual ticks and runs
          Scheduler,     \* the scheduler thread
          max_retries, circuit_failure_threshold,
          MaxCount,      \* exhausted cycles that are counted
          MaxFaults,     \* health records that cannot be stored
          MaxRestarts    \* process restarts

LoopAssumption ==
    /\ Scheduler \notin Operators
    /\ {max_retries, MaxCount, MaxFaults, MaxRestarts} \subseteq Nat
    /\ circuit_failure_threshold \in 1..MaxCount

VARIABLES
    health,   \* _health_state
    stored,   \* the row in supervisor_health_state
    job,      \* per thread: where it is and the updates it has yet to make
    stoppages, \* <<faults, restarts>> so far
    mixed     \* two threads were at work at the same time, and neither has
              \* succeeded undisturbed since

loopVars == <<health, stored, job, stoppages, mixed>>

Threads == Operators \cup {Scheduler}
CircuitState == {"closed", "open", "half_open"}

(* cooldown: whether circuit_expires_at lies ahead. *)
Healthy == [circuit |-> "closed", failures |-> 0, cooldown |-> FALSE]
Resting == [at |-> "rest", todo |-> <<>>, copy |-> Healthy, phase |-> "copy",
            attempt |-> 0]

(* What an update does to the copy it took; "touch" is one of the fields   *)
(* that say when something happened, and rewrites the rest as it was.      *)
Updated(h, u) ==
    CASE u.kind = "touch" -> h
      [] u.kind = "success" -> [h EXCEPT !.failures = 0]
      [] u.kind = "close" -> Healthy
      [] u.kind = "count" -> [h EXCEPT !.failures = u.n]
      [] u.kind = "open" -> [h EXCEPT !.circuit = "open", !.cooldown = TRUE]
      [] u.kind = "half_open" -> [h EXCEPT !.circuit = "half_open"]

Touch == [kind |-> "touch", n |-> 0]
Do(kind) == [kind |-> kind, n |-> 0]

Becomes(t, j) == job' = [job EXCEPT ![t] = j]

Begin(t, at, todo) ==
    /\ Becomes(t, [job[t] EXCEPT !.at = at, !.todo = todo])
    /\ mixed' = (mixed \/ \E u \in Threads \ {t} : job[u].at # "rest")

Undisturbed(t) ==
    mixed' = (mixed /\ ~ /\ job[t].at = "succeeded"
                         /\ \A u \in Threads \ {t} : job[u].at = "rest"
                         /\ health = Healthy /\ stored = Healthy)

-----------------------------------------------------------------------------
(* _update_health_state: copy, replace, store. *)

copy_health(t) ==
    /\ job[t].todo # <<>> /\ job[t].phase = "copy"
    /\ Becomes(t, [job[t] EXCEPT !.copy = Updated(health, Head(job[t].todo)),
                                 !.phase = "replace"])
    /\ UNCHANGED <<health, stored, stoppages, mixed>>

replace_health(t) ==
    /\ job[t].phase = "replace"
    /\ health' = job[t].copy
    /\ Becomes(t, [job[t] EXCEPT !.phase = "reread"])
    /\ UNCHANGED <<stored, stoppages, mixed>>

(* The record to store is read from memory again. *)
reread_health(t) ==
    /\ job[t].phase = "reread"
    /\ Becomes(t, [job[t] EXCEPT !.copy = health, !.phase = "store"])
    /\ UNCHANGED <<health, stored, stoppages, mixed>>

store_health(t) ==
    /\ job[t].phase = "store"
    /\ stored' = job[t].copy
    /\ Becomes(t, [job[t] EXCEPT !.phase = "copy", !.todo = Tail(@), !.copy = Healthy])
    /\ UNCHANGED <<health, stoppages, mixed>>

At(t, at) == job[t].at = at /\ job[t].todo = <<>>

(* A stored record fails.  In a try block it is one more failed attempt;   *)
(* nothing else catches it, and the scheduler's thread ends.               *)
store_fails(t) ==
    /\ stoppages[1] < MaxFaults /\ job[t].phase = "store"
    /\ stoppages' = [stoppages EXCEPT ![1] = @ + 1]
    /\ Becomes(t, CASE job[t].at = "succeeded" -> [Resting EXCEPT !.at = "failed",
                                                     !.attempt = job[t].attempt,
                                                     !.todo = <<Touch>>]
                     [] t = Scheduler /\ job[t].at # "succeeded" -> [Resting EXCEPT !.at = "dead"]
                     [] OTHER -> Resting)
    /\ UNCHANGED <<health, stored, mixed>>

-----------------------------------------------------------------------------
(* Manual ticks and runs *)

(* _close_circuit_if_needed, then the success itself. *)
SuccessUpdates ==
    IF health.circuit = "closed" THEN <<Do("success")>>
    ELSE <<Do("close"), Do("success")>>

(* tick_once and run_event_once: the supervisor succeeds or raises. *)
manual(t) ==
    /\ t \in Operators /\ At(t, "rest")
    /\ \/ Begin(t, "succeeded", SuccessUpdates)
       \/ Begin(t, "failed", <<Touch>>)
    /\ UNCHANGED <<health, stored, stoppages>>

manual_over(t) ==
    /\ t \in Operators /\ (At(t, "succeeded") \/ At(t, "failed"))
    /\ Becomes(t, Resting)
    /\ Undisturbed(t)
    /\ UNCHANGED <<health, stored, stoppages>>

-----------------------------------------------------------------------------
(* The scheduler *)

(* Seeded fault: nobody looks when the cooldown ends. *)
Skips_for_ever == health.circuit = "open"

(* _circuit_open: while the circuit is open only the skipped sweep counts. *)
Skips == health.circuit = "open" /\ health.cooldown

poll ==
    /\ At(Scheduler, "rest")
    /\ IF Skips THEN Begin(Scheduler, "skipped", <<Touch>>)
       ELSE Begin(Scheduler, "polled",
                  IF health.circuit = "open" THEN <<Do("half_open"), Touch>>
                  ELSE <<Touch>>)
    /\ UNCHANGED <<health, stored, stoppages>>

(* A sweep that is due begins; else, or after a skipped one, it waits. *)
begin_cycle ==
    /\ At(Scheduler, "polled")
    /\ health.failures < MaxCount
    /\ Becomes(Scheduler, [Resting EXCEPT !.at = "attempt", !.todo = <<Touch>>])
    /\ UNCHANGED <<health, stored, stoppages, mixed>>

rest ==
    /\ \/ At(Scheduler, "skipped") \/ At(Scheduler, "polled")
       \/ At(Scheduler, "succeeded") \/ At(Scheduler, "counted")
    /\ Becomes(Scheduler, Resting)
    /\ Undisturbed(Scheduler)
    /\ UNCHANGED <<health, stored, stoppages>>

attempt_succeeds ==
    /\ At(Scheduler, "attempt")
    /\ Becomes(Scheduler, [job[Scheduler] EXCEPT !.at = "succeeded", !.todo = SuccessUpdates])
    /\ UNCHANGED <<health, stored, stoppages, mixed>>

attempt_fails ==
    /\ At(Scheduler, "attempt")
    /\ Becomes(Scheduler, [job[Scheduler] EXCEPT !.at = "failed", !.todo = <<Touch>>])
    /\ UNCHANGED <<health, stored, stoppages, mixed>>

(* Seeded fault: the circuit opens one exhausted cycle early. *)
Counted_early ==
    LET n == health.failures + 1 IN
    IF n + 1 >= circuit_failure_threshold
    THEN <<[kind |-> "count", n |-> n], Do("open")>>
    ELSE <<[kind |-> "count", n |-> n]>>

(* After the last attempt the cycle is counted, and may open the circuit. *)
Counted ==
    LET n == health.failures + 1 IN
    IF n >= circuit_failure_threshold
    THEN <<[kind |-> "count", n |-> n], Do("open")>>
    ELSE <<[kind |-> "count", n |-> n]>>

after_failure ==
    LET again == job[Scheduler].attempt < max_retries IN
    /\ At(Scheduler, "failed")
    /\ Becomes(Scheduler,
           [Resting EXCEPT !.at = IF again THEN "attempt" ELSE "counted",
                           !.attempt = IF again THEN job[Scheduler].attempt + 1 ELSE 0,
                           !.todo = IF again THEN <<Touch>> ELSE Counted])
    /\ UNCHANGED <<health, stored, stoppages, mixed>>

-----------------------------------------------------------------------------
(* Time and restarts *)

(* The cooldown of the open circuit is over. *)
Cooled(h) == [h EXCEPT !.cooldown = FALSE]
cooldown_ends ==
    /\ \E h \in {health, stored} \cup {job[t].copy : t \in Threads} : h.cooldown
    /\ health' = Cooled(health) /\ stored' = Cooled(stored)
    /\ job' = [t \in Threads |-> [job[t] EXCEPT !.copy = Cooled(@)]]
    /\ UNCHANGED <<stoppages, mixed>>

(* __post_init__ takes up the stored record. *)
restart_loop ==
    /\ stoppages[2] < MaxRestarts
    /\ stoppages' = [stoppages EXCEPT ![2] = @ + 1]
    /\ health' = stored
    /\ job' = [t \in Threads |-> Resting]
    /\ UNCHANGED <<stored, mixed>>

LoopInit ==
    /\ health = Healthy /\ stored = Healthy
    /\ job = [t \in Threads |-> Resting]
    /\ stoppages = <<0, 0>> /\ mixed = FALSE

SchedulerStep ==
    \/ copy_health(Scheduler) \/ replace_health(Scheduler)
    \/ reread_health(Scheduler) \/ store_health(Scheduler)
    \/ poll \/ begin_cycle \/ rest
    \/ attempt_succeeds \/ attempt_fails \/ after_failure

OperatorStep(t) ==
    \/ copy_health(t) \/ replace_health(t)
    \/ reread_health(t) \/ store_health(t)
    \/ manual_over(t)

LoopNext ==
    \/ SchedulerStep
    \/ \E t \in Operators : OperatorStep(t) \/ manual(t)
    \/ \E t \in Threads : store_fails(t)
    \/ cooldown_ends \/ restart_loop

(* The thread goes on, requests that have begun end, time passes. *)
LoopFairness ==
    /\ WF_loopVars(SchedulerStep)
    /\ \A t \in Operators : WF_loopVars(OperatorStep(t))
    /\ WF_loopVars(cooldown_ends)

LoopSpec == LoopInit /\ [][LoopNext]_loopVars /\ LoopFairness

-----------------------------------------------------------------------------
(* Properties *)

(* Type correctness; a thread that replaces or stores has an update to do. *)
LoopTypeOK ==
    /\ \A h \in {health, stored} :
          h.circuit \in CircuitState /\ h.failures \in Nat
    /\ \A t \in Threads :
          /\ job[t].phase # "copy" => job[t].todo # <<>>
          /\ job[t].attempt \in 0..max_retries

(* The circuit is open, or half open, only after as many exhausted cycles  *)
(* as the threshold with no success between them, so that one more         *)
(* exhausted cycle opens a half-open circuit at once - unless manual runs  *)
(* mixed with the loop's updates.                                          *)
OpenMeansExhausted ==
    health.circuit # "closed" /\ ~mixed =>
        health.failures >= circuit_failure_threshold

(* No sweep is attempted while the circuit is open.                        *)
OpenIsQuiet ==
    job[Scheduler].at = "attempt" /\ ~mixed => health.circuit # "open"

(* Between updates the stored record is the one in memory, so a restart    *)
(* takes up the circuit as it was - unless two threads stored theirs in    *)
(* the other order or one could not be stored.                             *)
RestartTakesUpHealth ==
    (\A t \in Threads : job[t].phase = "copy") /\ ~mixed /\ stoppages[1] = 0 =>
        stored = health

(* The circuit opens when it should, is kept to, and survives a restart.   *)
CircuitIsSound ==
    LoopTypeOK /\ OpenMeansExhausted /\ OpenIsQuiet /\ RestartTakesUpHealth

(* An open circuit is tried again in the end, unless the thread died.      *)
CircuitRecovers ==
    health.circuit = "open" ~> health.circuit # "open" \/ job[Scheduler].at = "dead"
=============================================================================
