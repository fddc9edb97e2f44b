--------------------------- MODULE AgentSupervisor ---------------------------
(***************************************************************************)
(* The advisory agents of the v2 platform (v2/multi_agent.py).  New data   *)
(* publish a trigger; the supervisor loop leases triggers one by one, a    *)
(* simulation update processes its own at once, and sweeps and manual      *)
(* ticks come without one.  Each ends in run_for_event, which walks a      *)
(* graph of agents, one task row per agent, and folds every result into    *)
(* the memory the agents of an event share.                                *)
(*                                                                         *)
(* One step is one transaction.  A task row is named by the thread whose   *)
(* run created it, the event and the agent: rows of that thread's earlier  *)
(* runs of the event, all settled, are not told apart any more.            *)
(***************************************************************************)
EXTENDS Naturals, Sequences, FiniteSets

CONSTANTS Events, Callers, LoopThread, TriggerTypes,
          Tickers,      \* threads that run events without a trigger
          Known,        \* events that have had a run and a memory before
          Reports,      \* what agents may report: "go", "stop", "gate"
          MaxData,      \* data changes per event
          MaxTriggers,  \* trigger rows
          MaxFailures,    \* transactions that fail
          MaxStops   \* process restarts

ASSUME SupervisorAssumption ==
    /\ Events # {} /\ LoopThread \in Callers /\ Tickers \subseteq Callers
    /\ TriggerTypes \subseteq
         {"observation", "resource", "resolved", "copilot", "simulation"}
    /\ Known \subseteq Events
    /\ Reports \subseteq {"go", "stop", "gate"} /\ "stop" \in Reports
    /\ {MaxData, MaxTriggers, MaxFailures, MaxStops} \subseteq Nat

VARIABLES
    triggers,  \* v2_trigger_events, in publication order
    tasks,     \* v2_agent_tasks of each thread's last run of each event
    recorded,  \* events with a row in v2_supervisor_runs
    report,    \* the row of the run that ended last, until the next begins
    memory,    \* v2_event_shared_memory
    active,    \* _active_event_runs
    work,      \* what each thread is doing
    reader,    \* events whose memory a status request found missing
    data,      \* version of an event's observations and overrides
    seen,      \* newest version a completed run has looked at
    faults, restarts,
    doubled,   \* events whose first run was not yet on record for a second
    wiped,     \* events whose memory a status request overwrote
    leaked,    \* events a failed start left in _active_event_runs
    verdict    \* the policy verdict folded in last, or what a restart found

rows == <<tasks, recorded, report>>
ghosts == <<doubled, wiped, leaked, verdict>>
budgets == <<faults, restarts>>
agentVars == <<triggers, tasks, recorded, report, memory, active, work, reader,
          data, seen, faults, restarts, doubled, wiped, leaked, verdict>>

-----------------------------------------------------------------------------
(* Data *)

Agents == {"HAZARD", "EXPOSURE", "RESOURCE", "PLANNING", "POLICY", "COMMS"}
Open == {"pending", "running"}
NoTrigger == 0

(* folded: the agents of the current run whose results are in; gate: the   *)
(* autonomy level is HUMAN_GATE_REQUIRED.                                  *)
EmptyMemory == [folded |-> {}, gate |-> FALSE]
NoMemory == [folded |-> {"none"}, gate |-> FALSE]
NoRows == [a \in Agents |-> "none"]
OpenRows(rs) == [a \in Agents |-> IF rs[a] \in Open THEN rs[a] ELSE "none"]
NoReport == [status |-> "none", created |-> {}, thread |-> LoopThread]
Idle == [stage |-> "idle", event |-> CHOOSE e \in Events : TRUE,
         type |-> "sweep", trigger |-> NoTrigger, steps |-> <<>>,
         agent |-> "none", outcome |-> "go", created |-> {}, failed |-> FALSE,
         gate |-> FALSE, shared |-> EmptyMemory, victims |-> {}, base |-> 0]

(* Before and inside the try block of run_for_event. *)
StartStages == {"record", "load", "create", "list", "supersede"}
AgentStages == {"claim", "run", "complete", "apply", "fold", "stop"}
TriedStages == AgentStages \cup {"next", "fail", "finish", "leave", "raise"}
Running(t, e) == work[t].stage \in StartStages \cup TriedStages /\ work[t].event = e

(* AgentDecisionGraph.initial_steps *)
initial_steps(type) ==
    CASE type = "resource" -> <<"RESOURCE", "PLANNING">>
      [] type = "resolved" -> <<>>
      [] type = "copilot" -> <<"EXPOSURE", "PLANNING">>
      [] OTHER -> <<"HAZARD">>

(* What an agent may report, as far as the graph tells it apart. *)
Outcomes(agent) ==
    CASE agent \in {"EXPOSURE", "PLANNING"} -> Reports \ {"gate"}
      [] agent = "POLICY" -> Reports
      [] agent = "COMMS" -> {"stop"}
      [] OTHER -> {"go"}

(* AgentDecisionGraph.next_steps; no next step always comes with a reason. *)
next_steps(type, agent, outcome) ==
    CASE outcome # "go" -> <<>>
      [] agent = "HAZARD" -> <<"EXPOSURE", "RESOURCE">>
      [] agent \in {"EXPOSURE", "RESOURCE"} -> <<"PLANNING">>
      [] agent = "PLANNING" -> <<"POLICY">>
      [] agent = "POLICY" /\ type # "simulation" -> <<"COMMS">>
      [] OTHER -> <<>>

Goto(t, stage) == work' = [work EXCEPT ![t].stage = stage]

-----------------------------------------------------------------------------
(* Triggers *)

(* An open trigger of the same key; only one of the last fifteen seconds   *)
(* is taken for the new one.                                               *)
Coalesces(e, type) ==
    \E i \in DOMAIN triggers :
        /\ triggers[i].event = e /\ triggers[i].type = type
        /\ triggers[i].type # "simulation"
        /\ triggers[i].status \in {"pending", "leased"}

(* covered: some run of the event ended after the publication. *)
Published(e, type) ==
    [event |-> e, type |-> type, status |-> "pending",
     covered |-> \E t \in Callers : Running(t, e)]

SetTrigger(i, status) == triggers' = [triggers EXCEPT ![i].status = status]

(* A handler stores new data, then publishes. *)
ingest(t, e, type) ==
    /\ t # LoopThread /\ work[t].stage = "idle"
    /\ data[e] < MaxData /\ Len(triggers) < MaxTriggers
    /\ data' = [data EXCEPT ![e] = @ + 1]
    /\ work' = [work EXCEPT ![t] =
           [Idle EXCEPT !.stage = "publish", !.event = e, !.type = type]]
    /\ UNCHANGED <<triggers, memory, active, reader, seen, rows, budgets, ghosts>>

(* publish_v2_trigger_event: the lookup, then the insert.  A simulation    *)
(* update goes on to process its own trigger.                              *)
publish(t) ==
    LET w == work[t] IN
    /\ w.stage = "publish"
    /\ \/ Goto(t, "insert")
       \/ Coalesces(w.event, w.type) /\ work' = [work EXCEPT ![t] = Idle]
    /\ UNCHANGED <<triggers, memory, active, reader, data, seen, rows, budgets,
                   ghosts>>

insert(t) ==
    LET w == work[t] IN
    /\ w.stage = "insert"
    /\ triggers' = Append(triggers, Published(w.event, w.type))
    /\ work' = IF w.type = "simulation"
               THEN [work EXCEPT ![t].stage = "enter",
                                 ![t].trigger = Len(triggers) + 1]
               ELSE [work EXCEPT ![t] = Idle]
    /\ UNCHANGED <<memory, active, reader, data, seen, rows, budgets, ghosts>>

Oldest(i) ==
    /\ triggers[i].status = "pending"
    /\ \A j \in 1..(i - 1) : triggers[j].status # "pending"

(* Seeded fault: only events that never had a run are swept. *)
tick_new(t, e) ==
    /\ t \in Tickers /\ work[t].stage = "idle" /\ e \notin recorded
    /\ work' = [work EXCEPT ![t] = [Idle EXCEPT !.stage = "enter", !.event = e]]
    /\ UNCHANGED <<triggers, memory, active, reader, data, seen, rows, budgets,
                   ghosts>>

(* lease_next_v2_trigger_event: the SELECT, then an UPDATE by id. *)
lease_read(i) ==
    /\ work[LoopThread].stage = "idle" /\ Oldest(i)
    /\ work' = [work EXCEPT ![LoopThread] =
           [Idle EXCEPT !.stage = "lease", !.event = triggers[i].event,
                        !.type = triggers[i].type, !.trigger = i]]
    /\ UNCHANGED <<triggers, memory, active, reader, data, seen, rows, budgets,
                   ghosts>>

lease ==
    /\ work[LoopThread].stage = "lease"
    /\ SetTrigger(work[LoopThread].trigger, "leased")
    /\ Goto(LoopThread, "enter")
    /\ UNCHANGED <<memory, active, reader, data, seen, rows, budgets, ghosts>>

(* tick: the loop sweeps when no trigger is pending, requests at any time. *)
tick(t, e) ==
    /\ t \in Tickers /\ work[t].stage = "idle"
    /\ t = LoopThread => \A i \in DOMAIN triggers : triggers[i].status # "pending"
    /\ work' = [work EXCEPT ![t] = [Idle EXCEPT !.stage = "enter", !.event = e]]
    /\ UNCHANGED <<triggers, memory, active, reader, data, seen, rows, budgets,
                   ghosts>>

(* Seeded fault: who processes its trigger at once need not acknowledge it. *)
ack_leased(t) ==
    /\ work[t].stage = "ack"
    /\ work' = [work EXCEPT ![t] = Idle]
    /\ IF work[t].trigger = NoTrigger \/ work[t].type = "simulation"
       THEN UNCHANGED triggers
       ELSE SetTrigger(work[t].trigger, "processed")
    /\ UNCHANGED <<memory, active, reader, data, seen, rows, budgets, ghosts>>

(* process_trigger: the run is over, or there was one already. *)
ack(t) ==
    /\ work[t].stage = "ack"
    /\ work' = [work EXCEPT ![t] = Idle]
    /\ IF work[t].trigger = NoTrigger THEN UNCHANGED triggers
       ELSE SetTrigger(work[t].trigger, "processed")
    /\ UNCHANGED <<memory, active, reader, data, seen, rows, budgets, ghosts>>

(* An exception out of process_trigger: the loop marks its trigger failed, *)
(* a request leaves it as it is.                                           *)
raised(t) ==
    /\ work[t].stage = "raised"
    /\ work' = [work EXCEPT ![t] = Idle]
    /\ IF work[t].trigger = NoTrigger \/ t # LoopThread THEN UNCHANGED triggers
       ELSE SetTrigger(work[t].trigger, "failed")
    /\ UNCHANGED <<memory, active, reader, data, seen, rows, budgets, ghosts>>

-----------------------------------------------------------------------------
(* run_for_event *)

(* Seeded fault: any run ever counts as under way. *)
Busy_recorded(e) == e \in recorded

(* Whether the caller gets the run that is already under way. *)
Busy(e) == e \in active /\ e \in recorded

enter(t) ==
    LET e == work[t].event IN
    /\ work[t].stage = "enter"
    /\ IF Busy(e)
       THEN /\ Goto(t, "ack")
            /\ UNCHANGED <<triggers, tasks, active, report, doubled>>
       ELSE /\ Goto(t, "record")
            /\ active' = active \cup {e}
            /\ triggers' = [i \in DOMAIN triggers |->
                  IF triggers[i].event = e
                  THEN [triggers[i] EXCEPT !.covered = TRUE] ELSE triggers[i]]
            /\ report' = [report EXCEPT ![e] = NoReport]
            /\ tasks' = [u \in Callers |-> IF Running(u, e) THEN tasks[u]
                                          ELSE [tasks[u] EXCEPT ![e] = OpenRows(@)]]
            /\ doubled' = IF e \notin recorded /\ \E u \in Callers : Running(u, e)
                          THEN doubled \cup {e} ELSE doubled
    /\ UNCHANGED <<memory, reader, data, seen, recorded, budgets, wiped, leaked,
                   verdict>>

save_run(t) ==
    /\ work[t].stage = "record"
    /\ recorded' = recorded \cup {work[t].event}
    /\ Goto(t, "load")
    /\ UNCHANGED <<triggers, tasks, report, memory, active, reader, data, seen,
                   budgets, ghosts>>

(* EventSharedMemoryStore.load: a missing snapshot is created and saved. *)
load_memory(t) ==
    LET m == memory[work[t].event] IN
    /\ work[t].stage = "load"
    /\ work' = [work EXCEPT ![t].stage = IF m = NoMemory THEN "create" ELSE "list",
                            ![t].gate = m.gate]
    /\ UNCHANGED <<triggers, memory, active, reader, data, seen, rows, budgets,
                   ghosts>>

create_memory(t) ==
    /\ work[t].stage = "create"
    /\ memory' = [memory EXCEPT ![work[t].event] = EmptyMemory]
    /\ Goto(t, "list")
    /\ UNCHANGED <<triggers, active, reader, data, seen, rows, budgets, ghosts>>

(* _supersede_open_tasks: one read, then one write per open task. *)
list_open(t) ==
    LET e == work[t].event IN
    /\ work[t].stage = "list"
    /\ work' = [work EXCEPT ![t].stage = "supersede",
           ![t].victims = {v \in Callers \X Agents : tasks[v[1]][e][v[2]] \in Open}]
    /\ UNCHANGED <<triggers, memory, active, reader, data, seen, rows, budgets,
                   ghosts>>

supersede(t, v) ==
    /\ work[t].stage = "supersede" /\ v \in work[t].victims
    /\ tasks' = [tasks EXCEPT ![v[1]][work[t].event][v[2]] = "superseded"]
    /\ work' = [work EXCEPT ![t].victims = @ \ {v}]
    /\ UNCHANGED <<triggers, recorded, report, memory, active, reader, data, seen,
                   budgets, ghosts>>

(* The graph starts; earlier runs of the thread are not told apart. *)
start_graph(t) ==
    LET e == work[t].event IN
    /\ work[t].stage = "supersede" /\ work[t].victims = {}
    /\ tasks' = [tasks EXCEPT ![t][e] = NoRows]
    /\ memory' = [memory EXCEPT ![e].folded = {}]
    /\ work' = [work EXCEPT ![t].stage = "next",
                            ![t].steps = initial_steps(work[t].type)]
    /\ UNCHANGED <<triggers, recorded, report, active, reader, data, seen, budgets,
                   ghosts>>

(* TaskQueue.enqueue, for the first step that this run has not taken yet.  *)
enqueue(t) ==
    LET w == work[t] IN
    /\ w.stage = "next"
    /\ \E k \in DOMAIN w.steps :
          /\ w.steps[k] \notin w.created
          /\ \A j \in 1..(k - 1) : w.steps[j] \in w.created
          /\ tasks' = [tasks EXCEPT ![t][w.event][w.steps[k]] = "pending"]
          /\ work' = [work EXCEPT ![t].stage = "claim", ![t].agent = w.steps[k],
                                  ![t].steps = SubSeq(@, k + 1, Len(@)),
                                  ![t].created = @ \cup {w.steps[k]}]
    /\ UNCHANGED <<triggers, recorded, report, memory, active, reader, data, seen,
                   budgets, ghosts>>

SetTask(t, status) ==
    tasks' = [tasks EXCEPT ![t][work[t].event][work[t].agent] = status]

claim(t) ==
    /\ work[t].stage = "claim"
    /\ SetTask(t, "running") /\ Goto(t, "run")
    /\ UNCHANGED <<triggers, recorded, report, memory, active, reader, data, seen,
                   budgets, ghosts>>

(* AgentRuntime.run, save_v2_agent_result and the autonomy hint. *)
run_agent(t, outcome) ==
    LET w == work[t] IN
    /\ w.stage = "run" /\ outcome \in Outcomes(w.agent)
    /\ work' = [work EXCEPT
           ![t].stage = "complete", ![t].outcome = outcome,
           ![t].gate = IF w.agent = "POLICY" THEN outcome = "gate" ELSE @,
           ![t].base = IF w.created = {w.agent} THEN data[w.event] ELSE @]
    /\ UNCHANGED <<triggers, memory, active, reader, data, seen, rows, budgets,
                   ghosts>>

complete(t) ==
    /\ work[t].stage = "complete"
    /\ SetTask(t, "completed") /\ Goto(t, "apply")
    /\ UNCHANGED <<triggers, recorded, report, memory, active, reader, data, seen,
                   budgets, ghosts>>

(* EventSharedMemoryStore.apply: load, then save. *)
apply_load(t) ==
    /\ work[t].stage = "apply"
    /\ work' = [work EXCEPT ![t].stage = "fold",
                            ![t].shared = memory[work[t].event]]
    /\ UNCHANGED <<triggers, memory, active, reader, data, seen, rows, budgets,
                   ghosts>>

Folded(w) == [folded |-> w.shared.folded \cup {w.agent}, gate |-> w.gate]

(* Seeded fault: the reason to stop goes into the snapshot loaded before. *)
apply_save_stale(t) ==
    LET w == work[t]  next == next_steps(w.type, w.agent, w.outcome) IN
    /\ w.stage = "fold"
    /\ memory' = [memory EXCEPT ![w.event] = Folded(w)]
    /\ verdict' = IF w.agent = "POLICY"
                  THEN [verdict EXCEPT ![w.event] = w.outcome = "gate"] ELSE verdict
    /\ work' = [work EXCEPT ![t].stage = IF next = <<>> THEN "stop" ELSE "next",
                            ![t].outcome = "go", ![t].steps = @ \o next]
    /\ UNCHANGED <<triggers, active, reader, data, seen, rows, budgets, doubled,
                   wiped, leaked>>

apply_save(t) ==
    LET w == work[t]  next == next_steps(w.type, w.agent, w.outcome) IN
    /\ w.stage = "fold"
    /\ memory' = [memory EXCEPT ![w.event] = Folded(w)]
    /\ verdict' = IF w.agent = "POLICY"
                  THEN [verdict EXCEPT ![w.event] = w.outcome = "gate"] ELSE verdict
    /\ work' = [work EXCEPT ![t].stage = IF next = <<>> THEN "stop" ELSE "next",
                            ![t].shared = IF next = <<>> THEN Folded(w) ELSE EmptyMemory,
                            ![t].outcome = "go", ![t].steps = @ \o next]
    /\ UNCHANGED <<triggers, active, reader, data, seen, rows, budgets, doubled,
                   wiped, leaked>>

(* The reason the graph stopped is saved over the snapshot just written. *)
save_stop(t) ==
    /\ work[t].stage = "stop"
    /\ memory' = [memory EXCEPT ![work[t].event] = work[t].shared]
    /\ work' = [work EXCEPT ![t].stage = "next", ![t].shared = EmptyMemory]
    /\ UNCHANGED <<triggers, active, reader, data, seen, rows, budgets, ghosts>>

(* The inner except clause. *)
fail_task(t) ==
    /\ work[t].stage = "fail"
    /\ SetTask(t, "failed")
    /\ work' = [work EXCEPT ![t].stage = "next", ![t].failed = TRUE]
    /\ UNCHANGED <<triggers, recorded, report, memory, active, reader, data, seen,
                   budgets, ghosts>>

(* No step is left: the run's own row. *)
finish(t) ==
    LET w == work[t] IN
    /\ w.stage = "next" /\ \A i \in DOMAIN w.steps : w.steps[i] \in w.created
    /\ report' = [report EXCEPT ![w.event] =
           [status |-> IF w.failed THEN "failed" ELSE "completed",
            created |-> w.created, thread |-> t]]
    /\ seen' = IF ~w.failed /\ w.base > seen[w.event]
               THEN [seen EXCEPT ![w.event] = w.base] ELSE seen
    /\ Goto(t, "leave")
    /\ UNCHANGED <<triggers, tasks, recorded, memory, active, reader, data,
                   budgets, ghosts>>

(* Seeded fault: the mark is taken away only when the run ends well. *)
leave_marked(t) ==
    LET w == work[t] IN
    /\ w.stage \in {"leave", "raise"}
    /\ active' = IF w.stage = "leave" THEN active \ {w.event} ELSE active
    /\ leaked' = leaked \ {w.event}
    /\ Goto(t, IF w.stage = "leave" THEN "ack" ELSE "raised")
    /\ UNCHANGED <<triggers, memory, reader, data, seen, rows, budgets, doubled,
                   wiped, verdict>>

(* The finally clause. *)
leave(t) ==
    LET w == work[t] IN
    /\ w.stage \in {"leave", "raise"}
    /\ active' = active \ {w.event}
    /\ leaked' = leaked \ {w.event}
    /\ Goto(t, IF w.stage = "leave" THEN "ack" ELSE "raised")
    /\ UNCHANGED <<triggers, memory, reader, data, seen, rows, budgets, doubled,
                   wiped, verdict>>

-----------------------------------------------------------------------------
(* Requests beside the runs, failures *)

(* get_agent_status on an event without a memory: load, then save. *)
status_load(e) ==
    /\ memory[e] = NoMemory /\ e \notin reader
    /\ reader' = reader \cup {e}
    /\ UNCHANGED <<triggers, memory, active, work, data, seen, rows, budgets, ghosts>>

status_save(e) ==
    /\ e \in reader
    /\ reader' = reader \ {e}
    /\ memory' = [memory EXCEPT ![e] = EmptyMemory]
    /\ wiped' = IF memory[e] = NoMemory THEN wiped ELSE wiped \cup {e}
    /\ UNCHANGED <<triggers, active, work, data, seen, rows, budgets, doubled,
                   leaked, verdict>>

(* A transaction of a thread fails.  Where the exception ends up depends   *)
(* on where it is raised: nothing of the loop itself is guarded.           *)
fault(t) ==
    LET w == work[t] IN
    /\ faults < MaxFailures
    /\ faults' = faults + 1
    /\ \/ w.stage \in StartStages /\ Goto(t, "raised")
       \/ w.stage \in AgentStages /\ Goto(t, "fail")
       \/ w.stage \in {"next", "fail"} /\ Goto(t, "raise")
       \/ w.stage = "ack" /\ w.trigger # NoTrigger /\ Goto(t, "raised")
       \/ w.stage \in {"publish", "insert"} /\ work' = [work EXCEPT ![t] = Idle]
       \/ t = LoopThread /\ w.stage \in {"idle", "lease", "raised"} /\ Goto(t, "dead")
    /\ leaked' = IF w.stage \in StartStages THEN leaked \cup {w.event} ELSE leaked
    /\ UNCHANGED <<triggers, memory, active, reader, data, seen, rows, restarts,
                   doubled, wiped, verdict>>

(* Marks and work are lost, rows stay.  Which verdict came last cannot be  *)
(* told of a memory that was overwritten, or that two runs shared: its     *)
(* gate counts as it stands.                                               *)
restart ==
    /\ restarts < MaxStops
    /\ restarts' = restarts + 1
    /\ work' = [t \in Callers |-> Idle]
    /\ active' = {} /\ reader' = {}
    /\ report' = [e \in Events |-> NoReport]
    /\ doubled' = {} /\ wiped' = {} /\ leaked' = {}
    /\ verdict' = [e \in Events |-> IF e \in doubled \cup wiped THEN memory[e].gate
                                    ELSE verdict[e]]
    /\ UNCHANGED <<triggers, tasks, recorded, memory, data, seen, faults>>

-----------------------------------------------------------------------------
AgentInit ==
    /\ triggers = <<>>
    /\ tasks = [t \in Callers |-> [e \in Events |-> NoRows]]
    /\ recorded = Known /\ report = [e \in Events |-> NoReport]
    /\ memory = [e \in Events |-> IF e \in Known THEN EmptyMemory ELSE NoMemory]
    /\ active = {} /\ reader = {}
    /\ work = [t \in Callers |-> Idle]
    /\ data = [e \in Events |-> 1] /\ seen = [e \in Events |-> 0]
    /\ faults = 0 /\ restarts = 0
    /\ doubled = {} /\ wiped = {} /\ leaked = {}
    /\ verdict = [e \in Events |-> FALSE]

RunStep(t) ==
    \/ enter(t) \/ save_run(t) \/ load_memory(t) \/ create_memory(t)
    \/ list_open(t) \/ \E v \in Callers \X Agents : supersede(t, v)
    \/ start_graph(t) \/ enqueue(t) \/ claim(t)
    \/ \E o \in Outcomes(work[t].agent) : run_agent(t, o)
    \/ complete(t) \/ apply_load(t) \/ apply_save(t) \/ save_stop(t)
    \/ fail_task(t) \/ finish(t) \/ leave(t) \/ ack(t) \/ raised(t)
    \/ publish(t) \/ insert(t)

LoopStep ==
    \/ \E i \in DOMAIN triggers : lease_read(i)
    \/ lease

AgentNext ==
    \/ \E t \in Callers : RunStep(t) \/ fault(t)
    \/ LoopStep
    \/ \E t \in Callers, e \in Events : tick(t, e)
    \/ \E t \in Callers, e \in Events, type \in TriggerTypes : ingest(t, e, type)
    \/ \E e \in Events : status_load(e) \/ status_save(e)
    \/ restart

AgentSpec == AgentInit /\ [][AgentNext]_agentVars

(* A thread goes on with what it has begun and the loop takes the next     *)
(* trigger.  A sweep calls run_for_event on every event in turn, so no     *)
(* event is left out for ever: strong fairness of each.                    *)
AgentFairness ==
    /\ \A t \in Callers : WF_agentVars(RunStep(t))
    /\ WF_agentVars(LoopStep)
    /\ \A e \in Events : SF_agentVars(tick(LoopThread, e))

FairAgentSpec == AgentSpec /\ AgentFairness

-----------------------------------------------------------------------------
(* Properties *)

(* Type correctness.  No step of a run is queued for an agent the graph    *)
(* does not lead to, a task row exists only for an agent of a run, and no  *)
(* run claims to have looked at data that did not exist.                   *)
SupervisorTypeOK ==
    /\ \A i \in DOMAIN triggers :
          /\ triggers[i].event \in Events /\ triggers[i].type \in TriggerTypes
          /\ triggers[i].status \in {"pending", "leased", "processed", "failed"}
    /\ \A t \in Callers :
          /\ work[t].trigger \in 0..Len(triggers)
          /\ work[t].created \subseteq Agents
          /\ \A i \in DOMAIN work[t].steps : work[t].steps[i] \in Agents
          /\ work[t].stage \in AgentStages \cup {"fail"} =>
                /\ work[t].agent \in work[t].created
                /\ work[t].event \notin doubled =>
                      tasks[t][work[t].event][work[t].agent] # "superseded"
    /\ \A e \in Events :
          /\ seen[e] \in 0..data[e]
          /\ memory[e] # NoMemory => memory[e].folded \subseteq Agents

(* run_for_event hands the run under way to a second caller, so an event   *)
(* has one run at a time - except that the very first run of an event has  *)
(* no row yet when the second caller looks for it.                         *)
OneRunPerEvent ==
    \A t, u \in Callers, e \in Events :
        t # u /\ Running(t, e) /\ Running(u, e) => e \in doubled

(* An event is marked as running only while a thread runs it, unless a run *)
(* failed before its try block: then nothing takes the mark away.          *)
ActiveHasRunner ==
    \A e \in active : (\E t \in Callers : Running(t, e)) \/ e \in leaked

(* A trigger is acknowledged only when some run of its event ended after   *)
(* it was published; an event marked by a failed start loses its triggers. *)
TriggersAreCovered ==
    \A i \in DOMAIN triggers :
        triggers[i].status # "processed" /\ triggers'[i].status = "processed" =>
            triggers[i].covered \/ triggers[i].event \in leaked

(* A run reported as completed left no task of its own open, failed or     *)
(* superseded, unless another run of the event overlapped it.              *)
CompletedRunsFinished ==
    \A e \in Events :
        report[e].status = "completed" /\ e \notin doubled =>
            \A a \in report[e].created :
                tasks[report[e].thread][e][a] = "completed"

(* Every result of a completed run is folded into the shared memory, also  *)
(* by the runs that saved twice, unless runs overlapped or a status        *)
(* request created the memory anew.                                        *)
MemoryKeepsResults ==
    \A e \in Events :
        report[e].status = "completed" /\ e \notin doubled \cup wiped =>
            report[e].created \subseteq memory[e].folded

(* The memory says that a human gate is required exactly when the policy   *)
(* result folded in last said so: a later run does not lift it before its  *)
(* own policy agent has looked.                                            *)
GateIsLastVerdict ==
    \A e \in Events :
        memory[e] # NoMemory /\ e \notin doubled \cup wiped =>
            memory[e].gate = verdict[e]

(* Runs of an event follow each other, what is said of one is so, and the  *)
(* shared memory holds what its agents said.                               *)
RunsAreOrderly ==
    /\ SupervisorTypeOK
    /\ OneRunPerEvent
    /\ ActiveHasRunner
    /\ CompletedRunsFinished
    /\ MemoryKeepsResults
    /\ GateIsLastVerdict

(* A trigger is acknowledged only after a run that ended after it.         *)
AcknowledgedAreCovered == [][TriggersAreCovered]_agentVars

(* Published triggers are settled in the end, unless the loop died of an   *)
(* exception or a restart left one leased.                                 *)
TriggersSettle ==
    (\E i \in DOMAIN triggers : triggers[i].status \in {"pending", "leased"})
    ~> \/ work[LoopThread].stage = "dead"
       \/ \A i \in DOMAIN triggers :
             \/ triggers[i].status \in {"processed", "failed"}
             \/ triggers[i].status = "leased" /\ restarts > 0
=============================================================================
