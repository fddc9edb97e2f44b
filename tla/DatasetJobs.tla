------------------------------ MODULE DatasetJobs -----------------------------
(***************************************************************************)
(* The background jobs of the data pipeline (data_pipeline/service.py).  A *)
(* job is a thread; what is known of it is a record in a history file, and *)
(* while it is active its identifier is in a state file, which is all that *)
(* a start looks at.  The two files are written one after the other under  *)
(* the service's lock; the check for a cancellation is made without it.    *)
(*                                                                         *)
(* What a job does to the data set is left out: a runner reports progress, *)
(* fails or ends.  A file written halfway does not parse, and an           *)
(* unreadable file counts as an empty one, so it is modelled as that.      *)
(***************************************************************************)
EXTENDS Naturals, FiniteSets

CONSTANTS
  MaxAttempts,       \* AUTO_RETRY_BY_ACTION + 1
  MaxJobs,           \* bound: jobs that are started
  MaxUpdates,        \* bound: progress reports of an attempt
  MaxStops           \* bound: ends of the process

DatasetAssumption ==
  /\ {MaxAttempts, MaxJobs, MaxUpdates} \subseteq Nat \ {0} /\ MaxStops \in Nat

VARIABLES
  created,      \* number of jobs started so far; job j is the j-th
  history,      \* history file: for each job [status, asked], or Unknown
  active,       \* state file: the job it names, or 0
  thread,       \* for each job its thread: [at, attempt, left]
  cancelled,    \* _cancel_events that are set
  stops,        \* counter for the bound
  orphans,      \* history: jobs whose thread died without a last record
  late          \* history: for each job the updates stored after its cancellation

files == <<history, active>>
datasetVars == <<created, files, thread, cancelled, stops, orphans, late>>

Jobs == 1..MaxJobs
Unknown == [status |-> "unknown", asked |-> FALSE]
Active == {"pending", "running", "cancel_requested"}
Terminal == {"completed", "failed", "canceled"}

NoThread == [at |-> "none", attempt |-> 0, left |-> 0]
Alive == {j \in Jobs : thread[j].at # "none"}
IsActive(j) == history[j].status \in Active

DatasetInit ==
  /\ created = 0 /\ history = [j \in Jobs |-> Unknown] /\ active = 0
  /\ thread = [j \in Jobs |-> NoThread] /\ cancelled = {}
  /\ stops = 0 /\ orphans = {} /\ late = [j \in Jobs |-> 0]

(***************************************************************************)
(* _persist_job: the history file, then the state file, which is removed   *)
(* once the job it names is over.                                          *)
(***************************************************************************)
NewState(j, record) ==
  IF record.status \in Active THEN j ELSE IF active \in {0, j} THEN 0 ELSE active

Persist(j, record) ==
  /\ history' = [history EXCEPT ![j] = record] /\ active' = NewState(j, record)

\* The thread's next step; one that ends takes its event along.
Goes(j, next) ==
  /\ thread' = [thread EXCEPT ![j] = next]
  /\ cancelled' = IF next = NoThread THEN cancelled \ {j} ELSE cancelled

At(j, where) == thread[j].at = where
To(j, where) == [thread[j] EXCEPT !.at = where]

(***************************************************************************)
(* Requests.                                                               *)
(***************************************************************************)
\* start_* and retry_job, which makes sure that the job failed or was canceled and
\* lets go of the lock before it starts another: the job under way is returned, or
\* one is queued with its thread.
start_job ==
  LET j == created + 1 IN
  /\ created < MaxJobs /\ active = 0
  /\ created' = j /\ Persist(j, [status |-> "pending", asked |-> FALSE])
  /\ Goes(j, [at |-> "begin", attempt |-> 1, left |-> MaxUpdates])
  /\ UNCHANGED <<stops, orphans, late>>

\* Seeded fault: the status is not looked at.
cancel_job_ended(j) ==
  /\ history[j].status # "unknown"
  /\ history' = [history EXCEPT ![j] = [status |-> "cancel_requested", asked |-> TRUE]]
  /\ active' = j /\ cancelled' = cancelled \cup {j}
  /\ UNCHANGED <<created, thread, stops, orphans, late>>

\* cancel_job: only a job that is active.
cancel_job(j) ==
  /\ IsActive(j)
  /\ history' = [history EXCEPT ![j] = [status |-> "cancel_requested", asked |-> TRUE]]
  /\ active' = j /\ cancelled' = cancelled \cup {j}
  /\ UNCHANGED <<created, thread, stops, orphans, late>>

(***************************************************************************)
(* _execute_job.                                                           *)
(***************************************************************************)
\* An attempt begins.
begin(j) ==
  /\ At(j, "begin")
  /\ Persist(j, [history[j] EXCEPT !.status = "running"])
  /\ Goes(j, [thread[j] EXCEPT !.at = "run", !.left = MaxUpdates])
  /\ UNCHANGED <<created, stops, orphans, late>>

\* check_cancel, before every progress report and before the result.
check_cancel(j) ==
  /\ At(j, "run")
  /\ IF j \in cancelled \/ history[j].asked THEN Goes(j, To(j, "canceled"))
     ELSE \/ thread[j].left > 0 /\ Goes(j, To(j, "report"))
          \/ Goes(j, To(j, "result"))
  /\ UNCHANGED <<created, files, stops, orphans, late>>

\* update, with the lock it has waited for; a report leaves the status alone.
Late(j) == late' = IF history[j].asked THEN [late EXCEPT ![j] = @ + 1] ELSE late

report(j) ==
  /\ At(j, "report") /\ Late(j)
  /\ Persist(j, history[j])
  /\ Goes(j, [thread[j] EXCEPT !.at = "run", !.left = @ - 1])
  /\ UNCHANGED <<created, stops, orphans>>

complete(j) ==
  /\ At(j, "result") /\ Late(j)
  /\ Persist(j, [history[j] EXCEPT !.status = "completed"]) /\ Goes(j, NoThread)
  /\ UNCHANGED <<created, stops, orphans>>

canceled(j) ==
  /\ At(j, "canceled")
  /\ Persist(j, [status |-> "canceled", asked |-> TRUE]) /\ Goes(j, NoThread)
  /\ UNCHANGED <<created, stops, orphans, late>>

\* The runner raises; the attempt is repeated, unless it was the last.  The audit
\* record of a repetition may fail outside of any handler, which ends the thread.
fail(j) ==
  /\ At(j, "run")
  /\ UNCHANGED <<created, stops, late>>
  /\ IF thread[j].attempt < MaxAttempts
     THEN /\ Persist(j, [history[j] EXCEPT !.status = "running"])
          /\ \/ /\ Goes(j, [thread[j] EXCEPT !.at = "begin", !.attempt = @ + 1])
                /\ UNCHANGED orphans
             \/ Goes(j, NoThread) /\ orphans' = orphans \cup {j}
     ELSE /\ Persist(j, [history[j] EXCEPT !.status = "failed"]) /\ Goes(j, NoThread)
          /\ UNCHANGED orphans

(***************************************************************************)
(* The process ends, between two writes or in the middle of one, and       *)
(* starts again without threads.  Nothing reads the files to find out.     *)
(***************************************************************************)
\* The records a thread or a request may be about to store.
Unstored(j) ==
  (CASE At(j, "begin")    -> {[history[j] EXCEPT !.status = "running"]}
     [] At(j, "run")      -> {[history[j] EXCEPT !.status = st] : st \in {"running", "failed"}}
     [] At(j, "report")   -> {history[j]}
     [] At(j, "result")   -> {[history[j] EXCEPT !.status = "completed"]}
     [] At(j, "canceled") -> {[status |-> "canceled", asked |-> TRUE]}
     [] OTHER             -> {})
  \cup (IF IsActive(j) THEN {[status |-> "cancel_requested", asked |-> TRUE]} ELSE {})
  \cup (IF j = created + 1 /\ active = 0 THEN {[status |-> "pending", asked |-> FALSE]} ELSE {})

\* One write is cut off in the history file, or leaves it complete and the state
\* file cut off or untouched.
restart ==
  /\ stops < MaxStops
  /\ \/ UNCHANGED <<created, files>>
     \/ \E j \in Jobs : \E record \in Unstored(j) :
          /\ created' = IF j > created THEN j ELSE created
          /\ \/ history' = [k \in Jobs |-> Unknown] /\ UNCHANGED active
             \/ history' = [history EXCEPT ![j] = record] /\ active' \in {active, 0}
  /\ thread' = [j \in Jobs |-> NoThread] /\ cancelled' = {}
  /\ orphans' = orphans \cup Alive \cup {j \in Jobs : created < j /\ j <= created'}
  /\ stops' = stops + 1
  /\ UNCHANGED late

JobStep(j) == begin(j) \/ check_cancel(j) \/ report(j) \/ complete(j) \/ canceled(j) \/ fail(j)

DatasetNext ==
  \/ start_job \/ restart
  \/ \E j \in Jobs : cancel_job(j) \/ JobStep(j)

\* A job's thread runs; clients start and cancel what they like.
DatasetFairness == \A j \in Jobs : WF_datasetVars(JobStep(j))

DatasetSpec == DatasetInit /\ [][DatasetNext]_datasetVars /\ DatasetFairness

(***************************************************************************)
(* Properties.                                                             *)
(***************************************************************************)
\* However starts, retries, cancellations and ends of the process alternate: never
\* two jobs work on the data set at once, and while one does no start finds the way
\* free.  Unless a thread was lost, the state file names a job exactly while the
\* history has it active and its thread lives.  A canceled job stores at most one
\* more update, and what was canceled had been asked to.
JobsAreOrderly ==
  /\ Cardinality(Alive) <= 1 /\ (Alive # {} => active # 0)
  /\ orphans = {} => {j \in Jobs : IsActive(j)} = Alive /\ Alive = {active} \ {0}
  /\ \A j \in Jobs : late[j] <= 1 /\ (history[j].status = "canceled" => history[j].asked)

\* Every job ends, as long as its thread is not lost, however often it is repeated
\* and whenever it is asked to cancel.
AtWork == \E j \in Jobs : IsActive(j)
JobsEnd == AtWork ~> ~AtWork \/ orphans # {}

\* What is over stays over: no late update, cancellation or repetition changes the
\* status of a job that has ended, short of a lost file.
EndedJobsStay ==
  \A j \in Jobs : history[j].status \in Terminal =>
                    history'[j].status \in {history[j].status, "unknown"}
===============================================================================
