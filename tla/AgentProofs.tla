----------------------------- MODULE AgentProofs -----------------------------
(***************************************************************************)
(* Proofs about the background supervisor and the agents it runs: the      *)
(* loop's health record and circuit breaker, for any operators, retries,   *)
(* threshold, faults and restarts; and the runs of the agents, for any     *)
(* events, callers, triggers, failures and restarts.                       *)
(***************************************************************************)
EXTENDS SupervisorLoop, AgentSupervisor, SequenceTheorems, TLAPS

(***************************************************************************)
(* The loop: the inductive invariant of its health record.                 *)
(***************************************************************************)
Kinds == {"touch", "success", "close", "count", "open", "half_open"}
Updates == [kind : Kinds, n : Nat]
Phases == {"copy", "replace", "reread", "store"}
Places == {"rest", "skipped", "polled", "attempt", "succeeded", "failed", "counted", "dead"}
Healths == [circuit : CircuitState, failures : Nat, cooldown : BOOLEAN]
Jobs == [at : Places, todo : Seq(Updates), copy : Healths, phase : Phases,
         attempt : 0..max_retries]

LoopTypes ==
  /\ health \in Healths /\ stored \in Healths
  /\ job \in [Threads -> Jobs]
  /\ stoppages \in Nat \X Nat /\ mixed \in BOOLEAN

\* A thread at rest has nothing to update, one in the middle of an update has.
OrderlyJob(j) ==
  /\ j.at = "rest" => j.todo = <<>>
  /\ j.todo = <<>> => j.phase = "copy"
Orderly == \A t \in Threads : OrderlyJob(job[t])

\* Only one thread is at work.
Alone == \A t, u \in Threads : job[t].at # "rest" /\ job[u].at # "rest" => t = u

\* A circuit that is not closed has its failures.
Sound(h) == h.circuit # "closed" => h.failures >= circuit_failure_threshold

\* The record the thread's next update is made from, and the updates it has still to
\* make after the one under way.
Base(j, h) == IF j.phase = "replace" THEN j.copy ELSE h
Due(j) == IF j.phase = "copy" THEN j.todo ELSE Tail(j.todo)

\* Updates that keep a sound record sound, one after the other.
Count(n) == [kind |-> "count", n |-> n]
Fits(h, d) ==
  \/ d = <<>> \/ d = <<Touch>> \/ d = <<Do("close"), Do("success")>>
  \/ d = <<Do("success")>> /\ h.circuit = "closed"
  \/ d = <<Do("open")>> /\ h.failures >= circuit_failure_threshold
  \/ d = <<Do("half_open"), Touch>> /\ h.failures >= circuit_failure_threshold
  \/ \E n \in Nat : d = <<Count(n)>> /\ (h.circuit # "closed" => n >= circuit_failure_threshold)
  \/ \E n \in Nat : d = <<Count(n), Do("open")>> /\ n >= circuit_failure_threshold

SoundJob(j, h) ==
  /\ j.phase \in {"replace", "store"} => Sound(j.copy)
  /\ Fits(Base(j, h), Due(j))

\* From the poll that found the circuit passable up to the end of the cycle it is not
\* open; if it was, the update that makes it half open is the first of the poll's.
Quiet(j, h) ==
  /\ j.at \in {"attempt", "failed", "succeeded"} =>
       h.circuit # "open" /\ Base(j, h).circuit # "open"
  /\ j.at \in {"attempt", "failed"} => Due(j) \in {<<>>, <<Touch>>}
  /\ j.at = "succeeded" => Due(j) \in {<<>>, <<Do("success")>>, <<Do("close"), Do("success")>>}
  /\ j.at = "polled" =>
       \/ Base(j, h).circuit # "open" /\ Due(j) \in {<<>>, <<Touch>>}
       \/ Due(j) = <<Do("half_open"), Touch>>

\* What is stored is the record in memory, or about to be.
SavedJob(j, h, s) ==
  /\ j.phase = "copy" => s = h
  /\ j.phase = "store" => j.copy = h
Saved ==
  stoppages[1] = 0 =>
    /\ (\A t \in Threads : job[t].phase = "copy") => stored = health
    /\ \A t \in Threads : job[t].phase = "store" => job[t].copy = health

\* What holds as long as no two threads were at work at once.
Undivided ==
  /\ Alone /\ Saved /\ Sound(health) /\ Sound(stored)
  /\ \A t \in Threads : SoundJob(job[t], health)
  /\ Quiet(job[Scheduler], health)

Inductive == LoopTypes /\ Orderly /\ (~mixed => Undivided)

-----------------------------------------------------------------------------
(***************************************************************************)
(* Updates.                                                                *)
(***************************************************************************)
LEMMA Constants ==
  ASSUME LoopAssumption
  PROVE  /\ circuit_failure_threshold \in Nat /\ circuit_failure_threshold >= 1
         /\ max_retries \in Nat
  BY DEF LoopAssumption

LEMMA KnownUpdates ==
  /\ Touch \in Updates /\ \A kind \in Kinds : Do(kind) \in Updates
  /\ \A n \in Nat : Count(n) \in Updates
  BY DEF Touch, Do, Count, Updates, Kinds

LEMMA HealthyType == Healthy \in Healths
  BY DEF Healthy, Healths, CircuitState

LEMMA RestingType ==
  ASSUME LoopAssumption
  PROVE  Resting \in Jobs
  <1>1. 0 \in 0..max_retries
    BY Constants
  <1> QED  BY <1>1, HealthyType DEF Resting, Jobs, Places, Phases

LEMMA UpdatedType ==
  ASSUME NEW h \in Healths, NEW u \in Updates
  PROVE  Updated(h, u) \in Healths
  <1>1. u.kind \in Kinds /\ u.n \in Nat
    BY DEF Updates
  <1>2. CASE u.kind = "touch"
    BY <1>2 DEF Updated
  <1>3. CASE u.kind = "success"
    BY <1>3 DEF Updated, Healths
  <1>4. CASE u.kind = "close"
    BY <1>4, HealthyType DEF Updated
  <1>5. CASE u.kind = "count"
    BY <1>1, <1>5 DEF Updated, Healths
  <1>6. CASE u.kind = "open"
    BY <1>6 DEF Updated, Healths, CircuitState
  <1>7. CASE u.kind = "half_open"
    BY <1>7 DEF Updated, Healths, CircuitState
  <1> QED  BY <1>1, <1>2, <1>3, <1>4, <1>5, <1>6, <1>7 DEF Kinds

\* What each update does to the two fields that matter.
LEMMA UpdatedFields ==
  ASSUME NEW h \in Healths
  PROVE  /\ Updated(h, Touch) = h
         /\ Updated(h, Do("success")).circuit = h.circuit
         /\ Updated(h, Do("close")).circuit = "closed"
         /\ Updated(h, Do("open")).failures = h.failures
         /\ Updated(h, Do("half_open")).failures = h.failures
         /\ Updated(h, Do("half_open")).circuit = "half_open"
         /\ \A n \in Nat : /\ Updated(h, Count(n)).failures = n
                           /\ Updated(h, Count(n)).circuit = h.circuit
  BY DEF Updated, Touch, Do, Count, Healthy, Healths

LEMMA UpdateFits ==
  ASSUME NEW h \in Healths, Sound(h), NEW d, d # <<>>, Fits(h, d)
  PROVE  Sound(Updated(h, Head(d))) /\ Fits(Updated(h, Head(d)), Tail(d))
  <1>1. CASE d = <<Touch>>
    <2>1. Head(d) = Touch /\ Tail(d) = <<>>
      BY <1>1
    <2> QED  BY <2>1, UpdatedFields DEF Fits
  <1>2. CASE d = <<Do("close"), Do("success")>>
    <2>1. Head(d) = Do("close") /\ Tail(d) = <<Do("success")>>
      BY <1>2
    <2> QED  BY <2>1, UpdatedFields DEF Fits, Sound
  <1>3. CASE d = <<Do("success")>> /\ h.circuit = "closed"
    <2>1. Head(d) = Do("success") /\ Tail(d) = <<>>
      BY <1>3
    <2> QED  BY <1>3, <2>1, UpdatedFields DEF Fits, Sound
  <1>4. CASE d = <<Do("open")>> /\ h.failures >= circuit_failure_threshold
    <2>1. Head(d) = Do("open") /\ Tail(d) = <<>>
      BY <1>4
    <2> QED  BY <1>4, <2>1, UpdatedFields DEF Fits, Sound
  <1>5. CASE d = <<Do("half_open"), Touch>> /\ h.failures >= circuit_failure_threshold
    <2>1. Head(d) = Do("half_open") /\ Tail(d) = <<Touch>>
      BY <1>5
    <2> QED  BY <1>5, <2>1, UpdatedFields DEF Fits, Sound
  <1>6. ASSUME NEW n \in Nat, d = <<Count(n)>>,
               h.circuit # "closed" => n >= circuit_failure_threshold
        PROVE  Sound(Updated(h, Head(d))) /\ Fits(Updated(h, Head(d)), Tail(d))
    <2>1. Head(d) = Count(n) /\ Tail(d) = <<>>
      BY <1>6
    <2> QED  BY <1>6, <2>1, UpdatedFields DEF Fits, Sound
  <1>7. ASSUME NEW n \in Nat, d = <<Count(n), Do("open")>>, n >= circuit_failure_threshold
        PROVE  Sound(Updated(h, Head(d))) /\ Fits(Updated(h, Head(d)), Tail(d))
    <2>1. Head(d) = Count(n) /\ Tail(d) = <<Do("open")>>
      BY <1>7
    <2> QED  BY <1>7, <2>1, UpdatedFields DEF Fits, Sound
  <1> QED  BY <1>1, <1>2, <1>3, <1>4, <1>5, <1>6, <1>7 DEF Fits

\* A record that has cooled down has the same circuit and failures.
LEMMA CooledFields ==
  ASSUME NEW h \in Healths
  PROVE  /\ Cooled(h) \in Healths
         /\ Cooled(h).circuit = h.circuit /\ Cooled(h).failures = h.failures
  BY DEF Cooled, Healths

-----------------------------------------------------------------------------
(***************************************************************************)
(* The step of one thread while the others rest.                           *)
(***************************************************************************)
LEMMA AtRest ==
  ASSUME NEW j, OrderlyJob(j), j.at = "rest", NEW h
  PROVE  j.todo = <<>> /\ j.phase = "copy" /\ SoundJob(j, h) /\ Quiet(j, h)
  <1>1. j.todo = <<>> /\ j.phase = "copy"
    BY DEF OrderlyJob
  <1> QED  BY <1>1 DEF SoundJob, Quiet, Fits, Due

LEMMA OthersRest ==
  ASSUME Inductive, ~mixed, NEW t \in Threads, job[t].at # "rest"
  PROVE  \A u \in Threads \ {t} : job[u].at = "rest"
  BY DEF Inductive, Undivided, Alone

\* The next job of a thread is j, and the others have none.
LEMMA Types ==
  ASSUME Inductive, NEW t \in Threads, NEW j \in Jobs, Becomes(t, j), OrderlyJob(j)
  PROVE  /\ job' \in [Threads -> Jobs] /\ job'[t] = j
         /\ \A u \in Threads \ {t} : job'[u] = job[u]
         /\ Orderly'
  <1>1. job \in [Threads -> Jobs]
    BY DEF Inductive, LoopTypes
  <1>2. /\ job' \in [Threads -> Jobs] /\ job'[t] = j
        /\ \A u \in Threads \ {t} : job'[u] = job[u]
    BY <1>1 DEF Becomes
  <1>3. \A u \in Threads : OrderlyJob(job'[u])
    BY <1>2 DEF Inductive, Orderly
  <1> QED  BY <1>2, <1>3 DEF Orderly, OrderlyJob

LEMMA Assembled ==
  ASSUME Inductive, NEW t \in Threads, NEW j \in Jobs, Becomes(t, j), OrderlyJob(j),
         \A u \in Threads \ {t} : job[u].at = "rest",
         Sound(health'), Sound(stored'), SoundJob(j, health'),
         t = Scheduler => Quiet(j, health'),
         stoppages'[1] = 0 => SavedJob(j, health', stored')
  PROVE  Undivided'
  <1>1. /\ job'[t] = j
        /\ \A u \in Threads \ {t} : job'[u] = job[u] /\ OrderlyJob(job[u])
    BY Types DEF Inductive, Orderly
  <1>2. \A u \in Threads \ {t} :
          /\ job'[u].at = "rest" /\ job'[u].phase = "copy"
          /\ SoundJob(job'[u], health') /\ Quiet(job'[u], health')
    BY <1>1, AtRest
  <1>3. Alone'
    BY <1>2 DEF Alone
  <1>4. Saved'
    BY <1>1, <1>2 DEF Saved, SavedJob
  <1>5. \A u \in Threads : SoundJob(job'[u], health')
    BY <1>1, <1>2
  <1>6. Quiet(job'[Scheduler], health')
    BY <1>1, <1>2 DEF Threads
  <1>7. Sound(health)' /\ Sound(stored)'
    BY DEF Sound
  <1>8. (\A u \in Threads : SoundJob(job[u], health))' /\ Quiet(job[Scheduler], health)'
    BY <1>5, <1>6 DEF SoundJob, Fits, Base, Due, Quiet, Sound
  <1> QED  BY <1>3, <1>4, <1>7, <1>8 DEF Undivided

-----------------------------------------------------------------------------
(***************************************************************************)
(* _update_health_state.                                                   *)
(***************************************************************************)
\* A thread that updates is at work.
LEMMA Updating ==
  ASSUME Inductive, NEW t \in Threads, job[t].todo # <<>> \/ job[t].phase # "copy"
  PROVE  /\ job[t] \in Jobs /\ job[t].todo # <<>> /\ job[t].at # "rest"
         /\ Head(job[t].todo) \in Updates /\ Tail(job[t].todo) \in Seq(Updates)
  <1>1. job[t] \in Jobs /\ OrderlyJob(job[t])
    BY DEF Inductive, LoopTypes, Orderly
  <1>2. job[t].todo # <<>> /\ job[t].at # "rest"
    BY <1>1 DEF OrderlyJob
  <1>3. job[t].todo \in Seq(Updates)
    BY <1>1 DEF Jobs
  <1> QED  BY <1>1, <1>2, <1>3, HeadTailProperties

\* The update that comes next keeps a thread quiet.
LEMMA QuietUpdate ==
  ASSUME NEW j, NEW h \in Healths, j.phase = "copy", j.todo # <<>>, Quiet(j, h),
         NEW k, k.at = j.at, k.todo = j.todo, k.phase = "replace",
         k.copy = Updated(h, Head(j.todo))
  PROVE  Quiet(k, h)
  <1>1. Base(j, h) = h /\ Due(j) = j.todo /\ Base(k, h) = k.copy /\ Due(k) = Tail(j.todo)
    BY DEF Base, Due
  <1>2. j.todo = <<Touch>> => k.copy = h /\ Due(k) = <<>>
    BY <1>1, UpdatedFields
  <1>3. j.todo = <<Do("success")>> => k.copy.circuit = h.circuit /\ Due(k) = <<>>
    BY <1>1, UpdatedFields
  <1>4. j.todo = <<Do("close"), Do("success")>> =>
          k.copy.circuit = "closed" /\ Due(k) = <<Do("success")>>
    BY <1>1, UpdatedFields
  <1>5. j.todo = <<Do("half_open"), Touch>> =>
          k.copy.circuit = "half_open" /\ Due(k) = <<Touch>>
    BY <1>1, UpdatedFields
  <1>6. CASE j.at \in {"attempt", "failed"}
    BY <1>1, <1>2, <1>6 DEF Quiet
  <1>7. CASE j.at = "succeeded"
    BY <1>1, <1>3, <1>4, <1>7 DEF Quiet
  <1>8. CASE j.at = "polled"
    BY <1>1, <1>2, <1>5, <1>8 DEF Quiet
  <1>9. CASE j.at \notin {"attempt", "failed", "succeeded", "polled"}
    BY <1>9 DEF Quiet
  <1> QED  BY <1>6, <1>7, <1>8, <1>9

LEMMA CopyInductive ==
  ASSUME LoopAssumption, Inductive, NEW t \in Threads, copy_health(t)
  PROVE  Inductive'
  <1> DEFINE j == [job[t] EXCEPT !.copy = Updated(health, Head(job[t].todo)),
                                 !.phase = "replace"]
  <1>1. /\ job[t].todo # <<>> /\ job[t].phase = "copy" /\ Becomes(t, j)
        /\ UNCHANGED <<health, stored, stoppages, mixed>>
    BY DEF copy_health
  <1>2. /\ job[t] \in Jobs /\ job[t].at # "rest" /\ Head(job[t].todo) \in Updates
        /\ health \in Healths
    BY <1>1, Updating DEF Inductive, LoopTypes
  <1>3. Updated(health, Head(job[t].todo)) \in Healths
    BY <1>2, UpdatedType
  <1>4. /\ j \in Jobs /\ j.at = job[t].at /\ j.todo = job[t].todo /\ j.phase = "replace"
        /\ j.copy = Updated(health, Head(job[t].todo))
    BY <1>2, <1>3 DEF Jobs, Phases
  <1> HIDE DEF j
  <1>5. OrderlyJob(j)
    BY <1>1, <1>2, <1>4 DEF OrderlyJob
  <1>6. LoopTypes' /\ Orderly'
    BY <1>1, <1>4, <1>5, Types DEF Inductive, LoopTypes
  <1>7. ASSUME ~mixed PROVE Undivided'
    <2>1. Undivided /\ \A u \in Threads \ {t} : job[u].at = "rest"
      BY <1>2, <1>7, OthersRest DEF Inductive
    <2>2. Fits(health, job[t].todo) /\ Sound(health) /\ Sound(stored)
      BY <1>1, <2>1 DEF Undivided, SoundJob, Base, Due
    <2>3. Sound(j.copy) /\ Fits(j.copy, Tail(job[t].todo))
      BY <1>1, <1>2, <1>4, <2>2, UpdateFits
    <2>4. SoundJob(j, health')
      BY <1>4, <2>3 DEF SoundJob, Base, Due
    <2>5. t = Scheduler => Quiet(j, health')
      BY <1>1, <1>2, <1>4, <2>1, QuietUpdate DEF Undivided
    <2>6. SavedJob(j, health', stored')
      BY <1>4 DEF SavedJob
    <2> QED  BY <1>1, <1>4, <1>5, <2>1, <2>2, <2>4, <2>5, <2>6, Assembled
  <1> QED  BY <1>1, <1>6, <1>7 DEF Inductive

LEMMA ReplaceInductive ==
  ASSUME LoopAssumption, Inductive, NEW t \in Threads, replace_health(t)
  PROVE  Inductive'
  <1> DEFINE j == [job[t] EXCEPT !.phase = "reread"]
  <1>1. /\ job[t].phase = "replace" /\ health' = job[t].copy /\ Becomes(t, j)
        /\ UNCHANGED <<stored, stoppages, mixed>>
    BY DEF replace_health
  <1>2. job[t] \in Jobs /\ job[t].todo # <<>> /\ job[t].at # "rest"
    BY <1>1, Updating
  <1>3. /\ j \in Jobs /\ j.at = job[t].at /\ j.todo = job[t].todo /\ j.phase = "reread"
        /\ job[t].copy \in Healths
    BY <1>2 DEF Jobs, Phases
  <1> HIDE DEF j
  <1>4. OrderlyJob(j)
    BY <1>2, <1>3 DEF OrderlyJob
  <1>5. LoopTypes' /\ Orderly'
    BY <1>1, <1>3, <1>4, Types DEF Inductive, LoopTypes
  <1>6. Base(j, health') = Base(job[t], health) /\ Due(j) = Due(job[t])
    BY <1>1, <1>3 DEF Base, Due
  <1>7. ASSUME ~mixed PROVE Undivided'
    <2>1. Undivided /\ \A u \in Threads \ {t} : job[u].at = "rest"
      BY <1>2, <1>7, OthersRest DEF Inductive
    <2>2. Sound(health') /\ Sound(stored')
      BY <1>1, <2>1 DEF Undivided, SoundJob
    <2>3. SoundJob(j, health')
      BY <1>3, <1>6, <2>1 DEF Undivided, SoundJob
    <2>4. t = Scheduler => Quiet(j, health')
      BY <1>1, <1>3, <1>6, <2>1 DEF Undivided, Quiet, Base
    <2>5. SavedJob(j, health', stored')
      BY <1>3 DEF SavedJob
    <2> QED  BY <1>1, <1>3, <1>4, <2>1, <2>2, <2>3, <2>4, <2>5, Assembled
  <1> QED  BY <1>1, <1>5, <1>7 DEF Inductive

LEMMA RereadInductive ==
  ASSUME LoopAssumption, Inductive, NEW t \in Threads, reread_health(t)
  PROVE  Inductive'
  <1> DEFINE j == [job[t] EXCEPT !.copy = health, !.phase = "store"]
  <1>1. /\ job[t].phase = "reread" /\ Becomes(t, j)
        /\ UNCHANGED <<health, stored, stoppages, mixed>>
    BY DEF reread_health
  <1>2. job[t] \in Jobs /\ job[t].todo # <<>> /\ job[t].at # "rest" /\ health \in Healths
    BY <1>1, Updating DEF Inductive, LoopTypes
  <1>3. /\ j \in Jobs /\ j.at = job[t].at /\ j.todo = job[t].todo
        /\ j.phase = "store" /\ j.copy = health
    BY <1>2 DEF Jobs, Phases
  <1> HIDE DEF j
  <1>4. OrderlyJob(j)
    BY <1>2, <1>3 DEF OrderlyJob
  <1>5. LoopTypes' /\ Orderly'
    BY <1>1, <1>3, <1>4, Types DEF Inductive, LoopTypes
  <1>6. Base(j, health') = Base(job[t], health) /\ Due(j) = Due(job[t])
    BY <1>1, <1>3 DEF Base, Due
  <1>7. ASSUME ~mixed PROVE Undivided'
    <2>1. Undivided /\ \A u \in Threads \ {t} : job[u].at = "rest"
      BY <1>2, <1>7, OthersRest DEF Inductive
    <2>2. Sound(health') /\ Sound(stored')
      BY <1>1, <2>1 DEF Undivided
    <2>3. SoundJob(j, health')
      BY <1>1, <1>3, <1>6, <2>1, <2>2 DEF Undivided, SoundJob
    <2>4. t = Scheduler => Quiet(j, health')
      BY <1>1, <1>3, <1>6, <2>1 DEF Undivided, Quiet
    <2>5. SavedJob(j, health', stored')
      BY <1>1, <1>3 DEF SavedJob
    <2> QED  BY <1>1, <1>3, <1>4, <2>1, <2>2, <2>3, <2>4, <2>5, Assembled
  <1> QED  BY <1>1, <1>5, <1>7 DEF Inductive

LEMMA StoreInductive ==
  ASSUME LoopAssumption, Inductive, NEW t \in Threads, store_health(t)
  PROVE  Inductive'
  <1> DEFINE j == [job[t] EXCEPT !.phase = "copy", !.todo = Tail(@), !.copy = Healthy]
  <1>1. /\ job[t].phase = "store" /\ stored' = job[t].copy /\ Becomes(t, j)
        /\ UNCHANGED <<health, stoppages, mixed>>
    BY DEF store_health
  <1>2. /\ job[t] \in Jobs /\ job[t].todo # <<>> /\ job[t].at # "rest"
        /\ Tail(job[t].todo) \in Seq(Updates)
    BY <1>1, Updating
  <1>3. /\ j \in Jobs /\ j.at = job[t].at /\ j.todo = Tail(job[t].todo) /\ j.phase = "copy"
        /\ job[t].copy \in Healths
    BY <1>2, HealthyType DEF Jobs, Phases
  <1> HIDE DEF j
  <1>4. OrderlyJob(j)
    BY <1>2, <1>3 DEF OrderlyJob
  <1>5. LoopTypes' /\ Orderly'
    BY <1>1, <1>3, <1>4, Types DEF Inductive, LoopTypes
  <1>6. Base(j, health') = Base(job[t], health) /\ Due(j) = Due(job[t])
    BY <1>1, <1>3 DEF Base, Due
  <1>7. ASSUME ~mixed PROVE Undivided'
    <2>1. Undivided /\ \A u \in Threads \ {t} : job[u].at = "rest"
      BY <1>2, <1>7, OthersRest DEF Inductive
    <2>2. Sound(health') /\ Sound(stored')
      BY <1>1, <2>1 DEF Undivided, SoundJob
    <2>3. SoundJob(j, health')
      BY <1>3, <1>6, <2>1 DEF Undivided, SoundJob
    <2>4. t = Scheduler => Quiet(j, health')
      BY <1>1, <1>3, <1>6, <2>1 DEF Undivided, Quiet
    <2>5. stoppages'[1] = 0 => SavedJob(j, health', stored')
      BY <1>1, <1>3, <2>1 DEF Undivided, Saved, SavedJob
    <2> QED  BY <1>1, <1>3, <1>4, <2>1, <2>2, <2>3, <2>4, <2>5, Assembled
  <1> QED  BY <1>1, <1>5, <1>7 DEF Inductive

-----------------------------------------------------------------------------
(***************************************************************************)
(* Runs and cycles.                                                        *)
(***************************************************************************)
\* A thread without an update under way that goes to a new place with new updates,
\* while memory and storage stay.
LEMMA Goes ==
  ASSUME LoopAssumption, Inductive, NEW t \in Threads, job[t].todo = <<>>,
         NEW j \in Jobs, Becomes(t, j), j.phase = "copy", j.at = "rest" => j.todo = <<>>,
         UNCHANGED <<health, stored, stoppages>>, mixed' \in BOOLEAN,
         ~mixed' => ~mixed /\ \A u \in Threads \ {t} : job[u].at = "rest",
         ~mixed => Fits(health, j.todo),
         ~mixed /\ t = Scheduler => Quiet(j, health)
  PROVE  Inductive'
  <1>1. OrderlyJob(j)
    BY DEF OrderlyJob
  <1>2. LoopTypes' /\ Orderly'
    BY <1>1, Types DEF Inductive, LoopTypes
  <1>3. ASSUME ~mixed' PROVE Undivided'
    <2>1. Undivided /\ \A u \in Threads \ {t} : job[u].at = "rest"
      BY <1>3 DEF Inductive
    <2>2. SoundJob(j, health')
      BY <1>3 DEF SoundJob, Base, Due
    <2>3. \A u \in Threads : job[u].phase = "copy"
      BY <2>1 DEF Inductive, Orderly, OrderlyJob
    <2>4. stoppages'[1] = 0 => SavedJob(j, health', stored')
      BY <2>1, <2>3 DEF Undivided, Saved, SavedJob
    <2>5. Sound(health') /\ Sound(stored')
      BY <2>1 DEF Undivided
    <2>6. t = Scheduler => Quiet(j, health')
      BY <1>3
    <2> QED  BY <1>1, <2>1, <2>2, <2>4, <2>5, <2>6, Assembled
  <1> QED  BY <1>2, <1>3 DEF Inductive

LEMMA Successes ==
  ASSUME NEW h \in Healths, h = health
  PROVE  /\ SuccessUpdates \in Seq(Updates) /\ SuccessUpdates # <<>>
         /\ Fits(h, SuccessUpdates)
         /\ SuccessUpdates \in {<<Do("success")>>, <<Do("close"), Do("success")>>}
  <1>1. Do("success") \in Updates /\ Do("close") \in Updates
    BY KnownUpdates DEF Kinds
  <1> QED  BY <1>1 DEF SuccessUpdates, Fits

LEMMA ManualInductive ==
  ASSUME LoopAssumption, Inductive, NEW t \in Operators, manual(t)
  PROVE  Inductive'
  <1>1. PICK at \in {"succeeded", "failed"}, todo \in {SuccessUpdates, <<Touch>>} :
          /\ Becomes(t, [job[t] EXCEPT !.at = at, !.todo = todo])
          /\ mixed' = (mixed \/ \E u \in Threads \ {t} : job[u].at # "rest")
    BY DEF manual, Begin
  <1>2. /\ t \in Threads /\ t # Scheduler /\ job[t] \in Jobs
        /\ job[t].todo = <<>> /\ job[t].phase = "copy"
        /\ health \in Healths /\ mixed \in BOOLEAN /\ UNCHANGED <<health, stored, stoppages>>
    BY DEF manual, At, Threads, LoopAssumption, Inductive, LoopTypes, Orderly, OrderlyJob
  <1>3. todo \in Seq(Updates) /\ Fits(health, todo)
    <2>1. CASE todo = SuccessUpdates
      BY <1>2, <2>1, Successes
    <2>2. CASE todo = <<Touch>>
      BY <2>2, KnownUpdates DEF Fits
    <2> QED  BY <2>1, <2>2
  <1> DEFINE j == [job[t] EXCEPT !.at = at, !.todo = todo]
  <1>4. j \in Jobs /\ j.at = at /\ j.todo = todo /\ j.phase = "copy"
    BY <1>2, <1>3 DEF Jobs, Places
  <1>5. Becomes(t, j)
    BY <1>1
  <1> HIDE DEF j
  <1>6. j.at # "rest"
    BY <1>4
  <1>7. mixed' \in BOOLEAN
    BY <1>1
  <1>8. ~mixed' => ~mixed /\ \A u \in Threads \ {t} : job[u].at = "rest"
    BY <1>1
  <1> QED  BY <1>2, <1>3, <1>4, <1>5, <1>6, <1>7, <1>8, Goes

\* The thread is through: nothing is left of its job, and if the records are those
\* of a healthy loop and the other threads rest, no trace of others' steps is left.
LEMMA OverInductive ==
  ASSUME LoopAssumption, Inductive, NEW t \in Threads, job[t].todo = <<>>,
         Becomes(t, Resting), Undisturbed(t), UNCHANGED <<health, stored, stoppages>>
  PROVE  Inductive'
  <1>1. Resting \in Jobs /\ Resting.at = "rest" /\ Resting.todo = <<>> /\ Resting.phase = "copy"
    BY RestingType DEF Resting
  <1>2. OrderlyJob(Resting) /\ SoundJob(Resting, health) /\ Quiet(Resting, health)
    BY <1>1, AtRest DEF OrderlyJob
  <1>3. mixed \in BOOLEAN /\ health \in Healths
    BY DEF Inductive, LoopTypes
  <1>4. mixed' \in BOOLEAN
    BY <1>3 DEF Undisturbed
  <1>5. LoopTypes' /\ Orderly'
    BY <1>1, <1>2, <1>4, Types DEF Inductive, LoopTypes
  <1>6. ASSUME ~mixed' PROVE Undivided'
    <2>1. CASE ~mixed
      <3>1. Undivided
        BY <2>1 DEF Inductive
      <3>2. CASE job[t].at = "rest"
        <4>1. /\ job'[t] = Resting /\ \A u \in Threads \ {t} : job'[u] = job[u]
              /\ job[t].phase = "copy"
          BY <1>1, <1>2, <3>2, Types DEF Inductive, Orderly, OrderlyJob
        <4>2. Alone'
          BY <1>1, <3>1, <4>1 DEF Undivided, Alone
        <4>3. Saved'
          BY <1>1, <3>1, <4>1 DEF Undivided, Saved
        <4>4. \A u \in Threads : SoundJob(job'[u], health)
          BY <1>2, <3>1, <4>1 DEF Undivided
        <4>5. Quiet(job'[Scheduler], health)
          BY <1>2, <3>1, <4>1 DEF Undivided, Threads
        <4>6. Sound(health)' /\ Sound(stored)'
          BY <3>1 DEF Undivided, Sound
        <4>7. (\A u \in Threads : SoundJob(job[u], health))' /\ Quiet(job[Scheduler], health)'
          BY <4>4, <4>5 DEF SoundJob, Fits, Base, Due, Quiet, Sound
        <4> QED  BY <4>2, <4>3, <4>6, <4>7 DEF Undivided
      <3>3. CASE job[t].at # "rest"
        <4>1. \A u \in Threads \ {t} : job[u].at = "rest"
          BY <2>1, <3>3, OthersRest
        <4>2. \A u \in Threads : job[u].phase = "copy"
          BY <4>1 DEF Inductive, Orderly, OrderlyJob
        <4>3. stoppages'[1] = 0 => SavedJob(Resting, health', stored')
          BY <1>1, <3>1, <4>2 DEF Undivided, Saved, SavedJob
        <4>4. Sound(health') /\ Sound(stored')
          BY <3>1 DEF Undivided
        <4> QED  BY <1>1, <1>2, <4>1, <4>3, <4>4, Assembled
      <3> QED  BY <3>2, <3>3
    <2>2. CASE mixed
      <3>1. /\ \A u \in Threads \ {t} : job[u].at = "rest"
            /\ health = Healthy /\ stored = Healthy
        BY <1>6, <2>2 DEF Undisturbed
      <3>2. Sound(health') /\ Sound(stored')
        BY <3>1 DEF Sound, Healthy
      <3>3. SavedJob(Resting, health', stored')
        BY <1>1, <3>1 DEF SavedJob
      <3> QED  BY <1>1, <1>2, <3>1, <3>2, <3>3, Assembled
    <2> QED  BY <1>3, <2>1, <2>2
  <1> QED  BY <1>5, <1>6 DEF Inductive

LEMMA PollInductive ==
  ASSUME LoopAssumption, Inductive, poll
  PROVE  Inductive'
  <1>1. /\ Scheduler \in Threads /\ job[Scheduler] \in Jobs
        /\ job[Scheduler].todo = <<>> /\ job[Scheduler].phase = "copy"
        /\ health \in Healths /\ mixed \in BOOLEAN /\ UNCHANGED <<health, stored, stoppages>>
    BY DEF poll, At, Threads, Inductive, LoopTypes, Orderly, OrderlyJob
  <1>2. PICK at \in {"skipped", "polled"},
             todo \in {<<Touch>>, <<Do("half_open"), Touch>>} :
          /\ at = "polled" /\ todo = <<Touch>> => health.circuit # "open"
          /\ todo = <<Do("half_open"), Touch>> => at = "polled" /\ health.circuit = "open"
          /\ Begin(Scheduler, at, todo)
    <2>1. <<Touch>> # <<Do("half_open"), Touch>>
      OBVIOUS
    <2> QED  BY <2>1 DEF poll, Skips
  <1>3. todo \in Seq(Updates)
    <2>1. Touch \in Updates /\ Do("half_open") \in Updates
      BY KnownUpdates DEF Kinds
    <2>2. <<Touch>> \in Seq(Updates) /\ <<Do("half_open"), Touch>> \in Seq(Updates)
      BY <2>1
    <2> QED  BY <2>2
  <1>4. ~mixed => Fits(health, todo)
    BY <1>2 DEF Inductive, Undivided, Sound, Fits
  <1> DEFINE j == [job[Scheduler] EXCEPT !.at = at, !.todo = todo]
  <1>5. j \in Jobs /\ j.at = at /\ j.todo = todo /\ j.phase = "copy"
    BY <1>1, <1>3 DEF Jobs, Places
  <1>6. Becomes(Scheduler, j)
    BY <1>2 DEF Begin
  <1> HIDE DEF j
  <1>7. mixed' \in BOOLEAN
    BY <1>2 DEF Begin
  <1>8. ~mixed' => ~mixed /\ \A u \in Threads \ {Scheduler} : job[u].at = "rest"
    BY <1>2 DEF Begin
  <1>9. Quiet(j, health)
    BY <1>2, <1>5 DEF Quiet, Base, Due
  <1> QED  BY <1>1, <1>4, <1>5, <1>6, <1>7, <1>8, <1>9, Goes

\* A thread at work, without an update under way, that goes on to another place.
LEMMA GoesOn ==
  ASSUME LoopAssumption, Inductive, NEW t \in Threads, job[t].todo = <<>>, job[t].at # "rest",
         NEW j \in Jobs, Becomes(t, j), j.phase = "copy", j.at # "rest",
         UNCHANGED <<health, stored, stoppages, mixed>>,
         ~mixed => Fits(health, j.todo),
         ~mixed /\ t = Scheduler => Quiet(j, health)
  PROVE  Inductive'
  <1>1. mixed' \in BOOLEAN
    BY DEF Inductive, LoopTypes
  <1>2. ~mixed' => ~mixed /\ \A u \in Threads \ {t} : job[u].at = "rest"
    BY OthersRest
  <1> QED  BY <1>1, <1>2, Goes

\* A cycle that is under way without a circuit that is open.
LEMMA CycleQuiet ==
  ASSUME NEW j, NEW h, j.phase = "copy",
         j.at \in {"attempt", "failed", "succeeded"} => h.circuit # "open",
         \/ j.at \in {"attempt", "failed"} /\ j.todo \in {<<>>, <<Touch>>}
         \/ /\ j.at = "succeeded"
            /\ j.todo \in {<<>>, <<Do("success")>>, <<Do("close"), Do("success")>>}
         \/ j.at \in {"counted", "rest", "dead"}
  PROVE  Quiet(j, h)
  BY DEF Quiet, Base, Due

LEMMA SchedulerAt ==
  ASSUME Inductive, NEW at \in {"polled", "attempt", "failed"}, At(Scheduler, at)
  PROVE  /\ Scheduler \in Threads /\ job[Scheduler] \in Jobs
         /\ job[Scheduler].todo = <<>> /\ job[Scheduler].phase = "copy"
         /\ job[Scheduler].at = at /\ job[Scheduler].at # "rest" /\ health \in Healths
         /\ ~mixed => health.circuit # "open" /\ Sound(health)
  <1>1. /\ Scheduler \in Threads /\ job[Scheduler] \in Jobs /\ health \in Healths
        /\ job[Scheduler].todo = <<>> /\ job[Scheduler].phase = "copy" /\ job[Scheduler].at = at
    BY DEF Threads, At, Inductive, LoopTypes, Orderly, OrderlyJob
  <1>2. Base(job[Scheduler], health) = health /\ Due(job[Scheduler]) = <<>>
    BY <1>1 DEF Base, Due
  <1>3. <<>> # <<Do("half_open"), Touch>>
    OBVIOUS
  <1>4. ~mixed => health.circuit # "open" /\ Sound(health)
    BY <1>1, <1>2, <1>3 DEF Inductive, Undivided, Quiet
  <1> QED  BY <1>1, <1>4

LEMMA TouchFits ==
  ASSUME NEW h
  PROVE  Fits(h, <<Touch>>) /\ <<Touch>> \in Seq(Updates)
  BY KnownUpdates DEF Fits

LEMMA BeginInductive ==
  ASSUME LoopAssumption, Inductive, begin_cycle
  PROVE  Inductive'
  <1> DEFINE j == [Resting EXCEPT !.at = "attempt", !.todo = <<Touch>>]
  <1>1. /\ At(Scheduler, "polled") /\ Becomes(Scheduler, j)
        /\ UNCHANGED <<health, stored, stoppages, mixed>>
    BY DEF begin_cycle
  <1>2. j \in Jobs /\ j.at = "attempt" /\ j.todo = <<Touch>> /\ j.phase = "copy"
    BY RestingType, TouchFits DEF Resting, Jobs, Places
  <1> HIDE DEF j
  <1>3. ~mixed => Quiet(j, health) /\ Fits(health, j.todo)
    BY <1>1, <1>2, SchedulerAt, CycleQuiet, TouchFits
  <1> QED  BY <1>1, <1>2, <1>3, SchedulerAt, GoesOn

LEMMA AttemptInductive ==
  ASSUME LoopAssumption, Inductive, attempt_succeeds \/ attempt_fails
  PROVE  Inductive'
  <1>1. PICK at \in {"succeeded", "failed"}, todo \in {SuccessUpdates, <<Touch>>} :
          /\ at = "succeeded" => todo = SuccessUpdates
          /\ at = "failed" => todo = <<Touch>>
          /\ At(Scheduler, "attempt")
          /\ Becomes(Scheduler, [job[Scheduler] EXCEPT !.at = at, !.todo = todo])
          /\ UNCHANGED <<health, stored, stoppages, mixed>>
    BY DEF attempt_succeeds, attempt_fails
  <1>2. /\ job[Scheduler] \in Jobs /\ job[Scheduler].phase = "copy" /\ health \in Healths
        /\ ~mixed => health.circuit # "open"
    BY <1>1, SchedulerAt
  <1>3. todo \in Seq(Updates) /\ Fits(health, todo)
    BY <1>1, <1>2, Successes, TouchFits
  <1> DEFINE j == [job[Scheduler] EXCEPT !.at = at, !.todo = todo]
  <1>4. j \in Jobs /\ j.at = at /\ j.todo = todo /\ j.phase = "copy"
    BY <1>2, <1>3 DEF Jobs, Places
  <1>5. Becomes(Scheduler, j)
    BY <1>1
  <1> HIDE DEF j
  <1>6. ~mixed => Quiet(j, health)
    BY <1>1, <1>2, <1>4, Successes, CycleQuiet
  <1> QED  BY <1>1, <1>3, <1>4, <1>5, <1>6, SchedulerAt, GoesOn

\* A cycle is counted, and opens the circuit from the threshold on.
LEMMA Counts ==
  ASSUME LoopAssumption, health \in Healths
  PROVE  Counted \in Seq(Updates) /\ (Sound(health) => Fits(health, Counted))
  <1> DEFINE n == health.failures + 1
  <1>1. n \in Nat /\ health.failures \in Nat /\ circuit_failure_threshold \in Nat
    BY Constants DEF Healths
  <1>2. Count(n) \in Updates /\ Do("open") \in Updates
    BY <1>1, KnownUpdates DEF Kinds
  <1>3. Counted = IF n >= circuit_failure_threshold THEN <<Count(n), Do("open")>> ELSE <<Count(n)>>
    BY DEF Counted, Count
  <1>4. <<Count(n)>> \in Seq(Updates) /\ <<Count(n), Do("open")>> \in Seq(Updates)
    BY <1>2
  <1>5. health.failures >= circuit_failure_threshold => n >= circuit_failure_threshold
    BY <1>1
  <1> HIDE DEF n
  <1>6. CASE n >= circuit_failure_threshold
    BY <1>1, <1>3, <1>4, <1>6 DEF Fits
  <1>7. CASE ~(n >= circuit_failure_threshold)
    BY <1>1, <1>3, <1>4, <1>5, <1>7 DEF Fits, Sound
  <1> QED  BY <1>6, <1>7

LEMMA FailureInductive ==
  ASSUME LoopAssumption, Inductive, after_failure
  PROVE  Inductive'
  <1> DEFINE again == job[Scheduler].attempt < max_retries
             at == IF again THEN "attempt" ELSE "counted"
             attempt == IF again THEN job[Scheduler].attempt + 1 ELSE 0
             todo == IF again THEN <<Touch>> ELSE Counted
             j == [Resting EXCEPT !.at = at, !.attempt = attempt, !.todo = todo]
  <1>1. /\ At(Scheduler, "failed") /\ Becomes(Scheduler, j)
        /\ UNCHANGED <<health, stored, stoppages, mixed>>
    BY DEF after_failure
  <1>2. /\ job[Scheduler] \in Jobs /\ health \in Healths
        /\ ~mixed => health.circuit # "open" /\ Sound(health)
    BY <1>1, SchedulerAt
  <1>3. attempt \in 0..max_retries
    BY <1>2, Constants DEF Jobs
  <1>4. todo \in Seq(Updates) /\ (~mixed => Fits(health, todo))
    BY <1>2, TouchFits, Counts
  <1>5. at \in Places /\ at # "rest" /\ at \in {"attempt", "counted"} /\ (at = "attempt" => todo = <<Touch>>)
    BY DEF Places
  <1> HIDE DEF at, attempt, todo
  <1>6. j \in Jobs /\ j.at = at /\ j.todo = todo /\ j.phase = "copy"
    BY <1>3, <1>4, <1>5, RestingType DEF Resting, Jobs
  <1> HIDE DEF j
  <1>7. ~mixed => Quiet(j, health)
    BY <1>2, <1>5, <1>6, CycleQuiet
  <1> QED  BY <1>1, <1>4, <1>5, <1>6, <1>7, SchedulerAt, GoesOn

LEMMA RestInductive ==
  ASSUME LoopAssumption, Inductive, rest \/ \E t \in Operators : manual_over(t)
  PROVE  Inductive'
  BY OverInductive DEF rest, manual_over, At, Threads

-----------------------------------------------------------------------------
(***************************************************************************)
(* Faults, time and restarts.                                              *)
(***************************************************************************)
\* A thread whose record cannot be stored leaves memory and storage as they are, with
\* a failed attempt, dead or back at rest.
LEMMA FaultInductive ==
  ASSUME LoopAssumption, Inductive, NEW t \in Threads, store_fails(t)
  PROVE  Inductive'
  <1> DEFINE failed == [Resting EXCEPT !.at = "failed", !.attempt = job[t].attempt,
                                       !.todo = <<Touch>>]
             dead == [Resting EXCEPT !.at = "dead"]
  <1>1. /\ job[t].phase = "store" /\ UNCHANGED <<health, stored, mixed>>
        /\ stoppages' = [stoppages EXCEPT ![1] = @ + 1]
    BY DEF store_fails
  <1>2. PICK j \in {failed, dead, Resting} :
          Becomes(t, j) /\ (j = failed => job[t].at = "succeeded")
    <2>1. CASE job[t].at = "succeeded"
      BY <2>1 DEF store_fails
    <2>2. CASE job[t].at # "succeeded" /\ t = Scheduler
      <3>1. dead # failed
        <4>1. dead.at = "dead" /\ failed.at = "failed"
          BY DEF Resting
        <4> QED  BY <4>1
      <3> QED  BY <2>2, <3>1 DEF store_fails
    <2>3. CASE job[t].at # "succeeded" /\ t # Scheduler
      <3>1. Resting # failed
        <4>1. Resting.at = "rest" /\ failed.at = "failed"
          BY DEF Resting
        <4> QED  BY <4>1
      <3> QED  BY <2>3, <3>1 DEF store_fails
    <2> QED  BY <2>1, <2>2, <2>3
  <1>3. job[t] \in Jobs /\ job[t].at # "rest"
    BY <1>1, Updating
  <1>4. stoppages' \in Nat \X Nat /\ stoppages'[1] # 0
    BY <1>1 DEF Inductive, LoopTypes
  <1>5. failed \in Jobs /\ dead \in Jobs /\ Resting \in Jobs
    BY <1>3, RestingType, TouchFits DEF Resting, Jobs, Places
  <1>6. /\ failed.phase = "copy" /\ failed.at = "failed" /\ failed.todo = <<Touch>>
        /\ dead.phase = "copy" /\ dead.at = "dead" /\ dead.todo = <<>>
        /\ Resting.phase = "copy" /\ Resting.at = "rest" /\ Resting.todo = <<>>
    BY DEF Resting
  <1> HIDE DEF failed, dead
  <1>7. j \in Jobs /\ OrderlyJob(j) /\ j.phase = "copy" /\ Fits(health, j.todo)
    BY <1>2, <1>5, <1>6, TouchFits DEF OrderlyJob, Fits
  <1>8. LoopTypes' /\ Orderly'
    BY <1>1, <1>2, <1>4, <1>7, Types DEF Inductive, LoopTypes
  <1>9. ASSUME ~mixed PROVE Undivided'
    <2>1. Undivided /\ \A u \in Threads \ {t} : job[u].at = "rest"
      BY <1>3, <1>9, OthersRest DEF Inductive
    <2>2. SoundJob(j, health')
      BY <1>1, <1>7 DEF SoundJob, Base, Due
    <2>3. t = Scheduler => Quiet(j, health')
      <3>1. t = Scheduler /\ j = failed => health.circuit # "open"
        BY <1>2, <2>1 DEF Undivided, Quiet
      <3>2. CASE t = Scheduler /\ j = failed
        BY <1>1, <1>6, <3>1, <3>2, CycleQuiet
      <3>3. CASE j = dead
        BY <1>6, <3>3, CycleQuiet
      <3>4. CASE j = Resting
        BY <1>6, <3>4, CycleQuiet
      <3> QED  BY <1>2, <3>2, <3>3, <3>4
    <2>4. Sound(health') /\ Sound(stored')
      BY <1>1, <2>1 DEF Undivided
    <2> QED  BY <1>2, <1>4, <1>7, <2>1, <2>2, <2>3, <2>4, Assembled
  <1> QED  BY <1>1, <1>8, <1>9 DEF Inductive

\* Nothing but the sweeps looks at the cooldown.
LEMMA CooldownInductive ==
  ASSUME Inductive, cooldown_ends
  PROVE  Inductive'
  <1>1. /\ health' = Cooled(health) /\ stored' = Cooled(stored)
        /\ job' = [t \in Threads |-> [job[t] EXCEPT !.copy = Cooled(@)]]
        /\ UNCHANGED <<stoppages, mixed>>
    BY DEF cooldown_ends
  <1>2. health \in Healths /\ stored \in Healths /\ job \in [Threads -> Jobs]
    BY DEF Inductive, LoopTypes
  <1>3. /\ health' \in Healths /\ health'.circuit = health.circuit
        /\ health'.failures = health.failures
        /\ stored' \in Healths /\ stored'.circuit = stored.circuit
        /\ stored'.failures = stored.failures
    BY <1>1, <1>2, CooledFields
  <1>4. ASSUME NEW t \in Threads
        PROVE  /\ job'[t] \in Jobs /\ job'[t].at = job[t].at /\ job'[t].todo = job[t].todo
               /\ job'[t].phase = job[t].phase /\ job'[t].copy = Cooled(job[t].copy)
               /\ job'[t].copy.circuit = job[t].copy.circuit
               /\ job'[t].copy.failures = job[t].copy.failures
    <2>1. job[t] \in Jobs /\ job[t].copy \in Healths
      BY <1>2 DEF Jobs
    <2>2. job'[t] = [job[t] EXCEPT !.copy = Cooled(job[t].copy)]
      BY <1>1
    <2>3. /\ Cooled(job[t].copy) \in Healths
          /\ Cooled(job[t].copy).circuit = job[t].copy.circuit
          /\ Cooled(job[t].copy).failures = job[t].copy.failures
      BY <2>1, CooledFields
    <2> QED  BY <2>1, <2>2, <2>3 DEF Jobs
  <1>5. job' \in [Threads -> Jobs]
    <2>1. job' = [t \in Threads |-> job'[t]]
      BY <1>1
    <2> QED  BY <1>4, <2>1
  <1>6. LoopTypes' /\ Orderly'
    BY <1>1, <1>3, <1>4, <1>5 DEF Inductive, LoopTypes, Orderly, OrderlyJob
  <1>7. ASSUME ~mixed PROVE Undivided'
    <2>1. Undivided
      BY <1>7 DEF Inductive
    <2>2. Alone'
      BY <1>4, <2>1 DEF Undivided, Alone
    <2>3. Saved'
      BY <1>1, <1>4, <2>1 DEF Undivided, Saved
    <2>4. Sound(health)' /\ Sound(stored)'
      BY <1>3, <2>1 DEF Undivided, Sound
    <2>5. ASSUME NEW t \in Threads
          PROVE  /\ Due(job'[t]) = Due(job[t])
                 /\ Base(job'[t], health').circuit = Base(job[t], health).circuit
                 /\ Base(job'[t], health').failures = Base(job[t], health).failures
      BY <1>3, <1>4 DEF Due, Base
    <2>6. ASSUME NEW t \in Threads PROVE SoundJob(job'[t], health')
      <3>1. Fits(Base(job'[t], health'), Due(job'[t]))
        BY <2>1, <2>5 DEF Undivided, SoundJob, Fits
      <3> QED  BY <1>4, <2>1, <3>1 DEF Undivided, SoundJob, Sound
    <2>7. Quiet(job'[Scheduler], health')
      BY <1>3, <1>4, <2>1, <2>5 DEF Undivided, Quiet, Threads
    <2>8. (\A t \in Threads : SoundJob(job[t], health))' /\ Quiet(job[Scheduler], health)'
      BY <2>6, <2>7 DEF SoundJob, Fits, Base, Due, Quiet, Sound
    <2> QED  BY <2>2, <2>3, <2>4, <2>8 DEF Undivided
  <1> QED  BY <1>1, <1>6, <1>7 DEF Inductive

\* All threads rest, and memory and storage agree.
LEMMA Fresh ==
  ASSUME LoopAssumption, health \in Healths, stored = health,
         job = [t \in Threads |-> Resting],
         stoppages \in Nat \X Nat, mixed \in BOOLEAN, ~mixed => Sound(health)
  PROVE  Inductive
  <1>1. /\ Resting \in Jobs /\ Resting.at = "rest" /\ Resting.todo = <<>>
        /\ Resting.phase = "copy" /\ OrderlyJob(Resting)
    BY RestingType DEF Resting, OrderlyJob
  <1>2. \A t \in Threads : job[t] = Resting
    OBVIOUS
  <1>3. LoopTypes /\ Orderly
    BY <1>1, <1>2 DEF LoopTypes, Orderly
  <1>4. Alone /\ Saved
    BY <1>1, <1>2 DEF Alone, Saved
  <1>5. (\A t \in Threads : SoundJob(job[t], health)) /\ Quiet(job[Scheduler], health)
    BY <1>1, <1>2, AtRest DEF Threads
  <1> QED  BY <1>3, <1>4, <1>5 DEF Inductive, Undivided

LEMMA InitInductive ==
  ASSUME LoopAssumption, LoopInit
  PROVE  Inductive
  <1>1. Sound(Healthy) /\ Healthy \in Healths
    BY HealthyType DEF Sound, Healthy
  <1> QED  BY <1>1, Fresh DEF LoopInit

\* The process starts with the record that was stored.
LEMMA RestartInductive ==
  ASSUME LoopAssumption, Inductive, restart_loop
  PROVE  Inductive'
  <1>1. /\ health' = stored /\ job' = [t \in Threads |-> Resting]
        /\ stoppages' = [stoppages EXCEPT ![2] = @ + 1] /\ UNCHANGED <<stored, mixed>>
    BY DEF restart_loop
  <1>2. stored \in Healths /\ stoppages' \in Nat \X Nat /\ mixed \in BOOLEAN
    BY <1>1 DEF Inductive, LoopTypes
  <1>3. /\ Resting \in Jobs /\ Resting.at = "rest" /\ Resting.todo = <<>>
        /\ Resting.phase = "copy" /\ OrderlyJob(Resting)
    BY RestingType DEF Resting, OrderlyJob
  <1>4. \A t \in Threads : job'[t] = Resting
    BY <1>1
  <1>5. LoopTypes' /\ Orderly'
    BY <1>1, <1>2, <1>3, <1>4 DEF LoopTypes, Orderly, OrderlyJob
  <1>6. ASSUME ~mixed PROVE Undivided'
    <2>1. Sound(health)' /\ Sound(stored)'
      BY <1>1, <1>6 DEF Inductive, Undivided, Sound
    <2>2. Alone' /\ Saved'
      BY <1>1, <1>3, <1>4 DEF Alone, Saved
    <2>3. (\A t \in Threads : SoundJob(job'[t], health')) /\ Quiet(job'[Scheduler], health')
      BY <1>3, <1>4, AtRest DEF Threads
    <2>4. (\A t \in Threads : SoundJob(job[t], health))' /\ Quiet(job[Scheduler], health)'
      BY <2>3 DEF SoundJob, Fits, Base, Due, Quiet, Sound
    <2> QED  BY <2>1, <2>2, <2>4 DEF Undivided
  <1> QED  BY <1>1, <1>5, <1>6 DEF Inductive

-----------------------------------------------------------------------------
(***************************************************************************)
(* The theorems.                                                           *)
(***************************************************************************)
\* The invariant holds, whatever updates of the loop and of manual runs interleave
\* (SupervisorLoopService, _update_health_state).
THEOREM InductiveInvariant ==
  ASSUME LoopAssumption
  PROVE  LoopSpec => []Inductive
  <1>1. LoopInit => Inductive
    BY InitInductive
  <1>2. Inductive /\ [LoopNext]_loopVars => Inductive'
    <2> SUFFICES ASSUME Inductive, [LoopNext]_loopVars PROVE Inductive'
      OBVIOUS
    <2>1. ASSUME NEW t \in Threads,
                 copy_health(t) \/ replace_health(t) \/ reread_health(t) \/ store_health(t)
          PROVE  Inductive'
      BY <2>1, CopyInductive, ReplaceInductive, RereadInductive, StoreInductive
    <2>2. CASE poll
      BY <2>2, PollInductive
    <2>3. CASE begin_cycle
      BY <2>3, BeginInductive
    <2>4. CASE rest \/ \E t \in Operators : manual_over(t)
      BY <2>4, RestInductive
    <2>5. CASE attempt_succeeds \/ attempt_fails
      BY <2>5, AttemptInductive
    <2>6. CASE after_failure
      BY <2>6, FailureInductive
    <2>7. ASSUME NEW t \in Operators, manual(t) PROVE Inductive'
      BY <2>7, ManualInductive
    <2>8. ASSUME NEW t \in Threads, store_fails(t) PROVE Inductive'
      BY <2>8, FaultInductive
    <2>9. CASE cooldown_ends
      BY <2>9, CooldownInductive
    <2>10. CASE restart_loop
      BY <2>10, RestartInductive
    <2>11. CASE UNCHANGED loopVars
      BY <2>11 DEF loopVars, Inductive, LoopTypes, Orderly, OrderlyJob, Undivided, Alone, Saved,
                   Sound, SoundJob, Fits, Base, Due, Quiet
    <2> QED  BY <2>1, <2>2, <2>3, <2>4, <2>5, <2>6, <2>7, <2>8, <2>9, <2>10, <2>11
             DEF LoopNext, SchedulerStep, OperatorStep, Threads
  <1> QED  BY <1>1, <1>2, PTL DEF LoopSpec

\* Unless threads mixed their updates, the circuit opens only after the threshold of
\* exhausted cycles, no sweep is attempted while it is open, and a restart takes up
\* the circuit as it was (_run_background_cycle, _circuit_open, __post_init__).
THEOREM CircuitSafe ==
  ASSUME LoopAssumption
  PROVE  LoopSpec => []CircuitIsSound
  <1>1. Inductive => CircuitIsSound
    <2> SUFFICES ASSUME Inductive PROVE CircuitIsSound
      OBVIOUS
    <2>1. LoopTypeOK
      BY DEF Inductive, LoopTypes, Orderly, OrderlyJob, LoopTypeOK, Healths, Jobs
    <2>2. OpenMeansExhausted
      BY DEF Inductive, Undivided, Sound, OpenMeansExhausted
    <2>3. OpenIsQuiet
      BY DEF Inductive, Undivided, Quiet, OpenIsQuiet
    <2>4. RestartTakesUpHealth
      BY DEF Inductive, Undivided, Saved, RestartTakesUpHealth
    <2> QED  BY <2>1, <2>2, <2>3, <2>4 DEF CircuitIsSound
  <1> QED  BY <1>1, InductiveInvariant, PTL

(***************************************************************************)
(* The inductive invariant of the agents' supervisor, in three parts, each *)
(* resting on the ones before it: who runs what, the task rows of a run,   *)
(* and the memory that the runs of an event share.                         *)
(***************************************************************************)
Stages ==
  {"idle", "publish", "insert", "lease", "enter", "raised", "ack", "dead"}
    \cup StartStages \cup TriedStages
NewStages == {"publish", "insert", "lease", "enter"} \cup StartStages
LoadedStages == {"list", "supersede"} \cup TriedStages
StepStages == AgentStages \cup {"fail"}

TriggerRows ==
  [event : Events, type : TriggerTypes,
   status : {"pending", "leased", "processed", "failed"}, covered : BOOLEAN]
TaskRows == [Agents -> {"none", "pending", "running", "completed", "failed", "superseded"}]
RunReports == [status : {"none", "completed", "failed"}, created : SUBSET Agents,
               thread : Callers]
Memories == [folded : SUBSET (Agents \cup {"none"}), gate : BOOLEAN]
RunRecords ==
  [stage : Stages, event : Events, type : TriggerTypes \cup {"sweep"}, trigger : Nat,
   steps : Seq(Agents), agent : Agents \cup {"none"}, outcome : {"go", "stop", "gate"},
   created : SUBSET Agents, failed : BOOLEAN, gate : BOOLEAN, shared : Memories,
   victims : SUBSET (Callers \X Agents), base : Nat]

SupervisorTypes ==
  /\ triggers \in Seq(TriggerRows)
  /\ tasks \in [Callers -> [Events -> TaskRows]]
  /\ report \in [Events -> RunReports]
  /\ memory \in [Events -> Memories]
  /\ work \in [Callers -> RunRecords]
  /\ data \in [Events -> Nat] /\ seen \in [Events -> Nat]
  /\ verdict \in [Events -> BOOLEAN]
  /\ {recorded, active, reader, doubled, wiped, leaked} \subseteq SUBSET Events

\* The steps an agent leaves to be taken, while it is at work and once it is done.
Left(agent) ==
  CASE agent = "EXPOSURE" -> {<<"RESOURCE">>, <<"PLANNING">>}
    [] agent = "RESOURCE" -> {<<>>, <<"PLANNING">>}
    [] agent = "PLANNING" -> {<<>>, <<"PLANNING">>}
    [] OTHER              -> {<<>>}
Ahead(agent) ==
  CASE agent = "none" -> {<<>>, <<"HAZARD">>, <<"RESOURCE", "PLANNING">>,
                          <<"EXPOSURE", "PLANNING">>}
    [] agent = "HAZARD"   -> {<<>>, <<"EXPOSURE", "RESOURCE">>}
    [] agent = "EXPOSURE" -> {<<"RESOURCE">>, <<"PLANNING">>, <<"RESOURCE", "PLANNING">>,
                              <<"PLANNING", "PLANNING">>}
    [] agent = "RESOURCE" -> {<<>>, <<"PLANNING">>, <<"PLANNING", "PLANNING">>}
    [] agent = "PLANNING" -> {<<>>, <<"PLANNING">>, <<"POLICY">>, <<"PLANNING", "POLICY">>}
    [] agent = "POLICY"   -> {<<>>, <<"COMMS">>}
    [] OTHER              -> {<<>>}

\* What a thread is doing fits together by itself, and with the trigger it is about.
OrderlyRun(w) ==
  /\ w.stage \in {"publish", "insert"} => w.type \in TriggerTypes
  /\ w.stage \in NewStages => w.created = {} /\ ~w.failed /\ w.agent = "none"
  /\ w.stage \in StepStages => w.agent \in w.created /\ w.steps \in Left(w.agent)
  /\ w.stage = "next" =>
       /\ w.steps \in Ahead(w.agent)
       /\ IF w.agent = "none" THEN w.created = {} ELSE w.agent \in w.created
  /\ w.base <= data[w.event]
  /\ w.stage = "lease" => w.trigger # NoTrigger
  /\ w.trigger # NoTrigger =>
       w.trigger \in DOMAIN triggers /\ triggers[w.trigger].event = w.event
  /\ w.stage = "ack" /\ w.trigger # NoTrigger =>
       triggers[w.trigger].covered \/ w.event \in leaked

\* A run under way marks its event and covers the event's triggers.
MarkedRun(t) ==
  \A e \in Events :
    Running(t, e) =>
      /\ e \in active \cup doubled
      /\ \A i \in DOMAIN triggers : triggers[i].event = e => triggers[i].covered

RunsInvariant ==
  /\ SupervisorTypes
  /\ \A t \in Callers : OrderlyRun(work[t]) /\ MarkedRun(t)
  /\ OneRunPerEvent
  /\ ActiveHasRunner
  /\ \A e \in Events : seen[e] <= data[e]

\* The rows of a run: all tasks but the one at work are completed, unless one failed.
RowsOfRun(t) ==
  LET w == work[t]  rs == tasks[t][w.event] IN
    w.event \notin doubled =>
      /\ w.stage \in StepStages => rs[w.agent] # "superseded"
      /\ w.stage \in AgentStages \cup {"next"} /\ ~w.failed =>
           \A a \in w.created :
             rs[a] = "completed" \/ (a = w.agent /\ w.stage \in {"claim", "run", "complete"})
\* Once the report is written nothing of the run is left to do.
ReportedRun(t) ==
  LET w == work[t] IN
    Running(t, w.event) /\ w.event \notin doubled =>
      w.stage = "leave" \/ report[w.event].status = "none"

RowsInvariant ==
  /\ \A t \in Callers : RowsOfRun(t) /\ ReportedRun(t)
  /\ CompletedRunsFinished

\* What a run holds of the memory is what is stored, while nobody else writes it.
Untouched(e) == e \notin doubled \cup wiped
MemoryOfRun(t) ==
  LET w == work[t]  e == w.event IN
    /\ w.stage \in LoadedStages => memory[e] # NoMemory
    /\ w.stage \in {"fold", "stop"} => w.shared.folded \subseteq Agents
    /\ w.stage = "create" => ~w.gate
    /\ w.stage \in {"complete", "apply", "fold"} /\ w.agent = "POLICY" =>
         w.gate = (w.outcome = "gate")
    /\ Untouched(e) =>
         /\ w.stage \in {"fold", "stop"} => w.shared = memory[e]
         /\ w.stage \in AgentStages \cup {"next"} /\ ~w.failed =>
              \A a \in w.created :
                \/ a \in memory[e].folded
                \/ (a = w.agent /\ w.stage \in {"claim", "run", "complete", "apply", "fold"})
         \* The policy agent comes last: if its result was lost no other follows.
         /\ w.stage \in {"create"} \cup LoadedStages =>
              \/ w.gate = verdict[e]
              \/ /\ w.agent = "POLICY" /\ w.steps = <<>>
                 /\ w.stage \in {"complete", "apply", "fold", "fail", "next", "raise", "leave"}

MemoryInvariant ==
  /\ \A t \in Callers : MemoryOfRun(t)
  /\ \A e \in Events : IF memory[e] = NoMemory THEN ~verdict[e]
                       ELSE memory[e].folded \subseteq Agents
  /\ MemoryKeepsResults
  /\ GateIsLastVerdict

(***************************************************************************)
(* Types.                                                                  *)
(***************************************************************************)
LEMMA EventOfRun ==
  ASSUME SupervisorTypes, NEW t \in Callers
  PROVE  work[t] \in RunRecords /\ work[t].event \in Events
BY DEF SupervisorTypes, RunRecords

LEMMA IdleIsARecord == Idle \in RunRecords
<1>1. (CHOOSE e \in Events : TRUE) \in Events
  BY SupervisorAssumption
<1>2. <<>> \in Seq(Agents) /\ EmptyMemory \in Memories
  BY DEF EmptyMemory, Memories
<1> QED BY <1>1, <1>2 DEF Idle, RunRecords, Stages, NoTrigger

LEMMA GotoIsARecord ==
  ASSUME NEW w \in RunRecords, NEW stage \in Stages
  PROVE  [w EXCEPT !.stage = stage] \in RunRecords
BY DEF RunRecords

LEMMA WorkStays ==
  ASSUME SupervisorTypes, NEW t \in Callers, NEW j \in RunRecords, work' = [work EXCEPT ![t] = j]
  PROVE  work' \in [Callers -> RunRecords]
BY DEF SupervisorTypes

LEMMA TriggerTyped ==
  ASSUME SupervisorTypes, NEW i \in DOMAIN triggers
  PROVE  triggers[i] \in TriggerRows
BY DEF SupervisorTypes

LEMMA TriggerSet ==
  ASSUME SupervisorTypes, NEW i \in DOMAIN triggers,
         NEW status \in {"leased", "processed", "failed"}, SetTrigger(i, status)
  PROVE  /\ triggers' \in Seq(TriggerRows) /\ DOMAIN triggers' = DOMAIN triggers
         /\ \A n \in DOMAIN triggers :
              /\ triggers'[n].event = triggers[n].event
              /\ triggers'[n].covered = triggers[n].covered
              /\ triggers'[n].status = IF n = i THEN status ELSE triggers[n].status
<1>1. triggers \in Seq(TriggerRows) /\ triggers[i] \in TriggerRows
  BY TriggerTyped DEF SupervisorTypes
<1>2. PICK row : row = [triggers[i] EXCEPT !.status = status]
  OBVIOUS
<1>3. /\ row \in TriggerRows /\ row.status = status
      /\ row.event = triggers[i].event /\ row.covered = triggers[i].covered
  BY <1>1, <1>2 DEF TriggerRows
<1>4. triggers' = [triggers EXCEPT ![i] = row]
  BY <1>2 DEF SetTrigger
<1> QED BY <1>1, <1>3, <1>4

\* One row of the tasks is written.
RowWritten(u, e, a, status) == tasks' = [tasks EXCEPT ![u][e][a] = status]
RowAfter(u, e, a, status) == [tasks[u][e] EXCEPT ![a] = status]

LEMMA RowSet ==
  ASSUME SupervisorTypes, NEW u \in Callers, NEW e \in Events, NEW a \in Agents,
         NEW status \in {"none", "pending", "running", "completed", "failed", "superseded"},
         RowWritten(u, e, a, status)
  PROVE  /\ tasks' \in [Callers -> [Events -> TaskRows]]
         /\ tasks'[u][e] = RowAfter(u, e, a, status)
         /\ \A v \in Callers, d \in Events : v # u \/ d # e => tasks'[v][d] = tasks[v][d]
<1>1. tasks \in [Callers -> [Events -> TaskRows]]
  BY DEF SupervisorTypes
<1>2. tasks[u] \in [Events -> TaskRows] /\ tasks[u][e] \in TaskRows
  BY <1>1
<1>3. PICK rs : rs = [tasks[u][e] EXCEPT ![a] = status]
  OBVIOUS
<1>4. rs \in TaskRows
  BY <1>2, <1>3 DEF TaskRows
<1>5. PICK us : us = [tasks[u] EXCEPT ![e] = rs]
  OBVIOUS
<1>6. us \in [Events -> TaskRows] /\ us[e] = rs /\ \A d \in Events \ {e} : us[d] = tasks[u][d]
  BY <1>2, <1>4, <1>5
<1>7. tasks' = [tasks EXCEPT ![u] = us]
  BY <1>3, <1>5 DEF RowWritten
<1>8. rs = RowAfter(u, e, a, status)
  BY <1>3 DEF RowAfter
<1> QED BY <1>1, <1>6, <1>7, <1>8

LEMMA InitialSteps ==
  ASSUME NEW type
  PROVE  initial_steps(type) \in Seq(Agents) /\ initial_steps(type) \in Ahead("none")
<1>1. initial_steps(type) \in {<<>>, <<"HAZARD">>, <<"RESOURCE", "PLANNING">>,
                              <<"EXPOSURE", "PLANNING">>}
  BY DEF initial_steps
<1>2. /\ <<>> \in Seq(Agents) /\ <<"HAZARD">> \in Seq(Agents)
      /\ <<"RESOURCE", "PLANNING">> \in Seq(Agents) /\ <<"EXPOSURE", "PLANNING">> \in Seq(Agents)
  BY DEF Agents
<1> QED BY <1>1, <1>2 DEF Ahead

LEMMA NextSteps ==
  ASSUME NEW type, NEW agent, NEW outcome
  PROVE  next_steps(type, agent, outcome) \in Seq(Agents)
<1>1. next_steps(type, agent, outcome) \in
        {<<>>, <<"EXPOSURE", "RESOURCE">>, <<"PLANNING">>, <<"POLICY">>, <<"COMMS">>}
  BY DEF next_steps
<1>2. /\ <<>> \in Seq(Agents) /\ <<"EXPOSURE", "RESOURCE">> \in Seq(Agents)
      /\ <<"PLANNING">> \in Seq(Agents) /\ <<"POLICY">> \in Seq(Agents)
      /\ <<"COMMS">> \in Seq(Agents)
  BY DEF Agents
<1> QED BY <1>1, <1>2

LEMMA TypesInit == AgentInit => SupervisorTypes
<1> SUFFICES ASSUME AgentInit PROVE SupervisorTypes
  OBVIOUS
<1> USE DEF AgentInit
<1>1. triggers \in Seq(TriggerRows)
  OBVIOUS
<1>2. tasks \in [Callers -> [Events -> TaskRows]]
  <2>1. NoRows \in TaskRows
    BY DEF NoRows, TaskRows
  <2> QED BY <2>1
<1>3. report \in [Events -> RunReports] /\ memory \in [Events -> Memories]
  <2>1. NoReport \in RunReports /\ EmptyMemory \in Memories /\ NoMemory \in Memories
    BY SupervisorAssumption DEF NoReport, RunReports, EmptyMemory, NoMemory, Memories
  <2> QED BY <2>1
<1>4. work \in [Callers -> RunRecords]
  BY IdleIsARecord
<1>5. data \in [Events -> Nat] /\ seen \in [Events -> Nat] /\ verdict \in [Events -> BOOLEAN]
  OBVIOUS
<1>6. {recorded, active, reader, doubled, wiped, leaked} \subseteq SUBSET Events
  BY SupervisorAssumption
<1> QED BY <1>1, <1>2, <1>3, <1>4, <1>5, <1>6 DEF SupervisorTypes

\* A step of one thread that changes nothing but where the thread is.
LEMMA MoveTypes ==
  ASSUME SupervisorTypes, NEW t \in Callers, NEW j \in RunRecords, work' = [work EXCEPT ![t] = j],
         UNCHANGED <<triggers, memory, active, reader, data, seen, rows, ghosts>>
  PROVE  SupervisorTypes'
BY WorkStays DEF SupervisorTypes, rows, ghosts

LEMMA RequestTypes ==
  ASSUME SupervisorTypes, NEW t \in Callers, NEW e \in Events, NEW type \in TriggerTypes,
         ingest(t, e, type)
  PROVE  SupervisorTypes'
<1>1. PICK j : j = [Idle EXCEPT !.stage = "publish", !.event = e, !.type = type]
  OBVIOUS
<1>2. j \in RunRecords
  BY <1>1, IdleIsARecord DEF RunRecords, Stages
<1>3. data' \in [Events -> Nat]
  BY DEF ingest, SupervisorTypes
<1>4. work' \in [Callers -> RunRecords]
  BY <1>1, <1>2, WorkStays DEF ingest
<1> QED BY <1>3, <1>4 DEF ingest, SupervisorTypes, rows, ghosts

LEMMA SweepTypes ==
  ASSUME SupervisorTypes, NEW t \in Callers, NEW e \in Events, tick(t, e)
  PROVE  SupervisorTypes'
<1>1. PICK j : j = [Idle EXCEPT !.stage = "enter", !.event = e]
  OBVIOUS
<1>2. j \in RunRecords
  BY <1>1, IdleIsARecord DEF RunRecords, Stages
<1> QED BY <1>1, <1>2, MoveTypes DEF tick

LEMMA PublishTypes ==
  ASSUME SupervisorTypes, NEW t \in Callers, publish(t)
  PROVE  SupervisorTypes'
<1>1. PICK j : j \in {[work[t] EXCEPT !.stage = "insert"], Idle} /\ work' = [work EXCEPT ![t] = j]
  BY DEF publish, Goto
<1>2. j \in RunRecords
  BY <1>1, IdleIsARecord, EventOfRun, GotoIsARecord DEF Stages
<1> QED BY <1>1, <1>2, MoveTypes DEF publish

LEMMA InsertTypes ==
  ASSUME SupervisorTypes, NEW t \in Callers, insert(t), OrderlyRun(work[t])
  PROVE  /\ SupervisorTypes'
         /\ Len(triggers') = Len(triggers) + 1 /\ DOMAIN triggers = 1..Len(triggers)
         /\ \A i \in DOMAIN triggers : triggers'[i] = triggers[i]
         /\ triggers'[Len(triggers) + 1] = Published(work[t].event, work[t].type)
<1>1. PICK j : j \in {[work[t] EXCEPT !.stage = "enter", !.trigger = Len(triggers) + 1], Idle}
               /\ work' = [work EXCEPT ![t] = j]
  BY DEF insert
<1>2. triggers \in Seq(TriggerRows) /\ Len(triggers) \in Nat
  BY DEF SupervisorTypes
<1>3. j \in RunRecords
  <2>1. Len(triggers) + 1 \in Nat
    BY <1>2
  <2>2. [work[t] EXCEPT !.stage = "enter", !.trigger = Len(triggers) + 1] \in RunRecords
    BY <2>1, EventOfRun DEF RunRecords, Stages
  <2> QED BY <1>1, <2>2, IdleIsARecord
<1>4. Published(work[t].event, work[t].type) \in TriggerRows
  BY EventOfRun DEF insert, OrderlyRun, Published, TriggerRows
<1>5. triggers' = Append(triggers, Published(work[t].event, work[t].type))
  BY DEF insert
<1>6. triggers' \in Seq(TriggerRows)
  BY <1>2, <1>4, <1>5
<1>7. SupervisorTypes'
  BY <1>1, <1>3, <1>6, WorkStays DEF insert, SupervisorTypes, rows, ghosts
<1> QED BY <1>2, <1>4, <1>5, <1>7

LEMMA LeaseTypes ==
  ASSUME SupervisorTypes, lease \/ \E i \in DOMAIN triggers : lease_read(i),
         OrderlyRun(work[LoopThread])
  PROVE  SupervisorTypes'
<1> USE SupervisorAssumption
<1>1. CASE lease
  <2>1. work[LoopThread].trigger \in DOMAIN triggers
    BY <1>1 DEF lease, OrderlyRun
  <2>2. triggers' \in Seq(TriggerRows)
    BY <1>1, <2>1, TriggerSet DEF lease
  <2>3. work' \in [Callers -> RunRecords]
    BY <1>1, EventOfRun, GotoIsARecord, WorkStays DEF lease, Goto, Stages
  <2> QED BY <1>1, <2>2, <2>3 DEF lease, SupervisorTypes, rows, ghosts
<1>2. ASSUME NEW i \in DOMAIN triggers, lease_read(i) PROVE SupervisorTypes'
  <2>1. PICK j : j = [Idle EXCEPT !.stage = "lease", !.event = triggers[i].event,
                                  !.type = triggers[i].type, !.trigger = i]
    OBVIOUS
  <2>2. triggers[i] \in TriggerRows /\ i \in Nat
    BY TriggerTyped DEF SupervisorTypes
  <2>3. j \in RunRecords
    BY <2>1, <2>2, IdleIsARecord DEF RunRecords, TriggerRows, Stages
  <2> QED BY <1>2, <2>1, <2>3, MoveTypes DEF lease_read
<1> QED BY <1>1, <1>2

LEMMA SettledTypes ==
  ASSUME SupervisorTypes, NEW t \in Callers, ack(t) \/ raised(t), OrderlyRun(work[t])
  PROVE  SupervisorTypes'
<1>1. work[t].trigger # NoTrigger => work[t].trigger \in DOMAIN triggers
  BY DEF OrderlyRun
<1>2. triggers' \in Seq(TriggerRows)
  BY <1>1, TriggerSet DEF ack, raised, SupervisorTypes
<1>3. work' \in [Callers -> RunRecords]
  BY IdleIsARecord, WorkStays DEF ack, raised
<1> QED BY <1>2, <1>3 DEF ack, raised, SupervisorTypes, rows, ghosts

LEMMA EnterTypes ==
  ASSUME SupervisorTypes, NEW t \in Callers, enter(t)
  PROVE  SupervisorTypes'
<1> DEFINE e == work[t].event
<1>1. e \in Events /\ work[t] \in RunRecords
  BY EventOfRun
<1>2. work' \in [Callers -> RunRecords]
  BY <1>1, GotoIsARecord, WorkStays DEF enter, Goto, Stages, StartStages
<1>3. CASE Busy(e)
  BY <1>2, <1>3 DEF enter, SupervisorTypes
<1>4. CASE ~Busy(e)
  <2>1. ASSUME NEW i \in DOMAIN triggers
        PROVE  (IF triggers[i].event = e THEN [triggers[i] EXCEPT !.covered = TRUE]
                ELSE triggers[i]) \in TriggerRows
    BY TriggerTyped DEF TriggerRows
  <2>2. triggers \in Seq(TriggerRows) /\ DOMAIN triggers = 1..Len(triggers) /\ Len(triggers) \in Nat
    BY DEF SupervisorTypes
  <2>3. triggers' \in Seq(TriggerRows)
    BY <1>4, <2>1, <2>2 DEF enter
  <2>4. report' \in [Events -> RunReports]
    <3>1. NoReport \in RunReports
      BY SupervisorAssumption DEF NoReport, RunReports
    <3> QED BY <1>4, <3>1 DEF enter, SupervisorTypes
  <2>5. tasks' \in [Callers -> [Events -> TaskRows]]
    <3>1. \A u \in Callers : tasks[u] \in [Events -> TaskRows] /\ tasks[u][e] \in TaskRows
      BY <1>1 DEF SupervisorTypes
    <3>2. \A rs \in TaskRows : OpenRows(rs) \in TaskRows
      BY DEF OpenRows, TaskRows, Open
    <3>3. \A u \in Callers : [tasks[u] EXCEPT ![e] = OpenRows(@)] \in [Events -> TaskRows]
      BY <3>1, <3>2
    <3> QED BY <1>4, <3>1, <3>3 DEF enter
  <2>6. active' \subseteq Events /\ doubled' \subseteq Events
    BY <1>1, <1>4 DEF enter, SupervisorTypes
  <2> QED BY <1>2, <2>3, <2>4, <2>5, <2>6 DEF enter, SupervisorTypes
<1> QED BY <1>3, <1>4

LEMMA LoadTypes ==
  ASSUME SupervisorTypes, NEW t \in Callers,
         save_run(t) \/ load_memory(t) \/ create_memory(t) \/ list_open(t)
  PROVE  SupervisorTypes'
<1> DEFINE e == work[t].event
<1>1. e \in Events /\ work[t] \in RunRecords /\ memory[e] \in Memories
  BY EventOfRun DEF SupervisorTypes
<1>2. CASE save_run(t)
  <2>1. work' \in [Callers -> RunRecords]
    BY <1>1, <1>2, GotoIsARecord, WorkStays DEF save_run, Goto, Stages, StartStages
  <2> QED BY <1>1, <1>2, <2>1 DEF save_run, SupervisorTypes, ghosts
<1>3. CASE load_memory(t)
  <2>1. PICK j : j = [work[t] EXCEPT !.stage = IF memory[e] = NoMemory THEN "create" ELSE "list",
                                     !.gate = memory[e].gate]
    OBVIOUS
  <2>2. j \in RunRecords
    BY <1>1, <2>1 DEF RunRecords, Memories, Stages, StartStages
  <2>3. work' = [work EXCEPT ![t] = j]
    BY <1>3, <2>1 DEF load_memory
  <2>4. UNCHANGED <<triggers, memory, active, reader, data, seen, rows, ghosts>>
    BY <1>3 DEF load_memory
  <2> QED BY <2>2, <2>3, <2>4, MoveTypes
<1>4. CASE create_memory(t)
  <2>1. work' \in [Callers -> RunRecords]
    BY <1>1, <1>4, GotoIsARecord, WorkStays DEF create_memory, Goto, Stages, StartStages
  <2>2. memory' \in [Events -> Memories]
    BY <1>4 DEF create_memory, EmptyMemory, Memories, SupervisorTypes
  <2> QED BY <1>4, <2>1, <2>2 DEF create_memory, SupervisorTypes, rows, ghosts
<1>5. CASE list_open(t)
  <2>1. PICK vs : vs = {v \in Callers \X Agents : tasks[v[1]][e][v[2]] \in Open}
    OBVIOUS
  <2>2. PICK j : j = [work[t] EXCEPT !.stage = "supersede", !.victims = vs]
    OBVIOUS
  <2>3. vs \subseteq Callers \X Agents
    BY <2>1
  <2>4. j \in RunRecords
    BY <1>1, <2>2, <2>3 DEF RunRecords, Stages, StartStages
  <2>5. work' = [work EXCEPT ![t] = j]
    BY <1>5, <2>1, <2>2 DEF list_open
  <2> QED BY <1>5, <2>4, <2>5, MoveTypes DEF list_open
<1> QED BY <1>2, <1>3, <1>4, <1>5

LEMMA SupersedeTypes ==
  ASSUME SupervisorTypes, NEW t \in Callers, NEW v \in Callers \X Agents, supersede(t, v)
  PROVE  SupervisorTypes'
<1>1. work[t] \in RunRecords /\ work[t].event \in Events
  BY EventOfRun
<1>2. PICK vs : vs = work[t].victims \ {v}
  OBVIOUS
<1>3. vs \subseteq Callers \X Agents
  BY <1>1, <1>2 DEF RunRecords
<1>4. PICK j : j = [work[t] EXCEPT !.victims = vs]
  OBVIOUS
<1>5. j \in RunRecords
  BY <1>1, <1>3, <1>4 DEF RunRecords
<1>6. work' \in [Callers -> RunRecords]
  BY <1>2, <1>4, <1>5, WorkStays DEF supersede
<1>7. tasks' \in [Callers -> [Events -> TaskRows]]
  <2>1. v[1] \in Callers /\ v[2] \in Agents
    OBVIOUS
  <2>2. RowWritten(v[1], work[t].event, v[2], "superseded")
    BY DEF supersede, RowWritten
  <2> QED BY <1>1, <2>1, <2>2, RowSet
<1> QED BY <1>6, <1>7 DEF supersede, SupervisorTypes, ghosts

LEMMA StartTypes ==
  ASSUME SupervisorTypes, NEW t \in Callers, start_graph(t)
  PROVE  SupervisorTypes'
<1>1. work[t] \in RunRecords /\ work[t].event \in Events
  BY EventOfRun
<1>2. PICK steps : steps = initial_steps(work[t].type)
  OBVIOUS
<1>3. PICK j : j = [work[t] EXCEPT !.stage = "next", !.steps = steps]
  OBVIOUS
<1>4. j \in RunRecords
  BY <1>1, <1>2, <1>3, InitialSteps DEF RunRecords, Stages, TriedStages
<1>5. work' \in [Callers -> RunRecords]
  BY <1>2, <1>3, <1>4, WorkStays DEF start_graph
<1>6. tasks' \in [Callers -> [Events -> TaskRows]]
  <2>1. NoRows \in TaskRows
    BY DEF NoRows, TaskRows
  <2>2. PICK us : us = [tasks[t] EXCEPT ![work[t].event] = NoRows]
    OBVIOUS
  <2>3. us \in [Events -> TaskRows]
    BY <2>1, <2>2 DEF SupervisorTypes
  <2>4. tasks' = [tasks EXCEPT ![t] = us]
    BY <2>2 DEF start_graph
  <2> QED BY <2>3, <2>4 DEF SupervisorTypes
<1>7. memory' \in [Events -> Memories]
  <2>1. PICK m : m = [memory[work[t].event] EXCEPT !.folded = {}]
    OBVIOUS
  <2>2. m \in Memories
    BY <1>1, <2>1 DEF Memories, SupervisorTypes
  <2>3. memory' = [memory EXCEPT ![work[t].event] = m]
    BY <2>1 DEF start_graph
  <2> QED BY <2>2, <2>3 DEF SupervisorTypes
<1> QED BY <1>5, <1>6, <1>7 DEF start_graph, SupervisorTypes, ghosts

\* What enqueue does, for the step it takes.
Enqueued(t, k, j) ==
  /\ k \in DOMAIN work[t].steps /\ work[t].steps[k] \in Agents \ work[t].created
  /\ \A i \in 1..(k - 1) : work[t].steps[i] \in work[t].created
  /\ tasks' = [tasks EXCEPT ![t][work[t].event][work[t].steps[k]] = "pending"]
  /\ j \in RunRecords /\ work' = [work EXCEPT ![t] = j]
  /\ j = [work[t] EXCEPT !.stage = "claim", !.agent = work[t].steps[k],
                         !.steps = SubSeq(work[t].steps, k + 1, Len(work[t].steps)),
                         !.created = work[t].created \cup {work[t].steps[k]}]

LEMMA EnqueueStep ==
  ASSUME SupervisorTypes, NEW t \in Callers, enqueue(t)
  PROVE  \E k, j : Enqueued(t, k, j)
<1>1. work[t] \in RunRecords /\ work[t].event \in Events /\ work[t].steps \in Seq(Agents)
  BY EventOfRun DEF RunRecords
<1>2. PICK k \in DOMAIN work[t].steps :
        /\ work[t].steps[k] \notin work[t].created
        /\ \A i \in 1..(k - 1) : work[t].steps[i] \in work[t].created
        /\ tasks' = [tasks EXCEPT ![t][work[t].event][work[t].steps[k]] = "pending"]
        /\ work' = [work EXCEPT ![t].stage = "claim", ![t].agent = work[t].steps[k],
                                ![t].steps = SubSeq(@, k + 1, Len(@)),
                                ![t].created = @ \cup {work[t].steps[k]}]
  BY DEF enqueue
<1>3. PICK j : j = [work[t] EXCEPT !.stage = "claim", !.agent = work[t].steps[k],
                         !.steps = SubSeq(work[t].steps, k + 1, Len(work[t].steps)),
                         !.created = work[t].created \cup {work[t].steps[k]}]
  OBVIOUS
<1>4. work[t].steps[k] \in Agents /\ k \in Nat /\ Len(work[t].steps) \in Nat
  BY <1>1
<1>5. SubSeq(work[t].steps, k + 1, Len(work[t].steps)) \in Seq(Agents)
  BY <1>1, <1>4
<1>6. j \in RunRecords
  BY <1>1, <1>3, <1>4, <1>5 DEF RunRecords, Stages, TriedStages, AgentStages
<1>7. work' = [work EXCEPT ![t] = j]
  BY <1>2, <1>3
<1> QED BY <1>2, <1>3, <1>4, <1>6, <1>7 DEF Enqueued

LEMMA EnqueueTypes ==
  ASSUME SupervisorTypes, NEW t \in Callers, enqueue(t)
  PROVE  SupervisorTypes'
<1>1. PICK k, j : Enqueued(t, k, j)
  BY EnqueueStep
<1>2. work' \in [Callers -> RunRecords]
  BY <1>1, WorkStays DEF Enqueued
<1>3. tasks' \in [Callers -> [Events -> TaskRows]]
  <2>1. work[t].steps[k] \in Agents /\ work[t].event \in Events
    BY <1>1, EventOfRun DEF Enqueued
  <2>2. RowWritten(t, work[t].event, work[t].steps[k], "pending")
    BY <1>1 DEF Enqueued, RowWritten
  <2> QED BY <2>1, <2>2, RowSet
<1> QED BY <1>2, <1>3 DEF enqueue, SupervisorTypes, ghosts

LEMMA TaskTypes ==
  ASSUME SupervisorTypes, NEW t \in Callers, claim(t) \/ complete(t) \/ fail_task(t),
         OrderlyRun(work[t])
  PROVE  SupervisorTypes'
<1>1. work[t] \in RunRecords /\ work[t].event \in Events /\ work[t].agent \in Agents
  BY EventOfRun DEF OrderlyRun, StepStages, AgentStages, RunRecords, claim, complete, fail_task
<1>2. PICK j : /\ work' = [work EXCEPT ![t] = j]
               /\ j \in {[work[t] EXCEPT !.stage = "run"], [work[t] EXCEPT !.stage = "apply"],
                         [work[t] EXCEPT !.stage = "next", !.failed = TRUE]}
  BY DEF claim, complete, fail_task, Goto
<1>3. j \in RunRecords
  <2>1. [work[t] EXCEPT !.stage = "next", !.failed = TRUE] \in RunRecords
    BY <1>1 DEF RunRecords, Stages, TriedStages
  <2> QED BY <1>1, <1>2, <2>1, GotoIsARecord DEF Stages, TriedStages, AgentStages
<1>4. work' \in [Callers -> RunRecords]
  BY <1>2, <1>3, WorkStays
<1>5. tasks' \in [Callers -> [Events -> TaskRows]]
  <2>1. PICK status : /\ status \in {"running", "completed", "failed"}
                      /\ tasks' = [tasks EXCEPT ![t][work[t].event][work[t].agent] = status]
    BY DEF claim, complete, fail_task, SetTask
  <2>2. RowWritten(t, work[t].event, work[t].agent, status)
    BY <2>1 DEF RowWritten
  <2> QED BY <1>1, <2>1, <2>2, RowSet
<1> QED BY <1>4, <1>5 DEF claim, complete, fail_task, SupervisorTypes, ghosts

LEMMA RunTypes ==
  ASSUME SupervisorTypes, NEW t \in Callers, NEW o \in Outcomes(work[t].agent), run_agent(t, o)
  PROVE  SupervisorTypes'
<1>1. work[t] \in RunRecords /\ work[t].event \in Events /\ data[work[t].event] \in Nat
  BY EventOfRun DEF SupervisorTypes
<1>2. o \in {"go", "stop", "gate"}
  BY SupervisorAssumption DEF Outcomes
<1>3. PICK j : j = [work[t] EXCEPT
           !.stage = "complete", !.outcome = o,
           !.gate = IF work[t].agent = "POLICY" THEN o = "gate" ELSE work[t].gate,
           !.base = IF work[t].created = {work[t].agent} THEN data[work[t].event]
                    ELSE work[t].base]
  OBVIOUS
<1>4. PICK gate : gate = (IF work[t].agent = "POLICY" THEN o = "gate" ELSE work[t].gate)
  OBVIOUS
<1>5. gate \in BOOLEAN
  BY <1>1, <1>4 DEF RunRecords
<1>6. PICK base : base = (IF work[t].created = {work[t].agent} THEN data[work[t].event]
                          ELSE work[t].base)
  OBVIOUS
<1>7. base \in Nat
  BY <1>1, <1>6 DEF RunRecords
<1>8. j = [work[t] EXCEPT !.stage = "complete", !.outcome = o, !.gate = gate, !.base = base]
  BY <1>3, <1>4, <1>6
<1>9. j \in RunRecords
  BY <1>1, <1>2, <1>5, <1>7, <1>8 DEF RunRecords, Stages, TriedStages, AgentStages
<1>10. work' = [work EXCEPT ![t] = j]
  BY <1>3 DEF run_agent
<1> QED BY <1>9, <1>10, MoveTypes DEF run_agent

\* What apply_save does.
Applied(t, next, j) ==
  /\ next = next_steps(work[t].type, work[t].agent, work[t].outcome)
  /\ j \in RunRecords /\ work' = [work EXCEPT ![t] = j]
  /\ j = [work[t] EXCEPT !.stage = IF next = <<>> THEN "stop" ELSE "next",
                         !.shared = IF next = <<>> THEN Folded(work[t]) ELSE EmptyMemory,
                         !.outcome = "go", !.steps = work[t].steps \o next]
  /\ Folded(work[t]) \in Memories
  /\ memory' = [memory EXCEPT ![work[t].event] = Folded(work[t])]

LEMMA ApplyStep ==
  ASSUME SupervisorTypes, NEW t \in Callers, apply_save(t), OrderlyRun(work[t])
  PROVE  \E next, j : Applied(t, next, j)
<1>1. /\ work[t] \in RunRecords /\ work[t].event \in Events /\ work[t].steps \in Seq(Agents)
      /\ work[t].agent \in Agents
  BY EventOfRun DEF RunRecords, OrderlyRun, StepStages, AgentStages, apply_save
<1>2. PICK next : next = next_steps(work[t].type, work[t].agent, work[t].outcome)
  OBVIOUS
<1>3. next \in Seq(Agents)
  BY <1>2, NextSteps
<1>4. work[t].steps \o next \in Seq(Agents)
  BY <1>1, <1>3
<1>5. Folded(work[t]) \in Memories
  <2>1. work[t].shared \in Memories /\ work[t].gate \in BOOLEAN
    BY <1>1 DEF RunRecords
  <2> QED BY <1>1, <2>1 DEF Folded, Memories
<1>6. EmptyMemory \in Memories
  BY DEF EmptyMemory, Memories
<1>7. PICK shared : shared = (IF next = <<>> THEN Folded(work[t]) ELSE EmptyMemory)
  OBVIOUS
<1>8. shared \in Memories
  BY <1>5, <1>6, <1>7
<1>9. PICK stage : stage = (IF next = <<>> THEN "stop" ELSE "next")
  OBVIOUS
<1>10. stage \in Stages
  BY <1>9 DEF Stages, TriedStages, AgentStages
<1>11. PICK j : j = [work[t] EXCEPT !.stage = stage, !.shared = shared,
                                   !.outcome = "go", !.steps = work[t].steps \o next]
  OBVIOUS
<1>12. j \in RunRecords
  BY <1>1, <1>4, <1>8, <1>10, <1>11 DEF RunRecords
<1>13. j = [work[t] EXCEPT !.stage = IF next = <<>> THEN "stop" ELSE "next",
                         !.shared = IF next = <<>> THEN Folded(work[t]) ELSE EmptyMemory,
                         !.outcome = "go", !.steps = work[t].steps \o next]
  BY <1>7, <1>9, <1>11
<1>14. /\ work' = [work EXCEPT ![t] = j]
       /\ memory' = [memory EXCEPT ![work[t].event] = Folded(work[t])]
  BY <1>2, <1>13 DEF apply_save
<1> QED BY <1>2, <1>5, <1>12, <1>13, <1>14 DEF Applied

LEMMA ApplyTypes ==
  ASSUME SupervisorTypes, NEW t \in Callers, OrderlyRun(work[t]),
         apply_load(t) \/ apply_save(t) \/ save_stop(t)
  PROVE  SupervisorTypes'
<1>1. /\ work[t] \in RunRecords /\ work[t].event \in Events
      /\ memory[work[t].event] \in Memories
  BY EventOfRun DEF SupervisorTypes
<1>2. CASE apply_load(t)
  <2>1. PICK j : j = [work[t] EXCEPT !.stage = "fold", !.shared = memory[work[t].event]]
    OBVIOUS
  <2>2. j \in RunRecords
    BY <1>1, <2>1 DEF RunRecords, Stages, TriedStages, AgentStages
  <2> QED BY <1>2, <2>1, <2>2, MoveTypes DEF apply_load
<1>3. CASE apply_save(t)
  <2>1. PICK next, j : Applied(t, next, j)
    BY <1>3, ApplyStep
  <2>2. work' \in [Callers -> RunRecords]
    BY <2>1, WorkStays DEF Applied
  <2>3. memory' \in [Events -> Memories]
    BY <2>1 DEF Applied, SupervisorTypes
  <2>4. verdict' \in [Events -> BOOLEAN]
    BY <1>3 DEF apply_save, SupervisorTypes
  <2> QED BY <1>3, <2>2, <2>3, <2>4 DEF apply_save, SupervisorTypes, rows
<1>4. CASE save_stop(t)
  <2>1. PICK j : j = [work[t] EXCEPT !.stage = "next", !.shared = EmptyMemory]
    OBVIOUS
  <2>2. j \in RunRecords /\ work[t].shared \in Memories
    BY <1>1, <2>1 DEF RunRecords, Stages, TriedStages, EmptyMemory, Memories
  <2>3. work' \in [Callers -> RunRecords]
    <3>1. work' = [work EXCEPT ![t] = j]
      BY <1>4, <2>1 DEF save_stop
    <3> QED BY <2>2, <3>1, WorkStays
  <2>4. memory' \in [Events -> Memories]
    BY <1>4, <2>2 DEF save_stop, SupervisorTypes
  <2> QED BY <1>4, <2>3, <2>4 DEF save_stop, SupervisorTypes, rows, ghosts
<1> QED BY <1>2, <1>3, <1>4

LEMMA FinishTypes ==
  ASSUME SupervisorTypes, NEW t \in Callers, finish(t)
  PROVE  SupervisorTypes'
<1>1. work[t] \in RunRecords /\ work[t].event \in Events
  BY EventOfRun
<1>2. work' \in [Callers -> RunRecords]
  BY <1>1, GotoIsARecord, WorkStays DEF finish, Goto, Stages, TriedStages
<1>3. report' \in [Events -> RunReports]
  <2>1. PICK r : r = [status |-> IF work[t].failed THEN "failed" ELSE "completed",
                      created |-> work[t].created, thread |-> t]
    OBVIOUS
  <2>2. r \in RunReports
    BY <1>1, <2>1 DEF RunReports, RunRecords
  <2>3. report' = [report EXCEPT ![work[t].event] = r]
    BY <2>1 DEF finish
  <2> QED BY <2>2, <2>3 DEF SupervisorTypes
<1>4. seen' \in [Events -> Nat]
  BY <1>1 DEF finish, RunRecords, SupervisorTypes
<1> QED BY <1>2, <1>3, <1>4 DEF finish, SupervisorTypes, ghosts

LEMMA LeaveTypes ==
  ASSUME SupervisorTypes, NEW t \in Callers, leave(t)
  PROVE  SupervisorTypes'
<1>1. work' \in [Callers -> RunRecords]
  BY EventOfRun, GotoIsARecord, WorkStays DEF leave, Goto, Stages
<1>2. active' \subseteq Events /\ leaked' \subseteq Events
  BY DEF leave, SupervisorTypes
<1> QED BY <1>1, <1>2 DEF leave, SupervisorTypes, rows

LEMMA StatusTypes ==
  ASSUME SupervisorTypes, NEW e \in Events, status_load(e) \/ status_save(e)
  PROVE  SupervisorTypes'
<1>1. reader' \subseteq Events /\ wiped' \subseteq Events
  BY DEF status_load, status_save, SupervisorTypes, ghosts
<1>2. memory' \in [Events -> Memories]
  <2>1. EmptyMemory \in Memories
    BY DEF EmptyMemory, Memories
  <2> QED BY <2>1 DEF status_load, status_save, SupervisorTypes
<1> QED BY <1>1, <1>2 DEF status_load, status_save, SupervisorTypes, rows, ghosts

\* Where an exception takes a thread.
LEMMA FaultStep ==
  ASSUME SupervisorTypes, NEW t \in Callers, fault(t)
  PROVE  \E j \in RunRecords :
           /\ work' = [work EXCEPT ![t] = j]
           /\ \/ j = Idle /\ work[t].stage \in {"publish", "insert"}
              \/ \E stage \in {"raised", "fail", "raise", "dead"} :
                   /\ j = [work[t] EXCEPT !.stage = stage]
                   /\ stage = "fail" => work[t].stage \in AgentStages
                   /\ stage = "raise" => work[t].stage \in {"next", "fail"}
                   /\ stage \in {"raised", "dead"} =>
                        work[t].stage \in StartStages \cup {"ack", "idle", "lease", "raised"}
<1>1. work[t] \in RunRecords
  BY EventOfRun
<1>2. \A stage \in {"raised", "fail", "raise", "dead"} :
        [work[t] EXCEPT !.stage = stage] \in RunRecords
  BY <1>1, GotoIsARecord DEF Stages, TriedStages
<1>3. PICK j : /\ work' = [work EXCEPT ![t] = j]
               /\ \/ j = Idle /\ work[t].stage \in {"publish", "insert"}
                  \/ \E stage \in {"raised", "fail", "raise", "dead"} :
                      /\ j = [work[t] EXCEPT !.stage = stage]
                      /\ stage = "fail" => work[t].stage \in AgentStages
                      /\ stage = "raise" => work[t].stage \in {"next", "fail"}
                      /\ stage \in {"raised", "dead"} =>
                          work[t].stage \in StartStages \cup {"ack", "idle", "lease", "raised"}
  BY DEF fault, Goto
<1>4. j \in RunRecords
  BY <1>2, <1>3, IdleIsARecord
<1> QED BY <1>3, <1>4

LEMMA FaultTypes ==
  ASSUME SupervisorTypes, NEW t \in Callers, fault(t)
  PROVE  SupervisorTypes'
<1>1. PICK j \in RunRecords : work' = [work EXCEPT ![t] = j]
  BY FaultStep
<1>2. leaked' \subseteq Events
  BY EventOfRun DEF fault, SupervisorTypes
<1> QED BY <1>1, <1>2, WorkStays DEF fault, SupervisorTypes, rows

LEMMA RestartTypes ==
  ASSUME SupervisorTypes, restart
  PROVE  SupervisorTypes'
<1>1. work' \in [Callers -> RunRecords]
  BY IdleIsARecord DEF restart
<1>2. report' \in [Events -> RunReports]
  <2>1. NoReport \in RunReports
    BY SupervisorAssumption DEF NoReport, RunReports
  <2> QED BY <2>1 DEF restart
<1>3. verdict' \in [Events -> BOOLEAN]
  <2>1. \A e \in Events : (IF e \in doubled \cup wiped THEN memory[e].gate ELSE verdict[e]) \in BOOLEAN
    BY DEF SupervisorTypes, Memories
  <2> QED BY <2>1 DEF restart
<1> QED BY <1>1, <1>2, <1>3 DEF restart, SupervisorTypes

(***************************************************************************)
(* Who runs what.                                                          *)
(***************************************************************************)
AtWork(w, e) == w.stage \in StartStages \cup TriedStages /\ w.event = e

\* Triggers keep their event and stay covered, data only grow, and a leak is
\* mended by a run that covers the event's triggers.
Grown ==
  /\ DOMAIN triggers \subseteq DOMAIN triggers'
  /\ \A i \in DOMAIN triggers :
       /\ triggers'[i].event = triggers[i].event
       /\ triggers[i].covered => triggers'[i].covered
       /\ triggers[i].event \in leaked => triggers[i].event \in leaked' \/ triggers[i].covered
  /\ \A e \in Events : data[e] <= data'[e] /\ seen'[e] <= data'[e]
NewAreCovered ==
  \A i \in DOMAIN triggers' \ DOMAIN triggers :
    triggers'[i].covered \/ \A u \in Callers : ~Running(u, triggers'[i].event)

LEMMA SameIsGrown ==
  ASSUME RunsInvariant, UNCHANGED <<triggers, data, seen, leaked>>
  PROVE  Grown /\ NewAreCovered
<1>1. \A e \in Events : data[e] \in Nat /\ seen[e] <= data[e]
  BY DEF RunsInvariant, SupervisorTypes
<1>2. \A e \in Events : data[e] <= data[e]
  BY <1>1
<1> QED BY <1>1, <1>2 DEF Grown, NewAreCovered

LEMMA OrderlyStays ==
  ASSUME SupervisorTypes, SupervisorTypes', Grown, NEW w \in RunRecords, OrderlyRun(w)
  PROVE  OrderlyRun(w)'
<1>1. w.base \in Nat /\ w.event \in Events
  BY DEF RunRecords
<1>2. data[w.event] \in Nat /\ data'[w.event] \in Nat /\ data[w.event] <= data'[w.event]
  BY <1>1 DEF SupervisorTypes, Grown
<1>3. w.base <= data'[w.event]
  BY <1>1, <1>2 DEF OrderlyRun
<1>4. w.trigger # NoTrigger =>
        w.trigger \in DOMAIN triggers' /\ triggers'[w.trigger].event = w.event
  BY DEF OrderlyRun, Grown
<1>5. w.stage = "ack" /\ w.trigger # NoTrigger =>
        triggers'[w.trigger].covered \/ w.event \in leaked'
  BY DEF OrderlyRun, Grown
<1> QED BY <1>3, <1>4, <1>5 DEF OrderlyRun

\* What every thread is doing stays orderly if the thread that takes the step is.
LEMMA AllOrderly ==
  ASSUME RunsInvariant, SupervisorTypes', Grown, NEW t \in Callers, NEW j \in RunRecords,
         work' = [work EXCEPT ![t] = j], OrderlyRun(j)'
  PROVE  \A u \in Callers : OrderlyRun(work[u])'
<1> SUFFICES ASSUME NEW u \in Callers PROVE OrderlyRun(work[u])'
  OBVIOUS
<1>1. PICK w : w = work[u]
  OBVIOUS
<1>2. w \in RunRecords /\ OrderlyRun(w)
  BY <1>1 DEF RunsInvariant, SupervisorTypes
<1>3. OrderlyRun(w)'
  BY <1>2, OrderlyStays DEF RunsInvariant
<1>4. PICK v \in {j, w} : v = work'[u]
  BY <1>1 DEF RunsInvariant, SupervisorTypes
<1>5. OrderlyRun(v)'
  BY <1>3, <1>4
<1> QED BY <1>4, <1>5 DEF OrderlyRun

LEMMA RunningNext ==
  ASSUME SupervisorTypes, NEW t \in Callers, NEW j, work' = [work EXCEPT ![t] = j]
  PROVE  \A u \in Callers : \A e \in Events :
           Running(u, e)' <=> IF u = t THEN AtWork(j, e) ELSE Running(u, e)
BY DEF SupervisorTypes, Running, AtWork

\* A step after which the same runs are under way.
LEMMA RunsStep ==
  ASSUME RunsInvariant, SupervisorTypes', Grown, NewAreCovered,
         NEW t \in Callers, NEW j \in RunRecords, work' = [work EXCEPT ![t] = j],
         OrderlyRun(j)', \A e \in Events : AtWork(j, e) <=> Running(t, e),
         UNCHANGED <<active, doubled>>, leaked \subseteq leaked'
  PROVE  RunsInvariant'
<1>1. \A u \in Callers : \A e \in Events : Running(u, e)' <=> Running(u, e)
  BY RunningNext DEF RunsInvariant
<1>2. \A u \in Callers : OrderlyRun(work[u])'
  BY AllOrderly
<1>3. ASSUME NEW u \in Callers PROVE MarkedRun(u)'
  <2> SUFFICES ASSUME NEW e \in Events, Running(u, e)
               PROVE  /\ e \in active' \cup doubled'
                      /\ \A i \in DOMAIN triggers' : triggers'[i].event = e => triggers'[i].covered
    BY <1>1 DEF MarkedRun
  <2>1. /\ e \in active \cup doubled
        /\ \A i \in DOMAIN triggers : triggers[i].event = e => triggers[i].covered
    BY DEF RunsInvariant, MarkedRun
  <2> QED BY <2>1 DEF Grown, NewAreCovered
<1>4. OneRunPerEvent'
  BY <1>1 DEF OneRunPerEvent, RunsInvariant
<1>5. ActiveHasRunner'
  <2>1. active \subseteq Events
    BY DEF RunsInvariant, SupervisorTypes
  <2> QED BY <1>1, <2>1 DEF ActiveHasRunner, RunsInvariant
<1> QED BY <1>2, <1>3, <1>4, <1>5 DEF RunsInvariant, Grown

\* The same for a step that leaves triggers and data alone.
LEMMA RunsMove ==
  ASSUME RunsInvariant, SupervisorTypes', NEW t \in Callers, NEW j \in RunRecords,
         work' = [work EXCEPT ![t] = j], OrderlyRun(j),
         \A e \in Events : AtWork(j, e) <=> Running(t, e),
         UNCHANGED <<triggers, data, seen, active, doubled, leaked>>
  PROVE  RunsInvariant'
<1>1. Grown /\ NewAreCovered
  BY SameIsGrown
<1>2. OrderlyRun(j)'
  BY <1>1, OrderlyStays DEF RunsInvariant
<1> QED BY <1>1, <1>2, RunsStep

LEMMA IdleIsOrderly == SupervisorTypes => OrderlyRun(Idle)
<1> SUFFICES ASSUME SupervisorTypes PROVE OrderlyRun(Idle)
  OBVIOUS
<1>1. Idle.event \in Events
  BY IdleIsARecord DEF RunRecords
<1>2. 0 <= data[Idle.event]
  BY <1>1 DEF SupervisorTypes
<1> QED BY <1>2 DEF OrderlyRun, Idle, NewStages, StepStages, AgentStages, StartStages

LEMMA RunsInit == AgentInit => RunsInvariant
<1> SUFFICES ASSUME AgentInit PROVE RunsInvariant
  OBVIOUS
<1>1. SupervisorTypes
  BY TypesInit
<1>2. \A t \in Callers : OrderlyRun(work[t])
  <2>1. \A t \in Callers : work[t] = Idle
    BY DEF AgentInit
  <2> QED BY <1>1, <2>1, IdleIsOrderly
<1>3. \A t \in Callers, e \in Events : ~Running(t, e)
  BY DEF AgentInit, Running, Idle, StartStages, TriedStages, AgentStages
<1> QED BY <1>1, <1>2, <1>3 DEF RunsInvariant, MarkedRun, OneRunPerEvent, ActiveHasRunner, AgentInit

\* The steps ahead once one is taken, once an agent's result is in, and once it failed.
LEMMA ShortSequences ==
  ASSUME NEW a \in Agents, NEW b \in Agents
  PROVE  /\ <<a>> \in Seq(Agents) /\ <<a, b>> \in Seq(Agents) /\ <<>> \in Seq(Agents)
         /\ Len(<<a>>) = 1 /\ DOMAIN <<a>> = {1} /\ Len(<<a, b>>) = 2 /\ DOMAIN <<a, b>> = {1, 2}
         /\ SubSeq(<<a>>, 2, 1) = <<>> /\ SubSeq(<<a, b>>, 3, 2) = <<>>
         /\ SubSeq(<<a, b>>, 2, 2) = <<b>>
         /\ <<a>> \o <<b>> = <<a, b>> /\ <<>> \o <<a>> = <<a>> /\ <<>> \o <<a, b>> = <<a, b>>
         /\ <<a>> \o <<>> = <<a>> /\ <<>> \o <<>> = <<>>
<1>1. <<a>> \in Seq(Agents) /\ <<a, b>> \in Seq(Agents) /\ <<>> \in Seq(Agents)
  OBVIOUS
<1>2. SubSeq(<<a>>, 2, 1) = <<>> /\ SubSeq(<<a, b>>, 3, 2) = <<>>
  OBVIOUS
<1>3. SubSeq(<<a, b>>, 2, 2) = <<b>>
  <2>1. PICK s : s = SubSeq(<<a, b>>, 2, 2)
    OBVIOUS
  <2>2. s \in Seq(Agents) /\ Len(s) = 1 /\ s[1] = b
    BY <1>1, <2>1
  <2>3. <<b>> \in Seq(Agents) /\ Len(<<b>>) = 1 /\ \A i \in 1..1 : s[i] = <<b>>[i]
    BY <2>2
  <2>4. s = <<b>>
    BY <2>2, <2>3, SeqEqual
  <2> QED BY <2>1, <2>4
<1>4. <<a>> \o <<b>> = <<a, b>>
  <2>1. PICK s : s = <<a>> \o <<b>>
    OBVIOUS
  <2>2. <<b>> \in Seq(Agents)
    OBVIOUS
  <2>3. s \in Seq(Agents) /\ Len(s) = 2
    BY <1>1, <2>1, <2>2
  <2>4. s[1] = a /\ s[2] = b
    BY <1>1, <2>1, <2>2
  <2>5. Len(<<a, b>>) = 2 /\ \A i \in 1..2 : s[i] = <<a, b>>[i]
    BY <2>4
  <2>6. s = <<a, b>>
    BY <1>1, <2>3, <2>5, SeqEqual
  <2> QED BY <2>1, <2>6
<1>5. <<>> \o <<a>> = <<a>> /\ <<>> \o <<a, b>> = <<a, b>> /\ <<a>> \o <<>> = <<a>>
      /\ <<>> \o <<>> = <<>>
  BY <1>1
<1> QED BY <1>1, <1>2, <1>3, <1>4, <1>5

LEMMA LeftIsAhead ==
  ASSUME NEW agent \in Agents
  PROVE  Left(agent) \subseteq Ahead(agent)
BY DEF Left, Ahead, Agents

LEMMA TakenStep ==
  ASSUME NEW agent, NEW steps \in Ahead(agent), NEW created, NEW k \in DOMAIN steps,
         IF agent = "none" THEN created = {} ELSE agent \in created,
         steps[k] \notin created, \A i \in 1..(k - 1) : steps[i] \in created
  PROVE  SubSeq(steps, k + 1, Len(steps)) \in Left(steps[k])
<1>1. \/ steps = <<>>
      \/ \E a \in Agents : steps = <<a>> /\ <<>> \in Left(a)
      \/ \E a, b \in Agents : /\ steps = <<a, b>> /\ <<>> \in Left(b)
                              /\ <<b>> \in Left(a) \/ a \in created
  BY DEF Ahead, Left, Agents
<1>2. CASE steps = <<>>
  BY <1>2
<1>3. ASSUME NEW a \in Agents, steps = <<a>>, <<>> \in Left(a)
      PROVE  SubSeq(steps, k + 1, Len(steps)) \in Left(steps[k])
  <2>1. k = 1 /\ steps[1] = a
    BY <1>3, ShortSequences
  <2>2. k + 1 = 2 /\ Len(steps) = 1 /\ SubSeq(<<a>>, 2, 1) = <<>>
    BY <1>3, <2>1, ShortSequences
  <2>3. SubSeq(steps, k + 1, Len(steps)) = <<>>
    BY <1>3, <2>2
  <2> QED BY <1>3, <2>1, <2>3
<1>4. ASSUME NEW a \in Agents, NEW b \in Agents, steps = <<a, b>>, <<>> \in Left(b),
             <<b>> \in Left(a) \/ a \in created
      PROVE  SubSeq(steps, k + 1, Len(steps)) \in Left(steps[k])
  <2>1. k \in {1, 2} /\ steps[1] = a /\ steps[2] = b
    BY <1>4, ShortSequences
  <2>2. CASE k = 1
    <3>1. SubSeq(<<a, b>>, 2, 2) = <<b>> /\ Len(<<a, b>>) = 2
      BY ShortSequences
    <3>2. k + 1 = 2 /\ Len(steps) = 2
      BY <1>4, <2>2, <3>1
    <3>3. SubSeq(steps, k + 1, Len(steps)) = <<b>>
      BY <1>4, <3>1, <3>2
    <3>4. a \notin created
      BY <2>1, <2>2
    <3> QED BY <1>4, <2>1, <2>2, <3>3, <3>4
  <2>3. CASE k = 2
    <3>1. k + 1 = 3 /\ Len(steps) = 2 /\ SubSeq(<<a, b>>, 3, 2) = <<>>
      BY <1>4, <2>1, <2>3, ShortSequences
    <3>2. SubSeq(steps, k + 1, Len(steps)) = <<>>
      BY <1>4, <3>1
    <3> QED BY <1>4, <2>1, <2>3, <3>2
  <2> QED BY <2>1, <2>2, <2>3
<1> QED BY <1>1, <1>2, <1>3, <1>4

LEMMA AppliedSteps ==
  ASSUME NEW agent \in Agents, NEW steps \in Left(agent), NEW type, NEW outcome
  PROVE  steps \o next_steps(type, agent, outcome) \in Ahead(agent)
<1>1. /\ "EXPOSURE" \in Agents /\ "RESOURCE" \in Agents /\ "PLANNING" \in Agents
      /\ "POLICY" \in Agents /\ "COMMS" \in Agents
  BY DEF Agents
<1>2. PICK next : next = next_steps(type, agent, outcome)
  OBVIOUS
<1>3. CASE agent = "HAZARD"
  <2>1. steps = <<>> /\ next \in {<<>>, <<"EXPOSURE", "RESOURCE">>}
    BY <1>2, <1>3 DEF Left, next_steps
  <2> QED BY <1>1, <1>2, <1>3, <2>1, ShortSequences DEF Ahead
<1>4. CASE agent \in {"EXPOSURE", "RESOURCE"}
  <2>1. next \in {<<>>, <<"PLANNING">>}
    BY <1>2, <1>4 DEF next_steps
  <2>2. \/ agent = "EXPOSURE" /\ steps \in {<<"RESOURCE">>, <<"PLANNING">>}
        \/ agent = "RESOURCE" /\ steps \in {<<>>, <<"PLANNING">>}
    BY <1>4 DEF Left
  <2> QED BY <1>1, <1>2, <2>1, <2>2, ShortSequences DEF Ahead
<1>5. CASE agent = "PLANNING"
  <2>1. steps \in {<<>>, <<"PLANNING">>} /\ next \in {<<>>, <<"POLICY">>}
    BY <1>2, <1>5 DEF Left, next_steps
  <2>2. Ahead(agent) = {<<>>, <<"PLANNING">>, <<"POLICY">>, <<"PLANNING", "POLICY">>}
    BY <1>5 DEF Ahead
  <2>3. CASE steps = <<>>
    BY <1>1, <1>2, <2>1, <2>2, <2>3, ShortSequences
  <2>4. CASE steps = <<"PLANNING">>
    BY <1>1, <1>2, <2>1, <2>2, <2>4, ShortSequences
  <2> QED BY <2>1, <2>3, <2>4
<1>6. CASE agent \in {"POLICY", "COMMS"}
  <2>1. steps = <<>>
    BY <1>6 DEF Left
  <2>2. next = <<>> \/ (next = <<"COMMS">> /\ agent = "POLICY")
    BY <1>2, <1>6 DEF next_steps
  <2> QED BY <1>1, <1>2, <1>6, <2>1, <2>2, ShortSequences DEF Ahead
<1> QED BY <1>3, <1>4, <1>5, <1>6 DEF Agents

\* Each step keeps who runs what in order.
LEMMA RunsRequest ==
  ASSUME RunsInvariant, NEW t \in Callers, NEW e \in Events, NEW type \in TriggerTypes,
         ingest(t, e, type)
  PROVE  RunsInvariant'
<1>1. SupervisorTypes /\ SupervisorTypes'
  BY RequestTypes DEF RunsInvariant
<1>2. PICK j : j = [Idle EXCEPT !.stage = "publish", !.event = e, !.type = type]
  OBVIOUS
<1>3. j \in RunRecords
  BY <1>2, IdleIsARecord DEF RunRecords, Stages
<1>4. Grown /\ NewAreCovered
  <2>1. \A d \in Events : data[d] \in Nat /\ seen[d] \in Nat /\ seen[d] <= data[d]
    BY DEF RunsInvariant, SupervisorTypes
  <2>2. \A d \in Events : data'[d] \in {data[d], data[d] + 1}
    BY DEF ingest, RunsInvariant, SupervisorTypes
  <2>3. \A d \in Events : data[d] <= data'[d] /\ seen[d] <= data'[d]
    BY <2>1, <2>2
  <2> QED BY <2>3 DEF ingest, ghosts, Grown, NewAreCovered
<1>5. OrderlyRun(j)
  <2>1. 0 <= data[e]
    BY <1>1 DEF SupervisorTypes
  <2> QED BY <1>2, <2>1 DEF OrderlyRun, Idle, NewStages, StepStages, AgentStages, StartStages
<1>6. OrderlyRun(j)'
  BY <1>1, <1>3, <1>4, <1>5, OrderlyStays
<1>7. \A d \in Events : AtWork(j, d) <=> Running(t, d)
  BY <1>2 DEF ingest, AtWork, Running, StartStages, TriedStages, AgentStages, Idle
<1> QED BY <1>1, <1>2, <1>3, <1>4, <1>6, <1>7, RunsStep DEF ingest, ghosts

LEMMA RunsSweep ==
  ASSUME RunsInvariant, NEW t \in Callers, NEW e \in Events, tick(t, e)
  PROVE  RunsInvariant'
<1>1. SupervisorTypes /\ SupervisorTypes'
  BY SweepTypes DEF RunsInvariant
<1>2. PICK j : j = [Idle EXCEPT !.stage = "enter", !.event = e]
  OBVIOUS
<1>3. j \in RunRecords
  BY <1>2, IdleIsARecord DEF RunRecords, Stages
<1>4. OrderlyRun(j)
  <2>1. 0 <= data[e]
    BY <1>1 DEF SupervisorTypes
  <2> QED BY <1>2, <2>1 DEF OrderlyRun, Idle, NewStages, StepStages, AgentStages, StartStages
<1>5. \A d \in Events : AtWork(j, d) <=> Running(t, d)
  BY <1>2 DEF tick, AtWork, Running, StartStages, TriedStages, AgentStages, Idle
<1> QED BY <1>1, <1>2, <1>3, <1>4, <1>5, RunsMove DEF tick, ghosts

LEMMA RunsPublish ==
  ASSUME RunsInvariant, NEW t \in Callers, publish(t)
  PROVE  RunsInvariant'
<1>1. SupervisorTypes /\ SupervisorTypes' /\ OrderlyRun(work[t]) /\ work[t] \in RunRecords
  BY PublishTypes, EventOfRun DEF RunsInvariant
<1>2. PICK j : j \in {[work[t] EXCEPT !.stage = "insert"], Idle} /\ work' = [work EXCEPT ![t] = j]
  BY DEF publish, Goto
<1>3. j \in RunRecords
  BY <1>1, <1>2, IdleIsARecord, GotoIsARecord DEF Stages
<1>4. OrderlyRun(j)
  <2>1. OrderlyRun([work[t] EXCEPT !.stage = "insert"])
    BY <1>1 DEF publish, RunRecords, OrderlyRun, NewStages, StepStages, AgentStages, StartStages
  <2> QED BY <1>1, <1>2, <2>1, IdleIsOrderly
<1>5. \A d \in Events : AtWork(j, d) <=> Running(t, d)
  BY <1>1, <1>2 DEF publish, RunRecords, AtWork, Running, StartStages, TriedStages, AgentStages,
                    Idle
<1> QED BY <1>1, <1>2, <1>3, <1>4, <1>5, RunsMove DEF publish, ghosts

LEMMA RunsInsert ==
  ASSUME RunsInvariant, NEW t \in Callers, insert(t)
  PROVE  RunsInvariant'
<1>1. SupervisorTypes /\ OrderlyRun(work[t]) /\ work[t] \in RunRecords /\ work[t].event \in Events
  BY EventOfRun DEF RunsInvariant
<1>2. /\ SupervisorTypes'
      /\ Len(triggers') = Len(triggers) + 1 /\ DOMAIN triggers = 1..Len(triggers)
      /\ \A i \in DOMAIN triggers : triggers'[i] = triggers[i]
      /\ triggers'[Len(triggers) + 1] = Published(work[t].event, work[t].type)
  BY <1>1, InsertTypes
<1>3. Len(triggers) \in Nat /\ DOMAIN triggers' = 1..(Len(triggers) + 1)
  BY <1>1, <1>2 DEF SupervisorTypes
<1>4. Grown
  <2>1. \A d \in Events : data[d] <= data[d] /\ seen[d] <= data[d]
    BY <1>1 DEF RunsInvariant, SupervisorTypes
  <2> QED BY <1>2, <1>3, <2>1 DEF insert, ghosts, Grown
<1>5. NewAreCovered
  <2> SUFFICES ASSUME NEW i \in DOMAIN triggers' \ DOMAIN triggers
               PROVE  triggers'[i].covered \/ \A u \in Callers : ~Running(u, triggers'[i].event)
    BY DEF NewAreCovered
  <2>1. i = Len(triggers) + 1
    BY <1>2, <1>3
  <2>2. triggers'[i] = Published(work[t].event, work[t].type)
    BY <1>2, <2>1
  <2> QED BY <2>2 DEF Published
<1>6. PICK j : j \in {[work[t] EXCEPT !.stage = "enter", !.trigger = Len(triggers) + 1], Idle}
               /\ work' = [work EXCEPT ![t] = j]
  BY DEF insert
<1>7. CASE j = Idle
  <2>1. OrderlyRun(j)'
    BY <1>1, <1>2, <1>4, <1>7, IdleIsOrderly, IdleIsARecord, OrderlyStays
  <2>2. \A d \in Events : AtWork(j, d) <=> Running(t, d)
    BY <1>7 DEF insert, AtWork, Running, StartStages, TriedStages, AgentStages, Idle
  <2> QED BY <1>2, <1>4, <1>5, <1>6, <1>7, <2>1, <2>2, IdleIsARecord, RunsStep DEF insert, ghosts
<1>8. CASE j = [work[t] EXCEPT !.stage = "enter", !.trigger = Len(triggers) + 1]
  <2>1. Len(triggers) + 1 \in Nat
    BY <1>3
  <2>2. j \in RunRecords
    BY <1>1, <1>8, <2>1 DEF RunRecords, Stages
  <2>3. j.trigger \in DOMAIN triggers' /\ triggers'[j.trigger].event = j.event
    <3>1. j.trigger = Len(triggers) + 1 /\ j.event = work[t].event
      BY <1>1, <1>8 DEF RunRecords
    <3>2. j.trigger \in DOMAIN triggers'
      BY <1>3, <3>1
    <3> QED BY <1>2, <3>1, <3>2 DEF Published
  <2>4. j.base <= data'[j.event]
    <3>1. j.base = work[t].base /\ j.event = work[t].event
      BY <1>1, <1>8 DEF RunRecords
    <3> QED BY <1>1, <3>1 DEF OrderlyRun, insert
  <2>5. j.stage = "enter" /\ j.created = {} /\ ~j.failed /\ j.agent = "none"
    BY <1>1, <1>8 DEF RunRecords, OrderlyRun, NewStages, insert
  <2>6. OrderlyRun(j)'
    BY <2>3, <2>4, <2>5 DEF OrderlyRun, NewStages, StepStages, AgentStages, StartStages
  <2>7. \A d \in Events : AtWork(j, d) <=> Running(t, d)
    BY <2>5 DEF insert, AtWork, Running, StartStages, TriedStages, AgentStages
  <2> QED BY <1>2, <1>4, <1>5, <1>6, <2>2, <2>6, <2>7, RunsStep DEF insert, ghosts
<1> QED BY <1>6, <1>7, <1>8

LEMMA TriggerSetIsGrown ==
  ASSUME RunsInvariant, NEW i \in DOMAIN triggers, UNCHANGED <<data, seen, leaked>>,
         NEW status \in {"leased", "processed", "failed"}, SetTrigger(i, status)
  PROVE  Grown /\ NewAreCovered
<1>1. /\ DOMAIN triggers' = DOMAIN triggers
      /\ \A n \in DOMAIN triggers : /\ triggers'[n].event = triggers[n].event
                                    /\ triggers'[n].covered = triggers[n].covered
  BY TriggerSet DEF RunsInvariant
<1>2. \A d \in Events : data[d] <= data[d] /\ seen[d] <= data[d]
  BY DEF RunsInvariant, SupervisorTypes
<1> QED BY <1>1, <1>2 DEF Grown, NewAreCovered

LEMMA RunsLease ==
  ASSUME RunsInvariant, lease \/ \E i \in DOMAIN triggers : lease_read(i)
  PROVE  RunsInvariant'
<1> DEFINE w == work[LoopThread]
<1>1. /\ SupervisorTypes /\ SupervisorTypes' /\ LoopThread \in Callers
      /\ OrderlyRun(w) /\ w \in RunRecords
  BY SupervisorAssumption, LeaseTypes, EventOfRun DEF RunsInvariant
<1>2. CASE lease
  <2>1. w.trigger \in DOMAIN triggers
    BY <1>1, <1>2 DEF lease, OrderlyRun
  <2>2. Grown /\ NewAreCovered
    BY <1>2, <2>1, TriggerSetIsGrown DEF lease, ghosts
  <2>3. PICK j : j = [w EXCEPT !.stage = "enter"]
    OBVIOUS
  <2>4. j \in RunRecords
    BY <1>1, <2>3, GotoIsARecord DEF Stages
  <2>5. OrderlyRun(j)
    BY <1>1, <1>2, <2>3 DEF lease, RunRecords, OrderlyRun, NewStages, StepStages, AgentStages,
                            StartStages
  <2>6. OrderlyRun(j)'
    BY <1>1, <2>2, <2>4, <2>5, OrderlyStays
  <2>7. \A d \in Events : AtWork(j, d) <=> Running(LoopThread, d)
    BY <1>1, <1>2, <2>3 DEF lease, RunRecords, AtWork, Running, StartStages, TriedStages,
                            AgentStages
  <2>8. work' = [work EXCEPT ![LoopThread] = j]
    BY <1>2, <2>3 DEF lease, Goto
  <2> QED BY <1>1, <1>2, <2>2, <2>4, <2>6, <2>7, <2>8, RunsStep DEF lease, ghosts
<1>3. ASSUME NEW i \in DOMAIN triggers, lease_read(i) PROVE RunsInvariant'
  <2>1. PICK j : j = [Idle EXCEPT !.stage = "lease", !.event = triggers[i].event,
                                  !.type = triggers[i].type, !.trigger = i]
    OBVIOUS
  <2>2. triggers[i] \in TriggerRows /\ i \in Nat \ {0}
    BY <1>1, TriggerTyped DEF SupervisorTypes
  <2>3. j \in RunRecords
    BY <2>1, <2>2, IdleIsARecord DEF RunRecords, TriggerRows, Stages
  <2>4. OrderlyRun(j)
    <3>1. triggers[i].event \in Events
      BY <2>2 DEF TriggerRows
    <3>2. 0 <= data[triggers[i].event]
      BY <1>1, <3>1 DEF SupervisorTypes
    <3> QED BY <2>1, <2>2, <3>2 DEF OrderlyRun, Idle, NoTrigger, NewStages, StepStages,
                                    AgentStages, StartStages
  <2>5. \A d \in Events : AtWork(j, d) <=> Running(LoopThread, d)
    BY <1>3, <2>1 DEF lease_read, AtWork, Running, StartStages, TriedStages, AgentStages, Idle
  <2> QED BY <1>1, <1>3, <2>1, <2>3, <2>4, <2>5, RunsMove DEF lease_read, ghosts
<1> QED BY <1>2, <1>3

LEMMA RunsSettled ==
  ASSUME RunsInvariant, NEW t \in Callers, ack(t) \/ raised(t)
  PROVE  RunsInvariant'
<1>1. SupervisorTypes /\ SupervisorTypes' /\ OrderlyRun(work[t])
  BY SettledTypes DEF RunsInvariant
<1>2. UNCHANGED <<data, seen, leaked, active, doubled>> /\ work' = [work EXCEPT ![t] = Idle]
  BY DEF ack, raised, ghosts
<1>3. Grown /\ NewAreCovered
  <2>1. CASE UNCHANGED triggers
    BY <1>2, <2>1, SameIsGrown
  <2>2. ASSUME NEW status \in {"processed", "failed"}, SetTrigger(work[t].trigger, status),
               work[t].trigger # NoTrigger
        PROVE  Grown /\ NewAreCovered
    <3>1. work[t].trigger \in DOMAIN triggers
      BY <1>1, <2>2 DEF OrderlyRun
    <3> QED BY <1>2, <2>2, <3>1, TriggerSetIsGrown
  <2> QED BY <2>1, <2>2 DEF ack, raised
<1>4. OrderlyRun(Idle)'
  BY <1>1, <1>3, IdleIsOrderly, IdleIsARecord, OrderlyStays
<1>5. \A d \in Events : AtWork(Idle, d) <=> Running(t, d)
  BY DEF ack, raised, AtWork, Running, StartStages, TriedStages, AgentStages, Idle
<1> QED BY <1>1, <1>2, <1>3, <1>4, <1>5, IdleIsARecord, RunsStep

\* An event that is marked has a run under way or was left marked by a failed start;
\* a caller that is handed the run under way has its trigger covered by it.
LEMMA RunsEnter ==
  ASSUME RunsInvariant, NEW t \in Callers, enter(t)
  PROVE  RunsInvariant'
<1> DEFINE e == work[t].event
<1>1. /\ SupervisorTypes /\ SupervisorTypes' /\ OrderlyRun(work[t])
      /\ work[t] \in RunRecords /\ e \in Events
  BY EnterTypes, EventOfRun DEF RunsInvariant
<1>2. ASSUME NEW stage \in {"ack", "record"}
      PROVE  [work[t] EXCEPT !.stage = stage] \in RunRecords
  BY <1>1, GotoIsARecord DEF Stages, StartStages
<1>3. CASE Busy(e)
  <2>1. PICK j : j = [work[t] EXCEPT !.stage = "ack"]
    OBVIOUS
  <2>2. j \in RunRecords /\ work' = [work EXCEPT ![t] = j]
    BY <1>2, <1>3, <2>1 DEF enter, Goto
  <2>3. UNCHANGED <<triggers, data, seen, active, doubled, leaked>>
    BY <1>3 DEF enter
  <2>4. work[t].trigger # NoTrigger => triggers[work[t].trigger].covered \/ e \in leaked
    <3>1. e \in active
      BY <1>3 DEF Busy
    <3>2. CASE e \in leaked
      BY <3>2
    <3>3. CASE e \notin leaked
      <4>1. PICK u \in Callers : Running(u, e)
        BY <3>1, <3>3 DEF RunsInvariant, ActiveHasRunner
      <4> QED BY <1>1, <4>1 DEF RunsInvariant, MarkedRun, OrderlyRun
    <3> QED BY <3>2, <3>3
  <2>5. OrderlyRun(j)
    BY <1>1, <2>1, <2>4 DEF enter, RunRecords, OrderlyRun, NewStages, StepStages, AgentStages,
                            StartStages
  <2>6. \A d \in Events : AtWork(j, d) <=> Running(t, d)
    BY <1>1, <2>1 DEF enter, RunRecords, AtWork, Running, StartStages, TriedStages, AgentStages
  <2> QED BY <1>1, <2>2, <2>3, <2>5, <2>6, RunsMove
<1>4. CASE ~Busy(e)
  <2>1. PICK j : j = [work[t] EXCEPT !.stage = "record"]
    OBVIOUS
  <2>2. j \in RunRecords /\ work' = [work EXCEPT ![t] = j]
    BY <1>2, <1>4, <2>1 DEF enter, Goto
  <2>3. /\ UNCHANGED <<data, seen, leaked>> /\ active' = active \cup {e}
        /\ doubled' = IF e \notin recorded /\ \E u \in Callers : Running(u, e)
                      THEN doubled \cup {e} ELSE doubled
    BY <1>4 DEF enter
  <2>4. /\ DOMAIN triggers' = DOMAIN triggers
        /\ \A i \in DOMAIN triggers :
             /\ triggers'[i].event = triggers[i].event
             /\ triggers'[i].covered = (triggers[i].covered \/ triggers[i].event = e)
    <3> SUFFICES ASSUME NEW i \in DOMAIN triggers
                 PROVE  /\ triggers'[i].event = triggers[i].event
                        /\ triggers'[i].covered = (triggers[i].covered \/ triggers[i].event = e)
      BY <1>4 DEF enter
    <3>1. triggers'[i] = IF triggers[i].event = e
                         THEN [triggers[i] EXCEPT !.covered = TRUE] ELSE triggers[i]
      BY <1>4 DEF enter
    <3>2. triggers[i] \in TriggerRows
      BY <1>1, TriggerTyped
    <3> QED BY <3>1, <3>2 DEF TriggerRows
  <2>5. Grown
    <3>1. \A d \in Events : data[d] <= data[d] /\ seen[d] <= data[d]
      BY <1>1 DEF RunsInvariant, SupervisorTypes
    <3> QED BY <2>3, <2>4, <3>1 DEF Grown
  <2>6. OrderlyRun(j)
    BY <1>1, <2>1 DEF enter, RunRecords, OrderlyRun, NewStages, StepStages, AgentStages,
                      StartStages
  <2>7. \A u \in Callers : OrderlyRun(work[u])'
    <3>1. OrderlyRun(j)'
      BY <1>1, <2>2, <2>5, <2>6, OrderlyStays
    <3> QED BY <1>1, <2>2, <2>5, <3>1, AllOrderly
  <2>8. \A u \in Callers : \A d \in Events :
          Running(u, d)' <=> IF u = t THEN d = e ELSE Running(u, d)
    <3>1. \A d \in Events : AtWork(j, d) <=> d = e
      BY <1>1, <2>1 DEF RunRecords, AtWork, StartStages
    <3> QED BY <1>1, <2>2, <3>1, RunningNext
  <2>9. ASSUME NEW u \in Callers PROVE MarkedRun(u)'
    <3> SUFFICES ASSUME NEW d \in Events, Running(u, d)'
                 PROVE  /\ d \in active' \cup doubled'
                        /\ \A i \in DOMAIN triggers' :
                             triggers'[i].event = d => triggers'[i].covered
      BY DEF MarkedRun
    <3>1. CASE d = e
      BY <2>3, <2>4, <3>1
    <3>2. CASE d # e
      <4>1. Running(u, d)
        BY <2>8, <3>2
      <4>2. /\ d \in active \cup doubled
            /\ \A i \in DOMAIN triggers : triggers[i].event = d => triggers[i].covered
        BY <4>1 DEF RunsInvariant, MarkedRun
      <4> QED BY <2>3, <2>4, <4>2
    <3> QED BY <3>1, <3>2
  <2>10. OneRunPerEvent'
    <3> SUFFICES ASSUME NEW u \in Callers, NEW v \in Callers, NEW d \in Events, u # v,
                        Running(u, d)', Running(v, d)'
                 PROVE  d \in doubled'
      BY DEF OneRunPerEvent
    <3>1. CASE u # t /\ v # t
      BY <2>3, <2>8, <3>1 DEF RunsInvariant, OneRunPerEvent
    <3>2. ASSUME u = t \/ v = t PROVE d \in doubled'
      <4>1. PICK x \in Callers : d = e /\ Running(x, e)
        BY <2>8, <3>2
      <4>2. CASE e \notin recorded
        BY <2>3, <4>1, <4>2
      <4>3. CASE e \in recorded
        <5>1. e \notin active
          BY <1>4, <4>3 DEF Busy
        <5>2. e \in doubled
          BY <1>1, <4>1, <5>1 DEF RunsInvariant, MarkedRun
        <5> QED BY <2>3, <4>1, <5>2
      <4> QED BY <4>2, <4>3
    <3> QED BY <3>1, <3>2
  <2>11. ActiveHasRunner'
    <3> SUFFICES ASSUME NEW d \in active'
                 PROVE  (\E u \in Callers : Running(u, d)') \/ d \in leaked'
      BY DEF ActiveHasRunner
    <3>1. CASE d = e
      BY <1>1, <2>8, <3>1
    <3>2. CASE d # e
      <4>1. d \in active /\ d \in Events
        BY <1>1, <2>3, <3>2 DEF SupervisorTypes
      <4>2. CASE d \in leaked
        BY <2>3, <4>2
      <4>3. ASSUME NEW u \in Callers, Running(u, d) PROVE \E v \in Callers : Running(v, d)'
        <5>1. u # t
          BY <4>3 DEF enter, Running, StartStages, TriedStages, AgentStages
        <5> QED BY <2>8, <4>1, <4>3, <5>1
      <4> QED BY <4>1, <4>2, <4>3 DEF RunsInvariant, ActiveHasRunner
    <3> QED BY <3>1, <3>2
  <2>12. \A d \in Events : seen'[d] <= data'[d]
    BY <2>3 DEF RunsInvariant
  <2> QED BY <1>1, <2>7, <2>9, <2>10, <2>11, <2>12 DEF RunsInvariant
<1> QED BY <1>3, <1>4

LEMMA RunsLoad ==
  ASSUME RunsInvariant, NEW t \in Callers,
         save_run(t) \/ load_memory(t) \/ create_memory(t) \/ list_open(t)
  PROVE  RunsInvariant'
<1>1. SupervisorTypes /\ SupervisorTypes' /\ OrderlyRun(work[t]) /\ work[t] \in RunRecords
  BY LoadTypes, EventOfRun DEF RunsInvariant
<1>2. work[t].stage \in StartStages
  BY DEF save_run, load_memory, create_memory, list_open, StartStages
<1>3. UNCHANGED <<triggers, data, seen, active, doubled, leaked>>
  BY DEF save_run, load_memory, create_memory, list_open, ghosts
<1>4. ASSUME NEW j, work' = [work EXCEPT ![t] = j], j.stage \in StartStages,
             j.event = work[t].event, j.trigger = work[t].trigger, j.agent = work[t].agent,
             j.created = work[t].created, j.failed = work[t].failed, j.base = work[t].base
      PROVE  RunsInvariant'
  <2>1. j \in RunRecords
    <3>1. work'[t] = j /\ work' \in [Callers -> RunRecords]
      BY <1>1, <1>4 DEF SupervisorTypes
    <3> QED BY <3>1
  <2>2. OrderlyRun(j)
    BY <1>1, <1>2, <1>4 DEF OrderlyRun, NewStages, StepStages, AgentStages, StartStages
  <2>3. \A d \in Events : AtWork(j, d) <=> Running(t, d)
    BY <1>2, <1>4 DEF AtWork, Running
  <2> QED BY <1>1, <1>3, <1>4, <2>1, <2>2, <2>3, RunsMove
<1>5. CASE save_run(t)
  <2>1. PICK j : j = [work[t] EXCEPT !.stage = "load"]
    OBVIOUS
  <2>2. work' = [work EXCEPT ![t] = j]
    BY <1>5, <2>1 DEF save_run, Goto
  <2> QED BY <1>1, <1>4, <2>1, <2>2 DEF RunRecords, StartStages
<1>6. CASE load_memory(t)
  <2>1. PICK stage : stage = (IF memory[work[t].event] = NoMemory THEN "create" ELSE "list")
    OBVIOUS
  <2>2. PICK j : j = [work[t] EXCEPT !.stage = stage, !.gate = memory[work[t].event].gate]
    OBVIOUS
  <2>3. work' = [work EXCEPT ![t] = j]
    BY <1>6, <2>1, <2>2 DEF load_memory
  <2>4. stage \in StartStages
    BY <2>1 DEF StartStages
  <2>5. /\ j.stage = stage /\ j.event = work[t].event /\ j.trigger = work[t].trigger
        /\ j.agent = work[t].agent /\ j.created = work[t].created
        /\ j.failed = work[t].failed /\ j.base = work[t].base
    BY <1>1, <2>2 DEF RunRecords
  <2> QED BY <1>4, <2>3, <2>4, <2>5
<1>7. CASE create_memory(t)
  <2>1. PICK j : j = [work[t] EXCEPT !.stage = "list"]
    OBVIOUS
  <2>2. work' = [work EXCEPT ![t] = j]
    BY <1>7, <2>1 DEF create_memory, Goto
  <2> QED BY <1>1, <1>4, <2>1, <2>2 DEF RunRecords, StartStages
<1>8. CASE list_open(t)
  <2>1. PICK vs : vs = {v \in Callers \X Agents : tasks[v[1]][work[t].event][v[2]] \in Open}
    OBVIOUS
  <2>2. PICK j : j = [work[t] EXCEPT !.stage = "supersede", !.victims = vs]
    OBVIOUS
  <2>3. work' = [work EXCEPT ![t] = j]
    BY <1>8, <2>1, <2>2 DEF list_open
  <2> QED BY <1>1, <1>4, <2>2, <2>3 DEF RunRecords, StartStages
<1> QED BY <1>5, <1>6, <1>7, <1>8

LEMMA RunsSupersede ==
  ASSUME RunsInvariant, NEW t \in Callers, NEW v \in Callers \X Agents, supersede(t, v)
  PROVE  RunsInvariant'
<1>1. SupervisorTypes /\ SupervisorTypes' /\ OrderlyRun(work[t]) /\ work[t] \in RunRecords
  BY SupersedeTypes, EventOfRun DEF RunsInvariant
<1>2. PICK j : j = [work[t] EXCEPT !.victims = work[t].victims \ {v}]
  OBVIOUS
<1>3. work' = [work EXCEPT ![t] = j]
  BY <1>2 DEF supersede
<1>4. j \in RunRecords
  <2>1. work'[t] = j /\ work' \in [Callers -> RunRecords]
    BY <1>1, <1>3 DEF SupervisorTypes
  <2> QED BY <2>1
<1>5. OrderlyRun(j)
  BY <1>1, <1>2 DEF RunRecords, OrderlyRun
<1>6. \A d \in Events : AtWork(j, d) <=> Running(t, d)
  BY <1>1, <1>2 DEF RunRecords, AtWork, Running
<1> QED BY <1>1, <1>3, <1>4, <1>5, <1>6, RunsMove DEF supersede, ghosts

LEMMA RunsStart ==
  ASSUME RunsInvariant, NEW t \in Callers, start_graph(t)
  PROVE  RunsInvariant'
<1>1. SupervisorTypes /\ SupervisorTypes' /\ OrderlyRun(work[t]) /\ work[t] \in RunRecords
  BY StartTypes, EventOfRun DEF RunsInvariant
<1>2. PICK steps : steps = initial_steps(work[t].type)
  OBVIOUS
<1>3. PICK j : j = [work[t] EXCEPT !.stage = "next", !.steps = steps]
  OBVIOUS
<1>4. work' = [work EXCEPT ![t] = j]
  BY <1>2, <1>3 DEF start_graph
<1>5. j \in RunRecords
  <2>1. work'[t] = j /\ work' \in [Callers -> RunRecords]
    BY <1>1, <1>4 DEF SupervisorTypes
  <2> QED BY <2>1
<1>6. steps \in Ahead("none")
  BY <1>2, InitialSteps
<1>7. work[t].created = {} /\ work[t].agent = "none"
  BY <1>1 DEF start_graph, OrderlyRun, NewStages, StartStages
<1>8. OrderlyRun(j)
  BY <1>1, <1>3, <1>6, <1>7 DEF RunRecords, OrderlyRun, NewStages, StepStages, AgentStages,
                                StartStages
<1>9. \A d \in Events : AtWork(j, d) <=> Running(t, d)
  BY <1>1, <1>3 DEF start_graph, RunRecords, AtWork, Running, StartStages, TriedStages
<1> QED BY <1>1, <1>4, <1>5, <1>8, <1>9, RunsMove DEF start_graph, ghosts

LEMMA RunsEnqueue ==
  ASSUME RunsInvariant, NEW t \in Callers, enqueue(t)
  PROVE  RunsInvariant'
<1>1. SupervisorTypes /\ SupervisorTypes' /\ OrderlyRun(work[t]) /\ work[t] \in RunRecords
  BY EnqueueTypes, EventOfRun DEF RunsInvariant
<1>2. PICK k, j : Enqueued(t, k, j)
  BY <1>1, EnqueueStep
<1>3. work[t].stage = "next"
  BY DEF enqueue
<1>4. PICK left : left = SubSeq(work[t].steps, k + 1, Len(work[t].steps))
  OBVIOUS
<1>5. left \in Left(work[t].steps[k])
  <2>1. /\ work[t].steps \in Ahead(work[t].agent)
        /\ IF work[t].agent = "none" THEN work[t].created = {}
           ELSE work[t].agent \in work[t].created
    BY <1>1, <1>3 DEF OrderlyRun
  <2> QED BY <1>2, <1>4, <2>1, TakenStep DEF Enqueued
<1>6. /\ j.stage = "claim" /\ j.agent = work[t].steps[k] /\ j.steps = left
      /\ j.created = work[t].created \cup {work[t].steps[k]}
      /\ j.base = work[t].base /\ j.event = work[t].event /\ j.trigger = work[t].trigger
  BY <1>1, <1>2, <1>4 DEF Enqueued, RunRecords
<1>7. OrderlyRun(j)
  <2>1. j.agent \in j.created /\ j.steps \in Left(j.agent)
    BY <1>5, <1>6
  <2> QED BY <1>1, <1>6, <2>1 DEF OrderlyRun, NewStages, StartStages
<1>8. \A d \in Events : AtWork(j, d) <=> Running(t, d)
  BY <1>3, <1>6 DEF AtWork, Running, TriedStages, AgentStages
<1>9. j \in RunRecords /\ work' = [work EXCEPT ![t] = j]
  BY <1>2 DEF Enqueued
<1> QED BY <1>1, <1>7, <1>8, <1>9, RunsMove DEF enqueue, ghosts

LEMMA RunsTask ==
  ASSUME RunsInvariant, NEW t \in Callers, claim(t) \/ complete(t) \/ fail_task(t)
  PROVE  RunsInvariant'
<1>1. SupervisorTypes /\ SupervisorTypes' /\ OrderlyRun(work[t]) /\ work[t] \in RunRecords
  BY TaskTypes, EventOfRun DEF RunsInvariant
<1>2. PICK j : /\ work' = [work EXCEPT ![t] = j]
               /\ j \in {[work[t] EXCEPT !.stage = "run"], [work[t] EXCEPT !.stage = "apply"],
                         [work[t] EXCEPT !.stage = "next", !.failed = TRUE]}
  BY DEF claim, complete, fail_task, Goto
<1>3. j \in RunRecords
  <2>1. work'[t] = j /\ work' \in [Callers -> RunRecords]
    BY <1>1, <1>2 DEF SupervisorTypes
  <2> QED BY <2>1
<1>4. /\ j.stage \in {"run", "apply", "next"} /\ j.agent = work[t].agent
      /\ j.steps = work[t].steps /\ j.created = work[t].created /\ j.base = work[t].base
      /\ j.event = work[t].event /\ j.trigger = work[t].trigger
  BY <1>1, <1>2 DEF RunRecords
<1>5. work[t].stage \in StepStages
  BY DEF claim, complete, fail_task, StepStages, AgentStages
<1>6. /\ j.agent \in j.created /\ j.agent \in Agents
      /\ j.steps \in Left(j.agent) /\ j.steps \in Ahead(j.agent)
  BY <1>1, <1>3, <1>4, <1>5, LeftIsAhead DEF OrderlyRun, RunRecords
<1>7. j.agent # "none"
  BY <1>6 DEF Agents
<1>8. OrderlyRun(j)
  BY <1>1, <1>4, <1>6, <1>7 DEF OrderlyRun, NewStages, StartStages
<1>9. \A d \in Events : AtWork(j, d) <=> Running(t, d)
  BY <1>4, <1>5 DEF AtWork, Running, TriedStages, StepStages, AgentStages
<1>10. UNCHANGED <<triggers, data, seen, active, doubled, leaked>>
  BY DEF claim, complete, fail_task, ghosts
<1> QED BY <1>1, <1>2, <1>3, <1>8, <1>9, <1>10, RunsMove

LEMMA RunsRun ==
  ASSUME RunsInvariant, NEW t \in Callers, NEW o \in Outcomes(work[t].agent), run_agent(t, o)
  PROVE  RunsInvariant'
<1>1. SupervisorTypes /\ SupervisorTypes' /\ OrderlyRun(work[t]) /\ work[t] \in RunRecords
  BY RunTypes, EventOfRun DEF RunsInvariant
<1>2. PICK j : j = [work[t] EXCEPT
           !.stage = "complete", !.outcome = o,
           !.gate = IF work[t].agent = "POLICY" THEN o = "gate" ELSE work[t].gate,
           !.base = IF work[t].created = {work[t].agent} THEN data[work[t].event]
                    ELSE work[t].base]
  OBVIOUS
<1>3. work' = [work EXCEPT ![t] = j]
  BY <1>2 DEF run_agent
<1>4. j \in RunRecords
  <2>1. work'[t] = j /\ work' \in [Callers -> RunRecords]
    BY <1>1, <1>3 DEF SupervisorTypes
  <2> QED BY <2>1
<1>5. /\ j.stage = "complete" /\ j.agent = work[t].agent
      /\ j.steps = work[t].steps /\ j.created = work[t].created
      /\ j.base \in {work[t].base, data[work[t].event]}
      /\ j.event = work[t].event /\ j.trigger = work[t].trigger
  BY <1>1, <1>2 DEF RunRecords
<1>6. work[t].stage = "run"
  BY DEF run_agent
<1>7. j.base <= data[j.event]
  <2>1. data[j.event] \in Nat
    BY <1>1, <1>4 DEF RunRecords, SupervisorTypes
  <2> QED BY <1>1, <1>5, <2>1 DEF OrderlyRun
<1>8. OrderlyRun(j)
  BY <1>1, <1>5, <1>6, <1>7 DEF OrderlyRun, NewStages, StartStages, StepStages, AgentStages
<1>9. \A d \in Events : AtWork(j, d) <=> Running(t, d)
  BY <1>5, <1>6 DEF AtWork, Running, TriedStages, AgentStages
<1> QED BY <1>1, <1>3, <1>4, <1>8, <1>9, RunsMove DEF run_agent, ghosts

LEMMA RunsApply ==
  ASSUME RunsInvariant, NEW t \in Callers, apply_load(t) \/ apply_save(t) \/ save_stop(t)
  PROVE  RunsInvariant'
<1>1. SupervisorTypes /\ SupervisorTypes' /\ OrderlyRun(work[t]) /\ work[t] \in RunRecords
  BY ApplyTypes, EventOfRun DEF RunsInvariant
<1>2. work[t].stage \in StepStages
  BY DEF apply_load, apply_save, save_stop, StepStages, AgentStages
<1>3. /\ work[t].agent \in work[t].created /\ work[t].steps \in Left(work[t].agent)
      /\ work[t].agent \in Agents
  BY <1>1, <1>2 DEF OrderlyRun, RunRecords
<1>4. work[t].agent # "none"
  BY <1>3 DEF Agents
<1>5. PICK j : /\ work' = [work EXCEPT ![t] = j]
               /\ j.agent = work[t].agent /\ j.created = work[t].created
               /\ j.base = work[t].base /\ j.event = work[t].event
               /\ j.trigger = work[t].trigger
               /\ \/ j.stage \in {"fold", "stop"} /\ j.steps \in Left(j.agent)
                  \/ j.stage = "next" /\ j.steps \in Ahead(j.agent)
  <2>1. CASE apply_load(t)
    <3>1. PICK j : j = [work[t] EXCEPT !.stage = "fold", !.shared = memory[work[t].event]]
      OBVIOUS
    <3>2. work' = [work EXCEPT ![t] = j]
      BY <2>1, <3>1 DEF apply_load
    <3>3. /\ j.stage = "fold" /\ j.steps = work[t].steps /\ j.agent = work[t].agent
          /\ j.created = work[t].created /\ j.base = work[t].base
          /\ j.event = work[t].event /\ j.trigger = work[t].trigger
      BY <1>1, <3>1 DEF RunRecords
    <3> QED BY <1>3, <3>2, <3>3
  <2>2. CASE apply_save(t)
    <3>1. PICK next, j : Applied(t, next, j)
      BY <1>1, <2>2, ApplyStep
    <3>2. j.stage = (IF next = <<>> THEN "stop" ELSE "next") /\ j.steps = work[t].steps \o next
      BY <1>1, <3>1 DEF Applied, RunRecords
    <3>3. /\ j.agent = work[t].agent /\ j.created = work[t].created
          /\ j.base = work[t].base /\ j.event = work[t].event
          /\ j.trigger = work[t].trigger /\ work' = [work EXCEPT ![t] = j]
      BY <1>1, <3>1 DEF Applied, RunRecords
    <3>4. work[t].steps \o next \in Ahead(work[t].agent)
      BY <1>3, <3>1, AppliedSteps DEF Applied
    <3>5. next = <<>> => work[t].steps \o next = work[t].steps
      <4>1. work[t].steps \in Seq(Agents)
        BY <1>1 DEF RunRecords
      <4> QED BY <4>1
    <3> QED BY <1>3, <3>2, <3>3, <3>4, <3>5
  <2>3. CASE save_stop(t)
    <3>1. PICK j : j = [work[t] EXCEPT !.stage = "next", !.shared = EmptyMemory]
      OBVIOUS
    <3>2. work' = [work EXCEPT ![t] = j]
      BY <2>3, <3>1 DEF save_stop
    <3>3. j.stage = "next" /\ j.steps = work[t].steps /\ j.agent = work[t].agent
      BY <1>1, <3>1 DEF RunRecords
    <3>4. j.steps \in Ahead(j.agent)
      BY <1>3, <3>3, LeftIsAhead
    <3> QED BY <1>1, <3>1, <3>2, <3>3, <3>4 DEF RunRecords
  <2> QED BY <2>1, <2>2, <2>3
<1>6. j \in RunRecords
  <2>1. work'[t] = j /\ work' \in [Callers -> RunRecords]
    BY <1>1, <1>5 DEF SupervisorTypes
  <2> QED BY <2>1
<1>7. OrderlyRun(j)
  BY <1>1, <1>3, <1>4, <1>5 DEF OrderlyRun, NewStages, StartStages, StepStages, AgentStages
<1>8. \A d \in Events : AtWork(j, d) <=> Running(t, d)
  BY <1>2, <1>5 DEF AtWork, Running, TriedStages, StepStages, AgentStages
<1>9. UNCHANGED <<triggers, data, seen, active, doubled, leaked>>
  BY DEF apply_load, apply_save, save_stop, ghosts
<1> QED BY <1>1, <1>5, <1>6, <1>7, <1>8, <1>9, RunsMove

LEMMA RunsFinish ==
  ASSUME RunsInvariant, NEW t \in Callers, finish(t)
  PROVE  RunsInvariant'
<1>1. SupervisorTypes /\ SupervisorTypes' /\ OrderlyRun(work[t]) /\ work[t] \in RunRecords
  BY FinishTypes, EventOfRun DEF RunsInvariant
<1>2. PICK j : j = [work[t] EXCEPT !.stage = "leave"]
  OBVIOUS
<1>3. work' = [work EXCEPT ![t] = j] /\ j \in RunRecords
  BY <1>1, <1>2, GotoIsARecord DEF finish, Goto, Stages, TriedStages
<1>4. Grown /\ NewAreCovered
  <2>1. \A d \in Events : data[d] \in Nat /\ seen[d] <= data[d] /\ data[d] <= data[d]
    BY <1>1 DEF RunsInvariant, SupervisorTypes
  <2>2. work[t].base <= data[work[t].event]
    BY <1>1 DEF OrderlyRun
  <2>3. \A d \in Events : seen'[d] \in {seen[d]} \/ (d = work[t].event /\ seen'[d] = work[t].base)
    BY <1>1 DEF finish, SupervisorTypes
  <2>4. \A d \in Events : seen'[d] <= data[d]
    BY <2>1, <2>2, <2>3
  <2> QED BY <2>1, <2>4 DEF finish, ghosts, Grown, NewAreCovered
<1>5. OrderlyRun(j)
  BY <1>1, <1>2 DEF RunRecords, OrderlyRun, NewStages, StartStages, StepStages, AgentStages
<1>6. OrderlyRun(j)'
  BY <1>1, <1>3, <1>4, <1>5, OrderlyStays
<1>7. \A d \in Events : AtWork(j, d) <=> Running(t, d)
  BY <1>1, <1>2 DEF finish, RunRecords, AtWork, Running, TriedStages
<1> QED BY <1>1, <1>3, <1>4, <1>6, <1>7, RunsStep DEF finish, ghosts

\* A step that ends a run, by its finally clause or by an exception before it.
LEMMA RunsLeave ==
  ASSUME RunsInvariant, NEW t \in Callers, leave(t)
  PROVE  RunsInvariant'
<1> DEFINE e == work[t].event
<1>1. /\ SupervisorTypes /\ SupervisorTypes' /\ OrderlyRun(work[t])
      /\ work[t] \in RunRecords /\ e \in Events
  BY LeaveTypes, EventOfRun DEF RunsInvariant
<1>2. PICK stage \in {"ack", "raised"} : Goto(t, stage)
  BY DEF leave
<1>3. PICK j : j = [work[t] EXCEPT !.stage = stage]
  OBVIOUS
<1>4. work' = [work EXCEPT ![t] = j] /\ j \in RunRecords
  BY <1>1, <1>2, <1>3, GotoIsARecord DEF Goto, Stages
<1>5. Running(t, e) /\ \A i \in DOMAIN triggers : triggers[i].event = e => triggers[i].covered
  <2>1. Running(t, e)
    BY DEF leave, Running, TriedStages
  <2> QED BY <1>1, <2>1 DEF RunsInvariant, MarkedRun
<1>6. UNCHANGED <<triggers, data, seen, doubled>> /\ active' = active \ {e} /\ leaked' = leaked \ {e}
  BY DEF leave, rows
<1>7. Grown /\ NewAreCovered
  <2>1. \A d \in Events : data[d] <= data[d] /\ seen[d] <= data[d]
    BY <1>1 DEF RunsInvariant, SupervisorTypes
  <2> QED BY <1>5, <1>6, <2>1 DEF Grown, NewAreCovered
<1>8. OrderlyRun(j)
  <2>1. work[t].trigger # NoTrigger => triggers[work[t].trigger].covered
    BY <1>1, <1>5 DEF OrderlyRun
  <2> QED BY <1>1, <1>2, <1>3, <2>1 DEF RunRecords, OrderlyRun, NewStages, StartStages,
                                        StepStages, AgentStages
<1>9. \A u \in Callers : OrderlyRun(work[u])'
  <2>1. OrderlyRun(j)'
    BY <1>1, <1>4, <1>7, <1>8, OrderlyStays
  <2> QED BY <1>1, <1>4, <1>7, <2>1, AllOrderly
<1>10. \A u \in Callers : \A d \in Events : Running(u, d)' <=> u # t /\ Running(u, d)
  <2>1. \A d \in Events : ~AtWork(j, d)
    BY <1>1, <1>2, <1>3 DEF RunRecords, AtWork, StartStages, TriedStages, AgentStages
  <2> QED BY <1>1, <1>4, <2>1, RunningNext
<1>11. ASSUME NEW u \in Callers PROVE MarkedRun(u)'
  <2> SUFFICES ASSUME NEW d \in Events, u # t, Running(u, d)
               PROVE  /\ d \in active' \cup doubled'
                      /\ \A i \in DOMAIN triggers' : triggers'[i].event = d => triggers'[i].covered
    BY <1>10 DEF MarkedRun
  <2>1. /\ d \in active \cup doubled
        /\ \A i \in DOMAIN triggers : triggers[i].event = d => triggers[i].covered
    BY DEF RunsInvariant, MarkedRun
  <2>2. d = e => d \in doubled
    BY <1>1, <1>5 DEF RunsInvariant, OneRunPerEvent
  <2> QED BY <1>6, <2>1, <2>2
<1>12. OneRunPerEvent'
  BY <1>6, <1>10 DEF RunsInvariant, OneRunPerEvent
<1>13. ActiveHasRunner'
  <2> SUFFICES ASSUME NEW d \in active'
               PROVE  (\E u \in Callers : Running(u, d)') \/ d \in leaked'
    BY DEF ActiveHasRunner
  <2>1. d \in active /\ d # e /\ d \in Events
    BY <1>1, <1>6 DEF SupervisorTypes
  <2>2. ASSUME NEW u \in Callers, Running(u, d) PROVE Running(u, d)'
    <3>1. u # t
      BY <2>1, <2>2 DEF Running
    <3> QED BY <1>10, <2>1, <2>2, <3>1
  <2> QED BY <1>6, <2>1, <2>2 DEF RunsInvariant, ActiveHasRunner
<1> QED BY <1>1, <1>6, <1>9, <1>11, <1>12, <1>13 DEF RunsInvariant

LEMMA RunsFault ==
  ASSUME RunsInvariant, NEW t \in Callers, fault(t)
  PROVE  RunsInvariant'
<1> DEFINE e == work[t].event
<1>1. /\ SupervisorTypes /\ SupervisorTypes' /\ OrderlyRun(work[t])
      /\ work[t] \in RunRecords /\ e \in Events
  BY FaultTypes, EventOfRun DEF RunsInvariant
<1>2. PICK j \in RunRecords :
           /\ work' = [work EXCEPT ![t] = j]
           /\ \/ j = Idle /\ work[t].stage \in {"publish", "insert"}
              \/ \E stage \in {"raised", "fail", "raise", "dead"} :
                   /\ j = [work[t] EXCEPT !.stage = stage]
                   /\ stage = "fail" => work[t].stage \in AgentStages
                   /\ stage = "raise" => work[t].stage \in {"next", "fail"}
                   /\ stage \in {"raised", "dead"} =>
                        work[t].stage \in StartStages \cup {"ack", "idle", "lease", "raised"}
  BY <1>1, FaultStep
<1>3. /\ UNCHANGED <<triggers, data, seen, active, doubled>>
      /\ leaked' = IF work[t].stage \in StartStages THEN leaked \cup {e} ELSE leaked
  BY DEF fault
<1>4. Grown /\ NewAreCovered
  <2>1. \A d \in Events : data[d] <= data[d] /\ seen[d] <= data[d]
    BY <1>1 DEF RunsInvariant, SupervisorTypes
  <2> QED BY <1>3, <2>1 DEF Grown, NewAreCovered
<1>5. OrderlyRun(j)
  <2>1. CASE j = Idle
    BY <1>1, <2>1, IdleIsOrderly
  <2>2. ASSUME NEW stage \in {"raised", "fail", "raise", "dead"},
               j = [work[t] EXCEPT !.stage = stage],
               stage = "fail" => work[t].stage \in AgentStages
        PROVE  OrderlyRun(j)
    BY <1>1, <2>2 DEF RunRecords, OrderlyRun, NewStages, StartStages, StepStages, AgentStages
  <2> QED BY <1>2, <2>1, <2>2
<1>6. OrderlyRun(j)'
  BY <1>1, <1>4, <1>5, OrderlyStays
<1>7. CASE work[t].stage \notin StartStages
  <2>1. \A d \in Events : AtWork(j, d) <=> Running(t, d)
    BY <1>1, <1>2, <1>7 DEF RunRecords, AtWork, Running, StartStages, TriedStages, AgentStages, Idle
  <2> QED BY <1>1, <1>2, <1>3, <1>4, <1>6, <1>7, <2>1, RunsStep
<1>8. CASE work[t].stage \in StartStages
  <2>1. \A u \in Callers : OrderlyRun(work[u])'
    BY <1>1, <1>2, <1>4, <1>6, AllOrderly
  <2>2. \A u \in Callers : \A d \in Events : Running(u, d)' <=> u # t /\ Running(u, d)
    <3>1. j.stage \in {"raised", "dead"}
      BY <1>1, <1>2, <1>8 DEF RunRecords, StartStages, AgentStages
    <3>2. \A d \in Events : ~AtWork(j, d)
      BY <3>1 DEF AtWork, StartStages, TriedStages, AgentStages
    <3> QED BY <1>1, <1>2, <3>2, RunningNext
  <2>3. ASSUME NEW u \in Callers PROVE MarkedRun(u)'
    <3> SUFFICES ASSUME NEW d \in Events, Running(u, d)
                 PROVE  /\ d \in active' \cup doubled'
                        /\ \A i \in DOMAIN triggers' :
                             triggers'[i].event = d => triggers'[i].covered
      BY <2>2 DEF MarkedRun
    <3> QED BY <1>3 DEF RunsInvariant, MarkedRun
  <2>4. OneRunPerEvent'
    BY <1>3, <2>2 DEF RunsInvariant, OneRunPerEvent
  <2>5. ActiveHasRunner'
    <3> SUFFICES ASSUME NEW d \in active'
                 PROVE  (\E u \in Callers : Running(u, d)') \/ d \in leaked'
      BY DEF ActiveHasRunner
    <3>1. d \in active /\ d \in Events
      BY <1>1, <1>3 DEF SupervisorTypes
    <3>2. Running(t, d) => d = e
      BY DEF Running
    <3> QED BY <1>3, <1>8, <2>2, <3>1, <3>2 DEF RunsInvariant, ActiveHasRunner
  <2>6. \A d \in Events : seen'[d] <= data'[d]
    BY <1>3 DEF RunsInvariant
  <2> QED BY <1>1, <2>1, <2>3, <2>4, <2>5, <2>6 DEF RunsInvariant
<1> QED BY <1>7, <1>8

LEMMA RunsStatus ==
  ASSUME RunsInvariant, NEW e \in Events, status_load(e) \/ status_save(e)
  PROVE  RunsInvariant'
<1>1. SupervisorTypes'
  BY StatusTypes DEF RunsInvariant
<1>2. UNCHANGED <<triggers, work, data, seen, active, doubled, leaked>>
  BY DEF status_load, status_save, ghosts
<1> QED BY <1>1, <1>2 DEF RunsInvariant, OrderlyRun, MarkedRun, OneRunPerEvent, ActiveHasRunner,
                          Running

LEMMA RunsRestart ==
  ASSUME RunsInvariant, restart
  PROVE  RunsInvariant'
<1>1. SupervisorTypes /\ SupervisorTypes'
  BY RestartTypes DEF RunsInvariant
<1>2. \A t \in Callers : work'[t] = Idle
  BY DEF restart
<1>3. ASSUME NEW t \in Callers
      PROVE  OrderlyRun(work[t])' /\ \A e \in Events : ~Running(t, e)'
  <2>1. PICK w : w = Idle
    OBVIOUS
  <2>2. w.event \in Events /\ 0 <= data'[w.event]
    BY <1>1, <2>1, IdleIsARecord DEF RunRecords, SupervisorTypes
  <2>3. /\ w.stage = "idle" /\ w.trigger = NoTrigger /\ w.created = {} /\ ~w.failed
        /\ w.agent = "none" /\ w.base = 0
    BY <2>1 DEF Idle
  <2>4. work'[t] = w
    BY <1>2, <2>1
  <2>5. OrderlyRun(work[t])'
    BY <2>2, <2>3, <2>4 DEF OrderlyRun, NewStages, StepStages, AgentStages, StartStages
  <2>6. \A e \in Events : ~Running(t, e)'
    BY <2>3, <2>4 DEF Running, StartStages, TriedStages, AgentStages
  <2> QED BY <2>5, <2>6
<1>5. active' = {} /\ \A e \in Events : seen'[e] <= data'[e]
  BY DEF restart, RunsInvariant
<1> QED BY <1>1, <1>3, <1>5 DEF RunsInvariant, MarkedRun, OneRunPerEvent, ActiveHasRunner

LEMMA RunsQuiet ==
  ASSUME RunsInvariant, UNCHANGED agentVars
  PROVE  RunsInvariant'
BY DEF RunsInvariant, OrderlyRun, MarkedRun, OneRunPerEvent, ActiveHasRunner, Running,
       agentVars, SupervisorTypes

LEMMA RunsKept == RunsInvariant /\ [AgentNext]_agentVars => RunsInvariant'
<1> SUFFICES ASSUME RunsInvariant, [AgentNext]_agentVars PROVE RunsInvariant'
  OBVIOUS
<1>1. ASSUME NEW t \in Callers, RunStep(t) PROVE RunsInvariant'
  BY <1>1, RunsEnter, RunsLoad, RunsSupersede, RunsStart, RunsEnqueue, RunsTask, RunsRun,
     RunsApply, RunsFinish, RunsLeave, RunsSettled, RunsPublish, RunsInsert DEF RunStep
<1> QED BY <1>1, RunsFault, RunsLease, RunsSweep, RunsRequest, RunsStatus, RunsRestart, RunsQuiet
        DEF AgentNext, LoopStep

(***************************************************************************)
(* The task rows of a run.                                                 *)
(***************************************************************************)
LEMMA RunAt ==
  ASSUME NEW t \in Callers, work[t].stage \in StepStages \cup {"next"} \cup TriedStages \cup StartStages
  PROVE  Running(t, work[t].event)
BY DEF Running, StepStages, TriedStages

\* A step of a thread that changes rows of the event it runs at most, before its report.
LEMMA RowsStep ==
  ASSUME RunsInvariant, RunsInvariant', RowsInvariant, NEW t \in Callers, NEW j,
         work' = [work EXCEPT ![t] = j], UNCHANGED <<report, doubled>>,
         \/ UNCHANGED tasks
         \/ /\ Running(t, work[t].event) /\ work[t].stage # "leave"
            /\ \A u \in Callers : \A d \in Events \ {work[t].event} : tasks'[u][d] = tasks[u][d],
         RowsOfRun(t)', ReportedRun(t)'
  PROVE  RowsInvariant'
<1> DEFINE e == work[t].event
<1>1. SupervisorTypes /\ e \in Events
  BY EventOfRun DEF RunsInvariant
<1>2. ASSUME NEW u \in Callers, u # t PROVE RowsOfRun(u)' /\ ReportedRun(u)'
  <2>1. work'[u] = work[u] /\ work[u].event \in Events
    BY <1>1, <1>2, EventOfRun DEF SupervisorTypes
  <2>2. RowsOfRun(u) /\ ReportedRun(u)
    BY DEF RowsInvariant
  <2>3. ReportedRun(u)'
    BY <2>1, <2>2 DEF ReportedRun, Running
  <2>4. CASE UNCHANGED tasks
    BY <2>1, <2>2, <2>3, <2>4 DEF RowsOfRun
  <2>5. CASE work[u].event # e /\ ~UNCHANGED tasks
    <3>1. tasks'[u][work[u].event] = tasks[u][work[u].event]
      BY <1>1, <2>1, <2>5
    <3> QED BY <2>1, <2>2, <2>3, <3>1 DEF RowsOfRun
  <2>6. CASE work[u].event = e /\ ~UNCHANGED tasks
    <3>1. CASE work[u].stage \in StepStages \cup {"next"}
      <4>1. e \in doubled
        BY <1>1, <1>2, <2>6, <3>1, RunAt DEF RunsInvariant, OneRunPerEvent
      <4> QED BY <2>1, <2>3, <2>6, <4>1 DEF RowsOfRun
    <3>2. CASE work[u].stage \notin StepStages \cup {"next"}
      BY <2>1, <2>3, <3>2 DEF RowsOfRun, StepStages
    <3> QED BY <3>1, <3>2
  <2> QED BY <2>4, <2>5, <2>6
<1>3. CompletedRunsFinished'
  <2> SUFFICES ASSUME NEW d \in Events, report[d].status = "completed", d \notin doubled,
                      NEW a \in report[d].created
               PROVE  tasks'[report[d].thread][d][a] = "completed"
    BY DEF CompletedRunsFinished
  <2>1. tasks[report[d].thread][d][a] = "completed" /\ report[d].thread \in Callers
    BY <1>1 DEF RowsInvariant, CompletedRunsFinished, SupervisorTypes, RunReports
  <2>2. CASE UNCHANGED tasks
    BY <2>1, <2>2
  <2>3. CASE ~UNCHANGED tasks
    <3>1. d # e
      BY <2>3 DEF RowsInvariant, ReportedRun
    <3> QED BY <2>1, <2>3, <3>1
  <2> QED BY <2>2, <2>3
<1> QED BY <1>2, <1>3 DEF RowsInvariant

\* A step that takes a thread to a place where it runs nothing.
LEMMA RowsOutside ==
  ASSUME RunsInvariant, RunsInvariant', RowsInvariant, NEW t \in Callers, NEW j,
         work' = [work EXCEPT ![t] = j], UNCHANGED <<tasks, report, doubled>>,
         j.stage \notin StartStages \cup TriedStages
  PROVE  RowsInvariant'
<1>1. work'[t] = j
  BY DEF RunsInvariant, SupervisorTypes
<1>2. RowsOfRun(t)' /\ ReportedRun(t)'
  BY <1>1 DEF RowsOfRun, ReportedRun, Running, StepStages, TriedStages
<1> QED BY <1>2, RowsStep

LEMMA CallStep ==
  ASSUME SupervisorTypes, NEW t \in Callers,
         \/ \E e \in Events : tick(t, e) \/ \E type \in TriggerTypes : ingest(t, e, type)
         \/ publish(t) \/ insert(t) \/ ack(t) \/ raised(t) \/ leave(t)
         \/ enter(t) /\ Busy(work[t].event)
  PROVE  \E j : /\ work' = [work EXCEPT ![t] = j]
               /\ j.stage \in {"enter", "publish", "insert", "idle", "ack", "raised"}
<1>0. work[t] \in RunRecords
  BY EventOfRun
<1>1. ASSUME NEW stage, Goto(t, stage)
      PROVE  \E j : work' = [work EXCEPT ![t] = j] /\ j.stage = stage
  <2>1. [work[t] EXCEPT !.stage = stage].stage = stage
    BY <1>0 DEF RunRecords
  <2> QED BY <1>1, <2>1 DEF Goto
<1>2. Idle.stage = "idle"
  BY DEF Idle
<1>3. ASSUME NEW e \in Events, tick(t, e)
      PROVE  \E j : work' = [work EXCEPT ![t] = j] /\ j.stage = "enter"
  <2>1. [Idle EXCEPT !.stage = "enter", !.event = e].stage = "enter"
    BY DEF Idle
  <2> QED BY <1>3, <2>1 DEF tick
<1>4. ASSUME NEW e \in Events, NEW type \in TriggerTypes, ingest(t, e, type)
      PROVE  \E j : work' = [work EXCEPT ![t] = j] /\ j.stage = "publish"
  <2>1. [Idle EXCEPT !.stage = "publish", !.event = e, !.type = type].stage = "publish"
    BY DEF Idle
  <2> QED BY <1>4, <2>1 DEF ingest
<1>5. CASE publish(t)
  BY <1>1, <1>2, <1>5 DEF publish
<1>6. CASE insert(t)
  <2>1. PICK k : k = [work[t] EXCEPT !.stage = "enter", !.trigger = Len(triggers) + 1]
    OBVIOUS
  <2>2. k.stage = "enter"
    BY <1>0, <2>1 DEF RunRecords
  <2>3. work' \in {[work EXCEPT ![t] = k], [work EXCEPT ![t] = Idle]}
    BY <1>6, <2>1 DEF insert
  <2> QED BY <1>2, <2>2, <2>3
<1>7. CASE ack(t) \/ raised(t)
  BY <1>2, <1>7 DEF ack, raised
<1>8. CASE leave(t)
  <2>1. Goto(t, "ack") \/ Goto(t, "raised")
    BY <1>8 DEF leave
  <2> QED BY <1>1, <2>1
<1>9. CASE enter(t) /\ Busy(work[t].event)
  BY <1>1, <1>9 DEF enter
<1> QED BY <1>3, <1>4, <1>5, <1>6, <1>7, <1>8, <1>9

LEMMA LeaseStep ==
  ASSUME SupervisorTypes, lease \/ \E i \in DOMAIN triggers : lease_read(i)
  PROVE  \E j : work' = [work EXCEPT ![LoopThread] = j] /\ j.stage \in {"lease", "enter"}
<1>0. LoopThread \in Callers /\ work[LoopThread] \in RunRecords
  BY SupervisorAssumption, EventOfRun
<1>1. CASE lease
  <2>1. [work[LoopThread] EXCEPT !.stage = "enter"].stage = "enter"
    BY <1>0 DEF RunRecords
  <2> QED BY <1>1, <2>1 DEF lease, Goto
<1>2. ASSUME NEW i \in DOMAIN triggers, lease_read(i)
      PROVE  \E j : work' = [work EXCEPT ![LoopThread] = j] /\ j.stage = "lease"
  <2>1. PICK j : j = [Idle EXCEPT !.stage = "lease", !.event = triggers[i].event,
                                  !.type = triggers[i].type, !.trigger = i]
    OBVIOUS
  <2>2. j.stage = "lease"
    BY <2>1 DEF Idle
  <2> QED BY <1>2, <2>1, <2>2 DEF lease_read
<1> QED BY <1>1, <1>2

LEMMA RowsCalls ==
  ASSUME RunsInvariant, RunsInvariant', RowsInvariant, NEW t \in Callers,
         \/ \E e \in Events : tick(t, e) \/ \E type \in TriggerTypes : ingest(t, e, type)
         \/ publish(t) \/ insert(t) \/ ack(t) \/ raised(t) \/ leave(t)
         \/ enter(t) /\ Busy(work[t].event)
  PROVE  RowsInvariant'
<1>1. SupervisorTypes /\ work[t] \in RunRecords
  BY EventOfRun DEF RunsInvariant
<1>2. UNCHANGED <<tasks, report, doubled>>
  BY DEF tick, ingest, publish, insert, ack, raised, leave, enter, rows, ghosts
<1>3. PICK j : /\ work' = [work EXCEPT ![t] = j]
               /\ j.stage \in {"enter", "publish", "insert", "idle", "ack", "raised"}
  BY <1>1, CallStep
<1>4. j.stage \notin StartStages \cup TriedStages
  BY <1>3 DEF StartStages, TriedStages, AgentStages
<1> QED BY <1>2, <1>3, <1>4, RowsOutside

LEMMA RowsLease ==
  ASSUME RunsInvariant, RunsInvariant', RowsInvariant,
         lease \/ \E i \in DOMAIN triggers : lease_read(i)
  PROVE  RowsInvariant'
<1>1. LoopThread \in Callers /\ work[LoopThread] \in RunRecords
  BY SupervisorAssumption, EventOfRun DEF RunsInvariant
<1>2. UNCHANGED <<tasks, report, doubled>>
  BY DEF lease, lease_read, rows, ghosts
<1>3. PICK j : work' = [work EXCEPT ![LoopThread] = j] /\ j.stage \in {"lease", "enter"}
  BY LeaseStep DEF RunsInvariant
<1>4. j.stage \notin StartStages \cup TriedStages
  BY <1>3 DEF StartStages, TriedStages, AgentStages
<1> QED BY <1>1, <1>2, <1>3, <1>4, RowsOutside

LEMMA RowsEnter ==
  ASSUME RunsInvariant, RunsInvariant', RowsInvariant, NEW t \in Callers, enter(t),
         ~Busy(work[t].event)
  PROVE  RowsInvariant'
<1> DEFINE e == work[t].event
<1>1. SupervisorTypes /\ e \in Events /\ work[t] \in RunRecords
  BY EventOfRun DEF RunsInvariant
<1>2. /\ Goto(t, "record") /\ report' = [report EXCEPT ![e] = NoReport] /\ doubled \subseteq doubled'
      /\ tasks' = [u \in Callers |-> IF Running(u, e) THEN tasks[u]
                                    ELSE [tasks[u] EXCEPT ![e] = OpenRows(@)]]
  BY DEF enter
<1>3. PICK j : j = [work[t] EXCEPT !.stage = "record"]
  OBVIOUS
<1>4. j.stage = "record" /\ j.event = e /\ work' = [work EXCEPT ![t] = j]
  BY <1>1, <1>2, <1>3 DEF RunRecords, Goto
<1>5. /\ report'[e].status = "none" /\ \A d \in Events \ {e} : report'[d] = report[d]
  BY <1>1, <1>2 DEF NoReport, SupervisorTypes
<1>6. \A u \in Callers : \A d \in Events : d # e \/ Running(u, e) => tasks'[u][d] = tasks[u][d]
  BY <1>1, <1>2 DEF SupervisorTypes
<1>7. ASSUME NEW u \in Callers PROVE RowsOfRun(u)' /\ ReportedRun(u)'
  <2>1. CASE u = t
    <3>1. work'[t] = j
      BY <1>1, <1>4 DEF SupervisorTypes
    <3> QED BY <1>4, <1>5, <2>1, <3>1 DEF RowsOfRun, ReportedRun, StepStages, AgentStages
  <2>2. CASE u # t
    <3>1. work'[u] = work[u] /\ work[u].event \in Events
      BY <1>1, <1>4, <2>2, EventOfRun DEF SupervisorTypes
    <3>2. RowsOfRun(u) /\ ReportedRun(u)
      BY DEF RowsInvariant
    <3>3. ReportedRun(u)'
      BY <1>2, <1>5, <3>1, <3>2 DEF ReportedRun, Running
    <3>4. CASE work[u].stage \in StepStages \cup {"next"}
      <4>1. tasks'[u][work[u].event] = tasks[u][work[u].event]
        BY <1>6, <3>1, <3>4, RunAt
      <4> QED BY <1>2, <3>1, <3>2, <3>3, <4>1 DEF RowsOfRun
    <3>5. CASE work[u].stage \notin StepStages \cup {"next"}
      BY <3>1, <3>3, <3>5 DEF RowsOfRun, StepStages
    <3> QED BY <3>4, <3>5
  <2> QED BY <2>1, <2>2
<1>8. CompletedRunsFinished'
  <2> SUFFICES ASSUME NEW d \in Events, report'[d].status = "completed", d \notin doubled',
                      NEW a \in report'[d].created
               PROVE  tasks'[report'[d].thread][d][a] = "completed"
    BY DEF CompletedRunsFinished
  <2>1. d # e /\ report'[d] = report[d] /\ d \notin doubled
    BY <1>2, <1>5
  <2>2. tasks[report[d].thread][d][a] = "completed" /\ report[d].thread \in Callers
    BY <1>1, <2>1 DEF RowsInvariant, CompletedRunsFinished, SupervisorTypes, RunReports
  <2> QED BY <1>6, <2>1, <2>2
<1> QED BY <1>7, <1>8 DEF RowsInvariant

\* The steps of a run up to its graph: no agent of its own is at work yet.
LEMMA RowsLoad ==
  ASSUME RunsInvariant, RunsInvariant', RowsInvariant, NEW t \in Callers,
         \/ save_run(t) \/ load_memory(t) \/ create_memory(t) \/ list_open(t)
         \/ \E v \in Callers \X Agents : supersede(t, v)
         \/ start_graph(t)
  PROVE  RowsInvariant'
<1> DEFINE e == work[t].event
<1>1. SupervisorTypes /\ e \in Events /\ work[t] \in RunRecords /\ OrderlyRun(work[t])
  BY EventOfRun DEF RunsInvariant
<1>2. Running(t, e) /\ work[t].stage # "leave" /\ work[t].created = {}
  BY <1>1 DEF save_run, load_memory, create_memory, list_open, supersede, start_graph, Running,
              StartStages, OrderlyRun, NewStages
<1>3. UNCHANGED <<report, doubled>>
  BY DEF save_run, load_memory, create_memory, list_open, supersede, start_graph, rows, ghosts
<1>4. \A u \in Callers : \A d \in Events \ {e} : tasks'[u][d] = tasks[u][d]
  <2>1. ASSUME NEW v \in Callers \X Agents, supersede(t, v)
        PROVE  \A u \in Callers : \A d \in Events \ {e} : tasks'[u][d] = tasks[u][d]
    <3>1. v[1] \in Callers /\ v[2] \in Agents
      OBVIOUS
    <3>2. PICK x, a : x = v[1] /\ a = v[2]
      OBVIOUS
    <3>3. tasks' = [tasks EXCEPT ![x][e][a] = "superseded"] /\ x \in Callers /\ a \in Agents
      BY <2>1, <3>1, <3>2 DEF supersede
    <3>4. RowWritten(x, e, a, "superseded")
      BY <3>3 DEF RowWritten
    <3>5. \A u \in Callers, d \in Events : u # x \/ d # e => tasks'[u][d] = tasks[u][d]
      BY <1>1, <3>3, <3>4, RowSet
    <3> QED BY <3>5
  <2>2. CASE start_graph(t)
    BY <1>1, <2>2 DEF start_graph, SupervisorTypes
  <2>3. CASE UNCHANGED tasks
    BY <2>3
  <2> QED BY <2>1, <2>2, <2>3 DEF save_run, load_memory, create_memory, list_open, rows
<1>5. ASSUME NEW j, work' = [work EXCEPT ![t] = j], j.event = e,
             \/ j.stage \in StartStages
             \/ j.stage = "next" /\ j.created = {}
      PROVE  RowsInvariant'
  <2>1. work'[t] = j
    BY <1>1, <1>5 DEF SupervisorTypes
  <2>2. RowsOfRun(t)'
    BY <1>5, <2>1 DEF RowsOfRun, StepStages, AgentStages, StartStages
  <2>3. ReportedRun(t)'
    BY <1>2, <1>3, <1>5, <2>1 DEF RowsInvariant, ReportedRun
  <2> QED BY <1>2, <1>3, <1>4, <1>5, <2>2, <2>3, RowsStep
<1>6. CASE save_run(t)
  <2>1. PICK j : j = [work[t] EXCEPT !.stage = "load"]
    OBVIOUS
  <2>2. work' = [work EXCEPT ![t] = j] /\ j.stage = "load" /\ j.event = e
    BY <1>1, <1>6, <2>1 DEF save_run, Goto, RunRecords
  <2> QED BY <1>5, <2>2 DEF StartStages
<1>7. CASE load_memory(t)
  <2>1. PICK stage : stage = (IF memory[e] = NoMemory THEN "create" ELSE "list")
    OBVIOUS
  <2>2. PICK j : j = [work[t] EXCEPT !.stage = stage, !.gate = memory[e].gate]
    OBVIOUS
  <2>3. work' = [work EXCEPT ![t] = j]
    BY <1>7, <2>1, <2>2 DEF load_memory
  <2>4. j.stage = stage /\ j.event = e
    BY <1>1, <2>2 DEF RunRecords
  <2> QED BY <1>5, <2>1, <2>3, <2>4 DEF StartStages
<1>8. CASE create_memory(t)
  <2>1. PICK j : j = [work[t] EXCEPT !.stage = "list"]
    OBVIOUS
  <2>2. work' = [work EXCEPT ![t] = j] /\ j.stage = "list" /\ j.event = e
    BY <1>1, <1>8, <2>1 DEF create_memory, Goto, RunRecords
  <2> QED BY <1>5, <2>2 DEF StartStages
<1>9. CASE list_open(t)
  <2>1. PICK vs : vs = {v \in Callers \X Agents : tasks[v[1]][e][v[2]] \in Open}
    OBVIOUS
  <2>2. PICK j : j = [work[t] EXCEPT !.stage = "supersede", !.victims = vs]
    OBVIOUS
  <2>3. work' = [work EXCEPT ![t] = j]
    BY <1>9, <2>1, <2>2 DEF list_open
  <2>4. j.stage = "supersede" /\ j.event = e
    BY <1>1, <2>2 DEF RunRecords
  <2> QED BY <1>5, <2>3, <2>4 DEF StartStages
<1>10. ASSUME NEW v \in Callers \X Agents, supersede(t, v) PROVE RowsInvariant'
  <2>1. PICK j : j = [work[t] EXCEPT !.victims = work[t].victims \ {v}]
    OBVIOUS
  <2>2. work' = [work EXCEPT ![t] = j]
    BY <1>10, <2>1 DEF supersede
  <2>3. j.stage = "supersede" /\ j.event = e
    BY <1>1, <1>10, <2>1 DEF RunRecords, supersede
  <2> QED BY <1>5, <2>2, <2>3 DEF StartStages
<1>11. CASE start_graph(t)
  <2>1. PICK j : j = [work[t] EXCEPT !.stage = "next", !.steps = initial_steps(work[t].type)]
    OBVIOUS
  <2>2. work' = [work EXCEPT ![t] = j]
    BY <1>11, <2>1 DEF start_graph
  <2>3. j.stage = "next" /\ j.event = e /\ j.created = {}
    BY <1>1, <1>2, <2>1 DEF RunRecords
  <2> QED BY <1>5, <2>2, <2>3
<1> QED BY <1>6, <1>7, <1>8, <1>9, <1>10, <1>11

\* The steps of the graph: t's own rows only.
LEMMA RowsEnqueue ==
  ASSUME RunsInvariant, RunsInvariant', RowsInvariant, NEW t \in Callers, enqueue(t)
  PROVE  RowsInvariant'
<1>0. PICK e : e = work[t].event
  OBVIOUS
<1>1. SupervisorTypes /\ e \in Events /\ work[t] \in RunRecords /\ work[t].stage = "next"
  BY <1>0, EventOfRun DEF RunsInvariant, enqueue
<1>2. PICK k, j : Enqueued(t, k, j)
  BY <1>1, EnqueueStep
<1>3. PICK a : a = work[t].steps[k]
  OBVIOUS
<1>4. /\ a \in Agents \ work[t].created /\ work' = [work EXCEPT ![t] = j]
      /\ tasks' = [tasks EXCEPT ![t][e][a] = "pending"]
  BY <1>0, <1>2, <1>3 DEF Enqueued
<1>5. /\ j.stage = "claim" /\ j.agent = a /\ j.created = work[t].created \cup {a}
      /\ j.event = e /\ j.failed = work[t].failed
  BY <1>0, <1>1, <1>2, <1>3 DEF Enqueued, RunRecords
<1>6. /\ tasks'[t][e] = [tasks[t][e] EXCEPT ![a] = "pending"]
      /\ \A u \in Callers, d \in Events : u # t \/ d # e => tasks'[u][d] = tasks[u][d]
  <2>1. PICK status : status = "pending"
    OBVIOUS
  <2>2. RowWritten(t, e, a, status)
    BY <1>4, <2>1 DEF RowWritten
  <2>3. e \in Events /\ a \in Agents
    BY <1>0, <1>1, <1>4
  <2>4. status \in {"none", "pending", "running", "completed", "failed", "superseded"}
    BY <2>1
  <2>5. /\ tasks'[t][e] = [tasks[t][e] EXCEPT ![a] = status]
        /\ \A v \in Callers, d \in Events : v # t \/ d # e => tasks'[v][d] = tasks[v][d]
    <3>1. SupervisorTypes
      BY <1>1
    <3>2. /\ tasks'[t][e] = RowAfter(t, e, a, status)
          /\ \A v \in Callers, d \in Events : v # t \/ d # e => tasks'[v][d] = tasks[v][d]
      BY <2>2, <2>3, <2>4, <3>1, RowSet
    <3> QED BY <3>2 DEF RowAfter
  <2> QED BY <2>1, <2>5
<1>7. tasks[t][e] \in TaskRows
  BY <1>0, <1>1 DEF SupervisorTypes
<1>8. tasks'[t][e][a] = "pending" /\ \A b \in Agents \ {a} : tasks'[t][e][b] = tasks[t][e][b]
  BY <1>4, <1>6, <1>7 DEF TaskRows
<1>9. work'[t] = j /\ UNCHANGED <<report, doubled>>
  BY <1>0, <1>1, <1>4 DEF SupervisorTypes, enqueue, ghosts
<1>10. e \notin doubled /\ ~work[t].failed => \A b \in work[t].created : tasks[t][e][b] = "completed"
  BY <1>0, <1>1 DEF RowsInvariant, RowsOfRun
<1>11. RowsOfRun(t)'
  <2> SUFFICES ASSUME e \notin doubled
               PROVE  /\ tasks'[t][e][a] # "superseded"
                      /\ ~j.failed => \A b \in j.created : tasks'[t][e][b] = "completed" \/ b = a
    BY <1>0, <1>5, <1>9 DEF RowsOfRun
  <2>1. work[t].created \subseteq Agents \ {a}
    BY <1>0, <1>1, <1>4 DEF RunRecords
  <2> QED BY <1>5, <1>8, <1>10, <2>1
<1>12. Running(t, e)
  BY <1>0, <1>1 DEF Running, TriedStages
<1>13. ReportedRun(t)'
  BY <1>0, <1>1, <1>5, <1>9, <1>12 DEF RowsInvariant, ReportedRun
<1>14. /\ Running(t, work[t].event) /\ work[t].stage # "leave"
       /\ \A u \in Callers : \A d \in Events \ {work[t].event} : tasks'[u][d] = tasks[u][d]
  BY <1>0, <1>1, <1>6, <1>12
<1> QED BY <1>4, <1>9, <1>11, <1>13, <1>14, RowsStep

LEMMA RowsTask ==
  ASSUME RunsInvariant, RunsInvariant', RowsInvariant, NEW t \in Callers,
         claim(t) \/ complete(t) \/ fail_task(t)
  PROVE  RowsInvariant'
<1>0. PICK e, a : e = work[t].event /\ a = work[t].agent
  OBVIOUS
<1>1. /\ SupervisorTypes /\ e \in Events /\ work[t] \in RunRecords
      /\ work[t].stage \in {"claim", "complete", "fail"}
  BY <1>0, EventOfRun DEF RunsInvariant, claim, complete, fail_task
<1>2. a \in work[t].created /\ a \in Agents
  BY <1>0, <1>1 DEF RunsInvariant, OrderlyRun, StepStages, AgentStages, RunRecords
<1>3. PICK status, j :
        /\ status \in {"running", "completed", "failed"}
        /\ work' = [work EXCEPT ![t] = j]
        /\ SetTask(t, status)
        /\ \/ j = [work[t] EXCEPT !.stage = "run"] /\ work[t].stage = "claim"
           \/ j = [work[t] EXCEPT !.stage = "apply"] /\ status = "completed"
              /\ work[t].stage = "complete"
           \/ j = [work[t] EXCEPT !.stage = "next", !.failed = TRUE]
  <2>1. PICK j1, j2, j3 : /\ j1 = [work[t] EXCEPT !.stage = "run"]
                          /\ j2 = [work[t] EXCEPT !.stage = "apply"]
                          /\ j3 = [work[t] EXCEPT !.stage = "next", !.failed = TRUE]
    OBVIOUS
  <2>2. \/ /\ work' = [work EXCEPT ![t] = j1] /\ SetTask(t, "running")
           /\ work[t].stage = "claim"
        \/ /\ work' = [work EXCEPT ![t] = j2] /\ SetTask(t, "completed")
           /\ work[t].stage = "complete"
        \/ /\ work' = [work EXCEPT ![t] = j3] /\ SetTask(t, "failed")
    BY <2>1 DEF claim, complete, fail_task, Goto
  <2> QED BY <2>1, <2>2
<1>4. /\ j.agent = a /\ j.created = work[t].created /\ j.event = e
      /\ \/ j.stage = "run" /\ j.failed = work[t].failed
         \/ j.stage = "apply" /\ j.failed = work[t].failed /\ status = "completed"
         \/ j.stage = "next" /\ j.failed
  BY <1>0, <1>1, <1>3 DEF RunRecords
<1>5. /\ tasks'[t][e] = [tasks[t][e] EXCEPT ![a] = status]
      /\ \A u \in Callers, d \in Events : u # t \/ d # e => tasks'[u][d] = tasks[u][d]
  <2>1. e \in Events /\ a \in Agents
    BY <1>0, <1>1, <1>2
  <2>2. status \in {"none", "pending", "running", "completed", "failed", "superseded"}
    BY <1>3
  <2>3. RowWritten(t, e, a, status)
    BY <1>0, <1>3 DEF SetTask, RowWritten
  <2>4. /\ tasks'[t][e] = [tasks[t][e] EXCEPT ![a] = status]
        /\ \A v \in Callers, d \in Events : v # t \/ d # e => tasks'[v][d] = tasks[v][d]
    <3>1. SupervisorTypes
      BY <1>1
    <3>2. /\ tasks'[t][e] = RowAfter(t, e, a, status)
          /\ \A v \in Callers, d \in Events : v # t \/ d # e => tasks'[v][d] = tasks[v][d]
      BY <2>1, <2>2, <2>3, <3>1, RowSet
    <3> QED BY <3>2 DEF RowAfter
  <2> QED BY <2>4
<1>6. tasks[t][e] \in TaskRows
  BY <1>0, <1>1 DEF SupervisorTypes
<1>7. tasks'[t][e][a] = status /\ \A b \in Agents \ {a} : tasks'[t][e][b] = tasks[t][e][b]
  BY <1>2, <1>5, <1>6 DEF TaskRows
<1>8. work'[t] = j /\ UNCHANGED <<report, doubled>>
  BY <1>0, <1>1, <1>3 DEF SupervisorTypes, claim, complete, fail_task, ghosts
<1>9. e \notin doubled /\ ~work[t].failed /\ work[t].stage # "fail" =>
        \A b \in work[t].created : tasks[t][e][b] = "completed" \/ b = a
  BY <1>0, <1>1 DEF RowsInvariant, RowsOfRun, AgentStages
<1>10. work[t].stage = "fail" => j.failed
  BY <1>1, <1>3 DEF RunRecords
<1>11. RowsOfRun(t)'
  <2> SUFFICES ASSUME e \notin doubled
               PROVE  /\ tasks'[t][e][a] # "superseded"
                      /\ ~j.failed => \A b \in j.created :
                           tasks'[t][e][b] = "completed" \/ (b = a /\ j.stage = "run")
    BY <1>0, <1>4, <1>8 DEF RowsOfRun
  <2>1. work[t].created \subseteq Agents
    BY <1>0, <1>1 DEF RunRecords
  <2>2. tasks'[t][e][a] # "superseded"
    BY <1>3, <1>7
  <2>3. ASSUME ~j.failed, NEW b \in j.created
        PROVE  tasks'[t][e][b] = "completed" \/ (b = a /\ j.stage = "run")
    <3>1. CASE b = a
      BY <1>4, <1>7, <2>3, <3>1
    <3>2. CASE b # a
      BY <1>4, <1>7, <1>9, <1>10, <2>1, <2>3, <3>2
    <3> QED BY <3>1, <3>2
  <2> QED BY <2>2, <2>3
<1>12. Running(t, e)
  BY <1>0, <1>1 DEF Running, TriedStages, AgentStages
<1>13. ReportedRun(t)'
  BY <1>0, <1>1, <1>4, <1>8, <1>12 DEF RowsInvariant, ReportedRun
<1>14. /\ Running(t, work[t].event) /\ work[t].stage # "leave"
       /\ \A u \in Callers : \A d \in Events \ {work[t].event} : tasks'[u][d] = tasks[u][d]
  BY <1>0, <1>1, <1>5, <1>12
<1> QED BY <1>3, <1>8, <1>11, <1>13, <1>14, RowsStep

\* The rows stay as they are.
LEMMA RowsMove ==
  ASSUME RunsInvariant, RunsInvariant', RowsInvariant, NEW t \in Callers, NEW j,
         work' = [work EXCEPT ![t] = j], UNCHANGED <<tasks, report, doubled>>,
         work[t].stage \in StepStages \cup {"next"},
         j.event = work[t].event, j.agent = work[t].agent, j.created = work[t].created,
         j.failed = work[t].failed,
         \/ j.stage \in {"raise"}
         \/ j.stage = "fail" /\ work[t].stage \in AgentStages
         \/ j.stage \in {"complete", "fold", "stop", "next"} /\ work[t].stage \in AgentStages
            /\ (j.stage = "complete" \/ work[t].stage \notin {"claim", "run", "complete"})
  PROVE  RowsInvariant'
<1>1. work'[t] = j
  BY DEF RunsInvariant, SupervisorTypes
<1>2. RowsOfRun(t)'
  BY <1>1 DEF RowsInvariant, RowsOfRun, StepStages, AgentStages
<1>3. Running(t, work[t].event) /\ work[t].stage # "leave"
  BY DEF Running, StepStages, TriedStages, AgentStages
<1>4. ReportedRun(t)'
  BY <1>1, <1>3 DEF RowsInvariant, ReportedRun
<1> QED BY <1>2, <1>4, RowsStep

LEMMA RowsGraph ==
  ASSUME RunsInvariant, RunsInvariant', RowsInvariant, NEW t \in Callers,
         \/ \E o \in Outcomes(work[t].agent) : run_agent(t, o)
         \/ apply_load(t) \/ apply_save(t) \/ save_stop(t)
  PROVE  RowsInvariant'
<1>1. SupervisorTypes /\ work[t] \in RunRecords /\ OrderlyRun(work[t])
  BY EventOfRun DEF RunsInvariant
<1>2. UNCHANGED <<tasks, report, doubled>>
  BY DEF run_agent, apply_load, apply_save, save_stop, rows, ghosts
<1>3. ASSUME NEW o \in Outcomes(work[t].agent), run_agent(t, o) PROVE RowsInvariant'
  <2>1. PICK j : j = [work[t] EXCEPT
           !.stage = "complete", !.outcome = o,
           !.gate = IF work[t].agent = "POLICY" THEN o = "gate" ELSE work[t].gate,
           !.base = IF work[t].created = {work[t].agent} THEN data[work[t].event]
                    ELSE work[t].base]
    OBVIOUS
  <2>2. work' = [work EXCEPT ![t] = j] /\ work[t].stage = "run"
    BY <1>3, <2>1 DEF run_agent
  <2>3. /\ j.stage = "complete" /\ j.event = work[t].event /\ j.agent = work[t].agent
        /\ j.created = work[t].created /\ j.failed = work[t].failed
    BY <1>1, <2>1 DEF RunRecords
  <2> QED BY <1>2, <2>2, <2>3, RowsMove DEF StepStages, AgentStages
<1>4. CASE apply_load(t)
  <2>1. PICK j : j = [work[t] EXCEPT !.stage = "fold", !.shared = memory[work[t].event]]
    OBVIOUS
  <2>2. work' = [work EXCEPT ![t] = j] /\ work[t].stage = "apply"
    BY <1>4, <2>1 DEF apply_load
  <2>3. /\ j.stage = "fold" /\ j.event = work[t].event /\ j.agent = work[t].agent
        /\ j.created = work[t].created /\ j.failed = work[t].failed
    BY <1>1, <2>1 DEF RunRecords
  <2> QED BY <1>2, <2>2, <2>3, RowsMove DEF StepStages, AgentStages
<1>5. CASE apply_save(t)
  <2>1. PICK next, j : Applied(t, next, j)
    BY <1>1, <1>5, ApplyStep
  <2>2. /\ j.stage \in {"stop", "next"} /\ j.event = work[t].event /\ j.agent = work[t].agent
        /\ j.created = work[t].created /\ j.failed = work[t].failed
    BY <1>1, <2>1 DEF Applied, RunRecords
  <2>3. work' = [work EXCEPT ![t] = j] /\ work[t].stage = "fold"
    BY <1>5, <2>1 DEF Applied, apply_save
  <2> QED BY <1>2, <2>2, <2>3, RowsMove DEF StepStages, AgentStages
<1>6. CASE save_stop(t)
  <2>1. PICK j : j = [work[t] EXCEPT !.stage = "next", !.shared = EmptyMemory]
    OBVIOUS
  <2>2. work' = [work EXCEPT ![t] = j] /\ work[t].stage = "stop"
    BY <1>6, <2>1 DEF save_stop
  <2>3. /\ j.stage = "next" /\ j.event = work[t].event /\ j.agent = work[t].agent
        /\ j.created = work[t].created /\ j.failed = work[t].failed
    BY <1>1, <2>1 DEF RunRecords
  <2> QED BY <1>2, <2>2, <2>3, RowsMove DEF StepStages, AgentStages
<1> QED BY <1>3, <1>4, <1>5, <1>6

\* The report is written when the rows say what it says.
LEMMA RowsFinish ==
  ASSUME RunsInvariant, RunsInvariant', RowsInvariant, NEW t \in Callers, finish(t)
  PROVE  RowsInvariant'
<1> DEFINE e == work[t].event
<1>1. /\ SupervisorTypes /\ e \in Events /\ work[t] \in RunRecords /\ work[t].stage = "next"
      /\ UNCHANGED <<tasks, doubled>>
  BY EventOfRun DEF RunsInvariant, finish, ghosts
<1>2. PICK j : j = [work[t] EXCEPT !.stage = "leave"]
  OBVIOUS
<1>3. work' = [work EXCEPT ![t] = j] /\ j.stage = "leave" /\ j.event = e
  BY <1>1, <1>2 DEF finish, Goto, RunRecords
<1>4. Running(t, e)
  BY <1>1 DEF Running, TriedStages
<1>5. PICK r : r = [status |-> IF work[t].failed THEN "failed" ELSE "completed",
                    created |-> work[t].created, thread |-> t]
  OBVIOUS
<1>6. report'[e] = r /\ \A d \in Events \ {e} : report'[d] = report[d]
  BY <1>1, <1>5 DEF finish, SupervisorTypes
<1>7. ASSUME NEW u \in Callers PROVE RowsOfRun(u)' /\ ReportedRun(u)'
  <2>1. CASE u = t
    <3>1. work'[t] = j
      BY <1>1, <1>3 DEF SupervisorTypes
    <3> QED BY <1>3, <2>1, <3>1 DEF RowsOfRun, ReportedRun, StepStages, AgentStages
  <2>2. CASE u # t
    <3>1. work'[u] = work[u] /\ work[u].event \in Events
      BY <1>1, <1>3, <2>2, EventOfRun DEF SupervisorTypes
    <3>2. RowsOfRun(u) /\ ReportedRun(u)
      BY DEF RowsInvariant
    <3>3. RowsOfRun(u)'
      BY <1>1, <3>1, <3>2 DEF RowsOfRun
    <3>4. Running(u, e) => e \in doubled
      BY <1>1, <1>4, <2>2 DEF RunsInvariant, OneRunPerEvent
    <3>5. ReportedRun(u)'
      BY <1>1, <1>6, <3>1, <3>2, <3>4 DEF ReportedRun, Running
    <3> QED BY <3>3, <3>5
  <2> QED BY <2>1, <2>2
<1>8. CompletedRunsFinished'
  <2> SUFFICES ASSUME NEW d \in Events, report'[d].status = "completed", d \notin doubled,
                      NEW a \in report'[d].created
               PROVE  tasks[report'[d].thread][d][a] = "completed"
    BY <1>1 DEF CompletedRunsFinished
  <2>1. CASE d = e
    <3>1. ~work[t].failed /\ a \in work[t].created /\ report'[d].thread = t
      BY <1>5, <1>6, <2>1
    <3>2. RowsOfRun(t)
      BY DEF RowsInvariant
    <3> QED BY <1>1, <2>1, <3>1, <3>2 DEF RowsOfRun
  <2>2. CASE d # e
    BY <1>6, <2>2 DEF RowsInvariant, CompletedRunsFinished
  <2> QED BY <2>1, <2>2
<1> QED BY <1>7, <1>8 DEF RowsInvariant

LEMMA RowsFault ==
  ASSUME RunsInvariant, RunsInvariant', RowsInvariant, NEW t \in Callers, fault(t)
  PROVE  RowsInvariant'
<1>1. SupervisorTypes /\ work[t] \in RunRecords
  BY EventOfRun DEF RunsInvariant
<1>2. PICK j \in RunRecords :
           /\ work' = [work EXCEPT ![t] = j]
           /\ \/ j = Idle /\ work[t].stage \in {"publish", "insert"}
              \/ \E stage \in {"raised", "fail", "raise", "dead"} :
                   /\ j = [work[t] EXCEPT !.stage = stage]
                   /\ stage = "fail" => work[t].stage \in AgentStages
                   /\ stage = "raise" => work[t].stage \in {"next", "fail"}
                   /\ stage \in {"raised", "dead"} =>
                        work[t].stage \in StartStages \cup {"ack", "idle", "lease", "raised"}
  BY <1>1, FaultStep
<1>3. UNCHANGED <<tasks, report, doubled>>
  BY DEF fault, rows
<1>4. CASE j.stage \in {"idle", "raised", "dead"}
  BY <1>2, <1>3, <1>4, RowsOutside DEF StartStages, TriedStages, AgentStages
<1>5. CASE j.stage \notin {"idle", "raised", "dead"}
  <2>1. PICK stage \in {"fail", "raise"} :
                   /\ j = [work[t] EXCEPT !.stage = stage]
                   /\ stage = "fail" => work[t].stage \in AgentStages
                   /\ stage = "raise" => work[t].stage \in {"next", "fail"}
    BY <1>1, <1>2, <1>5 DEF Idle, RunRecords
  <2>2. /\ j.stage = stage /\ j.event = work[t].event /\ j.agent = work[t].agent
        /\ j.created = work[t].created /\ j.failed = work[t].failed
    BY <1>1, <2>1 DEF RunRecords
  <2> QED BY <1>2, <1>3, <2>1, <2>2, RowsMove DEF StepStages
<1> QED BY <1>4, <1>5

LEMMA RowsKept ==
  RunsInvariant /\ RunsInvariant' /\ RowsInvariant /\ [AgentNext]_agentVars => RowsInvariant'
<1> SUFFICES ASSUME RunsInvariant, RunsInvariant', RowsInvariant, [AgentNext]_agentVars
             PROVE  RowsInvariant'
  OBVIOUS
<1>1. ASSUME NEW t \in Callers, RunStep(t) PROVE RowsInvariant'
  BY <1>1, RowsCalls, RowsEnter, RowsLoad, RowsEnqueue, RowsTask, RowsGraph, RowsFinish
     DEF RunStep
<1>2. ASSUME NEW e \in Events, status_load(e) \/ status_save(e) PROVE RowsInvariant'
  BY <1>2 DEF status_load, status_save, rows, ghosts, RowsInvariant, RowsOfRun, ReportedRun,
              CompletedRunsFinished, Running
<1>3. CASE restart
  <2>1. \A t \in Callers : work'[t] = Idle
    BY <1>3 DEF restart
  <2>2. \A e \in Events : report'[e].status = "none"
    BY <1>3 DEF restart, NoReport
  <2>3. PICK w : w = Idle
    OBVIOUS
  <2>5. w.stage = "idle"
    BY <2>3 DEF Idle
  <2>4. \A t \in Callers : work'[t].stage = "idle"
    BY <2>1, <2>3, <2>5
  <2> QED BY <2>2, <2>4 DEF RowsInvariant, Running, StartStages, TriedStages, RowsOfRun, ReportedRun, CompletedRunsFinished,
                            StepStages, AgentStages
<1>4. CASE UNCHANGED agentVars
  BY <1>4 DEF agentVars, RowsInvariant, RowsOfRun, ReportedRun, CompletedRunsFinished, Running
<1> QED BY <1>1, <1>2, <1>3, <1>4, RowsFault, RowsLease, RowsCalls DEF AgentNext, LoopStep

LEMMA RowsInit == AgentInit => RowsInvariant
<1> SUFFICES ASSUME AgentInit PROVE RowsInvariant
  OBVIOUS
<1>1. \A t \in Callers : work[t].stage = "idle"
  BY DEF AgentInit, Idle
<1>2. \A e \in Events : report[e].status = "none"
  BY DEF AgentInit, NoReport
<1> QED BY <1>1, <1>2 DEF RowsInvariant, Running, StartStages, TriedStages, RowsOfRun, ReportedRun, CompletedRunsFinished,
                          StepStages, AgentStages

(***************************************************************************)
(* The memory that the runs of an event share.                             *)
(***************************************************************************)
\* A step of a thread that changes the memory of the event it runs at most, before
\* its report.
LEMMA MemoryStep ==
  ASSUME RunsInvariant, RowsInvariant, MemoryInvariant, NEW t \in Callers, NEW j,
         work' = [work EXCEPT ![t] = j], UNCHANGED <<report, doubled, wiped>>,
         \/ UNCHANGED <<memory, verdict>>
         \/ LET e == work[t].event IN
              /\ Running(t, e) /\ work[t].stage # "leave"
              /\ memory'[e].folded \subseteq Agents
              /\ Untouched(e) => memory'[e].gate = verdict'[e]
              /\ \A d \in Events \ {e} : memory'[d] = memory[d] /\ verdict'[d] = verdict[d],
         MemoryOfRun(t)'
  PROVE  MemoryInvariant'
<1>1. PICK e : e = work[t].event
  OBVIOUS
<1>2. SupervisorTypes /\ e \in Events
  BY <1>1, EventOfRun DEF RunsInvariant
<1>3. \A u \in Callers : u # t => work'[u] = work[u]
  BY <1>2 DEF SupervisorTypes
<1>4. CASE UNCHANGED <<memory, verdict>>
  <2>1. ASSUME NEW u \in Callers, u # t PROVE MemoryOfRun(u)'
    <3>1. MemoryOfRun(u)
      BY DEF MemoryInvariant
    <3> QED BY <1>3, <1>4, <2>1, <3>1 DEF MemoryOfRun, Untouched
  <2> QED BY <1>4, <2>1 DEF MemoryInvariant, MemoryKeepsResults, GateIsLastVerdict
<1>5. CASE ~UNCHANGED <<memory, verdict>>
  <2>1. /\ Running(t, e) /\ work[t].stage # "leave"
        /\ memory'[e].folded \subseteq Agents /\ memory'[e] # NoMemory
        /\ Untouched(e) => memory'[e].gate = verdict'[e]
        /\ \A d \in Events \ {e} : memory'[d] = memory[d] /\ verdict'[d] = verdict[d]
    <3>1. ~(NoMemory.folded \subseteq Agents)
      BY DEF NoMemory, Agents
    <3> QED BY <1>1, <1>5, <3>1
  <2>2. ASSUME NEW u \in Callers, u # t PROVE MemoryOfRun(u)'
    <3>1. MemoryOfRun(u) /\ work'[u] = work[u] /\ work[u].event \in Events
      BY <1>2, <1>3, <2>2, EventOfRun DEF MemoryInvariant
    <3>2. CASE work[u].event # e
      <4>1. memory'[work[u].event] = memory[work[u].event]
            /\ verdict'[work[u].event] = verdict[work[u].event]
        BY <2>1, <3>1, <3>2
      <4> QED BY <3>1, <4>1 DEF MemoryOfRun, Untouched
    <3>3. CASE work[u].event = e
      <4>1. work[u].stage \in StartStages \cup TriedStages => ~Untouched(e)
        BY <1>2, <2>1, <2>2, <3>3 DEF RunsInvariant, OneRunPerEvent, Running, Untouched
      <4>2. CASE ~Untouched(e)
        BY <2>1, <3>1, <3>3, <4>2 DEF MemoryOfRun, Untouched
      <4>3. CASE work[u].stage \notin StartStages \cup TriedStages
        BY <3>1, <4>3 DEF MemoryOfRun, LoadedStages, StartStages, TriedStages, AgentStages
      <4> QED BY <4>1, <4>2, <4>3
    <3> QED BY <3>2, <3>3
  <2>3. ASSUME NEW d \in Events
        PROVE  /\ IF memory'[d] = NoMemory THEN ~verdict'[d] ELSE memory'[d].folded \subseteq Agents
               /\ memory'[d] # NoMemory /\ d \notin doubled \cup wiped => memory'[d].gate = verdict'[d]
    <3>1. CASE d = e
      BY <2>1, <3>1 DEF Untouched
    <3>2. CASE d # e
      BY <2>1, <3>2 DEF MemoryInvariant, GateIsLastVerdict
    <3> QED BY <3>1, <3>2
  <2>4. MemoryKeepsResults'
    <3> SUFFICES ASSUME NEW d \in Events, report[d].status = "completed", d \notin doubled \cup wiped
                 PROVE  report[d].created \subseteq memory'[d].folded
      BY DEF MemoryKeepsResults
    <3>1. d # e
      BY <1>1, <2>1 DEF RowsInvariant, ReportedRun
    <3> QED BY <2>1, <3>1 DEF MemoryInvariant, MemoryKeepsResults
  <2> QED BY <2>2, <2>3, <2>4 DEF MemoryInvariant, GateIsLastVerdict, MemoryOfRun
<1> QED BY <1>4, <1>5

LEMMA MemoryOutside ==
  ASSUME RunsInvariant, RowsInvariant, MemoryInvariant, NEW t \in Callers, NEW j,
         work' = [work EXCEPT ![t] = j],
         UNCHANGED <<report, doubled, wiped, memory, verdict>>,
         j.stage \notin (StartStages \cup TriedStages) \ {"record", "load"}
  PROVE  MemoryInvariant'
<1>1. work'[t] = j
  BY DEF RunsInvariant, SupervisorTypes
<1>2. MemoryOfRun(t)'
  BY <1>1 DEF MemoryOfRun, LoadedStages, StartStages, TriedStages, AgentStages
<1> QED BY <1>2, MemoryStep

LEMMA MemoryCalls ==
  ASSUME RunsInvariant, RowsInvariant, MemoryInvariant, NEW t \in Callers,
         \/ \E e \in Events : tick(t, e) \/ \E type \in TriggerTypes : ingest(t, e, type)
         \/ publish(t) \/ insert(t) \/ ack(t) \/ raised(t) \/ leave(t)
         \/ enter(t) /\ Busy(work[t].event)
  PROVE  MemoryInvariant'
<1>1. PICK j : /\ work' = [work EXCEPT ![t] = j]
               /\ j.stage \in {"enter", "publish", "insert", "idle", "ack", "raised"}
  BY CallStep DEF RunsInvariant
<1>2. j.stage \notin (StartStages \cup TriedStages) \ {"record", "load"}
  BY <1>1 DEF StartStages, TriedStages, AgentStages
<1>3. UNCHANGED <<report, doubled, wiped, memory, verdict>>
  BY DEF tick, ingest, publish, insert, ack, raised, leave, enter, rows, ghosts
<1> QED BY <1>1, <1>2, <1>3, MemoryOutside

LEMMA MemoryLease ==
  ASSUME RunsInvariant, RowsInvariant, MemoryInvariant,
         lease \/ \E i \in DOMAIN triggers : lease_read(i)
  PROVE  MemoryInvariant'
<1>1. PICK j : work' = [work EXCEPT ![LoopThread] = j] /\ j.stage \in {"lease", "enter"}
  BY LeaseStep DEF RunsInvariant
<1>2. j.stage \notin (StartStages \cup TriedStages) \ {"record", "load"}
  BY <1>1 DEF StartStages, TriedStages, AgentStages
<1>3. UNCHANGED <<report, doubled, wiped, memory, verdict>> /\ LoopThread \in Callers
  BY SupervisorAssumption DEF lease, lease_read, rows, ghosts
<1> QED BY <1>1, <1>2, <1>3, MemoryOutside

LEMMA MemoryEnter ==
  ASSUME RunsInvariant, RowsInvariant, MemoryInvariant, NEW t \in Callers, enter(t),
         ~Busy(work[t].event)
  PROVE  MemoryInvariant'
<1>1. PICK e : e = work[t].event
  OBVIOUS
<1>2. SupervisorTypes /\ e \in Events /\ work[t] \in RunRecords
  BY <1>1, EventOfRun DEF RunsInvariant
<1>3. PICK j : j = [work[t] EXCEPT !.stage = "record"]
  OBVIOUS
<1>4. j.stage = "record" /\ work' = [work EXCEPT ![t] = j]
  BY <1>2, <1>3 DEF enter, Goto, RunRecords
<1>5. /\ UNCHANGED <<memory, wiped, verdict>> /\ doubled \subseteq doubled'
      /\ report'[e].status = "none" /\ \A d \in Events \ {e} : report'[d] = report[d]
  BY <1>1, <1>2 DEF enter, NoReport, SupervisorTypes
<1>6. ASSUME NEW u \in Callers PROVE MemoryOfRun(u)'
  <2>1. CASE u = t
    <3>1. work'[t] = j
      BY <1>2, <1>4 DEF SupervisorTypes
    <3> QED BY <1>4, <2>1, <3>1 DEF MemoryOfRun, LoadedStages, TriedStages, AgentStages
  <2>2. CASE u # t
    <3>1. work'[u] = work[u] /\ MemoryOfRun(u)
      BY <1>2, <1>4, <2>2 DEF SupervisorTypes, MemoryInvariant
    <3>2. Untouched(work[u].event)' => Untouched(work[u].event)
      BY <1>5, <3>1 DEF Untouched
    <3>3. \A d : d \notin doubled' \cup wiped' => d \notin doubled \cup wiped
      BY <1>5
    <3> QED BY <1>5, <3>1, <3>3 DEF MemoryOfRun, Untouched
  <2> QED BY <2>1, <2>2
<1>7. MemoryKeepsResults' /\ GateIsLastVerdict'
  BY <1>5 DEF MemoryInvariant, MemoryKeepsResults, GateIsLastVerdict
<1> QED BY <1>5, <1>6, <1>7 DEF MemoryInvariant

LEMMA MemoryLoad ==
  ASSUME RunsInvariant, RowsInvariant, MemoryInvariant, NEW t \in Callers,
         save_run(t) \/ load_memory(t) \/ create_memory(t) \/ list_open(t)
         \/ \E v \in Callers \X Agents : supersede(t, v)
  PROVE  MemoryInvariant'
<1>1. PICK e : e = work[t].event
  OBVIOUS
<1>2. /\ SupervisorTypes /\ e \in Events /\ work[t] \in RunRecords /\ MemoryOfRun(t)
      /\ OrderlyRun(work[t])
  BY <1>1, EventOfRun DEF RunsInvariant, MemoryInvariant
<1>3. UNCHANGED <<report, doubled, wiped, verdict>>
  BY DEF save_run, load_memory, create_memory, list_open, supersede, rows, ghosts
<1>4. memory[e] \in Memories /\ IF memory[e] = NoMemory THEN ~verdict[e]
                                ELSE memory[e].folded \subseteq Agents
  BY <1>2 DEF MemoryInvariant, SupervisorTypes
<1>0. /\ verdict[e] \in BOOLEAN /\ (~verdict[e] => verdict[e] = FALSE)
      /\ work[t].gate \in BOOLEAN /\ (~work[t].gate => work[t].gate = FALSE)
  <2>1. verdict[e] \in BOOLEAN /\ work[t].gate \in BOOLEAN
    BY <1>2 DEF SupervisorTypes, RunRecords
  <2> QED BY <2>1
<1>5. work[t].stage \in StartStages /\ work[t].agent = "none"
  BY <1>2 DEF save_run, load_memory, create_memory, list_open, supersede, OrderlyRun, NewStages,
              StartStages
<1>6. CASE save_run(t)
  <2>1. PICK j : j = [work[t] EXCEPT !.stage = "load"]
    OBVIOUS
  <2>2. work' = [work EXCEPT ![t] = j] /\ j.stage = "load"
    BY <1>2, <1>6, <2>1 DEF save_run, Goto, RunRecords
  <2> QED BY <1>3, <1>6, <2>2, MemoryOutside DEF save_run
<1>7. CASE load_memory(t)
  <2>1. PICK stage : stage = (IF memory[e] = NoMemory THEN "create" ELSE "list")
    OBVIOUS
  <2>2. PICK j : j = [work[t] EXCEPT !.stage = stage, !.gate = memory[e].gate]
    OBVIOUS
  <2>3. work' = [work EXCEPT ![t] = j] /\ UNCHANGED memory
    BY <1>1, <1>7, <2>1, <2>2 DEF load_memory
  <2>4. j.stage = stage /\ j.event = e /\ j.gate = memory[e].gate /\ work'[t] = j
    BY <1>1, <1>2, <2>2, <2>3 DEF RunRecords, SupervisorTypes
  <2>5. stage = "create" => ~memory[e].gate
    BY <2>1 DEF NoMemory
  <2>6. Untouched(e) => memory[e].gate = verdict[e]
    <3>1. CASE memory[e] = NoMemory
      <4>1. memory[e].gate = FALSE
        BY <3>1 DEF NoMemory
      <4>2. verdict[e] = FALSE
        BY <1>0, <1>4, <3>1
      <4> QED BY <4>1, <4>2
    <3>2. CASE memory[e] # NoMemory
      BY <1>2, <3>2 DEF MemoryInvariant, GateIsLastVerdict, Untouched
    <3> QED BY <3>1, <3>2
  <2>7. MemoryOfRun(t)'
    <3>1. stage = "list" => memory[e] # NoMemory
      BY <2>1
    <3>2. stage \in {"create", "list"}
      BY <2>1
    <3> QED BY <1>3, <2>3, <2>4, <2>5, <2>6, <3>1, <3>2
            DEF MemoryOfRun, Untouched, LoadedStages, TriedStages, AgentStages
  <2> QED BY <1>3, <2>3, <2>7, MemoryStep
<1>8. CASE create_memory(t)
  <2>1. PICK j : j = [work[t] EXCEPT !.stage = "list"]
    OBVIOUS
  <2>2. /\ work' = [work EXCEPT ![t] = j] /\ work[t].stage = "create"
        /\ memory' = [memory EXCEPT ![e] = EmptyMemory]
    BY <1>1, <1>8, <2>1 DEF create_memory, Goto
  <2>3. j.stage = "list" /\ j.event = e /\ j.gate = work[t].gate /\ work'[t] = j
    BY <1>1, <1>2, <2>1, <2>2 DEF RunRecords, SupervisorTypes
  <2>4. /\ memory'[e] = EmptyMemory /\ \A d \in Events \ {e} : memory'[d] = memory[d]
    BY <1>2, <2>2 DEF SupervisorTypes
  <2>5. work[t].gate = FALSE /\ (Untouched(e) => work[t].gate = verdict[e])
    <3>1. ~work[t].gate
      BY <1>2, <2>2 DEF MemoryOfRun
    <3>2. Untouched(e) => work[t].gate = verdict[e]
      BY <1>1, <1>2, <1>5, <2>2 DEF MemoryOfRun
    <3> QED BY <1>0, <3>1, <3>2
  <2>6. EmptyMemory.folded = {} /\ EmptyMemory.gate = FALSE /\ EmptyMemory # NoMemory
    BY DEF EmptyMemory, NoMemory
  <2>7. MemoryOfRun(t)'
    <3>1. memory'[e] # NoMemory /\ (Untouched(e) => j.gate = verdict'[e])
      BY <1>3, <2>3, <2>4, <2>5, <2>6
    <3> QED BY <1>3, <2>3, <3>1
            DEF MemoryOfRun, Untouched, LoadedStages, TriedStages, AgentStages
  <2>8. Running(t, e) /\ work[t].stage # "leave"
    BY <1>1, <1>5 DEF Running, StartStages
  <2>10. Untouched(e) => memory'[e].gate = verdict'[e]
    BY <1>3, <2>4, <2>5, <2>6
  <2>11. memory'[e].folded \subseteq Agents
    BY <2>4, <2>6
  <2> QED BY <1>1, <1>3, <2>2, <2>4, <2>7, <2>8, <2>10, <2>11, MemoryStep
<1>9. ASSUME NEW j, work' = [work EXCEPT ![t] = j], UNCHANGED memory, j.event = e,
             j.gate = work[t].gate, j.stage = "supersede", work[t].stage \in {"list", "supersede"}
      PROVE  MemoryInvariant'
  <2>1. work'[t] = j
    BY <1>2, <1>9 DEF SupervisorTypes
  <2>2. MemoryOfRun(t)'
    BY <1>1, <1>2, <1>3, <1>5, <1>9, <2>1
       DEF MemoryOfRun, Untouched, LoadedStages, TriedStages, AgentStages
  <2> QED BY <1>3, <1>9, <2>2, MemoryStep
<1>10. CASE list_open(t)
  <2>1. PICK vs : vs = {v \in Callers \X Agents : tasks[v[1]][e][v[2]] \in Open}
    OBVIOUS
  <2>2. PICK j : j = [work[t] EXCEPT !.stage = "supersede", !.victims = vs]
    OBVIOUS
  <2>3. work' = [work EXCEPT ![t] = j] /\ UNCHANGED memory /\ work[t].stage = "list"
    BY <1>1, <1>10, <2>1, <2>2 DEF list_open
  <2>4. j.event = e /\ j.gate = work[t].gate /\ j.stage = "supersede"
    BY <1>1, <1>2, <2>2 DEF RunRecords
  <2> QED BY <1>9, <2>3, <2>4
<1>11. ASSUME NEW v \in Callers \X Agents, supersede(t, v) PROVE MemoryInvariant'
  <2>1. PICK j : j = [work[t] EXCEPT !.victims = work[t].victims \ {v}]
    OBVIOUS
  <2>2. work' = [work EXCEPT ![t] = j] /\ UNCHANGED memory /\ work[t].stage = "supersede"
    BY <1>11, <2>1 DEF supersede
  <2>3. j.event = e /\ j.gate = work[t].gate /\ j.stage = "supersede"
    BY <1>1, <1>2, <2>1, <2>2 DEF RunRecords
  <2> QED BY <1>9, <2>2, <2>3
<1> QED BY <1>6, <1>7, <1>8, <1>10, <1>11

LEMMA MemoryStart ==
  ASSUME RunsInvariant, RowsInvariant, MemoryInvariant, NEW t \in Callers, start_graph(t)
  PROVE  MemoryInvariant'
<1>1. PICK e : e = work[t].event
  OBVIOUS
<1>2. /\ SupervisorTypes /\ e \in Events /\ work[t] \in RunRecords /\ MemoryOfRun(t)
      /\ OrderlyRun(work[t]) /\ work[t].stage = "supersede"
      /\ UNCHANGED <<report, doubled, wiped, verdict>>
  BY <1>1, EventOfRun DEF RunsInvariant, MemoryInvariant, start_graph, ghosts
<1>3. work[t].agent = "none" /\ work[t].created = {} /\ Running(t, e)
  BY <1>1, <1>2 DEF OrderlyRun, NewStages, StartStages, Running
<1>4. PICK j : j = [work[t] EXCEPT !.stage = "next", !.steps = initial_steps(work[t].type)]
  OBVIOUS
<1>5. work' = [work EXCEPT ![t] = j]
  BY <1>4 DEF start_graph
<1>6. /\ j.stage = "next" /\ j.event = e /\ j.created = {} /\ j.gate = work[t].gate
      /\ work'[t] = j
  BY <1>1, <1>2, <1>3, <1>4, <1>5 DEF RunRecords, SupervisorTypes
<1>7. PICK m : m = [memory[e] EXCEPT !.folded = {}]
  OBVIOUS
<1>8. memory'[e] = m /\ \A d \in Events \ {e} : memory'[d] = memory[d]
  BY <1>1, <1>2, <1>7 DEF start_graph, SupervisorTypes
<1>9. m.folded = {} /\ m.gate = memory[e].gate /\ m # NoMemory
  BY <1>2, <1>7 DEF SupervisorTypes, Memories, NoMemory
<1>10. memory[e] # NoMemory /\ (Untouched(e) => work[t].gate = verdict[e])
  BY <1>1, <1>2, <1>3 DEF MemoryOfRun, LoadedStages
<1>11. Untouched(e) => memory[e].gate = verdict[e]
  BY <1>2, <1>10 DEF MemoryInvariant, GateIsLastVerdict, Untouched
<1>12. MemoryOfRun(t)'
  BY <1>2, <1>6, <1>8, <1>9, <1>10 DEF MemoryOfRun, Untouched, LoadedStages, TriedStages, AgentStages
<1>13. /\ Untouched(e) => memory'[e].gate = verdict'[e]
       /\ memory'[e].folded \subseteq Agents
  BY <1>2, <1>8, <1>9, <1>11
<1> QED BY <1>1, <1>2, <1>3, <1>5, <1>8, <1>12, <1>13, MemoryStep

LEMMA MemoryEnqueue ==
  ASSUME RunsInvariant, RowsInvariant, MemoryInvariant, NEW t \in Callers, enqueue(t)
  PROVE  MemoryInvariant'
<1>1. PICK e : e = work[t].event
  OBVIOUS
<1>2. /\ SupervisorTypes /\ e \in Events /\ work[t] \in RunRecords /\ MemoryOfRun(t)
      /\ work[t].stage = "next" /\ UNCHANGED <<report, doubled, wiped, memory, verdict>>
  BY <1>1, EventOfRun DEF RunsInvariant, MemoryInvariant, enqueue, ghosts
<1>3. PICK k, j : Enqueued(t, k, j)
  BY <1>2, EnqueueStep
<1>4. PICK a : a = work[t].steps[k]
  OBVIOUS
<1>5. work' = [work EXCEPT ![t] = j] /\ work[t].steps # <<>>
  BY <1>3 DEF Enqueued
<1>6. /\ j.stage = "claim" /\ j.agent = a /\ j.created = work[t].created \cup {a}
      /\ j.event = e /\ j.failed = work[t].failed /\ j.gate = work[t].gate /\ work'[t] = j
  BY <1>1, <1>2, <1>3, <1>4, <1>5 DEF Enqueued, RunRecords, SupervisorTypes
<1>7. MemoryOfRun(t)'
  BY <1>1, <1>2, <1>5, <1>6 DEF MemoryOfRun, Untouched, LoadedStages, TriedStages, AgentStages
<1> QED BY <1>2, <1>5, <1>7, MemoryStep

\* A step that moves a run on and leaves the memory and what the run knows of it alone.
LEMMA MemoryOfRunStays ==
  ASSUME SupervisorTypes, NEW t \in Callers, MemoryOfRun(t), NEW j, work' = [work EXCEPT ![t] = j],
         UNCHANGED <<memory, verdict, doubled, wiped>>,
         j.event = work[t].event, j.agent = work[t].agent, j.created = work[t].created,
         j.gate = work[t].gate, j.steps = work[t].steps, j.shared = work[t].shared,
         j.outcome = work[t].outcome, work[t].failed => j.failed,
         \/ work[t].stage = "claim" /\ j.stage = "run"
         \/ work[t].stage = "complete" /\ j.stage = "apply"
         \/ work[t].stage = "fail" /\ j.stage = "next" /\ j.failed
         \/ work[t].stage \in AgentStages /\ j.stage = "fail"
         \/ work[t].stage \in {"next", "fail"} /\ j.stage = "raise"
         \/ work[t].stage = "next" /\ j.stage = "leave"
  PROVE  MemoryOfRun(t)'
<1>1. work'[t] = j
  BY DEF SupervisorTypes
<1> QED BY <1>1 DEF MemoryOfRun, Untouched, LoadedStages, TriedStages, AgentStages

LEMMA MemoryTask ==
  ASSUME RunsInvariant, RowsInvariant, MemoryInvariant, NEW t \in Callers,
         claim(t) \/ complete(t) \/ fail_task(t)
  PROVE  MemoryInvariant'
<1>1. SupervisorTypes /\ work[t] \in RunRecords /\ MemoryOfRun(t)
  BY EventOfRun DEF RunsInvariant, MemoryInvariant
<1>2. PICK j1, j2, j3 : /\ j1 = [work[t] EXCEPT !.stage = "run"]
                        /\ j2 = [work[t] EXCEPT !.stage = "apply"]
                        /\ j3 = [work[t] EXCEPT !.stage = "next", !.failed = TRUE]
  OBVIOUS
<1>3. PICK j :
        /\ work' = [work EXCEPT ![t] = j]
        /\ \/ j = j1 /\ work[t].stage = "claim"
           \/ j = j2 /\ work[t].stage = "complete"
           \/ j = j3 /\ work[t].stage = "fail"
  BY <1>2 DEF claim, complete, fail_task, Goto
<1>4. /\ j.event = work[t].event /\ j.agent = work[t].agent /\ j.created = work[t].created
      /\ j.gate = work[t].gate /\ j.steps = work[t].steps /\ j.shared = work[t].shared
      /\ j.outcome = work[t].outcome
      /\ \/ work[t].stage = "claim" /\ j.stage = "run" /\ j.failed = work[t].failed
         \/ work[t].stage = "complete" /\ j.stage = "apply" /\ j.failed = work[t].failed
         \/ work[t].stage = "fail" /\ j.stage = "next" /\ j.failed
  BY <1>1, <1>2, <1>3 DEF RunRecords
<1>5. UNCHANGED <<report, doubled, wiped, memory, verdict>>
  BY DEF claim, complete, fail_task, ghosts
<1>6. MemoryOfRun(t)'
  BY <1>1, <1>3, <1>4, <1>5, MemoryOfRunStays
<1> QED BY <1>3, <1>5, <1>6, MemoryStep

LEMMA MemoryFault ==
  ASSUME RunsInvariant, RowsInvariant, MemoryInvariant, NEW t \in Callers, fault(t)
  PROVE  MemoryInvariant'
<1>1. SupervisorTypes /\ work[t] \in RunRecords /\ MemoryOfRun(t)
  BY EventOfRun DEF RunsInvariant, MemoryInvariant
<1>2. PICK j \in RunRecords :
           /\ work' = [work EXCEPT ![t] = j]
           /\ \/ j = Idle /\ work[t].stage \in {"publish", "insert"}
              \/ \E stage \in {"raised", "fail", "raise", "dead"} :
                   /\ j = [work[t] EXCEPT !.stage = stage]
                   /\ stage = "fail" => work[t].stage \in AgentStages
                   /\ stage = "raise" => work[t].stage \in {"next", "fail"}
                   /\ stage \in {"raised", "dead"} =>
                        work[t].stage \in StartStages \cup {"ack", "idle", "lease", "raised"}
  BY <1>1, FaultStep
<1>3. UNCHANGED <<report, doubled, wiped, memory, verdict>>
  BY DEF fault, rows
<1>4. CASE j.stage \in {"idle", "raised", "dead"}
  BY <1>2, <1>3, <1>4, MemoryOutside DEF StartStages, TriedStages, AgentStages
<1>5. CASE j.stage \notin {"idle", "raised", "dead"}
  <2>1. PICK stage \in {"fail", "raise"} :
                   /\ j = [work[t] EXCEPT !.stage = stage]
                   /\ stage = "fail" => work[t].stage \in AgentStages
                   /\ stage = "raise" => work[t].stage \in {"next", "fail"}
    BY <1>1, <1>2, <1>5 DEF Idle, RunRecords
  <2>2. /\ j.stage = stage /\ j.event = work[t].event /\ j.agent = work[t].agent
        /\ j.created = work[t].created /\ j.failed = work[t].failed
        /\ j.gate = work[t].gate /\ j.steps = work[t].steps /\ j.shared = work[t].shared
        /\ j.outcome = work[t].outcome
    BY <1>1, <2>1 DEF RunRecords
  <2>3. MemoryOfRun(t)'
    BY <1>1, <1>2, <1>3, <2>1, <2>2, MemoryOfRunStays
  <2> QED BY <1>2, <1>3, <2>3, MemoryStep
<1> QED BY <1>4, <1>5

LEMMA MemoryFinish ==
  ASSUME RunsInvariant, RowsInvariant, MemoryInvariant, NEW t \in Callers, finish(t)
  PROVE  MemoryInvariant'
<1>1. PICK e : e = work[t].event
  OBVIOUS
<1>2. /\ SupervisorTypes /\ e \in Events /\ work[t] \in RunRecords /\ work[t].stage = "next"
      /\ UNCHANGED <<doubled, wiped, memory, verdict>>
  BY <1>1, EventOfRun DEF RunsInvariant, finish, ghosts
<1>3. PICK j : j = [work[t] EXCEPT !.stage = "leave"]
  OBVIOUS
<1>4. work' = [work EXCEPT ![t] = j]
  BY <1>3 DEF finish, Goto
<1>5. /\ j.stage = "leave" /\ j.event = work[t].event /\ j.agent = work[t].agent
      /\ j.created = work[t].created /\ j.failed = work[t].failed
      /\ j.gate = work[t].gate /\ j.steps = work[t].steps /\ j.shared = work[t].shared
      /\ j.outcome = work[t].outcome
  BY <1>2, <1>3 DEF RunRecords
<1>6. PICK r : r = [status |-> IF work[t].failed THEN "failed" ELSE "completed",
                    created |-> work[t].created, thread |-> t]
  OBVIOUS
<1>7. report'[e] = r /\ \A d \in Events \ {e} : report'[d] = report[d]
  BY <1>1, <1>2, <1>6 DEF finish, SupervisorTypes
<1>8. ASSUME NEW u \in Callers PROVE MemoryOfRun(u)'
  <2>1. MemoryOfRun(u)
    BY DEF MemoryInvariant
  <2>2. CASE u = t
    BY <1>2, <1>4, <1>5, <2>1, <2>2, MemoryOfRunStays
  <2>3. CASE u # t
    <3>1. work'[u] = work[u]
      BY <1>2, <1>4, <2>3 DEF SupervisorTypes
    <3> QED BY <1>2, <2>1, <3>1 DEF MemoryOfRun, Untouched
  <2> QED BY <2>2, <2>3
<1>9. MemoryKeepsResults'
  <2> SUFFICES ASSUME NEW d \in Events, report'[d].status = "completed", d \notin doubled \cup wiped
               PROVE  report'[d].created \subseteq memory[d].folded
    BY <1>2 DEF MemoryKeepsResults
  <2>1. CASE d = e
    <3>1. ~work[t].failed /\ report'[d].created = work[t].created
      BY <1>6, <1>7, <2>1
    <3>2. MemoryOfRun(t)
      BY DEF MemoryInvariant
    <3> QED BY <1>1, <1>2, <2>1, <3>1, <3>2 DEF MemoryOfRun, Untouched
  <2>2. CASE d # e
    BY <1>7, <2>2 DEF MemoryInvariant, MemoryKeepsResults
  <2> QED BY <2>1, <2>2
<1> QED BY <1>2, <1>8, <1>9 DEF MemoryInvariant, GateIsLastVerdict

\* The policy agent is the last but one, and its verdict is what the run says from then on.
LEMMA MemoryRun ==
  ASSUME RunsInvariant, RowsInvariant, MemoryInvariant, NEW t \in Callers,
         NEW o \in Outcomes(work[t].agent), run_agent(t, o)
  PROVE  MemoryInvariant'
<1>1. PICK e : e = work[t].event
  OBVIOUS
<1>2. /\ SupervisorTypes /\ e \in Events /\ work[t] \in RunRecords /\ work[t].stage = "run"
      /\ UNCHANGED <<report, doubled, wiped, memory, verdict>> /\ MemoryOfRun(t)
      /\ OrderlyRun(work[t])
  BY <1>1, EventOfRun DEF RunsInvariant, MemoryInvariant, run_agent, rows, ghosts
<1>3. PICK j : j = [work[t] EXCEPT
           !.stage = "complete", !.outcome = o,
           !.gate = IF work[t].agent = "POLICY" THEN o = "gate" ELSE work[t].gate,
           !.base = IF work[t].created = {work[t].agent} THEN data[work[t].event]
                    ELSE work[t].base]
  OBVIOUS
<1>4. work' = [work EXCEPT ![t] = j]
  BY <1>3 DEF run_agent
<1>5. /\ j.stage = "complete" /\ j.event = e /\ j.agent = work[t].agent /\ j.outcome = o
      /\ j.created = work[t].created /\ j.failed = work[t].failed /\ j.steps = work[t].steps
  BY <1>1, <1>2, <1>3 DEF RunRecords
<1>6. j.gate = IF work[t].agent = "POLICY" THEN o = "gate" ELSE work[t].gate
  BY <1>2, <1>3 DEF RunRecords
<1>7. work[t].agent = "POLICY" => work[t].steps = <<>>
  BY <1>2 DEF OrderlyRun, StepStages, AgentStages, Left
<1>8. work'[t] = j
  BY <1>2, <1>4 DEF SupervisorTypes
<1>9. MemoryOfRun(t)'
  <2>1. memory[e] # NoMemory /\ (Untouched(e) => work[t].gate = verdict[e])
    BY <1>1, <1>2 DEF MemoryOfRun, LoadedStages, TriedStages, AgentStages
  <2>2. Untouched(e) /\ ~work[t].failed =>
          \A a \in work[t].created : a \in memory[e].folded \/ a = work[t].agent
    BY <1>1, <1>2 DEF MemoryOfRun, AgentStages
  <2>3. j.agent = "POLICY" => j.gate = (j.outcome = "gate")
    BY <1>5, <1>6
  <2>4. Untouched(e) => \/ j.gate = verdict[e]
                        \/ j.agent = "POLICY" /\ j.steps = <<>>
    BY <1>5, <1>6, <1>7, <2>1
  <2> QED BY <1>2, <1>5, <1>8, <2>1, <2>2, <2>3, <2>4 DEF MemoryOfRun, Untouched
<1> QED BY <1>2, <1>4, <1>9, MemoryStep

LEMMA MemoryApply ==
  ASSUME RunsInvariant, RowsInvariant, MemoryInvariant, NEW t \in Callers,
         apply_load(t) \/ apply_save(t) \/ save_stop(t)
  PROVE  MemoryInvariant'
<1>1. PICK e, w : e = work[t].event /\ w = work[t]
  OBVIOUS
<1>2. /\ SupervisorTypes /\ e \in Events /\ w \in RunRecords /\ MemoryOfRun(t) /\ OrderlyRun(w)
      /\ w.event = e /\ w.stage \in {"apply", "fold", "stop"}
      /\ UNCHANGED <<report, doubled, wiped>>
  BY <1>1, EventOfRun
     DEF RunsInvariant, MemoryInvariant, apply_load, apply_save, save_stop, rows, ghosts
<1>3. /\ memory[e] # NoMemory /\ memory[e] \in Memories /\ memory[e].folded \subseteq Agents
      /\ Untouched(e) => memory[e].gate = verdict[e]
      /\ w.agent \in Agents /\ w.agent \in w.created /\ Running(t, e)
  <2>1. memory[e] # NoMemory
    BY <1>1, <1>2 DEF MemoryOfRun, LoadedStages, TriedStages, AgentStages
  <2>2. w.agent \in w.created /\ w.agent \in Agents
    BY <1>2 DEF OrderlyRun, StepStages, AgentStages, RunRecords
  <2>3. memory[e] \in Memories
    BY <1>2 DEF SupervisorTypes
  <2>4. Running(t, e)
    BY <1>1, <1>2 DEF Running, TriedStages, AgentStages
  <2> QED BY <1>2, <2>1, <2>2, <2>3, <2>4 DEF MemoryInvariant, GateIsLastVerdict, Untouched
<1>4. CASE apply_load(t)
  <2>1. PICK j : j = [w EXCEPT !.stage = "fold", !.shared = memory[e]]
    OBVIOUS
  <2>2. work' = [work EXCEPT ![t] = j] /\ UNCHANGED <<memory, verdict>> /\ w.stage = "apply"
    BY <1>1, <1>4, <2>1 DEF apply_load, ghosts
  <2>3. /\ j.stage = "fold" /\ j.event = e /\ j.agent = w.agent /\ j.created = w.created
        /\ j.failed = w.failed /\ j.steps = w.steps /\ j.gate = w.gate /\ j.outcome = w.outcome
        /\ j.shared = memory[e]
    BY <1>1, <1>2, <2>1 DEF RunRecords
  <2>4. work'[t] = j
    BY <1>2, <2>2 DEF SupervisorTypes
  <2>5. MemoryOfRun(t)'
    BY <1>1, <1>2, <1>3, <2>2, <2>3, <2>4
       DEF MemoryOfRun, Untouched, LoadedStages, TriedStages, AgentStages
  <2> QED BY <1>2, <2>2, <2>5, MemoryStep
<1>5. CASE apply_save(t)
  <2>1. PICK next, j : Applied(t, next, j)
    BY <1>1, <1>2, <1>5, ApplyStep
  <2>2. PICK m : m = Folded(w)
    OBVIOUS
  <2>3. /\ w.stage = "fold" /\ work' = [work EXCEPT ![t] = j]
        /\ memory' = [memory EXCEPT ![e] = m]
        /\ verdict' = IF w.agent = "POLICY" THEN [verdict EXCEPT ![e] = w.outcome = "gate"]
                      ELSE verdict
    BY <1>1, <1>5, <2>1, <2>2 DEF Applied, apply_save
  <2>4. memory'[e] = m /\ \A d \in Events \ {e} : memory'[d] = memory[d] /\ verdict'[d] = verdict[d]
    BY <1>2, <2>3 DEF SupervisorTypes
  <2>5. m.folded = w.shared.folded \cup {w.agent} /\ m.gate = w.gate
    BY <2>2 DEF Folded
  <2>6. w.shared.folded \subseteq Agents /\ (Untouched(e) => w.shared = memory[e])
    BY <1>1, <1>2, <2>3 DEF MemoryOfRun
  <2>7. m.folded \subseteq Agents /\ memory'[e] # NoMemory
    BY <1>3, <2>4, <2>5, <2>6 DEF NoMemory, Agents
  <2>8. Untouched(e) => w.gate = verdict'[e]
    <3>1. CASE w.agent = "POLICY"
      <4>1. w.gate = (w.outcome = "gate")
        BY <1>1, <1>2, <2>3, <3>1 DEF MemoryOfRun
      <4>2. verdict'[e] = (w.outcome = "gate")
        BY <1>2, <2>3, <3>1 DEF SupervisorTypes
      <4> QED BY <4>1, <4>2
    <3>2. CASE w.agent # "POLICY"
      <4>1. Untouched(e) => w.gate = verdict[e]
        BY <1>1, <1>2, <2>3, <3>2 DEF MemoryOfRun, LoadedStages, TriedStages, AgentStages
      <4> QED BY <2>3, <3>2, <4>1
    <3> QED BY <3>1, <3>2
  <2>9. Untouched(e) /\ ~w.failed => \A a \in w.created : a \in m.folded
    BY <1>1, <1>2, <2>3, <2>5, <2>6 DEF MemoryOfRun, AgentStages
  <2>10. /\ j.stage = (IF next = <<>> THEN "stop" ELSE "next") /\ j.event = e
         /\ j.agent = w.agent /\ j.created = w.created /\ j.failed = w.failed /\ j.gate = w.gate
         /\ next = <<>> => j.shared = m
    BY <1>1, <1>2, <2>1, <2>2 DEF Applied, RunRecords
  <2>11. work'[t] = j
    BY <1>2, <2>3 DEF SupervisorTypes
  <2>12. MemoryOfRun(t)'
    BY <1>2, <2>4, <2>7, <2>8, <2>9, <2>10, <2>11
       DEF MemoryOfRun, Untouched, LoadedStages, TriedStages, AgentStages
  <2>13. Untouched(e) => memory'[e].gate = verdict'[e]
    BY <2>4, <2>5, <2>8
  <2>14. Running(t, work[t].event) /\ work[t].stage # "leave"
    BY <1>1, <1>3, <2>3
  <2> QED BY <1>1, <1>2, <2>3, <2>4, <2>7, <2>12, <2>13, <2>14, MemoryStep
<1>6. CASE save_stop(t)
  <2>1. PICK j : j = [w EXCEPT !.stage = "next", !.shared = EmptyMemory]
    OBVIOUS
  <2>2. /\ work' = [work EXCEPT ![t] = j] /\ UNCHANGED verdict /\ w.stage = "stop"
        /\ memory' = [memory EXCEPT ![e] = w.shared]
    BY <1>1, <1>6, <2>1 DEF save_stop, ghosts
  <2>3. /\ j.stage = "next" /\ j.event = e /\ j.agent = w.agent /\ j.created = w.created
        /\ j.failed = w.failed /\ j.steps = w.steps /\ j.gate = w.gate
    BY <1>1, <1>2, <2>1 DEF RunRecords
  <2>4. work'[t] = j /\ memory'[e] = w.shared /\ \A d \in Events \ {e} : memory'[d] = memory[d]
    BY <1>2, <2>2 DEF SupervisorTypes
  <2>5. w.shared.folded \subseteq Agents /\ (Untouched(e) => w.shared = memory[e])
    BY <1>1, <1>2, <2>2 DEF MemoryOfRun
  <2>6. memory'[e] # NoMemory
    <3>1. ~(NoMemory.folded \subseteq Agents)
      BY DEF NoMemory, Agents
    <3> QED BY <2>4, <2>5, <3>1
  <2>7. Untouched(e) => w.gate = verdict[e]
    BY <1>1, <1>2, <2>2 DEF MemoryOfRun, LoadedStages, TriedStages, AgentStages
  <2>8. Untouched(e) /\ ~w.failed => \A a \in w.created : a \in memory[e].folded
    BY <1>1, <1>2, <2>2 DEF MemoryOfRun, AgentStages
  <2>9. MemoryOfRun(t)'
    BY <1>2, <2>2, <2>3, <2>4, <2>5, <2>6, <2>7, <2>8
       DEF MemoryOfRun, Untouched, LoadedStages, TriedStages, AgentStages
  <2>10. /\ Untouched(e) => memory'[e].gate = verdict'[e]
         /\ Running(t, work[t].event) /\ work[t].stage # "leave"
    BY <1>1, <1>3, <2>2, <2>4, <2>5
  <2> QED BY <1>1, <1>2, <2>2, <2>4, <2>5, <2>9, <2>10, MemoryStep
<1> QED BY <1>4, <1>5, <1>6

\* A status request that found no memory saves an empty one, over whatever is there now.
LEMMA MemoryStatus ==
  ASSUME RunsInvariant, RowsInvariant, MemoryInvariant, NEW e \in Events, status_save(e)
  PROVE  MemoryInvariant'
<1>1. SupervisorTypes /\ UNCHANGED <<work, report, doubled, verdict>>
  BY DEF status_save, rows, RunsInvariant
<1>2. /\ memory'[e] = EmptyMemory /\ \A d \in Events \ {e} : memory'[d] = memory[d]
      /\ wiped' = IF memory[e] = NoMemory THEN wiped ELSE wiped \cup {e}
  BY <1>1 DEF status_save, SupervisorTypes
<1>3. EmptyMemory.folded = {} /\ EmptyMemory.gate = FALSE /\ EmptyMemory # NoMemory
  BY DEF EmptyMemory, NoMemory
<1>4. Untouched(e)' => memory[e] = NoMemory /\ Untouched(e)
  BY <1>1, <1>2 DEF Untouched
<1>5. ASSUME NEW t \in Callers PROVE MemoryOfRun(t)'
  <2>1. MemoryOfRun(t) /\ work[t].event \in Events
    BY <1>1, EventOfRun DEF MemoryInvariant
  <2>2. CASE work[t].event # e
    BY <1>1, <1>2, <2>1, <2>2 DEF MemoryOfRun, Untouched
  <2>3. CASE work[t].event = e /\ memory[e] # NoMemory
    <3>1. ~Untouched(e)'
      BY <1>4, <2>3
    <3> QED BY <1>1, <1>2, <1>3, <2>1, <2>3, <3>1 DEF MemoryOfRun
  <2>4. CASE work[t].event = e /\ memory[e] = NoMemory
    <3>1. work[t].stage \notin LoadedStages
      BY <2>1, <2>4 DEF MemoryOfRun
    <3>2. work[t].stage \notin AgentStages \cup {"next"}
      BY <3>1 DEF LoadedStages, TriedStages
    <3> QED BY <1>1, <1>2, <1>3, <1>4, <2>1, <2>4, <3>1, <3>2 DEF MemoryOfRun, AgentStages
  <2> QED BY <2>2, <2>3, <2>4
<1>6. MemoryKeepsResults'
  <2> SUFFICES ASSUME NEW d \in Events, report[d].status = "completed", Untouched(d)'
               PROVE  report[d].created \subseteq memory'[d].folded
    BY <1>1 DEF MemoryKeepsResults, Untouched
  <2>1. CASE d # e
    BY <1>1, <1>2, <2>1 DEF MemoryInvariant, MemoryKeepsResults, Untouched
  <2>2. CASE d = e
    <3>1. report[e].created \subseteq NoMemory.folded
      BY <1>4, <2>2 DEF MemoryInvariant, MemoryKeepsResults, Untouched
    <3>2. report[e].created \subseteq Agents
      BY <1>1 DEF SupervisorTypes, RunReports
    <3> QED BY <2>2, <3>1, <3>2 DEF NoMemory, Agents
  <2> QED BY <2>1, <2>2
<1>7. GateIsLastVerdict'
  <2> SUFFICES ASSUME NEW d \in Events, memory'[d] # NoMemory, Untouched(d)'
               PROVE  memory'[d].gate = verdict[d]
    BY <1>1 DEF GateIsLastVerdict, Untouched
  <2>1. CASE d # e
    BY <1>1, <1>2, <2>1 DEF MemoryInvariant, GateIsLastVerdict, Untouched
  <2>2. CASE d = e
    <3>1. ~verdict[e] /\ verdict[e] \in BOOLEAN
      BY <1>1, <1>4, <2>2 DEF MemoryInvariant, SupervisorTypes
    <3>2. verdict[e] = FALSE
      BY <3>1
    <3> QED BY <1>2, <1>3, <2>2, <3>2
  <2> QED BY <2>1, <2>2
<1>8. ASSUME NEW d \in Events
      PROVE  IF memory'[d] = NoMemory THEN ~verdict[d] ELSE memory'[d].folded \subseteq Agents
  BY <1>2, <1>3 DEF MemoryInvariant
<1> QED BY <1>1, <1>5, <1>6, <1>7, <1>8 DEF MemoryInvariant

LEMMA MemoryRestart ==
  ASSUME RunsInvariant, RowsInvariant, MemoryInvariant, restart
  PROVE  MemoryInvariant'
<1>1. PICK w : w = Idle
  OBVIOUS
<1>2. \A t \in Callers : work'[t] = w
  BY <1>1 DEF restart
<1>3. w.stage = "idle"
  BY <1>1 DEF Idle
<1>4. \A t \in Callers : MemoryOfRun(t)'
  BY <1>2, <1>3 DEF MemoryOfRun, LoadedStages, TriedStages, AgentStages
<1>5. \A e \in Events : report'[e].status = "none"
  BY DEF restart, NoReport
<1>6. /\ UNCHANGED memory
      /\ \A e \in Events : verdict'[e] = IF e \in doubled \cup wiped THEN memory[e].gate
                                         ELSE verdict[e]
  BY DEF restart
<1>7. GateIsLastVerdict'
  BY <1>6 DEF MemoryInvariant, GateIsLastVerdict
<1>8. NoMemory.gate = FALSE
  BY DEF NoMemory
<1> QED BY <1>4, <1>5, <1>6, <1>7, <1>8 DEF MemoryInvariant, MemoryKeepsResults

LEMMA MemoryKept ==
  RunsInvariant /\ RowsInvariant /\ MemoryInvariant /\ [AgentNext]_agentVars => MemoryInvariant'
<1> SUFFICES ASSUME RunsInvariant, RowsInvariant, MemoryInvariant, [AgentNext]_agentVars
             PROVE  MemoryInvariant'
  OBVIOUS
<1>1. ASSUME NEW t \in Callers, RunStep(t) PROVE MemoryInvariant'
  BY <1>1, MemoryCalls, MemoryEnter, MemoryLoad, MemoryStart, MemoryEnqueue, MemoryTask,
     MemoryRun, MemoryApply, MemoryFinish DEF RunStep
<1>2. ASSUME UNCHANGED <<work, report, memory, doubled, wiped, verdict>> PROVE MemoryInvariant'
  BY <1>2 DEF MemoryInvariant, MemoryOfRun, Untouched, MemoryKeepsResults, GateIsLastVerdict
<1>3. ASSUME NEW e \in Events, status_load(e) PROVE MemoryInvariant'
  BY <1>2, <1>3 DEF status_load, rows, ghosts
<1>4. CASE UNCHANGED agentVars
  BY <1>2, <1>4 DEF agentVars
<1> QED BY <1>1, <1>3, <1>4, MemoryFault, MemoryLease, MemoryCalls, MemoryStatus, MemoryRestart
        DEF AgentNext, LoopStep

LEMMA MemoryInit == AgentInit => MemoryInvariant
<1> SUFFICES ASSUME AgentInit PROVE MemoryInvariant
  OBVIOUS
<1>1. PICK w : w = Idle
  OBVIOUS
<1>2. w.stage = "idle" /\ \A t \in Callers : work[t] = w
  BY <1>1 DEF AgentInit, Idle
<1>3. \A t \in Callers : MemoryOfRun(t)
  BY <1>2 DEF MemoryOfRun, LoadedStages, TriedStages, AgentStages
<1>4. \A e \in Events : /\ report[e].status = "none" /\ verdict[e] = FALSE
                        /\ memory[e] \in {EmptyMemory, NoMemory}
  BY DEF AgentInit, NoReport
<1>5. EmptyMemory.folded = {} /\ EmptyMemory.gate = FALSE
  BY DEF EmptyMemory
<1>6. MemoryKeepsResults /\ GateIsLastVerdict
  BY <1>4, <1>5 DEF MemoryKeepsResults, GateIsLastVerdict
<1>7. \A e \in Events : IF memory[e] = NoMemory THEN ~verdict[e]
                        ELSE memory[e].folded \subseteq Agents
  BY <1>4, <1>5
<1> QED BY <1>3, <1>6, <1>7 DEF MemoryInvariant

(***************************************************************************)
(* The theorems.                                                           *)
(***************************************************************************)
LEMMA SupervisorInvariant ==
  AgentSpec => [](RunsInvariant /\ RowsInvariant /\ MemoryInvariant)
<1>1. AgentInit => RunsInvariant /\ RowsInvariant /\ MemoryInvariant
  BY RunsInit, RowsInit, MemoryInit
<1>2. RunsInvariant /\ RowsInvariant /\ MemoryInvariant /\ [AgentNext]_agentVars
        => (RunsInvariant /\ RowsInvariant /\ MemoryInvariant)'
  BY RunsKept, RowsKept, MemoryKept
<1> QED BY <1>1, <1>2, PTL DEF AgentSpec

LEMMA SupervisorTyped ==
  RunsInvariant /\ RowsInvariant /\ MemoryInvariant => SupervisorTypeOK
<1> SUFFICES ASSUME RunsInvariant, RowsInvariant, MemoryInvariant PROVE SupervisorTypeOK
  OBVIOUS
<1>1. SupervisorTypes
  BY DEF RunsInvariant
<1>2. \A i \in DOMAIN triggers :
          /\ triggers[i].event \in Events /\ triggers[i].type \in TriggerTypes
          /\ triggers[i].status \in {"pending", "leased", "processed", "failed"}
  BY <1>1, TriggerTyped DEF TriggerRows
<1>3. ASSUME NEW t \in Callers
      PROVE  /\ work[t].trigger \in 0..Len(triggers)
             /\ work[t].created \subseteq Agents
             /\ \A i \in DOMAIN work[t].steps : work[t].steps[i] \in Agents
             /\ work[t].stage \in AgentStages \cup {"fail"} =>
                   /\ work[t].agent \in work[t].created
                   /\ work[t].event \notin doubled =>
                         tasks[t][work[t].event][work[t].agent] # "superseded"
  <2>1. work[t] \in RunRecords /\ OrderlyRun(work[t]) /\ RowsOfRun(t)
    BY <1>1, EventOfRun DEF RunsInvariant, RowsInvariant
  <2>2. Len(triggers) \in Nat /\ DOMAIN triggers = 1..Len(triggers)
    BY <1>1 DEF SupervisorTypes
  <2>3. work[t].trigger \in 0..Len(triggers)
    BY <2>1, <2>2 DEF OrderlyRun, NoTrigger
  <2>4. work[t].created \subseteq Agents /\ work[t].steps \in Seq(Agents)
    BY <2>1 DEF RunRecords
  <2>5. \A i \in DOMAIN work[t].steps : work[t].steps[i] \in Agents
    BY <2>4
  <2> QED BY <2>1, <2>3, <2>4, <2>5 DEF OrderlyRun, RowsOfRun, StepStages
<1>4. ASSUME NEW e \in Events
      PROVE  /\ seen[e] \in 0..data[e]
             /\ memory[e] # NoMemory => memory[e].folded \subseteq Agents
  <2>1. seen[e] \in Nat /\ data[e] \in Nat /\ seen[e] <= data[e]
    BY <1>1 DEF RunsInvariant, SupervisorTypes
  <2> QED BY <2>1 DEF MemoryInvariant
<1> QED BY <1>2, <1>3, <1>4 DEF SupervisorTypeOK

(***************************************************************************)
(* Runs of an event follow each other, a run reported as completed has all *)
(* its tasks completed and all its results in the shared memory, and a     *)
(* human gate stands as the policy agent last left it.                     *)
(***************************************************************************)
THEOREM RunsSafe == AgentSpec => []RunsAreOrderly
<1>1. RunsInvariant /\ RowsInvariant /\ MemoryInvariant => RunsAreOrderly
  BY SupervisorTyped DEF RunsAreOrderly, RunsInvariant, RowsInvariant, MemoryInvariant
<1> QED BY <1>1, SupervisorInvariant, PTL

LEMMA CoveredStep == RunsInvariant /\ [AgentNext]_agentVars => [TriggersAreCovered]_agentVars
<1> SUFFICES ASSUME RunsInvariant, AgentNext, NEW i \in DOMAIN triggers,
                    triggers[i].status # "processed", triggers'[i].status = "processed"
             PROVE  triggers[i].covered \/ triggers[i].event \in leaked
  BY DEF TriggersAreCovered
<1>1. SupervisorTypes
  BY DEF RunsInvariant
<1>2. ASSUME NEW n \in DOMAIN triggers, NEW status \in {"leased", "failed"}, SetTrigger(n, status)
      PROVE  FALSE
  BY <1>1, <1>2, TriggerSet
<1>3. ASSUME NEW t \in Callers, ack(t)
      PROVE  triggers[i].covered \/ triggers[i].event \in leaked
  <2>1. OrderlyRun(work[t]) /\ work[t].stage = "ack"
    BY <1>3 DEF RunsInvariant, ack
  <2>2. /\ work[t].trigger # NoTrigger /\ work[t].trigger \in DOMAIN triggers
        /\ SetTrigger(work[t].trigger, "processed")
    BY <1>3, <2>1 DEF ack, OrderlyRun
  <2>3. i = work[t].trigger
    BY <1>1, <2>2, TriggerSet
  <2> QED BY <2>1, <2>2, <2>3 DEF OrderlyRun
<1>4. ASSUME NEW t \in Callers, raised(t) PROVE FALSE
  <2>1. OrderlyRun(work[t])
    BY DEF RunsInvariant
  <2> QED BY <1>2, <1>4, <2>1 DEF raised, OrderlyRun
<1>5. ASSUME lease PROVE FALSE
  <2>1. OrderlyRun(work[LoopThread])
    BY SupervisorAssumption DEF RunsInvariant
  <2> QED BY <1>2, <1>5, <2>1 DEF lease, OrderlyRun
<1>6. ASSUME NEW t \in Callers, insert(t) PROVE FALSE
  <2>1. OrderlyRun(work[t])
    BY DEF RunsInvariant
  <2> QED BY <1>1, <1>6, <2>1, InsertTypes
<1>7. ASSUME NEW t \in Callers, enter(t) PROVE FALSE
  <2>1. triggers[i] \in TriggerRows
    BY <1>1, TriggerTyped
  <2> QED BY <1>7, <2>1 DEF enter, TriggerRows
<1>8. UNCHANGED triggers => FALSE
  OBVIOUS
<1>9. ASSUME NEW t \in Callers, RunStep(t)
      PROVE  triggers[i].covered \/ triggers[i].event \in leaked
  BY <1>3, <1>4, <1>6, <1>7, <1>8, <1>9
     DEF RunStep, save_run, load_memory, create_memory, list_open, supersede, start_graph, enqueue,
         claim, run_agent, complete, apply_load, apply_save, save_stop, fail_task, finish, leave,
         publish
<1> QED BY <1>5, <1>8, <1>9 DEF AgentNext, LoopStep, fault, lease_read, tick, ingest, status_load,
                                status_save, restart

(***************************************************************************)
(* A trigger is acknowledged only after a run of its event that ended      *)
(* after the trigger was published.                                        *)
(***************************************************************************)
THEOREM CoveredSafe == AgentSpec => AcknowledgedAreCovered
<1>1. RunsInvariant /\ [AgentNext]_agentVars => [TriggersAreCovered]_agentVars
  BY CoveredStep
<1> QED BY <1>1, SupervisorInvariant, PTL DEF AgentSpec, AcknowledgedAreCovered
=============================================================================
