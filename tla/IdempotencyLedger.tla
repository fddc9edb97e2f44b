-------------------------- MODULE IdempotencyLedger --------------------------
(***************************************************************************)
(* The ledger every write request of the core API passes: a request        *)
(* reserves its idempotency key, runs its handler and completes or         *)
(* releases the reservation; a repeated request is answered from the       *)
(* record.  Every repository call is a transaction; a reservation may      *)
(* expire under a running handler, and a process may stop anywhere.        *)
(***************************************************************************)
EXTENDS Integers, FiniteSets

CONSTANTS
  Threads,      \* requests under way at once
  Keys,         \* (scope, idempotency key): scope is operator, role, terminal and route
  Bodies,       \* request hashes
  MaxAttempts   \* bound on reservations ever made

ASSUME AttemptsAssumption == MaxAttempts \in Nat

VARIABLES
  records,    \* response_idempotency_records
  attempts,   \* reservations made so far; their number is their identity and age
  expired,    \* expires_at of reservations 1..expired has passed
  todo,       \* what each thread does next
  executed,   \* history: executions that finished and were not refused
  stored,     \* history: outcomes complete_idempotency_record accepted
  replayed    \* history: responses _replay_response gave

vars == <<records, attempts, expired, todo, executed, stored, replayed>>

(***************************************************************************)
(* Records.  id is the reservation in the payload and stands for the       *)
(* response it carries.                                                    *)
(***************************************************************************)
Record(key, body, id, status, replayable) ==
  [key |-> key, body |-> body, id |-> id, status |-> status, replayable |-> replayable]
Execution(key, body, id) == [key |-> key, body |-> body, id |-> id]

Idle == [at |-> "idle"]
Doing(at, key, body, id) == [at |-> at, key |-> key, body |-> body, id |-> id]
Settling(s, result, replayable) ==
  [at |-> "settle", key |-> s.key, body |-> s.body, id |-> s.id,
   result |-> result, replayable |-> replayable]

Become(p, s) == todo' = [todo EXCEPT ![p] = s]

\* DELETE ... WHERE expires_at < now, with which get and reserve begin.
Purged == {r \in records : r.id > expired}

\* UNIQUE(scope, idempotency_key).
\* Seeded fault: the reservation is inserted whatever is there.
NoConflict(key) == FALSE
Conflict(key) == \E r \in Purged : r.key = key

\* The row an UPDATE or DELETE of the reservation's owner finds.
\* Seeded fault: completion does not ask for processing status.
AnyOfRequest(key, body) == {r \in records : r.key = key /\ r.body = body}
ProcessingOf(key, body) ==
  {r \in records : r.key = key /\ r.body = body /\ r.status = "processing"}

(***************************************************************************)
(* idempotent_handler.                                                     *)
(***************************************************************************)
\* _existing_record_response: a completed, replayable record of the same
\* request is replayed, anything else is refused with 409.
\* Seeded fault: the request hash is not compared.
ReplaysAnyBody(r, body) == r.status = "completed" /\ r.replayable
Replays(r, body) == r.body = body /\ r.status = "completed" /\ r.replayable

Answer(key, body) ==
  replayed' = replayed \cup {Execution(key, body, r.id) :
                              r \in {r \in Purged : r.key = key /\ Replays(r, body)}}

\* A request whose key is on record.
answer_existing(p) ==
  \E key \in Keys, body \in Bodies :
    /\ todo[p] = Idle
    /\ \E r \in Purged : r.key = key
    /\ records' = Purged
    /\ Answer(key, body)
    /\ UNCHANGED <<attempts, expired, todo, executed, stored>>

\* A request whose key is not: its expiry counts from here.
prepare_reservation(p) ==
  \E key \in Keys, body \in Bodies :
    /\ todo[p] = Idle
    /\ attempts < MaxAttempts
    /\ ~\E r \in Purged : r.key = key
    /\ records' = Purged
    /\ attempts' = attempts + 1
    /\ Become(p, Doing("reserve", key, body, attempts + 1))
    /\ UNCHANGED <<expired, executed, stored, replayed>>

\* An IntegrityError rolls the purge back.
reserve_idempotency_record(p) ==
  LET s == todo[p]
  IN  /\ s.at = "reserve"
      /\ IF Conflict(s.key)
         THEN /\ Become(p, Doing("lost", s.key, s.body, s.id))
              /\ UNCHANGED records
         ELSE /\ Become(p, Doing("run", s.key, s.body, s.id))
              /\ records' = Purged \cup {Record(s.key, s.body, s.id, "processing", TRUE)}
      /\ UNCHANGED <<attempts, expired, executed, stored, replayed>>

\* The reservation was lost to another request: answered from its record, or
\* with IDEMPOTENCY_RESERVATION_CONFLICT when that has gone meanwhile.
answer_conflict(p) ==
  LET s == todo[p]
  IN  /\ s.at = "lost"
      /\ records' = Purged
      /\ Answer(s.key, s.body)
      /\ Become(p, Idle)
      /\ UNCHANGED <<attempts, expired, executed, stored>>

\* The handler succeeds (2xx), refuses (4xx or a validation error), or fails
\* (an exception or 5xx) with its outcome unknown.  Only a completed record is
\* ever asked whether its response was small enough to keep.
original_handler(p) ==
  LET s == todo[p]
  IN  \E result \in {"completed", "refused", "indeterminate"}, replayable \in BOOLEAN :
        /\ s.at = "run"
        /\ replayable => result = "completed"
        /\ executed' = IF result = "refused" THEN executed
                       ELSE executed \cup {Execution(s.key, s.body, s.id)}
        /\ Become(p, Settling(s, result, replayable))
        /\ UNCHANGED <<records, attempts, expired, stored, replayed>>

\* Without a row in processing status the request ends in a RuntimeError.
complete_idempotency_record(p) ==
  LET s     == todo[p]
      found == ProcessingOf(s.key, s.body)
      row   == Record(s.key, s.body, s.id, s.result, s.replayable)
  IN  /\ s.at = "settle" /\ s.result # "refused"
      /\ IF found = {} THEN UNCHANGED <<records, stored>>
         ELSE /\ records' = (records \ found) \cup {row}
              /\ stored' = stored \cup {row}
      /\ Become(p, Idle)
      /\ UNCHANGED <<attempts, expired, executed, replayed>>

\* Seeded fault: any failed request is released.
ReleasedUnlessDone(result) == result # "completed"
Released(result) == result = "refused"

release_idempotency_record(p) ==
  LET s == todo[p]
  IN  /\ s.at = "settle" /\ Released(s.result)
      /\ records' = records \ ProcessingOf(s.key, s.body)
      /\ Become(p, Idle)
      /\ UNCHANGED <<attempts, expired, executed, stored, replayed>>

(***************************************************************************)
(* Time and failures.                                                      *)
(***************************************************************************)
\* All reservations live equally long, so they expire in the order made.
expire ==
  /\ expired < attempts
  /\ expired' = expired + 1
  /\ UNCHANGED <<records, attempts, todo, executed, stored, replayed>>

\* The process stops, or the request is cancelled; what it stored stays.
crash(p) ==
  /\ todo[p] # Idle
  /\ Become(p, Idle)
  /\ UNCHANGED <<records, attempts, expired, executed, stored, replayed>>

(***************************************************************************)
(* The specification.                                                      *)
(***************************************************************************)
Init ==
  /\ records = {} /\ attempts = 0 /\ expired = 0
  /\ todo = [p \in Threads |-> Idle]
  /\ executed = {} /\ stored = {} /\ replayed = {}

Request(p) ==
  \/ answer_existing(p) \/ prepare_reservation(p) \/ reserve_idempotency_record(p)
  \/ answer_conflict(p) \/ original_handler(p)
  \/ complete_idempotency_record(p) \/ release_idempotency_record(p)

Next == expire \/ \E p \in Threads : Request(p) \/ crash(p)

Spec == Init /\ [][Next]_vars

-----------------------------------------------------------------------------
(***************************************************************************)
(* What the ledger promises.                                               *)
(***************************************************************************)
Outcomes == {"completed", "indeterminate"}
Ids == 1..MaxAttempts
Executions == [key : Keys, body : Bodies, id : Ids]
Records(statuses) ==
  [key : Keys, body : Bodies, id : Ids, status : statuses, replayable : BOOLEAN]
Work ==
  {Idle}
  \cup [at : {"reserve", "lost", "run"}, key : Keys, body : Bodies, id : Ids]
  \cup [at : {"settle"}, key : Keys, body : Bodies, id : Ids,
        result : Outcomes \cup {"refused"}, replayable : BOOLEAN]

\* Type invariant, with the UNIQUE constraint on scope and key.
TypeOK ==
  /\ records \subseteq Records(Outcomes \cup {"processing"})
  /\ \A r, s \in records : r.key = s.key => r = s
  /\ attempts \in 0..MaxAttempts
  /\ expired \in 0..attempts
  /\ todo \in [Threads -> Work]
  /\ executed \subseteq Executions
  /\ stored \subseteq Records(Outcomes)
  /\ replayed \subseteq Executions

\* "Submitting a write twice does not change state twice": until a reservation
\* expires, a key is executed once, whatever bodies are sent, requests race,
\* outcomes are unknown and processes stop.  A refused execution does not count;
\* it may be repeated (idempotent_handler).
ExecutedOnce ==
  expired = 0 => \A e, f \in executed : e.key = f.key => e = f

\* A stored outcome is on record until its own reservation expires, also when a
\* handler that outlived its reservation completes or releases meanwhile: a
\* response can be replayed, an unknown outcome is not retried blindly.
StoredOutcomeStays == \A o \in stored : o.id > expired => o \in records

\* What is replayed is the response an execution of the same request stored
\* (complete_idempotency_record finds rows of other reservations as well).
ReplaysAreOriginal ==
  \A x \in replayed : \E o \in stored :
    /\ o.key = x.key /\ o.body = x.body /\ o.id = x.id
    /\ o.status = "completed" /\ o.replayable /\ x \in executed

-----------------------------------------------------------------------------
(***************************************************************************)
(* The inductive strengthening.                                            *)
(***************************************************************************)
ExecutionOf(s) == Execution(s.key, s.body, s.id)

\* Reservations have numbers of their own, given out so far.
Numbered ==
  /\ \A r \in records : r.id <= attempts
  /\ \A e \in executed : e.id <= attempts
  /\ \A p \in Threads : todo[p] # Idle => todo[p].id <= attempts
  /\ \A p, q \in Threads :
       todo[p] # Idle /\ todo[q] # Idle /\ todo[p].id = todo[q].id => p = q

\* An outcome on record was stored, and is that of a finished execution.
OutcomesExecuted ==
  /\ \A r \in records : r.status # "processing" => r \in stored
  /\ \A o \in stored : ExecutionOf(o) \in executed
  /\ \A p \in Threads : todo[p].at = "settle" /\ todo[p].result # "refused" =>
       ExecutionOf(todo[p]) \in executed

\* A number is that of an execution only once its handler has finished.
NotYetExecuted ==
  \A p \in Threads, e \in executed : todo[p] # Idle /\ e.id = todo[p].id =>
    todo[p].at = "settle" /\ todo[p].result # "refused"

\* Until a reservation expires, a running request holds its own, and what was
\* executed is on record.
Held ==
  expired = 0 =>
    /\ \A p \in Threads : todo[p].at \in {"run", "settle"} =>
         Record(todo[p].key, todo[p].body, todo[p].id, "processing", TRUE) \in records
    /\ \A e \in executed : \E r \in records : ExecutionOf(r) = e

Inductive ==
  /\ TypeOK
  /\ Numbered
  /\ OutcomesExecuted
  /\ NotYetExecuted
  /\ Held
  /\ ExecutedOnce
  /\ StoredOutcomeStays
  /\ ReplaysAreOriginal
=============================================================================
