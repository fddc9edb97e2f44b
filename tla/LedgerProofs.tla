---------------------------- MODULE LedgerProofs ----------------------------
(***************************************************************************)
(* Proofs about the idempotency ledger.                                    *)
(***************************************************************************)
EXTENDS IdempotencyLedger, TLAPS

-----------------------------------------------------------------------------
(***************************************************************************)
(* Records and work under way.                                             *)
(***************************************************************************)
LEMMA WorkFields ==
  ASSUME NEW s \in Work
  PROVE  /\ s.at \in {"idle", "reserve", "lost", "run", "settle"}
         /\ s.at = "idle" <=> s = Idle
         /\ s # Idle => s.key \in Keys /\ s.body \in Bodies /\ s.id \in Ids
         /\ s.at = "settle" =>
              s.result \in Outcomes \cup {"refused"} /\ s.replayable \in BOOLEAN
  BY DEF Work, Idle

LEMMA DoingFields ==
  ASSUME NEW at \in {"reserve", "lost", "run"},
         NEW key \in Keys, NEW body \in Bodies, NEW id \in Ids
  PROVE  LET s == Doing(at, key, body, id)
         IN  s \in Work /\ s # Idle /\ s.at = at /\ s.key = key /\ s.body = body /\ s.id = id
  BY DEF Doing, Work, Idle

LEMMA SettlingFields ==
  ASSUME NEW s \in Work, s # Idle,
         NEW result \in Outcomes \cup {"refused"}, NEW replayable \in BOOLEAN
  PROVE  LET z == Settling(s, result, replayable)
         IN  /\ z \in Work /\ z # Idle /\ z.at = "settle" /\ z.result = result
             /\ z.key = s.key /\ z.body = s.body /\ z.id = s.id
             /\ z.replayable = replayable
  BY WorkFields DEF Settling, Work, Idle

LEMMA RecordFields ==
  ASSUME NEW key \in Keys, NEW body \in Bodies, NEW id \in Ids,
         NEW status \in Outcomes \cup {"processing"}, NEW replayable \in BOOLEAN
  PROVE  LET r == Record(key, body, id, status, replayable)
         IN  /\ r \in Records(Outcomes \cup {"processing"})
             /\ status # "processing" => r \in Records(Outcomes)
             /\ r.key = key /\ r.body = body /\ r.id = id
             /\ r.status = status /\ r.replayable = replayable
  BY DEF Record, Records, Outcomes

LEMMA ExecutionFields ==
  ASSUME NEW key \in Keys, NEW body \in Bodies, NEW id \in Ids
  PROVE  LET e == Execution(key, body, id)
         IN  e \in Executions /\ e.key = key /\ e.body = body /\ e.id = id
  BY DEF Execution, Executions

-----------------------------------------------------------------------------
(***************************************************************************)
(* Purging.                                                                *)
(***************************************************************************)
\* The purge drops nothing before the first expiry, and no stored outcome that
\* has not expired.
LEMMA PurgeKeeps ==
  ASSUME Inductive
  PROVE  /\ Purged \subseteq records
         /\ expired = 0 => Purged = records
         /\ \A o \in stored : o.id > expired => o \in Purged
  <1>1. \A r \in records : r.id \in Ids
    BY DEF Inductive, TypeOK, Records
  <1>2. \A r \in records : expired = 0 => r.id > expired
    BY <1>1 DEF Ids
  <1> QED  BY <1>2 DEF Purged, Inductive, StoredOutcomeStays

\* Answering from the record keeps replays original.
LEMMA AnswerOriginal ==
  ASSUME Inductive, NEW key \in Keys, NEW body \in Bodies, Answer(key, body),
         UNCHANGED <<stored, executed>>
  PROVE  ReplaysAreOriginal' /\ replayed' \subseteq Executions
  <1> SUFFICES ASSUME NEW x \in replayed'
               PROVE  /\ x \in Executions
                      /\ \E o \in stored :
                           /\ o.key = x.key /\ o.body = x.body /\ o.id = x.id
                           /\ o.status = "completed" /\ o.replayable /\ x \in executed
    BY DEF ReplaysAreOriginal
  <1>1. CASE x \in replayed
    BY <1>1 DEF Inductive, TypeOK, ReplaysAreOriginal
  <1>2. CASE x \notin replayed
    <2>1. PICK r \in Purged : r.key = key /\ Replays(r, body) /\ x = Execution(key, body, r.id)
      BY <1>2 DEF Answer
    <2>2. r \in stored /\ r.id \in Ids
      BY <2>1, PurgeKeeps DEF Replays, Inductive, OutcomesExecuted, TypeOK, Records
    <2>3. x \in executed
      BY <2>1, <2>2 DEF Replays, Inductive, OutcomesExecuted, ExecutionOf
    <2> QED  BY <2>1, <2>2, <2>3, ExecutionFields DEF Replays
  <1> QED  BY <1>1, <1>2

\* What holds of the records without those an operation removes.
LEMMA FewerRecords ==
  ASSUME Inductive, UNCHANGED <<executed, stored, expired>>,
         records' \subseteq records, expired = 0 => records' = records,
         \A o \in stored : o.id > expired => o \in records'
  PROVE  /\ records' \subseteq Records(Outcomes \cup {"processing"})
         /\ \A r, s \in records' : r.key = s.key => r = s
         /\ \A r \in records' : r.id <= attempts
         /\ \A r \in records' : r.status # "processing" => r \in stored
         /\ StoredOutcomeStays'
  BY DEF Inductive, TypeOK, Numbered, OutcomesExecuted, StoredOutcomeStays

-----------------------------------------------------------------------------
(***************************************************************************)
(* The steps.                                                              *)
(***************************************************************************)
LEMMA InitInductive == Init => Inductive
  <1> SUFFICES ASSUME Init  PROVE Inductive
    OBVIOUS
  <1>1. TypeOK
    BY AttemptsAssumption DEF Init, TypeOK, Work
  <1>2. Numbered /\ OutcomesExecuted /\ NotYetExecuted /\ Held
    BY DEF Init, Numbered, OutcomesExecuted, NotYetExecuted, Held, Idle
  <1>3. ExecutedOnce /\ StoredOutcomeStays /\ ReplaysAreOriginal
    BY DEF Init, ExecutedOnce, StoredOutcomeStays, ReplaysAreOriginal
  <1> QED  BY <1>1, <1>2, <1>3 DEF Inductive

LEMMA AnswerInductive ==
  ASSUME Inductive, NEW p \in Threads, answer_existing(p)
  PROVE  Inductive'
  <1>1. PICK key \in Keys, body \in Bodies :
          /\ records' = Purged /\ Answer(key, body)
          /\ UNCHANGED <<attempts, expired, todo, executed, stored>>
    BY DEF answer_existing
  <1>2. ReplaysAreOriginal' /\ replayed' \subseteq Executions
    BY <1>1, AnswerOriginal
  <1>3. /\ records' \subseteq Records(Outcomes \cup {"processing"})
        /\ \A r, s \in records' : r.key = s.key => r = s
        /\ \A r \in records' : r.id <= attempts
        /\ \A r \in records' : r.status # "processing" => r \in stored
        /\ StoredOutcomeStays'
    BY <1>1, PurgeKeeps, FewerRecords
  <1>4. TypeOK'
    BY <1>1, <1>2, <1>3 DEF Inductive, TypeOK
  <1>5. Numbered' /\ OutcomesExecuted' /\ NotYetExecuted' /\ ExecutedOnce'
    BY <1>1, <1>3 DEF Inductive, Numbered, OutcomesExecuted, NotYetExecuted, ExecutedOnce
  <1>6. Held'
    BY <1>1, PurgeKeeps DEF Inductive, Held
  <1> QED  BY <1>2, <1>3, <1>4, <1>5, <1>6 DEF Inductive

LEMMA PrepareInductive ==
  ASSUME Inductive, NEW p \in Threads, prepare_reservation(p)
  PROVE  Inductive'
  <1>1. PICK key \in Keys, body \in Bodies :
          /\ todo[p] = Idle /\ attempts < MaxAttempts
          /\ records' = Purged /\ attempts' = attempts + 1
          /\ todo' = [todo EXCEPT ![p] = Doing("reserve", key, body, attempts + 1)]
          /\ UNCHANGED <<expired, executed, stored, replayed>>
    BY DEF prepare_reservation, Become
  <1> DEFINE s == Doing("reserve", key, body, attempts + 1)
  <1>2. /\ attempts \in Nat /\ attempts' \in 0..MaxAttempts /\ expired \in 0..attempts'
        /\ attempts + 1 \in Ids
    BY <1>1, AttemptsAssumption DEF Inductive, TypeOK, Ids
  <1>3. s \in Work /\ s # Idle /\ s.at = "reserve" /\ s.id = attempts + 1
    BY <1>2, DoingFields
  <1> HIDE DEF s
  <1>4. /\ todo \in [Threads -> Work] /\ todo' \in [Threads -> Work] /\ todo'[p] = s
        /\ \A q \in Threads \ {p} : todo'[q] = todo[q]
    BY <1>1, <1>3 DEF Inductive, TypeOK, s
  <1>5. /\ records' \subseteq Records(Outcomes \cup {"processing"})
        /\ \A r, t \in records' : r.key = t.key => r = t
        /\ \A r \in records' : r.id <= attempts
        /\ \A r \in records' : r.status # "processing" => r \in stored
        /\ StoredOutcomeStays'
    BY <1>1, PurgeKeeps, FewerRecords
  <1>6. TypeOK'
    BY <1>1, <1>2, <1>4, <1>5 DEF Inductive, TypeOK
  <1>7. Numbered'
    <2>1. /\ \A r \in records' : r.id \in Nat
          /\ \A e \in executed : e.id \in Nat /\ e.id <= attempts
          /\ \A q \in Threads : todo[q] # Idle => todo[q].id \in Nat /\ todo[q].id <= attempts
      BY <1>4, <1>5, WorkFields DEF Inductive, TypeOK, Numbered, Records, Executions, Ids
    <2>2. \A r \in records' : r.id <= attempts'
      BY <1>1, <1>2, <1>5, <2>1
    <2>3. \A e \in executed' : e.id <= attempts'
      BY <1>1, <1>2, <2>1
    <2>4. \A q \in Threads : todo'[q] # Idle => todo'[q].id <= attempts'
      BY <1>1, <1>2, <1>3, <1>4, <2>1
    <2>5. ASSUME NEW q \in Threads, NEW t \in Threads, todo'[q] # Idle, todo'[t] # Idle,
                 todo'[q].id = todo'[t].id
          PROVE  q = t
      BY <1>2, <1>3, <1>4, <2>1, <2>5 DEF Inductive, Numbered
    <2> QED  BY <2>2, <2>3, <2>4, <2>5 DEF Numbered
  <1>8. OutcomesExecuted'
    BY <1>1, <1>3, <1>4, <1>5 DEF Inductive, OutcomesExecuted, ExecutionOf
  <1>9. NotYetExecuted'
    <2>1. \A e \in executed : e.id \in Nat /\ e.id <= attempts
      BY DEF Inductive, TypeOK, Numbered, Executions, Ids
    <2>2. \A e \in executed : e.id # s.id
      BY <1>2, <1>3, <2>1
    <2> QED  BY <1>1, <1>4, <2>2 DEF Inductive, NotYetExecuted
  <1>10. Held'
    BY <1>1, <1>3, <1>4, PurgeKeeps DEF Inductive, Held
  <1>11. ExecutedOnce' /\ ReplaysAreOriginal'
    BY <1>1 DEF Inductive, ExecutedOnce, ReplaysAreOriginal
  <1> QED  BY <1>5, <1>6, <1>7, <1>8, <1>9, <1>10, <1>11 DEF Inductive

\* A request that goes on keeps its number, one that ends frees it.
LEMMA GoesOn ==
  ASSUME Inductive, NEW p \in Threads, NEW s \in Work, todo' = [todo EXCEPT ![p] = s],
         s = Idle \/ (todo[p] # Idle /\ s.id = todo[p].id)
  PROVE  /\ todo' \in [Threads -> Work]
         /\ todo'[p] = s /\ \A q \in Threads \ {p} : todo'[q] = todo[q]
         /\ \A q \in Threads : todo'[q] # Idle => todo'[q].id <= attempts
         /\ \A q, t \in Threads :
              todo'[q] # Idle /\ todo'[t] # Idle /\ todo'[q].id = todo'[t].id => q = t
  <1>1. todo \in [Threads -> Work]
    BY DEF Inductive, TypeOK
  <1>2. todo'[p] = s /\ \A q \in Threads \ {p} : todo'[q] = todo[q]
    BY <1>1
  <1>3. todo' \in [Threads -> Work]
    BY <1>1
  <1>4. \A q \in Threads : todo'[q] # Idle => todo[q] # Idle /\ todo'[q].id = todo[q].id
    BY <1>2
  <1> QED  BY <1>2, <1>3, <1>4 DEF Inductive, Numbered

LEMMA IdleWorks == Idle \in Work /\ Idle.at = "idle"
  BY DEF Idle, Work

LEMMA ReserveInductive ==
  ASSUME Inductive, NEW p \in Threads, reserve_idempotency_record(p)
  PROVE  Inductive'
  <1>1. PICK s \in Work : s = todo[p]
    BY DEF Inductive, TypeOK
  <1>2. s.at = "reserve" /\ s # Idle
    BY <1>1, WorkFields DEF reserve_idempotency_record
  <1>3. s.key \in Keys /\ s.body \in Bodies /\ s.id \in Ids /\ s.id <= attempts
    BY <1>1, <1>2, WorkFields DEF Inductive, Numbered
  <1>4. UNCHANGED <<attempts, expired, executed, stored, replayed>>
    BY DEF reserve_idempotency_record
  <1>5. \A e \in executed : e.id # s.id
    BY <1>1, <1>2 DEF Inductive, NotYetExecuted
  <1>6. ExecutedOnce' /\ ReplaysAreOriginal'
    BY <1>4 DEF Inductive, ExecutedOnce, ReplaysAreOriginal
  <1>7. CASE Conflict(s.key)
    <2> DEFINE z == Doing("lost", s.key, s.body, s.id)
    <2>1. z \in Work /\ z # Idle /\ z.at = "lost" /\ z.id = s.id
      BY <1>3, DoingFields
    <2>2. UNCHANGED records /\ todo' = [todo EXCEPT ![p] = z]
      BY <1>1, <1>7 DEF reserve_idempotency_record, Become
    <2> HIDE DEF z
    <2>3. /\ todo' \in [Threads -> Work]
          /\ todo'[p] = z /\ \A q \in Threads \ {p} : todo'[q] = todo[q]
          /\ \A q \in Threads : todo'[q] # Idle => todo'[q].id <= attempts
          /\ \A q, t \in Threads :
               todo'[q] # Idle /\ todo'[t] # Idle /\ todo'[q].id = todo'[t].id => q = t
      BY <1>1, <1>2, <2>1, <2>2, GoesOn
    <2>4. TypeOK' /\ Numbered'
      BY <1>4, <2>2, <2>3 DEF Inductive, TypeOK, Numbered
    <2>5. OutcomesExecuted' /\ NotYetExecuted' /\ Held' /\ StoredOutcomeStays'
      <3>1. OutcomesExecuted'
        BY <1>4, <2>1, <2>2, <2>3 DEF Inductive, OutcomesExecuted, ExecutionOf
      <3>2. NotYetExecuted'
        BY <1>4, <1>5, <2>1, <2>3 DEF Inductive, NotYetExecuted
      <3>3. Held' /\ StoredOutcomeStays'
        BY <1>4, <2>1, <2>2, <2>3 DEF Inductive, Held, StoredOutcomeStays
      <3> QED  BY <3>1, <3>2, <3>3
    <2> QED  BY <1>6, <2>4, <2>5 DEF Inductive
  <1>8. CASE ~Conflict(s.key)
    <2> DEFINE z == Doing("run", s.key, s.body, s.id)
               row == Record(s.key, s.body, s.id, "processing", TRUE)
    <2>1. /\ z \in Work /\ z # Idle /\ z.at = "run" /\ z.id = s.id
          /\ z.key = s.key /\ z.body = s.body
      BY <1>3, DoingFields
    <2>2. records' = Purged \cup {row} /\ todo' = [todo EXCEPT ![p] = z]
      BY <1>1, <1>8 DEF reserve_idempotency_record, Become
    <2>3. /\ row \in Records(Outcomes \cup {"processing"}) /\ row.key = s.key
          /\ row.id = s.id /\ row.status = "processing"
      BY <1>3 DEF Record, Records
    <2> HIDE DEF z
    <2>4. /\ todo' \in [Threads -> Work]
          /\ todo'[p] = z /\ \A q \in Threads \ {p} : todo'[q] = todo[q]
          /\ \A q \in Threads : todo'[q] # Idle => todo'[q].id <= attempts
          /\ \A q, t \in Threads :
               todo'[q] # Idle /\ todo'[t] # Idle /\ todo'[q].id = todo'[t].id => q = t
      BY <1>1, <1>2, <2>1, <2>2, GoesOn
    <2>5. \A r \in Purged : r.key # s.key
      BY <1>8 DEF Conflict
    <2>6. Held'
      <3>1. SUFFICES ASSUME expired = 0
                     PROVE  /\ \A q \in Threads : todo'[q].at \in {"run", "settle"} =>
                                 Record(todo'[q].key, todo'[q].body, todo'[q].id,
                                        "processing", TRUE) \in records'
                            /\ \A e \in executed : \E r \in records' : ExecutionOf(r) = e
        BY <1>4 DEF Held
      <3>2. records \subseteq records' /\ row \in records'
        BY <2>2, <3>1, PurgeKeeps
      <3> QED  BY <2>1, <2>4, <3>1, <3>2 DEF Inductive, Held
    <2> HIDE DEF row
    <2>7. TypeOK'
      <3>1. records' \subseteq Records(Outcomes \cup {"processing"})
        BY <2>2, <2>3, PurgeKeeps DEF Inductive, TypeOK
      <3>2. \A r, t \in records' : r.key = t.key => r = t
        BY <2>2, <2>3, <2>5, PurgeKeeps DEF Inductive, TypeOK
      <3> QED  BY <1>4, <2>4, <3>1, <3>2 DEF Inductive, TypeOK
    <2>8. Numbered'
      BY <1>3, <1>4, <2>2, <2>3, <2>4, PurgeKeeps DEF Inductive, Numbered
    <2>9. OutcomesExecuted'
      <3>1. \A r \in records' : r.status # "processing" => r \in stored
        BY <2>2, <2>3, PurgeKeeps DEF Inductive, OutcomesExecuted
      <3> QED  BY <1>4, <2>1, <2>4, <3>1 DEF Inductive, OutcomesExecuted, ExecutionOf
    <2>10. NotYetExecuted'
      BY <1>4, <1>5, <2>1, <2>4 DEF Inductive, NotYetExecuted
    <2>11. StoredOutcomeStays'
      BY <1>4, <2>2, PurgeKeeps DEF StoredOutcomeStays
    <2> QED  BY <1>6, <2>6, <2>7, <2>8, <2>9, <2>10, <2>11 DEF Inductive
  <1> QED  BY <1>7, <1>8

LEMMA ConflictInductive ==
  ASSUME Inductive, NEW p \in Threads, answer_conflict(p)
  PROVE  Inductive'
  <1>1. PICK s \in Work : s = todo[p]
    BY DEF Inductive, TypeOK
  <1>2. s.at = "lost" /\ s # Idle
    BY <1>1, WorkFields DEF answer_conflict
  <1>3. s.key \in Keys /\ s.body \in Bodies
    BY <1>2, WorkFields
  <1>4. /\ records' = Purged /\ Answer(s.key, s.body)
        /\ todo' = [todo EXCEPT ![p] = Idle]
        /\ UNCHANGED <<attempts, expired, executed, stored>>
    BY <1>1 DEF answer_conflict, Become
  <1>5. ReplaysAreOriginal' /\ replayed' \subseteq Executions
    BY <1>3, <1>4, AnswerOriginal
  <1>6. /\ records' \subseteq Records(Outcomes \cup {"processing"})
        /\ \A r, t \in records' : r.key = t.key => r = t
        /\ \A r \in records' : r.id <= attempts
        /\ \A r \in records' : r.status # "processing" => r \in stored
        /\ StoredOutcomeStays'
    BY <1>4, PurgeKeeps, FewerRecords
  <1>7. /\ todo' \in [Threads -> Work]
        /\ todo'[p] = Idle /\ \A q \in Threads \ {p} : todo'[q] = todo[q]
        /\ \A q \in Threads : todo'[q] # Idle => todo'[q].id <= attempts
        /\ \A q, t \in Threads :
             todo'[q] # Idle /\ todo'[t] # Idle /\ todo'[q].id = todo'[t].id => q = t
    BY <1>4, GoesOn, IdleWorks
  <1>8. TypeOK'
    BY <1>4, <1>5, <1>6, <1>7 DEF Inductive, TypeOK
  <1>9. Numbered' /\ OutcomesExecuted'
    BY <1>4, <1>6, <1>7, IdleWorks DEF Inductive, Numbered, OutcomesExecuted, ExecutionOf
  <1>10. NotYetExecuted' /\ ExecutedOnce'
    BY <1>4, <1>7 DEF Inductive, NotYetExecuted, ExecutedOnce
  <1>11. Held'
    BY <1>4, <1>7, IdleWorks, PurgeKeeps DEF Inductive, Held
  <1> QED  BY <1>5, <1>6, <1>8, <1>9, <1>10, <1>11 DEF Inductive

LEMMA HandlerInductive ==
  ASSUME Inductive, NEW p \in Threads, original_handler(p)
  PROVE  Inductive'
  <1>1. PICK s \in Work : s = todo[p]
    BY DEF Inductive, TypeOK
  <1>2. PICK result \in Outcomes \cup {"refused"}, replayable \in BOOLEAN :
          /\ s.at = "run"
          /\ executed' = IF result = "refused" THEN executed
                         ELSE executed \cup {Execution(s.key, s.body, s.id)}
          /\ todo' = [todo EXCEPT ![p] = Settling(s, result, replayable)]
          /\ UNCHANGED <<records, attempts, expired, stored, replayed>>
    BY <1>1 DEF original_handler, Become, Outcomes
  <1>3. s # Idle /\ s.key \in Keys /\ s.body \in Bodies /\ s.id \in Ids /\ s.id <= attempts
    BY <1>1, <1>2, WorkFields DEF Inductive, Numbered
  <1> DEFINE z == Settling(s, result, replayable)
             e == Execution(s.key, s.body, s.id)
  <1>4. /\ z \in Work /\ z # Idle /\ z.at = "settle" /\ z.result = result
        /\ z.key = s.key /\ z.body = s.body /\ z.id = s.id
    BY <1>3, SettlingFields
  <1>5. e \in Executions /\ e.key = s.key /\ e.body = s.body /\ e.id = s.id
    BY <1>3, ExecutionFields
  <1>6. todo' = [todo EXCEPT ![p] = z]
    BY <1>2
  <1> HIDE DEF z
  <1>7. /\ todo' \in [Threads -> Work]
        /\ todo'[p] = z /\ \A q \in Threads \ {p} : todo'[q] = todo[q]
        /\ \A q \in Threads : todo'[q] # Idle => todo'[q].id <= attempts
        /\ \A q, t \in Threads :
             todo'[q] # Idle /\ todo'[t] # Idle /\ todo'[q].id = todo'[t].id => q = t
    BY <1>1, <1>3, <1>4, <1>6, GoesOn
  <1>8. executed \subseteq executed' /\ (result # "refused" => e \in executed')
          /\ \A f \in executed' : f \in executed \/ (f = e /\ result # "refused")
    BY <1>2
  <1>9. ASSUME expired = 0
        PROVE  Record(s.key, s.body, s.id, "processing", TRUE) \in records
    BY <1>1, <1>2, <1>9 DEF Inductive, Held
  <1>10. ExecutionOf(z) = e
    BY <1>4 DEF ExecutionOf
  <1>11. ExecutionOf(Record(s.key, s.body, s.id, "processing", TRUE)) = e
    BY DEF ExecutionOf, Record
  <1> HIDE DEF e
  <1>12. TypeOK'
    BY <1>2, <1>5, <1>7, <1>8 DEF Inductive, TypeOK
  <1>13. Numbered'
    BY <1>2, <1>3, <1>5, <1>7, <1>8 DEF Inductive, Numbered
  <1>14. OutcomesExecuted'
    <2>1. \A o \in stored : ExecutionOf(o) \in executed'
      BY <1>8 DEF Inductive, OutcomesExecuted
    <2>2. \A q \in Threads : todo'[q].at = "settle" /\ todo'[q].result # "refused" =>
            ExecutionOf(todo'[q]) \in executed'
      BY <1>4, <1>7, <1>8, <1>10 DEF Inductive, OutcomesExecuted
    <2>3. \A r \in records : r.status # "processing" => r \in stored
      BY DEF Inductive, OutcomesExecuted
    <2> QED  BY <1>2, <2>1, <2>2, <2>3 DEF OutcomesExecuted, ExecutionOf
  <1>15. NotYetExecuted'
    <2> SUFFICES ASSUME NEW q \in Threads, NEW f \in executed',
                        todo'[q] # Idle, f.id = todo'[q].id
                 PROVE  todo'[q].at = "settle" /\ todo'[q].result # "refused"
      BY DEF NotYetExecuted
    <2>1. CASE f \in executed /\ q # p
      BY <1>7, <2>1 DEF Inductive, NotYetExecuted
    <2>2. CASE f \in executed /\ q = p
      BY <1>1, <1>2, <1>3, <1>4, <1>7, <2>2 DEF Inductive, NotYetExecuted
    <2>3. CASE f = e /\ result # "refused"
      BY <1>3, <1>4, <1>5, <1>7, <2>3
    <2> QED  BY <1>8, <2>1, <2>2, <2>3
  <1>16. Held'
    <2> SUFFICES ASSUME expired = 0
                 PROVE  /\ \A q \in Threads : todo'[q].at \in {"run", "settle"} =>
                             Record(todo'[q].key, todo'[q].body, todo'[q].id,
                                    "processing", TRUE) \in records
                        /\ \A f \in executed' : \E r \in records : ExecutionOf(r) = f
      BY <1>2 DEF Held, ExecutionOf
    <2>1. \A q \in Threads : todo'[q].at \in {"run", "settle"} =>
            Record(todo'[q].key, todo'[q].body, todo'[q].id, "processing", TRUE) \in records
      BY <1>4, <1>7, <1>9 DEF Inductive, Held
    <2>2. \A f \in executed' : \E r \in records : ExecutionOf(r) = f
      BY <1>8, <1>9, <1>11 DEF Inductive, Held
    <2> QED  BY <2>1, <2>2
  <1>17. ExecutedOnce'
    <2> SUFFICES ASSUME expired = 0, NEW f \in executed', NEW g \in executed', f.key = g.key
                 PROVE  f = g
      BY <1>2 DEF ExecutedOnce
    <2>1. PICK r \in records : ExecutionOf(r) = f
      BY <1>2, <1>16 DEF Held, ExecutionOf
    <2>2. PICK t \in records : ExecutionOf(t) = g
      BY <1>2, <1>16 DEF Held, ExecutionOf
    <2>3. r.key = t.key
      BY <2>1, <2>2 DEF ExecutionOf, Execution
    <2> QED  BY <2>1, <2>2, <2>3 DEF Inductive, TypeOK
  <1>18. StoredOutcomeStays' /\ ReplaysAreOriginal'
    BY <1>2, <1>8 DEF Inductive, StoredOutcomeStays, ReplaysAreOriginal
  <1> QED  BY <1>12, <1>13, <1>14, <1>15, <1>16, <1>17, <1>18 DEF Inductive

\* Time passes, or a process stops.
LEMMA ExpireInductive ==
  ASSUME Inductive, expire
  PROVE  Inductive'
  <1>1. /\ attempts \in Nat /\ expired \in 0..attempts /\ expired < attempts
        /\ expired' = expired + 1
        /\ UNCHANGED <<records, attempts, todo, executed, stored, replayed>>
    BY AttemptsAssumption DEF Inductive, TypeOK, expire
  <1>2. expired' \in 0..attempts /\ expired' # 0
    BY <1>1
  <1>3. TypeOK'
    BY <1>1, <1>2 DEF Inductive, TypeOK
  <1>4. Numbered' /\ OutcomesExecuted' /\ NotYetExecuted' /\ ReplaysAreOriginal'
    BY <1>1 DEF Inductive, Numbered, OutcomesExecuted, NotYetExecuted, ReplaysAreOriginal,
                ExecutionOf
  <1>5. Held' /\ ExecutedOnce'
    BY <1>2 DEF Held, ExecutedOnce
  <1>6. \A o \in stored : o.id \in Nat
    BY DEF Inductive, TypeOK, Records, Ids
  <1>7. StoredOutcomeStays'
    BY <1>1, <1>6 DEF Inductive, StoredOutcomeStays
  <1> QED  BY <1>3, <1>4, <1>5, <1>7 DEF Inductive

LEMMA CrashInductive ==
  ASSUME Inductive, NEW p \in Threads, crash(p)
  PROVE  Inductive'
  <1>1. /\ todo' = [todo EXCEPT ![p] = Idle]
        /\ UNCHANGED <<records, attempts, expired, executed, stored, replayed>>
    BY DEF crash, Become
  <1>2. /\ todo' \in [Threads -> Work]
        /\ todo'[p] = Idle /\ \A q \in Threads \ {p} : todo'[q] = todo[q]
        /\ \A q \in Threads : todo'[q] # Idle => todo'[q].id <= attempts
        /\ \A q, t \in Threads :
             todo'[q] # Idle /\ todo'[t] # Idle /\ todo'[q].id = todo'[t].id => q = t
    BY <1>1, GoesOn, IdleWorks
  <1>3. TypeOK' /\ Numbered'
    BY <1>1, <1>2 DEF Inductive, TypeOK, Numbered
  <1>4. OutcomesExecuted' /\ NotYetExecuted'
    BY <1>1, <1>2, IdleWorks DEF Inductive, OutcomesExecuted, NotYetExecuted, ExecutionOf
  <1>5. Held'
    BY <1>1, <1>2, IdleWorks DEF Inductive, Held
  <1>6. ExecutedOnce' /\ StoredOutcomeStays' /\ ReplaysAreOriginal'
    BY <1>1 DEF Inductive, ExecutedOnce, StoredOutcomeStays, ReplaysAreOriginal
  <1> QED  BY <1>3, <1>4, <1>5, <1>6 DEF Inductive

-----------------------------------------------------------------------------
(***************************************************************************)
(* Settling a reservation, its own or one made after it expired.           *)
(***************************************************************************)
\* Before the first expiry a request that settles finds its own reservation.
LEMMA FindsItsOwn ==
  ASSUME Inductive, expired = 0, NEW p \in Threads, todo[p].at = "settle"
  PROVE  ProcessingOf(todo[p].key, todo[p].body) =
           {Record(todo[p].key, todo[p].body, todo[p].id, "processing", TRUE)}
  <1> DEFINE row == Record(todo[p].key, todo[p].body, todo[p].id, "processing", TRUE)
  <1>1. row \in records
    BY DEF Inductive, Held
  <1>2. row.key = todo[p].key /\ row.body = todo[p].body /\ row.status = "processing"
    BY DEF Record
  <1> HIDE DEF row
  <1>3. \A r \in ProcessingOf(todo[p].key, todo[p].body) : r = row
    BY <1>1, <1>2 DEF ProcessingOf, Inductive, TypeOK
  <1>4. row \in ProcessingOf(todo[p].key, todo[p].body)
    BY <1>1, <1>2 DEF ProcessingOf
  <1> QED  BY <1>3, <1>4 DEF row

\* Before the first expiry no other running request has the same key.
LEMMA AloneOnItsKey ==
  ASSUME Inductive, expired = 0, NEW p \in Threads, NEW q \in Threads, p # q,
         todo[p].at \in {"run", "settle"}, todo[q].at \in {"run", "settle"}
  PROVE  todo[p].key # todo[q].key
  <1>1. Record(todo[p].key, todo[p].body, todo[p].id, "processing", TRUE) \in records
    BY DEF Inductive, Held
  <1>2. Record(todo[q].key, todo[q].body, todo[q].id, "processing", TRUE) \in records
    BY DEF Inductive, Held
  <1>3. todo[p] \in Work /\ todo[q] \in Work
    BY DEF Inductive, TypeOK
  <1>4. todo[p] # Idle /\ todo[q] # Idle
    BY <1>3, WorkFields
  <1>5. todo[p].id # todo[q].id
    BY <1>4 DEF Inductive, Numbered
  <1>6. Record(todo[p].key, todo[p].body, todo[p].id, "processing", TRUE)
          # Record(todo[q].key, todo[q].body, todo[q].id, "processing", TRUE)
    BY <1>5 DEF Record
  <1>7. /\ Record(todo[p].key, todo[p].body, todo[p].id, "processing", TRUE).key = todo[p].key
        /\ Record(todo[q].key, todo[q].body, todo[q].id, "processing", TRUE).key = todo[q].key
    BY DEF Record
  <1> QED  BY <1>1, <1>2, <1>6, <1>7 DEF Inductive, TypeOK

LEMMA CompleteInductive ==
  ASSUME Inductive, NEW p \in Threads, complete_idempotency_record(p)
  PROVE  Inductive'
  <1>1. PICK s \in Work : s = todo[p]
    BY DEF Inductive, TypeOK
  <1> DEFINE found == ProcessingOf(s.key, s.body)
             row == Record(s.key, s.body, s.id, s.result, s.replayable)
  <1>2. /\ s.at = "settle" /\ s.result # "refused"
        /\ \/ UNCHANGED <<records, stored>>
           \/ /\ found # {}
              /\ records' = (records \ found) \cup {row} /\ stored' = stored \cup {row}
        /\ todo' = [todo EXCEPT ![p] = Idle]
        /\ UNCHANGED <<attempts, expired, executed, replayed>>
    BY <1>1 DEF complete_idempotency_record, Become
  <1>3. /\ s # Idle /\ s.key \in Keys /\ s.body \in Bodies /\ s.id \in Ids
        /\ s.id <= attempts /\ s.result \in Outcomes /\ s.replayable \in BOOLEAN
    BY <1>1, <1>2, WorkFields DEF Inductive, Numbered, Idle
  <1>4. ExecutionOf(s) \in executed
    BY <1>1, <1>2 DEF Inductive, OutcomesExecuted
  <1>5. /\ row \in Records(Outcomes) /\ row \in Records(Outcomes \cup {"processing"})
        /\ row.key = s.key /\ row.id = s.id
    BY <1>3 DEF Record, Records
  <1>6. ExecutionOf(row) = ExecutionOf(s)
    BY DEF ExecutionOf, Record
  <1> HIDE DEF row
  <1>7. /\ todo' \in [Threads -> Work]
        /\ todo'[p] = Idle /\ \A q \in Threads \ {p} : todo'[q] = todo[q]
        /\ \A q \in Threads : todo'[q] # Idle => todo'[q].id <= attempts
        /\ \A q, t \in Threads :
             todo'[q] # Idle /\ todo'[t] # Idle /\ todo'[q].id = todo'[t].id => q = t
    BY <1>2, GoesOn, IdleWorks
  <1>8. NotYetExecuted'
    BY <1>2, <1>7 DEF Inductive, NotYetExecuted
  <1>9. ExecutedOnce'
    BY <1>2 DEF Inductive, ExecutedOnce
  <1>10. \A q \in Threads : todo'[q].at = "settle" /\ todo'[q].result # "refused" =>
           ExecutionOf(todo'[q]) \in executed'
    BY <1>2, <1>7, IdleWorks DEF Inductive, OutcomesExecuted
  <1>11. CASE UNCHANGED <<records, stored>>
    <2>1. TypeOK' /\ Numbered'
      BY <1>2, <1>7, <1>11 DEF Inductive, TypeOK, Numbered
    <2>2. OutcomesExecuted'
      BY <1>2, <1>10, <1>11 DEF Inductive, OutcomesExecuted, ExecutionOf
    <2>3. Held'
      BY <1>2, <1>7, <1>11, IdleWorks DEF Inductive, Held, ExecutionOf
    <2>4. StoredOutcomeStays' /\ ReplaysAreOriginal'
      BY <1>2, <1>11 DEF Inductive, StoredOutcomeStays, ReplaysAreOriginal
    <2> QED  BY <1>8, <1>9, <2>1, <2>2, <2>3, <2>4 DEF Inductive
  <1>12. CASE /\ found # {}
              /\ records' = (records \ found) \cup {row} /\ stored' = stored \cup {row}
    <2>1. \A r \in records : r \in found \/ r \in records'
      BY <1>12
    <2>2. \A r \in records' : r.key = s.key => r = row
      BY <1>5, <1>12 DEF ProcessingOf, Inductive, TypeOK
    <2>3. \A r \in found : r.status = "processing" /\ r.key = s.key
      BY DEF ProcessingOf
    <2>4. row \in records' /\ row \in stored' /\ \A r \in records' : r \in records \/ r = row
      BY <1>12
    <2>5. TypeOK'
      <3>1. \A r, t \in records' : r.key = t.key => r = t
        BY <1>5, <2>2, <2>4 DEF Inductive, TypeOK
      <3> QED  BY <1>2, <1>5, <1>7, <1>12, <3>1 DEF Inductive, TypeOK
    <2>6. Numbered'
      BY <1>2, <1>3, <1>5, <1>7, <2>4 DEF Inductive, Numbered
    <2>7. OutcomesExecuted'
      <3>1. \A r \in records' : r.status # "processing" => r \in stored'
        BY <1>12 DEF Inductive, OutcomesExecuted
      <3>2. \A o \in stored' : ExecutionOf(o) \in executed'
        BY <1>2, <1>4, <1>6, <1>12 DEF Inductive, OutcomesExecuted
      <3> QED  BY <1>10, <3>1, <3>2 DEF OutcomesExecuted, ExecutionOf
    <2>8. StoredOutcomeStays'
      <3> SUFFICES ASSUME NEW o \in stored', o.id > expired
                   PROVE  o \in records'
        BY <1>2 DEF StoredOutcomeStays
      <3>1. CASE o = row
        BY <2>4, <3>1
      <3>2. CASE o \in stored
        <4>1. o \in records
          BY <3>2 DEF Inductive, StoredOutcomeStays
        <4>2. o.status # "processing"
          BY <3>2 DEF Inductive, TypeOK, Records, Outcomes
        <4> QED  BY <2>1, <2>3, <4>1, <4>2
      <3> QED  BY <1>12, <3>1, <3>2
    <2>9. Held'
      <3> SUFFICES ASSUME expired = 0
                   PROVE  /\ \A q \in Threads : todo'[q].at \in {"run", "settle"} =>
                               Record(todo'[q].key, todo'[q].body, todo'[q].id,
                                      "processing", TRUE) \in records'
                          /\ \A e \in executed : \E r \in records' : ExecutionOf(r) = e
        BY <1>2 DEF Held, ExecutionOf
      <3>1. ASSUME NEW q \in Threads, todo'[q].at \in {"run", "settle"}
            PROVE  Record(todo'[q].key, todo'[q].body, todo'[q].id, "processing", TRUE)
                     \in records'
        <4>1. q # p /\ todo'[q] = todo[q]
          BY <1>7, <3>1, IdleWorks
        <4>2. todo[q].key # s.key
          BY <1>1, <1>2, <3>1, <4>1, AloneOnItsKey
        <4>3. /\ Record(todo[q].key, todo[q].body, todo[q].id, "processing", TRUE) \in records
              /\ Record(todo[q].key, todo[q].body, todo[q].id, "processing", TRUE).key
                   = todo[q].key
          BY <3>1, <4>1 DEF Inductive, Held, Record
        <4> QED  BY <2>1, <2>3, <4>1, <4>2, <4>3
      <3>2. ASSUME NEW e \in executed
            PROVE  \E r \in records' : ExecutionOf(r) = e
        <4>1. PICK r \in records : ExecutionOf(r) = e
          BY DEF Inductive, Held
        <4>2. CASE r \in found
          <5>1. r = Record(s.key, s.body, s.id, "processing", TRUE)
            BY <1>1, <1>2, <4>2, FindsItsOwn
          <5>2. ExecutionOf(r) = ExecutionOf(s)
            BY <5>1 DEF ExecutionOf, Record
          <5> QED  BY <1>6, <2>4, <4>1, <5>2
        <4>3. CASE r \notin found
          BY <2>1, <4>1, <4>3
        <4> QED  BY <4>2, <4>3
      <3> QED  BY <3>1, <3>2
    <2>10. ReplaysAreOriginal'
      BY <1>2, <1>12 DEF Inductive, ReplaysAreOriginal
    <2> QED
      BY <1>8, <1>9, <2>5, <2>6, <2>7, <2>8, <2>9, <2>10 DEF Inductive
  <1> QED  BY <1>2, <1>11, <1>12

LEMMA ReleaseInductive ==
  ASSUME Inductive, NEW p \in Threads, release_idempotency_record(p)
  PROVE  Inductive'
  <1>1. PICK s \in Work : s = todo[p]
    BY DEF Inductive, TypeOK
  <1> DEFINE found == ProcessingOf(s.key, s.body)
  <1>2. /\ s.at = "settle" /\ s.result = "refused"
        /\ records' = records \ found
        /\ todo' = [todo EXCEPT ![p] = Idle]
        /\ UNCHANGED <<attempts, expired, executed, stored, replayed>>
    BY <1>1 DEF release_idempotency_record, Released, Become
  <1>3. s # Idle
    BY <1>2, WorkFields
  <1>4. \A e \in executed : e.id # s.id
    BY <1>1, <1>2, <1>3 DEF Inductive, NotYetExecuted
  <1>5. /\ todo' \in [Threads -> Work]
        /\ todo'[p] = Idle /\ \A q \in Threads \ {p} : todo'[q] = todo[q]
        /\ \A q \in Threads : todo'[q] # Idle => todo'[q].id <= attempts
        /\ \A q, t \in Threads :
             todo'[q] # Idle /\ todo'[t] # Idle /\ todo'[q].id = todo'[t].id => q = t
    BY <1>2, GoesOn, IdleWorks
  <1>6. records' \subseteq records /\ \A r \in records : r \in found \/ r \in records'
    BY <1>2
  <1>7. \A r \in found : r.status = "processing" /\ r.key = s.key
    BY DEF ProcessingOf
  <1>8. TypeOK' /\ Numbered'
    BY <1>2, <1>5, <1>6 DEF Inductive, TypeOK, Numbered
  <1>9. OutcomesExecuted'
    BY <1>2, <1>5, <1>6, IdleWorks DEF Inductive, OutcomesExecuted, ExecutionOf
  <1>10. NotYetExecuted' /\ ExecutedOnce' /\ ReplaysAreOriginal'
    BY <1>2, <1>5 DEF Inductive, NotYetExecuted, ExecutedOnce, ReplaysAreOriginal
  <1>11. StoredOutcomeStays'
    <2>1. \A o \in stored : o.status # "processing"
      BY DEF Inductive, TypeOK, Records, Outcomes
    <2> QED  BY <1>2, <1>6, <1>7, <2>1 DEF Inductive, StoredOutcomeStays
  <1>12. Held'
    <2> SUFFICES ASSUME expired = 0
                 PROVE  /\ \A q \in Threads : todo'[q].at \in {"run", "settle"} =>
                             Record(todo'[q].key, todo'[q].body, todo'[q].id,
                                    "processing", TRUE) \in records'
                        /\ \A e \in executed : \E r \in records' : ExecutionOf(r) = e
      BY <1>2 DEF Held, ExecutionOf
    <2>1. ASSUME NEW q \in Threads, todo'[q].at \in {"run", "settle"}
          PROVE  Record(todo'[q].key, todo'[q].body, todo'[q].id, "processing", TRUE)
                   \in records'
      <3>1. q # p /\ todo'[q] = todo[q]
        BY <1>5, <2>1, IdleWorks
      <3>2. todo[q].key # s.key
        BY <1>1, <1>2, <2>1, <3>1, AloneOnItsKey
      <3>3. /\ Record(todo[q].key, todo[q].body, todo[q].id, "processing", TRUE) \in records
            /\ Record(todo[q].key, todo[q].body, todo[q].id, "processing", TRUE).key
                 = todo[q].key
        BY <2>1, <3>1 DEF Inductive, Held, Record
      <3> QED  BY <1>6, <1>7, <3>1, <3>2, <3>3
    <2>2. ASSUME NEW e \in executed
          PROVE  \E r \in records' : ExecutionOf(r) = e
      <3>1. PICK r \in records : ExecutionOf(r) = e
        BY DEF Inductive, Held
      <3>2. ASSUME r \in found  PROVE FALSE
        <4>1. r = Record(s.key, s.body, s.id, "processing", TRUE)
          BY <1>1, <1>2, <3>2, FindsItsOwn
        <4>2. e.id = s.id
          BY <3>1, <4>1 DEF ExecutionOf, Execution, Record
        <4> QED  BY <1>4, <4>2
      <3> QED  BY <1>6, <3>1, <3>2
    <2> QED  BY <2>1, <2>2
  <1> QED  BY <1>8, <1>9, <1>10, <1>11, <1>12 DEF Inductive

-----------------------------------------------------------------------------
(***************************************************************************)
(* The theorems.                                                           *)
(***************************************************************************)
\* Every step of a request, every expiry and every failure keeps the ledger in
\* order (idempotent_handler and the repository methods it calls).
THEOREM InductiveInvariant == Spec => []Inductive
  <1>1. ASSUME Inductive, [Next]_vars  PROVE Inductive'
    <2>1. CASE UNCHANGED vars
      <3>1. UNCHANGED <<records, attempts, expired, todo, executed, stored, replayed>>
        BY <2>1 DEF vars
      <3>2. TypeOK' /\ Numbered' /\ OutcomesExecuted' /\ NotYetExecuted' /\ Held'
        BY <1>1, <3>1 DEF Inductive, TypeOK, Numbered, OutcomesExecuted, NotYetExecuted, Held,
                          ExecutionOf
      <3>3. ExecutedOnce' /\ StoredOutcomeStays' /\ ReplaysAreOriginal'
        BY <1>1, <3>1 DEF Inductive, ExecutedOnce, StoredOutcomeStays, ReplaysAreOriginal
      <3> QED  BY <3>2, <3>3 DEF Inductive
    <2>2. CASE expire
      BY <1>1, <2>2, ExpireInductive
    <2>3. ASSUME NEW p \in Threads, Request(p) \/ crash(p)  PROVE Inductive'
      BY <1>1, <2>3, AnswerInductive, PrepareInductive, ReserveInductive, ConflictInductive,
         HandlerInductive, CompleteInductive, ReleaseInductive, CrashInductive DEF Request
    <2> QED  BY <1>1, <2>1, <2>2, <2>3 DEF Next
  <1> QED  BY InitInductive, <1>1, PTL DEF Spec

\* Every record is well formed, and no key has two (the UNIQUE constraint on
\* scope and idempotency_key survives completion by another reservation).
THEOREM TypeCorrect == Spec => []TypeOK
  <1>1. Inductive => TypeOK
    BY DEF Inductive
  <1> QED  BY <1>1, InductiveInvariant, PTL

\* Until a reservation expires, no key is executed twice (reserve before the
\* handler runs, release only what was refused).
THEOREM OncePerKey == Spec => []ExecutedOnce
  <1>1. Inductive => ExecutedOnce
    BY DEF Inductive
  <1> QED  BY <1>1, InductiveInvariant, PTL

\* A stored outcome stays until it expires (complete_idempotency_record asks for
\* processing status, get_idempotency_record deletes what has expired).
THEOREM OutcomesStay == Spec => []StoredOutcomeStays
  <1>1. Inductive => StoredOutcomeStays
    BY DEF Inductive
  <1> QED  BY <1>1, InductiveInvariant, PTL

\* Only a stored response of the same request is replayed, also to a request that
\* outlived its reservation (_existing_record_response).
THEOREM OriginalsReplayed == Spec => []ReplaysAreOriginal
  <1>1. Inductive => ReplaysAreOriginal
    BY DEF Inductive
  <1> QED  BY <1>1, InductiveInvariant, PTL
=============================================================================
