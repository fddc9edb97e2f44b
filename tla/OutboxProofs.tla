---------------------------- MODULE OutboxProofs ----------------------------
(***************************************************************************)
(* Proofs about the dispatch of messages.  The invariant is Inductive; a   *)
(* step replaces the first thing a process has to do by what follows from  *)
(* it, so the core is a lemma about todo when that happens.                *)
(***************************************************************************)
EXTENDS OutboxSafety, FiniteSetTheorems, TLAPS

-----------------------------------------------------------------------------
(***************************************************************************)
(* Steps and their types.                                                  *)
(***************************************************************************)
\* A step of each kind carries what the action that takes it uses.
LEMMA StepFields ==
  ASSUME NEW s \in Steps
  PROVE  /\ s.message \in Messages
         /\ s.kind \in {"dispatch", "count", "save"} => s.row \in Rows
         /\ s.kind = "dispatch" => s.scenario \in Scenarios \cup {"normal"}
         /\ s.kind = "read_callback" => s.version \in Versions \cup {1, 2} /\ s.key \in Keys
         /\ s.kind = "insert_callback" => s.callback \in CallbackRecords
  BY DEF Steps

\* The constructors yield steps.
LEMMA StepTypes ==
  ASSUME NEW m \in Messages
  PROVE  /\ \A row \in Rows, scenario \in Scenarios \cup {"normal"} :
              DispatchStep(m, row, scenario) \in Steps
         /\ \A v \in Versions \cup {1, 2}, key \in Keys : ReadCallback(m, v, key) \in Steps
         /\ \A c \in CallbackRecords : InsertCallback(m, c) \in Steps
         /\ \A row \in Rows : CountStep(m, row) \in Steps /\ SaveStep(m, row) \in Steps
         /\ RecountStep(m) \in Steps
  BY DEF DispatchStep, ReadCallback, InsertCallback, CountStep, SaveStep, RecountStep, Steps

\* Fields of a row that was just made or counted.
LEMMA RowTypes ==
  ASSUME NEW status \in OutboxStatus,
         NEW error \in {"none", "hash_mismatch", "gateway_disabled", "timeout", "rejected"},
         NEW n \in Nat
  PROVE  Row(status, error, n) \in Rows
  BY DEF Row, Rows

\* A stored row is a complete record.
LEMMA StoredRow ==
  ASSUME TypeOK, NEW m \in Messages, outbox[m] # Blank
  PROVE  outbox[m] \in Rows
  BY DEF TypeOK

LEMMA RowsAreNotBlank == \A row \in Rows : row # Blank
  BY DEF Rows, Blank, Row, OutboxStatus

-----------------------------------------------------------------------------
(***************************************************************************)
(* Replacing the first step of a process.                                  *)
(***************************************************************************)
LEMMA Splice ==
  ASSUME NEW S, NEW q \in Seq(S), q # <<>>, NEW e \in Seq(S)
  PROVE  /\ e \o Tail(q) \in Seq(S)
         /\ Len(e) \in Nat /\ Len(q) \in Nat /\ Len(q) >= 1
         /\ Len(e \o Tail(q)) = Len(e) + Len(q) - 1
         /\ DOMAIN (e \o Tail(q)) = 1..(Len(e) + Len(q) - 1)
         /\ \A i \in 1..Len(e) : (e \o Tail(q))[i] = e[i]
         /\ \A i \in (Len(e) + 1)..(Len(e) + Len(q) - 1) :
              (e \o Tail(q))[i] = q[i - Len(e) + 1]
  <1>1. Tail(q) \in Seq(S) /\ Len(Tail(q)) = Len(q) - 1 /\ Len(q) >= 1
    OBVIOUS
  <1>2. \A i \in 1..(Len(q) - 1) : Tail(q)[i] = q[i + 1]
    OBVIOUS
  <1> QED  BY <1>1, <1>2

\* Receipts once on record stay on record.
Kept(m) == Receipts(m) \subseteq Receipts(m)'

\* If nothing is taken off record and no message disappears, the new steps are
\* in order, and the callback of the step just taken is recorded or still to
\* be recorded, then all steps are in order.
LEMMA StepsStayOK ==
  ASSUME TypeOK, StepsOK,
         NEW p \in Processes, todo[p] # <<>>,
         NEW e \in Seq(Steps), Continue(p, e),
         \A m \in Messages : Kept(m) /\ (outbox[m] # Blank => outbox'[m] # Blank),
         \A i \in 1..Len(e) : StepOK(e, i)',
         \A m \in Messages, v \in {1, 2} :
           CarriesCallback(Head(todo[p])) /\ Head(todo[p]).message = m
             /\ KeyOf(Head(todo[p])) = <<m, v>> =>
               \/ v \in Receipts(m)'
               \/ \E j \in 1..Len(e) :
                    CarriesCallback(e[j]) /\ e[j].message = m /\ KeyOf(e[j]) = <<m, v>>
  PROVE  StepsOK' /\ todo' \in [Processes -> Seq(Steps)]
  <1> DEFINE q == todo[p]
             r == e \o Tail(q)
  <1>1. q \in Seq(Steps) /\ q # <<>>
    BY DEF TypeOK
  <1>2. todo' = [todo EXCEPT ![p] = r] /\ r \in Seq(Steps)
    BY <1>1, Splice DEF Continue
  <1>3. todo' \in [Processes -> Seq(Steps)]
    BY <1>2 DEF TypeOK
  <1>4. SUFFICES ASSUME NEW s \in Processes, NEW i \in DOMAIN todo'[s]
                 PROVE  StepOK(todo[s], i)'
    BY <1>3 DEF StepsOK
  <1>5. CASE s # p
    <2>1. todo'[s] = todo[s] /\ todo[s] \in Seq(Steps)
      BY <1>2, <1>5 DEF TypeOK
    <2>2. StepOK(todo[s], i) /\ todo[s][i].message \in Messages
      BY <2>1, StepFields DEF StepsOK
    <2> QED
      BY <2>1, <2>2 DEF StepOK, Kept, Coming
  <1>6. CASE s = p
    <2>1. todo'[s] = r
      BY <1>2, <1>6 DEF TypeOK
    <2> DEFINE n == Len(e)
    <2>2. /\ n \in Nat /\ Len(q) \in Nat /\ Len(q) >= 1
          /\ DOMAIN r = 1..(n + Len(q) - 1)
          /\ \A j \in 1..n : r[j] = e[j]
          /\ \A j \in (n + 1)..(n + Len(q) - 1) : r[j] = q[j - n + 1]
      BY <1>1, Splice
    <2>3. CASE i <= n
      <3>1. i \in 1..n /\ StepOK(e, i)' /\ r[i] = e[i] /\ \A j \in 1..(i - 1) : r[j] = e[j]
        BY <2>1, <2>2, <2>3
      <3> HIDE DEF r, n
      <3> QED  BY <2>1, <3>1 DEF StepOK, Coming
    <2>4. CASE i > n
      <3> DEFINE k == i - n + 1
      <3>1. k \in 2..Len(q) /\ r[i] = q[k] /\ i \in (n + 1)..(n + Len(q) - 1) /\ k \in Int
        BY <2>1, <2>2, <2>4
      <3>2. PICK m \in Messages : m = q[k].message /\ StepOK(q, k)
        BY <1>1, <3>1, StepFields DEF StepsOK
      <3>3. ASSUME NEW v \in {1, 2}, Coming(q, k, m, v)
            PROVE  v \in Receipts(m)' \/ Coming(r, i, m, v)
        <4>1. PICK j \in 1..(k - 1) :
                CarriesCallback(q[j]) /\ q[j].message = m /\ KeyOf(q[j]) = <<m, v>>
          BY <3>3 DEF Coming
        <4>2. CASE j = 1
          <5>1. q[j] = Head(todo[p])
            BY <1>1, <4>2
          <5>2. ASSUME NEW l \in 1..n,
                       CarriesCallback(e[l]) /\ e[l].message = m /\ KeyOf(e[l]) = <<m, v>>
                PROVE  Coming(r, i, m, v)
            <6>1. l \in 1..(i - 1) /\ r[l] = e[l]
              BY <2>2, <3>1
            <6> QED  BY <5>2, <6>1 DEF Coming
          <5> QED  BY <4>1, <5>1, <5>2
        <4>3. CASE j # 1
          <5> DEFINE l == j + n - 1
          <5>1. l \in 1..(i - 1) /\ r[l] = q[j]
            <6>1. j \in 2..(k - 1) /\ n \in Nat /\ i \in Int /\ k = i - n + 1
              BY <2>2, <3>1, <4>3
            <6> HIDE DEF n, k, r, q
            <6>2. l \in (n + 1)..(i - 1) /\ l - n + 1 = j
              BY <6>1
            <6>3. l \in (n + 1)..(n + Len(q) - 1) /\ l \in 1..(i - 1)
              BY <2>2, <3>1, <6>1, <6>2
            <6>4. r[l] = q[l - n + 1]
              BY <2>2, <6>3
            <6> QED  BY <6>2, <6>3, <6>4
          <5> HIDE DEF l
          <5> QED  BY <4>1, <5>1 DEF Coming
        <4> QED  BY <4>2, <4>3
      <3>4. \A v \in Needed(q[k].row.status) : v \in {1, 2}
        BY DEF Needed
      <3>5. \A v \in {1, 2} : Coming(todo[p], k, m, v) =>
              v \in Receipts(m)' \/ Coming(todo[p], i, m, v)'
        BY <1>6, <2>1, <3>3 DEF Coming
      <3>6. todo'[p][i] = q[k]
        BY <2>1, <3>1, <1>6
      <3> HIDE DEF r, n, k
      <3> QED
        BY <1>6, <3>2, <3>4, <3>5, <3>6 DEF StepOK, Kept
    <2> QED  BY <1>1, <2>1, <2>2, <2>3, <2>4
  <1> QED  BY <1>5, <1>6

\* A process that starts a list of steps, or drops the one it had.
LEMMA NewStepsOK ==
  ASSUME TypeOK, StepsOK,
         NEW p \in Processes, NEW e \in Seq(Steps),
         todo' = [todo EXCEPT ![p] = e],
         \A m \in Messages : Kept(m) /\ (outbox[m] # Blank => outbox'[m] # Blank),
         \A i \in 1..Len(e) : StepOK(e, i)'
  PROVE  StepsOK' /\ todo' \in [Processes -> Seq(Steps)]
  <1>1. todo' \in [Processes -> Seq(Steps)]
    BY DEF TypeOK
  <1>2. SUFFICES ASSUME NEW s \in Processes, NEW i \in DOMAIN todo'[s]
                 PROVE  StepOK(todo[s], i)'
    BY <1>1 DEF StepsOK
  <1>3. CASE s # p
    <2>1. todo'[s] = todo[s] /\ todo[s] \in Seq(Steps)
      BY <1>3 DEF TypeOK
    <2>2. StepOK(todo[s], i) /\ todo[s][i].message \in Messages
      BY <2>1, StepFields DEF StepsOK
    <2> QED  BY <2>1, <2>2 DEF StepOK, Kept, Coming
  <1>4. CASE s = p
    <2>1. todo'[s] = e /\ i \in 1..Len(e)
      BY <1>4 DEF TypeOK
    <2> QED  BY <2>1 DEF StepOK, Coming
  <1> QED  BY <1>3, <1>4

-----------------------------------------------------------------------------
(***************************************************************************)
(* Actions that leave outbox and callbacks alone keep all but the steps.   *)
(***************************************************************************)
LEMMA TablesUntouched ==
  ASSUME Inductive, UNCHANGED <<outbox, callbacks>>,
         approved' \subseteq Messages, accepted' \in [Messages -> 0..2],
         production' = production, crashes' \in 0..MaxCrashes,
         todo' \in [Processes -> Seq(Steps)], StepsOK'
  PROVE  Inductive'
  <1>1. TypeOK'
    BY DEF Inductive, TypeOK
  <1>2. KeysOwned' /\ CallbacksMergedByKey'
    BY DEF Inductive, KeysOwned, CallbacksMergedByKey
  <1>3. SentHasReceipt'
    BY DEF Inductive, SentHasReceipt, Receipts
  <1> QED  BY <1>1, <1>2, <1>3 DEF Inductive

\* Then receipts stay, and no message disappears.
LEMMA UntouchedKeeps ==
  ASSUME UNCHANGED <<outbox, callbacks>>
  PROVE  \A m \in Messages : Kept(m) /\ (outbox[m] # Blank => outbox'[m] # Blank)
  BY DEF Kept, Receipts

\* A step that only replaces itself by other steps.
LEMMA ContinueUntouched ==
  ASSUME Inductive, NEW p \in Processes, todo[p] # <<>>,
         NEW e \in Seq(Steps), Continue(p, e),
         UNCHANGED <<outbox, callbacks, approved, production, crashes>>,
         accepted' \in [Messages -> 0..2],
         \A i \in 1..Len(e) : StepOK(e, i)',
         \A m \in Messages, v \in {1, 2} :
           CarriesCallback(Head(todo[p])) /\ Head(todo[p]).message = m
             /\ KeyOf(Head(todo[p])) = <<m, v>> =>
               \/ v \in Receipts(m)'
               \/ \E j \in 1..Len(e) :
                    CarriesCallback(e[j]) /\ e[j].message = m /\ KeyOf(e[j]) = <<m, v>>
  PROVE  Inductive'
  <1>1. \A m \in Messages : Kept(m) /\ (outbox[m] # Blank => outbox'[m] # Blank)
    BY UntouchedKeeps
  <1>2. TypeOK /\ StepsOK
    BY DEF Inductive
  <1>3. StepsOK' /\ todo' \in [Processes -> Seq(Steps)]
    BY <1>1, <1>2, StepsStayOK
  <1>4. approved' \subseteq Messages /\ crashes' \in 0..MaxCrashes
    BY <1>2 DEF TypeOK
  <1> QED  BY <1>3, <1>4, TablesUntouched

\* The step a process is at.
LEMMA HeadStep ==
  ASSUME TypeOK, NEW p \in Processes, todo[p] # <<>>
  PROVE  Head(todo[p]) \in Steps /\ Head(todo[p]) = todo[p][1] /\ 1 \in DOMAIN todo[p]
  BY DEF TypeOK

-----------------------------------------------------------------------------
(***************************************************************************)
(* Initial states and requests.                                            *)
(***************************************************************************)
LEMMA InitInductive == Init => Inductive
  <1> SUFFICES ASSUME Init  PROVE Inductive
    OBVIOUS
  <1>1. TypeOK
    BY BoundsAssumption DEF Init, TypeOK
  <1>2. StepsOK /\ KeysOwned /\ CallbacksMergedByKey
    BY DEF Init, StepsOK, KeysOwned, CallbacksMergedByKey
  <1>3. SentHasReceipt
    BY DEF Init, SentHasReceipt, Needed, Blank, Row
  <1> QED  BY <1>1, <1>2, <1>3 DEF Inductive

LEMMA FreshRow == Fresh \in Rows /\ Needed(Fresh.status) = {} /\ Fresh # Blank
  BY DEF Fresh, Rows, Row, OutboxStatus, Needed, Blank

LEMMA DecideInductive ==
  ASSUME Inductive, NEW p \in Threads, decide_task(p)
  PROVE  Inductive'
  <1>1. PICK m \in Messages, inline \in BOOLEAN :
          /\ outbox' = [outbox EXCEPT ![m] = Fresh]
          /\ todo' = [todo EXCEPT ![p] = IF inline THEN <<DispatchStep(m, Fresh, "normal")>> ELSE <<>>]
          /\ UNCHANGED <<callbacks, approved, accepted, production, crashes>>
    BY DEF decide_task
  <1> DEFINE e == IF inline THEN <<DispatchStep(m, Fresh, "normal")>> ELSE <<>>
  <1>2. TypeOK /\ StepsOK /\ p \in Processes
    BY DEF Inductive, Processes
  <1>3. DispatchStep(m, Fresh, "normal") \in Steps
    BY FreshRow, StepTypes
  <1>4. e \in Seq(Steps)
    BY <1>3
  <1>5. \A k \in Messages : Kept(k) /\ (outbox[k] # Blank => outbox'[k] # Blank)
    BY <1>1, <1>2, FreshRow DEF Kept, Receipts, TypeOK
  <1>6. \A i \in 1..Len(e) : StepOK(e, i)'
    <2> SUFFICES ASSUME NEW i \in 1..Len(e)  PROVE StepOK(e, i)'
      OBVIOUS
    <2>1. e[i].kind = "dispatch"
      BY DEF DispatchStep
    <2> QED  BY <2>1 DEF StepOK, CarriesCallback
  <1>7. StepsOK' /\ todo' \in [Processes -> Seq(Steps)]
    <2> HIDE DEF e
    <2> QED  BY <1>1, <1>2, <1>4, <1>5, <1>6, NewStepsOK DEF e
  <1>8. outbox' \in [Messages -> Rows \cup {Blank}]
    BY <1>1, <1>2, FreshRow DEF TypeOK
  <1>9. TypeOK'
    BY <1>1, <1>2, <1>7, <1>8 DEF TypeOK
  <1>10. SentHasReceipt'
    BY <1>1, <1>2, FreshRow DEF Inductive, SentHasReceipt, Receipts, TypeOK
  <1>11. KeysOwned' /\ CallbacksMergedByKey'
    BY <1>1 DEF Inductive, KeysOwned, CallbacksMergedByKey
  <1> QED  BY <1>7, <1>9, <1>10, <1>11 DEF Inductive

LEMMA ProcessInductive ==
  ASSUME Inductive, NEW p \in Processes, process_outbox(p)
  PROVE  Inductive'
  <1>0. PICK messages \in SUBSET Messages, scenario \in Scenarios \cup {"normal"} :
          /\ \A m \in messages : Found(m)
          /\ \E steps \in DispatchAll(messages, scenario) : todo' = [todo EXCEPT ![p] = steps]
          /\ UNCHANGED <<outbox, callbacks, approved, accepted, production, crashes>>
    BY DEF process_outbox
  <1>1. PICK e \in DispatchAll(messages, scenario) : todo' = [todo EXCEPT ![p] = e]
    BY <1>0
  <1>2. TypeOK /\ StepsOK
    BY DEF Inductive
  <1>3. PICK order \in [1..Cardinality(messages) -> messages] :
          e = [i \in DOMAIN order |-> DispatchStep(order[i], outbox[order[i]], scenario)]
    BY <1>1 DEF DispatchAll
  <1>4. Cardinality(messages) \in Nat
    BY MessagesAssumption, FS_Subset, FS_CardinalityType
  <1>5. \A i \in 1..Cardinality(messages) :
          order[i] \in Messages /\ outbox[order[i]] \in Rows
    BY <1>0, <1>2, StoredRow DEF Found
  <1>6. \A i \in 1..Cardinality(messages) :
          DispatchStep(order[i], outbox[order[i]], scenario) \in Steps
    BY <1>5, StepTypes
  <1>7. e \in Seq(Steps) /\ Len(e) = Cardinality(messages)
    BY <1>3, <1>4, <1>6
  <1>8. \A i \in 1..Len(e) : StepOK(e, i)'
    <2> SUFFICES ASSUME NEW i \in 1..Len(e)  PROVE StepOK(e, i)'
      OBVIOUS
    <2>1. e[i].kind = "dispatch"
      BY <1>3, <1>7 DEF DispatchStep
    <2> QED  BY <2>1 DEF StepOK, CarriesCallback
  <1>9. StepsOK' /\ todo' \in [Processes -> Seq(Steps)]
    BY <1>0, <1>1, <1>2, <1>7, <1>8, UntouchedKeeps, NewStepsOK
  <1> QED
    BY <1>0, <1>2, <1>9, TablesUntouched DEF TypeOK

LEMMA IngestInductive ==
  ASSUME Inductive, NEW p \in Threads, ingest_simulated_dispatch_callback(p)
  PROVE  Inductive'
  <1>1. PICK m \in Messages, version \in Versions, key \in ExternalKeys :
          /\ Found(m)
          /\ todo' = [todo EXCEPT ![p] = <<ReadCallback(m, version, key), RecountStep(m)>>]
          /\ UNCHANGED <<outbox, callbacks, approved, accepted, production, crashes>>
    BY DEF ingest_simulated_dispatch_callback
  <1>2. TypeOK /\ StepsOK /\ p \in Processes
    BY DEF Inductive, Processes
  <1> DEFINE e == <<ReadCallback(m, version, key), RecountStep(m)>>
  <1>3. ReadCallback(m, version, key) \in Steps /\ RecountStep(m) \in Steps
    BY StepTypes DEF Keys
  <1>4. e \in Seq(Steps) /\ Len(e) = 2 /\ e[1] = ReadCallback(m, version, key)
          /\ e[2] = RecountStep(m)
    BY <1>3
  <1>5. OwnKey(m, key)
    BY CallbacksAssumption DEF OwnKey
  <1>6. \A i \in 1..Len(e) : StepOK(e, i)'
    <2>1. StepOK(e, 1)'
      BY <1>4, <1>5 DEF StepOK, ReadCallback, CarriesCallback, KeyOf
    <2>2. StepOK(e, 2)'
      BY <1>1, <1>4 DEF StepOK, RecountStep, CarriesCallback, Found
    <2> QED  BY <1>4, <2>1, <2>2
  <1>7. StepsOK' /\ todo' \in [Processes -> Seq(Steps)]
    <2> HIDE DEF e
    <2> QED  BY <1>1, <1>2, <1>4, <1>6, UntouchedKeeps, NewStepsOK DEF e
  <1> QED
    BY <1>1, <1>2, <1>7, TablesUntouched DEF TypeOK

LEMMA RewriteInductive ==
  ASSUME Inductive, rewrite_task
  PROVE  Inductive'
  <1>1. UNCHANGED <<outbox, callbacks, accepted, production, crashes, todo>>
          /\ approved' \subseteq Messages
    BY DEF rewrite_task, Inductive, TypeOK
  <1>2. StepsOK'
    <2> SUFFICES ASSUME NEW s \in Processes, NEW i \in DOMAIN todo'[s]
                 PROVE  StepOK(todo[s], i)'
      BY DEF StepsOK
    <2>1. StepOK(todo[s], i) /\ todo[s][i].message \in Messages
      BY <1>1, StepFields DEF Inductive, TypeOK, StepsOK
    <2> QED  BY <1>1, <2>1, UntouchedKeeps DEF StepOK, Kept, Coming
  <1> QED  BY <1>1, <1>2, TablesUntouched DEF Inductive, TypeOK

LEMMA CrashInductive ==
  ASSUME Inductive, NEW p \in Processes, crash(p)
  PROVE  Inductive'
  <1>1. /\ todo' = [todo EXCEPT ![p] = <<>>]
        /\ UNCHANGED <<outbox, callbacks, approved, accepted, production>>
        /\ crashes' \in 0..MaxCrashes
    BY BoundsAssumption DEF crash, Inductive, TypeOK
  <1>2. TypeOK /\ StepsOK /\ <<>> \in Seq(Steps) /\ Len(<<>>) = 0
    BY DEF Inductive
  <1>3. \A i \in 1..Len(<<>>) : StepOK(<<>>, i)'
    BY <1>2
  <1>4. StepsOK' /\ todo' \in [Processes -> Seq(Steps)]
    BY <1>1, <1>2, <1>3, UntouchedKeeps, NewStepsOK
  <1> QED  BY <1>1, <1>2, <1>4, TablesUntouched DEF TypeOK

-----------------------------------------------------------------------------
(***************************************************************************)
(* Steps that end in saving a row.                                         *)
(***************************************************************************)
LEMMA SaveNext ==
  ASSUME Inductive, NEW p \in Processes, todo[p] # <<>>, ~CarriesCallback(Head(todo[p])),
         NEW m \in Messages, NEW row \in Rows, Needed(row.status) \subseteq Receipts(m),
         Continue(p, <<SaveStep(m, row)>>),
         UNCHANGED <<outbox, callbacks, approved, accepted, production, crashes>>
  PROVE  Inductive'
  <1> DEFINE e == <<SaveStep(m, row)>>
  <1>1. e \in Seq(Steps) /\ Len(e) = 1 /\ e[1] = SaveStep(m, row)
    BY StepTypes
  <1>2. StepOK(e, 1)'
    BY <1>1 DEF StepOK, SaveStep, CarriesCallback, Receipts
  <1>3. \A i \in 1..Len(e) : StepOK(e, i)'
    BY <1>1, <1>2
  <1>4. Continue(p, e)
    OBVIOUS
  <1>5. accepted' \in [Messages -> 0..2]
    BY DEF Inductive, TypeOK
  <1> HIDE DEF e
  <1> QED  BY <1>1, <1>3, <1>4, <1>5, ContinueUntouched

\* The verdicts reached before the gateway is called promise no receipt.
LEMMA RefusalInductive ==
  ASSUME Inductive, NEW p \in Processes,
         dispatch_mismatch(p) \/ dispatch_disabled(p) \/ dispatch_timeout(p)
  PROVE  Inductive'
  <1> DEFINE s == Head(todo[p])
  <1>1. todo[p] # <<>> /\ s.kind = "dispatch" /\ ~CarriesCallback(s)
    BY DEF dispatch_mismatch, dispatch_disabled, dispatch_timeout, At, CarriesCallback
  <1>2. s \in Steps
    BY <1>1, HeadStep DEF Inductive
  <1>3. s.message \in Messages /\ s.row.callback_count \in Nat
    BY <1>1, <1>2, StepFields DEF Rows
  <1>4. PICK status \in {"failed", "manual_takeover", "pending"},
             error \in {"hash_mismatch", "gateway_disabled", "timeout"} :
          /\ Continue(p, <<SaveStep(s.message, Row(status, error, s.row.callback_count))>>)
          /\ UNCHANGED <<outbox, callbacks, approved, accepted, production, crashes>>
    BY DEF dispatch_mismatch, dispatch_disabled, dispatch_timeout
  <1> DEFINE row == Row(status, error, s.row.callback_count)
  <1>5. row \in Rows
    BY <1>3, RowTypes DEF OutboxStatus
  <1>6. Needed(row.status) \subseteq Receipts(s.message)
    BY DEF Row, Needed
  <1> QED
    <2> HIDE DEF s, row
    <2> QED  BY <1>1, <1>3, <1>4, <1>5, <1>6, SaveNext DEF s, row

LEMMA CountInductive ==
  ASSUME Inductive, NEW p \in Processes, count_callbacks(p)
  PROVE  Inductive'
  <1> DEFINE s == Head(todo[p])
  <1>1. /\ todo[p] # <<>> /\ s.kind = "count" /\ ~CarriesCallback(s)
        /\ Continue(p, <<SaveStep(s.message, Counted(s.message, s.row))>>)
        /\ UNCHANGED <<outbox, callbacks, approved, accepted, production, crashes>>
    BY DEF count_callbacks, At, CarriesCallback
  <1>2. s \in Steps /\ s = todo[p][1] /\ 1 \in DOMAIN todo[p]
    BY <1>1, HeadStep DEF Inductive
  <1>3. s.message \in Messages /\ s.row \in Rows
    BY <1>1, <1>2, StepFields
  <1>4. callbacks[s.message] \in Seq(CallbackRecords)
    BY <1>3 DEF Inductive, TypeOK
  <1>5. Counted(s.message, s.row) \in Rows /\ Counted(s.message, s.row).status = s.row.status
    BY <1>3, <1>4 DEF Counted, Rows
  <1>6. StepOK(todo[p], 1)
    BY <1>2 DEF Inductive, StepsOK
  <1>7. Needed(s.row.status) \subseteq Receipts(s.message)
    BY <1>1, <1>2, <1>6 DEF StepOK, Coming
  <1> QED
    <2> HIDE DEF s
    <2> QED  BY <1>1, <1>3, <1>5, <1>7, SaveNext DEF s

LEMMA RecountInductive ==
  ASSUME Inductive, NEW p \in Processes, recount_callbacks(p)
  PROVE  Inductive'
  <1> DEFINE s == Head(todo[p])
             row == Counted(s.message, CurrentRow(s.message))
  <1>1. /\ todo[p] # <<>> /\ s.kind = "recount" /\ ~CarriesCallback(s)
        /\ Continue(p, <<SaveStep(s.message, row)>>)
        /\ UNCHANGED <<outbox, callbacks, approved, accepted, production, crashes>>
    BY DEF recount_callbacks, At, CarriesCallback
  <1>2. s \in Steps /\ s = todo[p][1] /\ 1 \in DOMAIN todo[p]
    BY <1>1, HeadStep DEF Inductive
  <1>3. s.message \in Messages
    BY <1>2, StepFields
  <1>4. outbox[s.message] # Blank
    BY <1>1, <1>2 DEF Inductive, StepsOK, StepOK
  <1>5. outbox[s.message] \in Rows
    BY <1>3, <1>4, StoredRow DEF Inductive
  <1>6. callbacks[s.message] \in Seq(CallbackRecords)
    BY <1>3 DEF Inductive, TypeOK
  <1>7. row \in Rows /\ row.status = outbox[s.message].status
    BY <1>5, <1>6 DEF Counted, CurrentRow, Rows
  <1>8. Needed(row.status) \subseteq Receipts(s.message)
    BY <1>3, <1>7 DEF Inductive, SentHasReceipt
  <1> QED
    <2> HIDE DEF s, row
    <2> QED  BY <1>1, <1>3, <1>7, <1>8, SaveNext DEF s

LEMMA SaveInductive ==
  ASSUME Inductive, NEW p \in Processes, save_outbox_message(p)
  PROVE  Inductive'
  <1> DEFINE s == Head(todo[p])
  <1>1. /\ todo[p] # <<>> /\ s.kind = "save" /\ ~CarriesCallback(s)
        /\ outbox' = [outbox EXCEPT ![s.message] = s.row]
        /\ Continue(p, <<>>)
        /\ UNCHANGED <<callbacks, approved, accepted, production, crashes>>
    BY DEF save_outbox_message, At, CarriesCallback
  <1>2. s \in Steps /\ s = todo[p][1] /\ 1 \in DOMAIN todo[p]
    BY <1>1, HeadStep DEF Inductive
  <1>3. s.message \in Messages /\ s.row \in Rows /\ s.row # Blank
    BY <1>1, <1>2, StepFields, RowsAreNotBlank
  <1>4. Needed(s.row.status) \subseteq Receipts(s.message)
    BY <1>1, <1>2 DEF Inductive, StepsOK, StepOK
  <1>5. TypeOK /\ StepsOK
    BY DEF Inductive
  <1> HIDE DEF s
  <1>6. outbox' \in [Messages -> Rows \cup {Blank}]
    BY <1>1, <1>3, <1>5 DEF TypeOK
  <1>7. \A m \in Messages : Kept(m) /\ (outbox[m] # Blank => outbox'[m] # Blank)
    BY <1>1, <1>3, <1>5 DEF Kept, Receipts, TypeOK
  <1>8. StepsOK' /\ todo' \in [Processes -> Seq(Steps)]
    <2>1. <<>> \in Seq(Steps) /\ Len(<<>>) = 0
      OBVIOUS
    <2>2. \A i \in 1..Len(<<>>) : StepOK(<<>>, i)'
      BY <2>1
    <2> QED  BY <1>1, <1>5, <1>7, <2>1, <2>2, StepsStayOK DEF s
  <1>9. TypeOK'
    BY <1>1, <1>5, <1>6, <1>8 DEF TypeOK
  <1>10. SentHasReceipt'
    <2> SUFFICES ASSUME NEW m \in Messages
                 PROVE  Needed(outbox'[m].status) \subseteq Receipts(m)'
      BY DEF SentHasReceipt
    <2>1. Receipts(m)' = Receipts(m)
      BY <1>1 DEF Receipts
    <2>2. outbox'[m] = outbox[m] \/ (m = s.message /\ outbox'[m] = s.row)
      BY <1>1, <1>5 DEF TypeOK
    <2>3. Needed(outbox[m].status) \subseteq Receipts(m)
      BY DEF Inductive, SentHasReceipt
    <2> QED  BY <1>4, <2>1, <2>2, <2>3
  <1>11. KeysOwned' /\ CallbacksMergedByKey'
    BY <1>1 DEF Inductive, KeysOwned, CallbacksMergedByKey
  <1> QED  BY <1>8, <1>9, <1>10, <1>11 DEF Inductive

-----------------------------------------------------------------------------
(***************************************************************************)
(* The gateway's answer and the callbacks.                                 *)
(***************************************************************************)
\* The callbacks an answer brings are the receipts its verdict needs.
LEMMA AnswerFacts ==
  ASSUME NEW m \in Messages, NEW scenario \in Scenarios \cup {"normal"}, scenario # "timeout"
  PROVE  /\ AnswerSteps(m, scenario) \in Seq(Steps)
         /\ \A i \in 1..Len(AnswerSteps(m, scenario)) :
              LET s == AnswerSteps(m, scenario)[i]
              IN  /\ s.kind \in {"read_callback", "count"} /\ s.message = m
                  /\ CarriesCallback(s) => OwnKey(m, KeyOf(s))
                  /\ s.kind = "count" =>
                       \A v \in Needed(s.row.status) : Coming(AnswerSteps(m, scenario), i, m, v)
                  /\ i # Len(AnswerSteps(m, scenario)) => s.kind = "read_callback"
                  /\ i = Len(AnswerSteps(m, scenario)) => s.kind = "count" /\ IsSettled(s.row)
         /\ Len(AnswerSteps(m, scenario)) \in Nat \ {0}
  <1> DEFINE versions == CallbackVersions(scenario)
             n == Len(versions)
             verdict == Verdict(scenario)
             e == AnswerSteps(m, scenario)
             a == [i \in DOMAIN versions |-> ReadCallback(m, versions[i], <<m, versions[i]>>)]
  <1>1. scenario \in {"normal", "reject", "partial_success", "duplicate_callback",
                      "out_of_order_callback"}
    BY ScenariosAssumption
  <1>2. versions \in Seq({1, 2}) /\ n \in Nat /\ DOMAIN versions = 1..n
    <2>1. versions \in {<<1>>, <<1, 2>>, <<2, 1>>, <<1, 1, 2>>}
      BY <1>1 DEF CallbackVersions
    <2>2. /\ <<1>> \in Seq({1, 2}) /\ <<1, 2>> \in Seq({1, 2})
          /\ <<2, 1>> \in Seq({1, 2}) /\ <<1, 1, 2>> \in Seq({1, 2})
      OBVIOUS
    <2> HIDE DEF versions
    <2>3. versions \in Seq({1, 2})
      BY <2>1, <2>2
    <2> QED  BY <2>3
  <1>3. verdict \in Rows
    BY <1>1, RowTypes DEF Verdict, OutboxStatus
  <1>4. \A v \in Needed(verdict.status) : \E j \in 1..n : versions[j] = v
    <2>1. CASE scenario = "reject"
      BY <2>1 DEF Verdict, Row, Needed
    <2>2. CASE scenario = "partial_success"
      BY <2>2 DEF Verdict, Row, Needed, CallbackVersions
    <2>3. CASE scenario = "normal"
      BY <2>3 DEF Verdict, Row, Needed, CallbackVersions
    <2>4. CASE scenario = "duplicate_callback"
      <3>1. Needed(verdict.status) = {1, 2} /\ versions = <<1, 1, 2>>
        BY <2>4 DEF Verdict, Row, Needed, CallbackVersions
      <3>2. versions[1] = 1 /\ versions[3] = 2 /\ 1 \in 1..n /\ 3 \in 1..n
        BY <3>1
      <3> HIDE DEF versions, n, verdict
      <3> QED  BY <3>1, <3>2
    <2>5. CASE scenario = "out_of_order_callback"
      BY <2>5 DEF Verdict, Row, Needed, CallbackVersions
    <2> QED  BY <1>1, <2>1, <2>2, <2>3, <2>4, <2>5
  <1>5. e = a \o <<CountStep(m, verdict)>>
    BY DEF AnswerSteps
  <1> HIDE DEF versions, verdict, e
  <1>6. \A i \in 1..n : ReadCallback(m, versions[i], <<m, versions[i]>>) \in Steps
    BY <1>2, StepTypes DEF Keys
  <1>7. a \in Seq(Steps) /\ Len(a) = n /\ \A i \in 1..n :
          a[i] = ReadCallback(m, versions[i], <<m, versions[i]>>)
    <2> HIDE DEF n
    <2> QED  BY <1>2, <1>6
  <1> HIDE DEF a, n
  <1>8. CountStep(m, verdict) \in Steps
    BY <1>3, StepTypes
  <1>9. /\ e \in Seq(Steps) /\ Len(e) = n + 1 /\ e[n + 1] = CountStep(m, verdict)
        /\ \A i \in 1..n : e[i] = a[i]
    <2>1. e = Append(a, CountStep(m, verdict))
      BY <1>5, <1>7, <1>8
    <2> QED  BY <1>2, <1>7, <1>8, <2>1
  <1>10. \A i \in 1..n : /\ e[i].kind = "read_callback" /\ e[i].message = m
                         /\ CarriesCallback(e[i]) /\ KeyOf(e[i]) = <<m, versions[i]>>
    BY <1>7, <1>9 DEF ReadCallback, CarriesCallback, KeyOf
  <1>11. /\ e[n + 1].kind = "count" /\ e[n + 1].message = m /\ e[n + 1].row = verdict
         /\ ~CarriesCallback(e[n + 1])
    BY <1>9 DEF CountStep, CarriesCallback
  <1>12. \A v \in Needed(verdict.status) : Coming(e, n + 1, m, v)
    BY <1>2, <1>4, <1>10 DEF Coming
  <1>13. \A i \in 1..n : OwnKey(m, KeyOf(e[i]))
    BY <1>10 DEF OwnKey
  <1>14. \A i \in 1..Len(e) : i \in 1..n \/ i = n + 1
    BY <1>2, <1>9
  <1>15. \A i \in 1..n : i # n + 1
    BY <1>2
  <1>16. IsSettled(verdict)
    BY DEF verdict, Verdict, Row, IsSettled
  <1>17. Len(e) \in Nat \ {0}
    BY <1>2, <1>9
  <1> QED  BY <1>9, <1>10, <1>11, <1>12, <1>13, <1>14, <1>15, <1>16, <1>17 DEF e

LEMMA AnsweredInductive ==
  ASSUME Inductive, NEW p \in Processes, dispatch_answered(p)
  PROVE  Inductive'
  <1> DEFINE s == Head(todo[p])
  <1>1. /\ todo[p] # <<>> /\ s.kind = "dispatch" /\ ~CarriesCallback(s)
        /\ s.scenario # "timeout"
        /\ Continue(p, AnswerSteps(s.message, s.scenario))
        /\ UNCHANGED <<outbox, callbacks, approved, production, crashes>>
    BY DEF dispatch_answered, At, CarriesCallback
  <1>2. s \in Steps
    BY <1>1, HeadStep DEF Inductive
  <1>3. s.message \in Messages /\ s.scenario \in Scenarios \cup {"normal"}
    BY <1>1, <1>2, StepFields
  <1>4. accepted' \in [Messages -> 0..2]
    <2>1. accepted \in [Messages -> 0..2]
      BY DEF Inductive, TypeOK
    <2>2. \/ accepted' = accepted
          \/ accepted[s.message] # 2
             /\ accepted' = [accepted EXCEPT ![s.message] = accepted[s.message] + 1]
      BY DEF dispatch_answered
    <2>3. accepted[s.message] # 2 => accepted[s.message] + 1 \in 0..2
      BY <1>3, <2>1
    <2> HIDE DEF s
    <2> QED  BY <1>3, <2>1, <2>2, <2>3
  <1>5. PICK m \in Messages, scenario \in Scenarios \cup {"normal"} :
          m = s.message /\ scenario = s.scenario
    BY <1>3
  <1> DEFINE e == AnswerSteps(m, scenario)
  <1>6. /\ e \in Seq(Steps)
        /\ \A i \in 1..Len(e) :
             /\ e[i].kind \in {"read_callback", "count"} /\ e[i].message = m
             /\ CarriesCallback(e[i]) => OwnKey(m, KeyOf(e[i]))
             /\ e[i].kind = "count" => \A v \in Needed(e[i].row.status) : Coming(e, i, m, v)
    BY <1>1, <1>5, AnswerFacts
  <1>7. \A i \in 1..Len(e) : StepOK(e, i)'
    <2> HIDE DEF e
    <2> QED  BY <1>6 DEF StepOK, OwnKey, Coming, e
  <1>8. Continue(p, e)
    BY <1>1, <1>5
  <1> HIDE DEF e, s
  <1> QED  BY <1>1, <1>4, <1>6, <1>7, <1>8, ContinueUntouched DEF s

\* A gateway key on record is a receipt of the message it names.
LEMMA RecordedReceipt ==
  ASSUME KeysOwned, NEW m \in Messages, NEW v \in {1, 2}, KeyRecorded(<<m, v>>)
  PROVE  v \in Receipts(m)
  <1>1. PICK n \in Messages : \E i \in DOMAIN callbacks[n] : callbacks[n][i].key = <<m, v>>
    BY DEF KeyRecorded
  <1>2. n = m
    BY <1>1 DEF KeysOwned, OwnKey
  <1> QED  BY <1>1, <1>2 DEF Receipts

LEMMA ReadInductive ==
  ASSUME Inductive, NEW p \in Processes, read_callback(p)
  PROVE  Inductive'
  <1> DEFINE s == Head(todo[p])
             c == [key |-> s.key, version |-> s.version,
                   sequence |-> SequenceState(s.message, s.version)]
             e == IF KeyRecorded(s.key) THEN <<>> ELSE <<InsertCallback(s.message, c)>>
  <1>1. /\ todo[p] # <<>> /\ s.kind = "read_callback" /\ CarriesCallback(s) /\ KeyOf(s) = s.key
        /\ Continue(p, e)
        /\ UNCHANGED <<outbox, callbacks, approved, accepted, production, crashes>>
    BY DEF read_callback, At, CarriesCallback, KeyOf
  <1>2. s \in Steps /\ s = todo[p][1] /\ 1 \in DOMAIN todo[p]
    BY <1>1, HeadStep DEF Inductive
  <1>3. s.message \in Messages /\ s.version \in Versions \cup {1, 2} /\ s.key \in Keys
    BY <1>1, <1>2, StepFields
  <1>4. c \in CallbackRecords /\ c.key = s.key
    BY <1>3 DEF CallbackRecords, SequenceState
  <1>5. OwnKey(s.message, s.key)
    BY <1>1, <1>2 DEF Inductive, StepsOK, StepOK
  <1>6. accepted' \in [Messages -> 0..2]
    BY <1>1 DEF Inductive, TypeOK
  <1>7. PICK m \in Messages, d \in CallbackRecords, f \in Seq(Steps) :
          /\ m = s.message /\ d = c /\ f = e
          /\ \/ Len(f) = 0 /\ KeyRecorded(s.key)
             \/ Len(f) = 1 /\ f[1] = InsertCallback(m, d)
    <2>1. InsertCallback(s.message, c) \in Steps
      BY <1>3, <1>4, StepTypes
    <2> HIDE DEF s, c
    <2>2. CASE KeyRecorded(s.key)
      <3>1. e = <<>> /\ e \in Seq(Steps) /\ Len(e) = 0
        BY <2>2
      <3> QED  BY <1>3, <1>4, <2>2, <3>1
    <2>3. CASE ~KeyRecorded(s.key)
      <3>1. e = <<InsertCallback(s.message, c)>> /\ e \in Seq(Steps) /\ Len(e) = 1
        BY <2>1, <2>3
      <3> QED  BY <1>3, <1>4, <3>1
    <2> QED  BY <2>2, <2>3
  <1>8. d.key = s.key /\ Continue(p, f)
    BY <1>1, <1>4, <1>7
  <1> HIDE DEF e, c
  <1>9. ASSUME NEW i \in 1..Len(f)  PROVE StepOK(f, i)'
    <2>1. i = 1 /\ f[i] = InsertCallback(m, d)
      <3>1. Len(f) = 0 \/ (Len(f) = 1 /\ f[1] = InsertCallback(m, d))
        BY <1>7
      <3>2. i \in 1..Len(f)
        OBVIOUS
      <3>3. Len(f) # 0
        BY <3>2
      <3>4. Len(f) = 1 /\ f[1] = InsertCallback(m, d)
        BY <3>1, <3>3
      <3>5. i = 1
        BY <3>2, <3>4
      <3> QED  BY <3>4, <3>5
    <2>2. /\ f[i].kind = "insert_callback" /\ f[i].message = m
          /\ KeyOf(f[i]) = d.key
      BY <2>1 DEF InsertCallback, KeyOf
    <2>3. OwnKey(m, d.key)
      BY <1>5, <1>7, <1>8
    <2> QED  BY <2>2, <2>3 DEF StepOK, OwnKey
  <1>10. ASSUME NEW k \in Messages, NEW v \in {1, 2}, s.message = k, s.key = <<k, v>>
         PROVE  \/ v \in Receipts(k)'
                \/ \E j \in 1..Len(f) :
                     CarriesCallback(f[j]) /\ f[j].message = k /\ KeyOf(f[j]) = <<k, v>>
    <2>1. CASE Len(f) = 0 /\ KeyRecorded(s.key)
      <3>1. v \in Receipts(k)
        BY <1>10, <2>1, RecordedReceipt DEF Inductive
      <3> QED  BY <1>1, <3>1 DEF Receipts
    <2>2. CASE Len(f) = 1 /\ f[1] = InsertCallback(m, d)
      <3>1. CarriesCallback(f[1]) /\ f[1].message = k /\ KeyOf(f[1]) = <<k, v>>
        BY <1>7, <1>8, <1>10, <2>2 DEF InsertCallback, CarriesCallback, KeyOf
      <3> QED  BY <2>2, <3>1
    <2> QED  BY <1>7, <2>1, <2>2
  <1>11. \A k \in Messages, v \in {1, 2} :
           CarriesCallback(s) /\ s.message = k /\ KeyOf(s) = <<k, v>> =>
             \/ v \in Receipts(k)'
             \/ \E j \in 1..Len(f) :
                  CarriesCallback(f[j]) /\ f[j].message = k /\ KeyOf(f[j]) = <<k, v>>
    BY <1>1, <1>10
  <1>12. \A i \in 1..Len(f) : StepOK(f, i)'
    BY <1>9
  <1> HIDE DEF s
  <1> QED  BY <1>1, <1>6, <1>8, <1>11, <1>12, ContinueUntouched DEF s

\* A callback is added only under a key that nothing on record has.
LEMMA InsertInductive ==
  ASSUME Inductive, NEW p \in Processes, insert_callback(p)
  PROVE  Inductive'
  <1>1. PICK s \in Steps :
          /\ s = Head(todo[p]) /\ s = todo[p][1] /\ 1 \in DOMAIN todo[p]
          /\ todo[p] # <<>> /\ s.kind = "insert_callback"
    BY HeadStep DEF insert_callback, At, Inductive
  <1>2. PICK m \in Messages, c \in CallbackRecords : m = s.message /\ c = s.callback
    BY <1>1, StepFields
  <1>3. /\ callbacks' = IF KeyRecorded(c.key) THEN callbacks
                        ELSE [callbacks EXCEPT ![m] = Append(callbacks[m], c)]
        /\ Continue(p, <<>>)
        /\ UNCHANGED <<outbox, approved, accepted, production, crashes>>
    BY <1>1, <1>2 DEF insert_callback, Conflicts
  <1>4. TypeOK /\ StepsOK /\ KeysOwned
    BY DEF Inductive
  <1>5. OwnKey(m, c.key)
    <2>1. StepOK(todo[p], 1)
      BY <1>1, <1>4 DEF StepsOK
    <2> QED  BY <1>1, <1>2, <2>1 DEF StepOK, CarriesCallback, KeyOf
  <1>6. \A k \in Messages : callbacks[k] \in Seq(CallbackRecords)
    BY <1>4 DEF TypeOK
  <1>7. CASE KeyRecorded(c.key)
    <2>1. UNCHANGED callbacks
      BY <1>3, <1>7
    <2>2. ASSUME NEW k \in Messages, NEW v \in {1, 2}, c.key = <<k, v>>
          PROVE  v \in Receipts(k)'
      <3>1. v \in Receipts(k)
        BY <1>4, <1>7, <2>2, RecordedReceipt
      <3> QED  BY <2>1, <3>1 DEF Receipts
    <2>3. \A k \in Messages, v \in {1, 2} :
            CarriesCallback(Head(todo[p])) /\ Head(todo[p]).message = k
              /\ KeyOf(Head(todo[p])) = <<k, v>> => v \in Receipts(k)'
      BY <1>1, <1>2, <2>2 DEF KeyOf
    <2>4. <<>> \in Seq(Steps) /\ Len(<<>>) = 0
      OBVIOUS
    <2>5. \A i \in 1..Len(<<>>) : StepOK(<<>>, i)'
      BY <2>4
    <2>6. StepsOK' /\ todo' \in [Processes -> Seq(Steps)]
      <3>1. \A k \in Messages : Kept(k) /\ (outbox[k] # Blank => outbox'[k] # Blank)
        BY <1>3, <2>1, UntouchedKeeps
      <3>2. todo[p] # <<>> /\ Continue(p, <<>>)
        BY <1>1, <1>3
      <3> QED  BY <1>4, <2>3, <2>4, <2>5, <3>1, <3>2, StepsStayOK
    <2> QED  BY <1>3, <1>4, <2>1, <2>6, TablesUntouched DEF TypeOK
  <1>8. CASE ~KeyRecorded(c.key)
    <2>1. /\ callbacks' \in [Messages -> Seq(CallbackRecords)]
          /\ callbacks'[m] = Append(callbacks[m], c)
          /\ \A k \in Messages \ {m} : callbacks'[k] = callbacks[k]
      BY <1>3, <1>4, <1>8 DEF TypeOK
    <2>2. /\ DOMAIN callbacks'[m] = 1..(Len(callbacks[m]) + 1)
          /\ Len(callbacks[m]) \in Nat /\ DOMAIN callbacks[m] = 1..Len(callbacks[m])
          /\ callbacks'[m][Len(callbacks[m]) + 1] = c
          /\ \A i \in DOMAIN callbacks[m] : callbacks'[m][i] = callbacks[m][i]
      BY <1>6, <2>1
    <2> DEFINE last == Len(callbacks[m]) + 1
    <2>3. \A k \in Messages : \A i \in DOMAIN callbacks[k] :
            i \in DOMAIN callbacks'[k] /\ callbacks'[k][i] = callbacks[k][i]
      BY <2>1, <2>2
    <2>4. \A k \in Messages : \A i \in DOMAIN callbacks'[k] :
            \/ i \in DOMAIN callbacks[k] /\ callbacks'[k][i] = callbacks[k][i]
            \/ k = m /\ i = last /\ callbacks'[k][i] = c
      BY <2>1, <2>2
    <2>5. last \in DOMAIN callbacks'[m] /\ callbacks'[m][last] = c
      BY <2>2
    <2> HIDE DEF last
    <2>6. \A k \in Messages : Kept(k) /\ (outbox[k] # Blank => outbox'[k] # Blank)
      BY <1>3, <2>3 DEF Kept, Receipts
    <2>7. ASSUME NEW k \in Messages, NEW v \in {1, 2}, m = k, c.key = <<k, v>>
          PROVE  v \in Receipts(k)'
      BY <2>5, <2>7 DEF Receipts
    <2>8. \A k \in Messages, v \in {1, 2} :
            CarriesCallback(Head(todo[p])) /\ Head(todo[p]).message = k
              /\ KeyOf(Head(todo[p])) = <<k, v>> => v \in Receipts(k)'
      BY <1>1, <1>2, <2>7 DEF KeyOf
    <2>9. StepsOK' /\ todo' \in [Processes -> Seq(Steps)]
      <3>1. <<>> \in Seq(Steps) /\ Len(<<>>) = 0
        OBVIOUS
      <3>2. \A i \in 1..Len(<<>>) : StepOK(<<>>, i)'
        BY <3>1
      <3> QED  BY <1>1, <1>3, <1>4, <2>6, <2>8, <3>1, <3>2, StepsStayOK
    <2>10. TypeOK'
      BY <1>3, <1>4, <2>1, <2>9 DEF TypeOK
    <2>11. KeysOwned'
      BY <1>4, <1>5, <2>4 DEF KeysOwned, OwnKey
    <2>12. SentHasReceipt'
      <3> SUFFICES ASSUME NEW k \in Messages
                   PROVE  Needed(outbox'[k].status) \subseteq Receipts(k)'
        BY DEF SentHasReceipt
      <3>1. Needed(outbox[k].status) \subseteq Receipts(k) /\ outbox'[k] = outbox[k]
        BY <1>3 DEF Inductive, SentHasReceipt
      <3> QED  BY <2>6, <3>1 DEF Kept
    <2>13. CallbacksMergedByKey'
      <3> SUFFICES ASSUME NEW k \in Messages, NEW n \in Messages,
                          NEW i \in DOMAIN callbacks'[k], NEW j \in DOMAIN callbacks'[n],
                          callbacks'[k][i].key = callbacks'[n][j].key
                   PROVE  k = n /\ i = j
        BY DEF CallbacksMergedByKey
      <3>1. CASE i \in DOMAIN callbacks[k] /\ j \in DOMAIN callbacks[n]
        BY <2>3, <3>1 DEF Inductive, CallbacksMergedByKey
      <3>2. \A l \in Messages : \A h \in DOMAIN callbacks[l] : callbacks[l][h].key # c.key
        BY <1>8 DEF KeyRecorded
      <3>3. CASE i \notin DOMAIN callbacks[k] \/ j \notin DOMAIN callbacks[n]
        <4>1. ASSUME i \in DOMAIN callbacks[k], j \notin DOMAIN callbacks[n]  PROVE FALSE
          BY <2>3, <2>4, <3>2, <4>1
        <4>2. ASSUME i \notin DOMAIN callbacks[k], j \in DOMAIN callbacks[n]  PROVE FALSE
          BY <2>3, <2>4, <3>2, <4>2
        <4>3. ASSUME i \notin DOMAIN callbacks[k], j \notin DOMAIN callbacks[n]
              PROVE  k = n /\ i = j
          BY <2>4, <4>3
        <4> QED  BY <3>3, <4>1, <4>2, <4>3
      <3> QED  BY <3>1, <3>3
    <2> QED  BY <2>9, <2>10, <2>11, <2>12, <2>13 DEF Inductive
  <1> QED  BY <1>7, <1>8

LEMMA SettledInductive ==
  ASSUME Inductive, NEW p \in Processes, dispatch_settled(p)
  PROVE  Inductive'
  <1>1. /\ todo[p] # <<>> /\ ~CarriesCallback(Head(todo[p])) /\ Continue(p, <<>>)
        /\ UNCHANGED <<outbox, callbacks, approved, accepted, production, crashes>>
    BY DEF dispatch_settled, At, CarriesCallback
  <1>2. <<>> \in Seq(Steps) /\ Len(<<>>) = 0
    OBVIOUS
  <1>3. \A i \in 1..Len(<<>>) : StepOK(<<>>, i)'
    BY <1>2
  <1>4. accepted' \in [Messages -> 0..2]
    BY <1>1 DEF Inductive, TypeOK
  <1> QED  BY <1>1, <1>2, <1>3, <1>4, ContinueUntouched

-----------------------------------------------------------------------------
\* One step of whatever process.
LEMMA StepInductive ==
  ASSUME Inductive, [Next]_vars
  PROVE  Inductive'
  <1>1. CASE UNCHANGED vars
    <2>1. UNCHANGED <<outbox, callbacks, approved, accepted, production, crashes, todo>>
      BY <1>1 DEF vars
    <2>2. StepsOK'
      <3> SUFFICES ASSUME NEW s \in Processes, NEW i \in DOMAIN todo'[s]
                   PROVE  StepOK(todo[s], i)'
        BY DEF StepsOK
      <3>1. StepOK(todo[s], i) /\ todo[s][i].message \in Messages
        BY <2>1, StepFields DEF Inductive, TypeOK, StepsOK
      <3> QED  BY <2>1, <3>1, UntouchedKeeps DEF StepOK, Kept, Coming
    <2> QED  BY <2>1, <2>2, TablesUntouched DEF Inductive, TypeOK
  <1>2. ASSUME NEW p \in Threads, decide_task(p) \/ ingest_simulated_dispatch_callback(p)
        PROVE  Inductive'
    BY <1>2, DecideInductive, IngestInductive
  <1>3. ASSUME NEW p \in Processes, process_outbox(p) \/ Step(p) \/ crash(p)
        PROVE  Inductive'
    <2>1. CASE process_outbox(p)
      BY <2>1, ProcessInductive
    <2>2. CASE Dispatch(p)
      <3>1. CASE dispatch_settled(p)
        BY <3>1, SettledInductive
      <3>2. CASE dispatch_mismatch(p) \/ dispatch_disabled(p) \/ dispatch_timeout(p)
        BY <3>2, RefusalInductive
      <3>3. CASE dispatch_answered(p)
        BY <3>3, AnsweredInductive
      <3> QED  BY <2>2, <3>1, <3>2, <3>3 DEF Dispatch
    <2>3. CASE read_callback(p)
      BY <2>3, ReadInductive
    <2>4. CASE insert_callback(p)
      BY <2>4, InsertInductive
    <2>5. CASE count_callbacks(p)
      BY <2>5, CountInductive
    <2>6. CASE recount_callbacks(p)
      BY <2>6, RecountInductive
    <2>7. CASE save_outbox_message(p)
      BY <2>7, SaveInductive
    <2>8. CASE crash(p)
      BY <2>8, CrashInductive
    <2> QED  BY <1>3, <2>1, <2>2, <2>3, <2>4, <2>5, <2>6, <2>7, <2>8 DEF Step
  <1>4. CASE rewrite_task
    BY <1>4, RewriteInductive
  <1> QED  BY <1>1, <1>2, <1>3, <1>4 DEF Next

-----------------------------------------------------------------------------
(***************************************************************************)
(* The theorems.                                                           *)
(***************************************************************************)
\* Every step of every process keeps the rows, the callbacks and the work
\* under way in order (decide_task, process_outbox,
\* ingest_simulated_dispatch_callback, _dispatch_outbox_message, _record_dispatch_callback).
THEOREM InductiveInvariant == Spec => []Inductive
  <1> QED  BY InitInductive, StepInductive, PTL DEF Spec

\* Every row, callback and step has its type, whoever dispatches.
THEOREM TypeCorrect == Spec => []TypeOK
  <1>1. Inductive => TypeOK
    BY DEF Inductive
  <1> QED  BY <1>1, InductiveInvariant, PTL

\* A message is marked sent only with the gateway's receipts on record, however
\* many dispatchers race and wherever they fail (_dispatch_outbox_message).
THEOREM ReceiptsPrecede == Spec => []SentHasReceipt
  <1>1. Inductive => SentHasReceipt
    BY DEF Inductive
  <1> QED  BY <1>1, InductiveInvariant, PTL

\* No idempotency key is on record twice (_record_dispatch_callback,
\* insert_dispatch_callback).
THEOREM CallbacksMerged == Spec => []CallbacksMergedByKey
  <1>1. Inductive => CallbacksMergedByKey
    BY DEF Inductive
  <1> QED  BY <1>1, InductiveInvariant, PTL
-----------------------------------------------------------------------------
(***************************************************************************)
(* One handler at a time.                                                  *)
(***************************************************************************)
LEMMA OnlyProcess ==
  ASSUME OneAtATime, NEW p \in Processes, NEW s \in Processes
  PROVE  p = s
  BY DEF OneAtATime, Processes

\* What comes after the step a process is at: nothing that uses what was just read,
\* and for the same message only after a callback, and then no dispatch.
LEMMA AfterHead ==
  ASSUME TypeOK, Planned, NEW p \in Processes, todo[p] # <<>>,
         NEW k \in DOMAIN todo[p], k # 1
  PROVE  /\ k \in 2..Len(todo[p]) /\ todo[p][k] \in Steps
         /\ ~Immediate(todo[p][k])
         /\ todo[p][k].message = Head(todo[p]).message =>
              CarriesCallback(Head(todo[p])) /\ todo[p][k].kind # "dispatch"
         /\ Relies(todo[p][k])
  <1>1. todo[p] \in Seq(Steps) /\ Head(todo[p]) = todo[p][1] /\ 1 \in DOMAIN todo[p]
    BY HeadStep DEF TypeOK
  <1>2. k \in 2..Len(todo[p]) /\ todo[p][k] \in Steps
    BY <1>1
  <1>3. Fits(todo[p], k)
    BY DEF Planned
  <1>4. 1 < k
    BY <1>2
  <1>5. todo[p][1].message = todo[p][k].message =>
          CarriesCallback(todo[p][1]) /\ todo[p][k].kind # "dispatch"
    BY <1>1, <1>4 DEF Planned, InSequence
  <1> QED  BY <1>1, <1>2, <1>3, <1>5 DEF Fits

\* The rest of the plan is kept when the step at its head is replaced by steps that
\* rely on what is there and record callbacks only if the counting comes after.
LEMMA PlanContinues ==
  ASSUME OneAtATime, TypeOK, Planned,
         NEW p \in Processes, todo[p] # <<>>,
         NEW e \in Seq(Steps), Continue(p, e), crashes' = crashes,
         \A m \in Messages : m # Head(todo[p]).message =>
           outbox'[m] = outbox[m] /\ callbacks'[m] = callbacks[m],
         CarriesCallback(Head(todo[p])) => outbox' = outbox,
         \A i \in 1..Len(e) :
           /\ e[i].message = Head(todo[p]).message
           /\ Relies(e[i])'
           /\ Immediate(e[i]) => i = 1
           /\ CarriesCallback(Head(todo[p])) => CarriesCallback(e[i])
           /\ CarriesCallback(e[i]) =>
                CarriesCallback(Head(todo[p])) \/ \E j \in (i + 1)..Len(e) : Counts(e[j]),
         \A i, j \in 1..Len(e) : i < j => CarriesCallback(e[i]) /\ e[j].kind # "dispatch"
  PROVE  Planned'
  <1> DEFINE q == todo[p]
             n == Len(e)
  <1>1. q \in Seq(Steps) /\ q # <<>> /\ Head(q) = q[1] /\ 1 \in DOMAIN q
    BY HeadStep DEF TypeOK
  <1>2. PICK r \in Seq(Steps) :
        /\ r = e \o Tail(q) /\ n \in Nat /\ Len(q) \in Nat /\ Len(q) >= 1
        /\ Len(r) = n + Len(q) - 1 /\ DOMAIN r = 1..(n + Len(q) - 1)
        /\ \A i \in 1..n : r[i] = e[i]
        /\ \A i \in (n + 1)..(n + Len(q) - 1) : r[i] = q[i - n + 1]
    <2> DEFINE r0 == e \o Tail(q)
    <2>1. /\ r0 \in Seq(Steps) /\ n \in Nat /\ Len(q) \in Nat /\ Len(q) >= 1
          /\ Len(r0) = n + Len(q) - 1 /\ DOMAIN r0 = 1..(n + Len(q) - 1)
          /\ \A i \in 1..n : r0[i] = e[i]
          /\ \A i \in (n + 1)..(n + Len(q) - 1) : r0[i] = q[i - n + 1]
      BY <1>1, Splice
    <2>2. r0 = e \o Tail(q)
      OBVIOUS
    <2> HIDE DEF r0
    <2> QED  BY <2>1, <2>2
  <1>3. \A s \in Processes : todo'[s] = r
    BY <1>1, <1>2, OnlyProcess DEF Continue, TypeOK
  <1>4. SUFFICES InSequence(r) /\ \A i \in DOMAIN r : Fits(r, i)'
    BY <1>3 DEF Planned, InSequence, Fits
  <1>5. \A k \in 2..Len(q) : k \in DOMAIN q /\ k # 1
    BY <1>1
  \* A step that was behind the head, at its place in r.
  <1>6. ASSUME NEW i \in DOMAIN r, i > n
        PROVE  /\ i - n + 1 \in 2..Len(q) /\ r[i] = q[i - n + 1] /\ r[i] \in Steps
               /\ r[i].message = Head(q).message =>
                    CarriesCallback(Head(q)) /\ r[i].kind # "dispatch"
               /\ ~Immediate(r[i]) /\ Relies(r[i])
    <2>1. i - n + 1 \in 2..Len(q) /\ r[i] = q[i - n + 1]
      BY <1>2, <1>6
    <2> HIDE DEF n
    <2> QED  BY <1>1, <1>5, <2>1, AfterHead
  <1>7. ASSUME NEW i \in DOMAIN r, i > n  PROVE Relies(r[i])'
    <2>1. /\ r[i] \in Steps /\ ~Immediate(r[i]) /\ Relies(r[i])
          /\ r[i].message = Head(q).message => CarriesCallback(Head(q))
      BY <1>6, <1>7
    <2>2. r[i].message \in Messages
      BY <2>1, StepFields
    <2>3. outbox'[r[i].message] = outbox[r[i].message]
      BY <2>1, <2>2
    <2> HIDE DEF n, q
    <2> QED  BY <2>1, <2>3 DEF Relies, Immediate
  \* The counting that was to come after a callback still does.
  <1>8. ASSUME NEW k \in 1..Len(q), CarriesCallback(q[k])
        PROVE  \E l \in (n + 1)..Len(r) :
                 l > k + n - 1 /\ Counts(r[l]) /\ r[l].message = q[k].message
    <2>1. PICK j \in (k + 1)..Len(q) : Counts(q[j]) /\ q[j].message = q[k].message
      BY <1>1, <1>8 DEF Planned, Fits
    <2>2. j + n - 1 \in (n + 1)..Len(r) /\ j + n - 1 > k + n - 1 /\ (j + n - 1) - n + 1 = j
      BY <1>2
    <2>3. r[j + n - 1] = q[j]
      BY <1>2, <2>2
    <2> QED  BY <2>1, <2>2, <2>3
  <1>9. ASSUME NEW i \in DOMAIN r  PROVE Fits(r, i)'
    <2>1. CASE i <= n
      <3>1. i \in 1..n /\ r[i] = e[i]
        BY <1>2, <2>1
      <3>2. Relies(e[i])' /\ (Immediate(e[i]) => i = 1)
        BY <3>1
      <3>3. ASSUME CarriesCallback(e[i])
            PROVE  \E j \in (i + 1)..Len(r) : Counts(r[j]) /\ r[j].message = e[i].message
        <4>1. CASE CarriesCallback(Head(q))
          <5>1. PICK l \in (n + 1)..Len(r) : Counts(r[l]) /\ r[l].message = q[1].message
            BY <1>1, <1>8, <4>1
          <5>2. l \in (i + 1)..Len(r)
            BY <1>2, <3>1
          <5> QED  BY <1>1, <3>1, <5>1, <5>2
        <4>2. CASE ~CarriesCallback(Head(q))
          <5>1. PICK j \in (i + 1)..n : Counts(e[j])
            BY <3>1, <3>3, <4>2
          <5>2. j \in (i + 1)..Len(r) /\ j \in 1..n /\ r[j] = e[j]
            BY <1>2, <3>1
          <5> QED  BY <3>1, <5>1, <5>2
        <4> QED  BY <4>1, <4>2
      <3> HIDE DEF n
      <3> QED  BY <3>1, <3>2, <3>3 DEF Fits, CarriesCallback, Counts, Immediate
    <2>2. CASE i > n
      <3>1. /\ i - n + 1 \in 2..Len(q) /\ r[i] = q[i - n + 1] /\ ~Immediate(r[i])
            /\ Relies(r[i])'
        BY <1>6, <1>7, <2>2
      <3>2. ASSUME CarriesCallback(r[i])
            PROVE  \E j \in (i + 1)..Len(r) : Counts(r[j]) /\ r[j].message = r[i].message
        <4>1. PICK l \in (n + 1)..Len(r) :
                l > (i - n + 1) + n - 1 /\ Counts(r[l]) /\ r[l].message = r[i].message
          <5> DEFINE k == i - n + 1
          <5>1. k \in 1..Len(q) /\ CarriesCallback(q[k]) /\ q[k].message = r[i].message
            BY <3>1, <3>2
          <5> HIDE DEF k
          <5>2. \E l \in (n + 1)..Len(r) :
                  l > k + n - 1 /\ Counts(r[l]) /\ r[l].message = q[k].message
            BY <1>8, <5>1
          <5> QED  BY <5>1, <5>2 DEF k
        <4>2. l \in (i + 1)..Len(r)
          BY <1>2, <4>1
        <4> QED  BY <4>1, <4>2
      <3> HIDE DEF n
      <3> QED  BY <3>1, <3>2 DEF Fits, CarriesCallback, Counts, Immediate
    <2> QED  BY <1>2, <2>1, <2>2
  <1>10. ASSUME NEW i \in DOMAIN r, NEW j \in DOMAIN r, i < j, r[i].message = r[j].message
         PROVE  CarriesCallback(r[i]) /\ r[j].kind # "dispatch"
    <2>1. CASE j <= n
      <3>1. i \in 1..n /\ j \in 1..n /\ r[i] = e[i] /\ r[j] = e[j]
        BY <1>2, <1>10, <2>1
      <3> QED  BY <1>10, <3>1
    <2>2. CASE i <= n /\ j > n
      <3>1. i \in 1..n /\ r[i] = e[i]
        BY <1>2, <2>2
      <3>2. CarriesCallback(Head(q)) /\ r[j].kind # "dispatch"
        BY <1>6, <1>10, <2>2, <3>1
      <3> QED  BY <3>1, <3>2
    <2>3. CASE i > n
      <3>1. j > n
        BY <1>2, <1>10, <2>3
      <3>2. /\ i - n + 1 \in DOMAIN q /\ r[i] = q[i - n + 1]
            /\ j - n + 1 \in DOMAIN q /\ r[j] = q[j - n + 1]
        BY <1>5, <1>6, <2>3, <3>1
      <3>3. i - n + 1 < j - n + 1
        BY <1>2, <1>10
      <3>4. InSequence(q)
        BY DEF Planned
      <3> HIDE DEF n, q
      <3> QED  BY <1>10, <3>2, <3>3, <3>4 DEF InSequence
    <2> QED  BY <1>2, <2>1, <2>2, <2>3
  <1> QED  BY <1>9, <1>10 DEF InSequence

\* Counting and settling that were to come still do, unless the step at the head
\* was the one that does it; then its successors may.
LEMMA OwedContinues ==
  ASSUME TypeOK,
         NEW p \in Processes, todo[p] # <<>>,
         NEW e \in Seq(Steps), Continue(p, e), NEW m \in Messages
  PROVE  /\ \A i \in 1..Len(e) : e[i].message = m /\ (Counts(e[i]) \/ e[i].kind = "save") =>
                                   ToCount(m)'
         /\ \A i \in 1..Len(e) :
              e[i].message = m /\ e[i].kind \in {"count", "save"} /\ IsSettled(e[i].row) =>
                ToSettle(m)'
         /\ OneAtATime /\ (m # Head(todo[p]).message \/ CarriesCallback(Head(todo[p]))) =>
              (ToCount(m) => ToCount(m)') /\ (ToSettle(m) => ToSettle(m)')
  <1> DEFINE q == todo[p]
             n == Len(e)
             r == e \o Tail(q)
  <1>1. q \in Seq(Steps) /\ q # <<>> /\ Head(q) = q[1] /\ 1 \in DOMAIN q
    BY HeadStep DEF TypeOK
  <1>2. /\ r \in Seq(Steps) /\ n \in Nat /\ Len(q) \in Nat /\ Len(q) >= 1
        /\ Len(r) = n + Len(q) - 1 /\ DOMAIN r = 1..(n + Len(q) - 1)
        /\ \A i \in 1..n : r[i] = e[i]
        /\ \A i \in (n + 1)..(n + Len(q) - 1) : r[i] = q[i - n + 1]
    BY <1>1, Splice
  <1>3. todo'[p] = r
    BY <1>1 DEF Continue, TypeOK
  <1>4. ASSUME NEW i \in 1..n  PROVE i \in DOMAIN todo'[p] /\ todo'[p][i] = e[i]
    BY <1>2, <1>3
  <1>5. ASSUME NEW k \in DOMAIN q, k # 1
        PROVE  k + n - 1 \in DOMAIN todo'[p] /\ todo'[p][k + n - 1] = q[k]
    <2>1. k \in 2..Len(q)
      BY <1>1, <1>5
    <2>2. k + n - 1 \in (n + 1)..(n + Len(q) - 1) /\ (k + n - 1) - n + 1 = k
          /\ k + n - 1 \in 1..(n + Len(q) - 1)
      BY <1>2, <2>1
    <2>3. r[k + n - 1] = q[k]
      BY <1>2, <2>2
    <2> QED  BY <1>2, <1>3, <2>2, <2>3
  <1> HIDE DEF r
  <1>6. \A i \in 1..n :
          /\ e[i].message = m /\ (Counts(e[i]) \/ e[i].kind = "save") => ToCount(m)'
          /\ e[i].message = m /\ e[i].kind \in {"count", "save"} /\ IsSettled(e[i].row) => ToSettle(m)'
    BY <1>4 DEF ToCount, ToSettle, Counts, IsSettled
  <1>7. ASSUME OneAtATime, m # Head(q).message \/ CarriesCallback(Head(q)), ToCount(m)
        PROVE  ToCount(m)'
    <2>1. PICK k \in DOMAIN q : q[k].message = m /\ (Counts(q[k]) \/ q[k].kind = "save")
      BY <1>7, OnlyProcess DEF ToCount
    <2>2. k # 1
      BY <1>1, <1>7, <2>1 DEF CarriesCallback, Counts
    <2> QED  BY <1>5, <2>1, <2>2 DEF ToCount, Counts
  <1>8. ASSUME OneAtATime, m # Head(q).message \/ CarriesCallback(Head(q)), ToSettle(m)
        PROVE  ToSettle(m)'
    <2>1. PICK k \in DOMAIN q :
            q[k].message = m /\ q[k].kind \in {"count", "save"} /\ IsSettled(q[k].row)
      BY <1>8, OnlyProcess DEF ToSettle
    <2>2. k # 1
      BY <1>1, <1>8, <2>1 DEF CarriesCallback
    <2> QED  BY <1>5, <2>1, <2>2 DEF ToSettle, IsSettled
  <1> QED  BY <1>6, <1>7, <1>8



\* A message nothing was done to is as accounted for as before.
LEMMA OthersAccounted ==
  ASSUME OneAtATime, TypeOK,
         NEW p \in Processes, todo[p] # <<>>,
         NEW e \in Seq(Steps), Continue(p, e),
         NEW m \in Messages, Accounted(m),
         m # Head(todo[p]).message \/ CarriesCallback(Head(todo[p])),
         outbox'[m] = outbox[m], accepted'[m] = accepted[m],
         callbacks'[m] = callbacks[m] \/ ToCount(m)
  PROVE  Accounted(m)'
  <1>1. (ToCount(m) => ToCount(m)') /\ (ToSettle(m) => ToSettle(m)')
    BY OwedContinues
  <1> QED  BY <1>1 DEF Accounted

\* At a step that carries no callback, nothing else is to be done for its message.
LEMMA OwedByHead ==
  ASSUME OneAtATime, TypeOK, Planned, NEW p \in Processes, todo[p] # <<>>,
         ~CarriesCallback(Head(todo[p])),
         NEW m, m = Head(todo[p]).message
  PROVE  /\ ToCount(m) => Counts(Head(todo[p])) \/ Head(todo[p]).kind = "save"
         /\ ToSettle(m) => /\ Head(todo[p]).kind \in {"count", "save"}
                           /\ IsSettled(Head(todo[p]).row)
  <1> DEFINE q == todo[p]
  <1>1. Head(q) = q[1]
    BY HeadStep
  <1>2. \A k \in DOMAIN q : q[k].message = m => k = 1
    BY AfterHead
  <1>3. ASSUME ToCount(m)  PROVE Counts(Head(q)) \/ Head(q).kind = "save"
    <2>1. PICK k \in DOMAIN q : q[k].message = m /\ (Counts(q[k]) \/ q[k].kind = "save")
      BY <1>3, OnlyProcess DEF ToCount
    <2> QED  BY <1>1, <1>2, <2>1
  <1>4. ASSUME ToSettle(m)  PROVE Head(q).kind \in {"count", "save"} /\ IsSettled(Head(q).row)
    <2>1. PICK k \in DOMAIN q :
            q[k].message = m /\ q[k].kind \in {"count", "save"} /\ IsSettled(q[k].row)
      BY <1>4, OnlyProcess DEF ToSettle
    <2> QED  BY <1>1, <1>2, <2>1
  <1> QED  BY <1>3, <1>4

\* What the step at the head relies on.
LEMMA HeadRelies ==
  ASSUME TypeOK, Planned, NEW p \in Processes, todo[p] # <<>>
  PROVE  /\ Head(todo[p]) \in Steps /\ Head(todo[p]).message \in Messages
         /\ Relies(Head(todo[p]))
         /\ CarriesCallback(Head(todo[p])) => ToCount(Head(todo[p]).message)
  <1> DEFINE q == todo[p]
  <1>1. q \in Seq(Steps) /\ Head(q) = q[1] /\ 1 \in DOMAIN q /\ Head(q) \in Steps
    BY HeadStep DEF TypeOK
  <1>2. Fits(q, 1)
    BY <1>1 DEF Planned
  <1>3. ASSUME CarriesCallback(Head(q))  PROVE ToCount(Head(q).message)
    <2>1. PICK j \in 2..Len(q) : Counts(q[j]) /\ q[j].message = q[1].message
      BY <1>1, <1>2, <1>3 DEF Fits
    <2>2. j \in DOMAIN q
      BY <1>1
    <2> QED  BY <1>1, <2>1, <2>2 DEF ToCount
  <1> QED  BY <1>1, <1>2, <1>3, StepFields DEF Fits

\* A dispatcher works on the row as it is; as long as nothing failed, the gateway has
\* not taken a message that is not settled, and its callbacks are counted.
LEMMA DispatchHead ==
  ASSUME OneAtATime, SerialInductive, NEW p \in Processes, At(p, "dispatch"),
         NEW m, m = Head(todo[p]).message
  PROVE  /\ m \in Messages /\ Head(todo[p]).row = outbox[m] /\ outbox[m] \in Rows
         /\ ~IsSettled(outbox[m]) => outbox[m].status = "pending"
         /\ crashes = 0 => /\ outbox[m].callback_count = Len(callbacks[m])
                           /\ accepted[m] # 0 => accepted[m] = 1 /\ IsSettled(outbox[m])
  <1> DEFINE s == Head(todo[p])
  <1>1. /\ todo[p] # <<>> /\ s.kind = "dispatch" /\ ~CarriesCallback(s) /\ ~Counts(s)
        /\ TypeOK /\ Planned
    BY DEF At, CarriesCallback, Counts, SerialInductive, Inductive
  <1>2. s \in Steps /\ m \in Messages /\ Relies(s)
    BY <1>1, HeadRelies
  <1>3. s.row = outbox[m] /\ s.row \in Rows
    BY <1>1, <1>2, StepFields DEF Relies
  <1>4. ~ToCount(m) /\ ~ToSettle(m)
    BY <1>1, OwedByHead
  <1>5. crashes = 0 => Accounted(m)
    BY <1>2 DEF SerialInductive
  <1> HIDE DEF s
  <1>6. ~IsSettled(outbox[m]) => outbox[m].status = "pending"
    BY <1>3 DEF Rows, OutboxStatus, IsSettled
  <1> QED  BY <1>2, <1>3, <1>4, <1>5, <1>6 DEF Accounted, s

-----------------------------------------------------------------------------
\* A process that starts a list of steps for distinct messages, or for one whose
\* callback is to be recorded.
LEMMA NewPlan ==
  ASSUME OneAtATime, SerialInductive, Inductive', NEW p \in Processes, Idle(p),
         NEW e \in Seq(Steps), todo' = [todo EXCEPT ![p] = e],
         UNCHANGED <<callbacks, accepted, crashes>>,
         \A m \in Messages : \/ outbox'[m] = outbox[m]
                             \/ outbox[m] = Blank /\ outbox'[m] = Fresh,
         InSequence(e), \A i \in 1..Len(e) : Fits(e, i)'
  PROVE  SerialInductive'
  <1>1. TypeOK /\ \A s \in Processes : todo'[s] = e
    BY OnlyProcess DEF SerialInductive, Inductive, TypeOK
  <1>2. Planned'
    <2>1. DOMAIN e = 1..Len(e)
      OBVIOUS
    <2> QED  BY <1>1, <2>1 DEF Planned, InSequence, Fits
  <1>3. InOrderIncreases'
    BY DEF SerialInductive, InOrderIncreases
  <1>4. ASSUME NEW m \in Messages, crashes' = 0  PROVE Accounted(m)'
    <2>1. Accounted(m)
      BY <1>4 DEF SerialInductive
    <2>2. ~ToCount(m) /\ ~ToSettle(m)
      <3>1. \A s \in Processes : todo[s] = <<>>
        BY OnlyProcess DEF Idle
      <3> QED  BY <3>1 DEF ToCount, ToSettle
    <2>3. outbox[m].callback_count = Len(callbacks[m])
            /\ (accepted[m] # 0 => accepted[m] = 1 /\ IsSettled(outbox[m]))
      BY <2>1, <2>2 DEF Accounted
    <2>4. CASE outbox'[m] = outbox[m]
      BY <2>3, <2>4 DEF Accounted
    <2>5. CASE outbox[m] = Blank /\ outbox'[m] = Fresh
      <3>1. /\ outbox'[m].callback_count = outbox[m].callback_count /\ ~IsSettled(outbox[m])
        BY <2>5 DEF Blank, Fresh, Row, IsSettled
      <3> QED  BY <2>3, <3>1 DEF Accounted
    <2> QED  BY <2>4, <2>5
  <1> QED  BY <1>2, <1>3, <1>4 DEF SerialInductive

LEMMA InitSerial == Init => SerialInductive
  <1> SUFFICES ASSUME Init  PROVE SerialInductive
    OBVIOUS
  <1>1. Inductive
    BY InitInductive
  <1>2. Planned /\ InOrderIncreases
    BY DEF Init, Planned, InSequence, InOrderIncreases
  <1>3. \A m \in Messages : Accounted(m)
    BY DEF Init, Accounted, Blank, Row
  <1> QED  BY <1>1, <1>2, <1>3 DEF SerialInductive

LEMMA DecideSerial ==
  ASSUME OneAtATime, SerialInductive, Inductive', NEW p \in Threads, decide_task(p)
  PROVE  SerialInductive'
  <1>1. PICK m \in Messages, inline \in BOOLEAN :
          /\ Idle(p) /\ outbox[m] = Blank
          /\ outbox' = [outbox EXCEPT ![m] = Fresh]
          /\ todo' = [todo EXCEPT ![p] = IF inline THEN <<DispatchStep(m, Fresh, "normal")>> ELSE <<>>]
          /\ UNCHANGED <<callbacks, approved, accepted, production, crashes>>
    BY DEF decide_task
  <1>2. p \in Processes /\ outbox'[m] = Fresh /\ \A k \in Messages : k # m => outbox'[k] = outbox[k]
    BY <1>1 DEF SerialInductive, Inductive, TypeOK, Processes
  <1>3. PICK e \in Seq(Steps) :
          e = IF inline THEN <<DispatchStep(m, Fresh, "normal")>> ELSE <<>>
    <2>1. DispatchStep(m, Fresh, "normal") \in Steps
      BY FreshRow, StepTypes
    <2>2. <<DispatchStep(m, Fresh, "normal")>> \in Seq(Steps) /\ <<>> \in Seq(Steps)
      BY <2>1
    <2> QED  BY <2>2
  <1>4. ASSUME NEW i \in 1..Len(e)
        PROVE  i = 1 /\ Len(e) = 1 /\ e[i] = DispatchStep(m, Fresh, "normal")
    BY <1>3, <1>4
  <1>5. InSequence(e)
    BY <1>4 DEF InSequence
  <1>6. \A i \in 1..Len(e) : Fits(e, i)'
    <2> SUFFICES ASSUME NEW i \in 1..Len(e)  PROVE Fits(e, i)'
      OBVIOUS
    <2>1. e[i].kind = "dispatch" /\ e[i].message = m /\ e[i].row = Fresh
      BY <1>4 DEF DispatchStep
    <2> QED  BY <1>2, <2>1 DEF Fits, Relies, Immediate, CarriesCallback
  <1> QED  BY <1>1, <1>2, <1>3, <1>5, <1>6, NewPlan

LEMMA ProcessSerial ==
  ASSUME OneAtATime, SerialInductive, Inductive', NEW p \in Processes, process_outbox(p)
  PROVE  SerialInductive'
  <1>0. PICK messages \in SUBSET Messages, scenario \in Scenarios \cup {"normal"} :
          /\ Idle(p)
          /\ \A m \in messages : Found(m)
          /\ \E steps \in DispatchAll(messages, scenario) : todo' = [todo EXCEPT ![p] = steps]
          /\ UNCHANGED <<outbox, callbacks, approved, accepted, production, crashes>>
    BY DEF process_outbox
  <1>1. PICK e \in DispatchAll(messages, scenario) : todo' = [todo EXCEPT ![p] = e]
    BY <1>0
  <1>2. TypeOK
    BY DEF SerialInductive, Inductive
  <1>3. PICK order \in [1..Cardinality(messages) -> messages] :
          /\ e = [i \in DOMAIN order |-> DispatchStep(order[i], outbox[order[i]], scenario)]
          /\ \A i, j \in DOMAIN order : i < j => order[i] < order[j]
    BY <1>1 DEF DispatchAll
  <1>4. Cardinality(messages) \in Nat
    BY MessagesAssumption, FS_Subset, FS_CardinalityType
  <1>5. \A i \in 1..Cardinality(messages) :
          order[i] \in Messages /\ outbox[order[i]] \in Rows
    BY <1>0, <1>2, StoredRow DEF Found
  <1>6. \A i \in 1..Cardinality(messages) :
          DispatchStep(order[i], outbox[order[i]], scenario) \in Steps
    BY <1>5, StepTypes
  <1>7. e \in Seq(Steps) /\ Len(e) = Cardinality(messages) /\ DOMAIN e = 1..Len(e)
    BY <1>3, <1>4, <1>6
  <1>8. ASSUME NEW i \in 1..Len(e)
        PROVE  /\ e[i].kind = "dispatch" /\ e[i].message = order[i] /\ order[i] \in Messages
               /\ e[i].row = outbox[order[i]]
    BY <1>3, <1>5, <1>7 DEF DispatchStep
  <1>9. InSequence(e)
    <2> SUFFICES ASSUME NEW i \in DOMAIN e, NEW j \in DOMAIN e, i < j  PROVE e[i].message # e[j].message
      BY DEF InSequence
    <2>1. i \in DOMAIN order /\ j \in DOMAIN order /\ i \in 1..Len(e) /\ j \in 1..Len(e)
      BY <1>3, <1>7
    <2>2. order[i] < order[j]
      BY <1>3, <2>1
    <2>3. \A m \in Messages : m \in Int
      BY MessagesAssumption
    <2>4. order[i] \in Int /\ order[j] \in Int
      BY <1>8, <2>1, <2>3
    <2> QED  BY <1>8, <2>1, <2>2, <2>4
  <1>10. \A i \in 1..Len(e) : Fits(e, i)'
    <2> SUFFICES ASSUME NEW i \in 1..Len(e)  PROVE Fits(e, i)'
      OBVIOUS
    <2> QED  BY <1>0, <1>8 DEF Fits, Relies, Immediate, CarriesCallback
  <1> QED  BY <1>0, <1>1, <1>7, <1>9, <1>10, NewPlan

LEMMA IngestSerial ==
  ASSUME OneAtATime, SerialInductive, Inductive', NEW p \in Threads,
         ingest_simulated_dispatch_callback(p)
  PROVE  SerialInductive'
  <1>1. PICK m \in Messages, version \in Versions, key \in ExternalKeys :
          /\ Idle(p) /\ Found(m)
          /\ todo' = [todo EXCEPT ![p] = <<ReadCallback(m, version, key), RecountStep(m)>>]
          /\ UNCHANGED <<outbox, callbacks, approved, accepted, production, crashes>>
    BY DEF ingest_simulated_dispatch_callback
  <1>2. p \in Processes
    BY DEF Processes
  <1>3. ReadCallback(m, version, key) \in Steps /\ RecountStep(m) \in Steps
    BY StepTypes DEF Keys
  <1>4. PICK e \in Seq(Steps) :
          /\ e = <<ReadCallback(m, version, key), RecountStep(m)>>
          /\ Len(e) = 2 /\ e[1] = ReadCallback(m, version, key) /\ e[2] = RecountStep(m)
    <2> DEFINE a == ReadCallback(m, version, key)
               b == RecountStep(m)
    <2>1. a \in Steps /\ b \in Steps
      BY <1>3
    <2> HIDE DEF a, b
    <2>2. <<a, b>> \in Seq(Steps) /\ Len(<<a, b>>) = 2 /\ <<a, b>>[1] = a /\ <<a, b>>[2] = b
      BY <2>1
    <2> QED  BY <2>2 DEF a, b
  <1>5. InSequence(e)
    <2> SUFFICES ASSUME NEW i \in DOMAIN e, NEW j \in DOMAIN e, i < j
                 PROVE  CarriesCallback(e[i]) /\ e[j].kind # "dispatch"
      BY DEF InSequence
    <2>1. i = 1 /\ j = 2
      BY <1>4
    <2> QED  BY <1>4, <2>1 DEF CarriesCallback, ReadCallback, RecountStep
  <1>6. \A i \in 1..Len(e) : Fits(e, i)'
    <2>1. Fits(e, 1)'
      <3>1. Relies(e[1])' /\ ~Immediate(e[1])
        BY <1>4 DEF Relies, Immediate, ReadCallback, CarriesCallback, KeyOf
      <3>2. 2 \in 2..Len(e) /\ Counts(e[2]) /\ e[2].message = e[1].message
        BY <1>4 DEF Counts, RecountStep, ReadCallback
      <3> QED  BY <3>1, <3>2 DEF Fits, Immediate, Counts
    <2>2. Fits(e, 2)'
      BY <1>4 DEF Fits, Relies, RecountStep, CarriesCallback, Immediate
    <2> QED  BY <1>4, <2>1, <2>2
  <1> QED  BY <1>1, <1>2, <1>4, <1>5, <1>6, NewPlan


-----------------------------------------------------------------------------
\* A step that leaves the callbacks alone, is followed by what PlanContinues asks
\* for and leaves its own message accounted for.
LEMMA SerialContinues ==
  ASSUME OneAtATime, SerialInductive, Inductive',
         NEW p \in Processes, todo[p] # <<>>,
         NEW e \in Seq(Steps), Continue(p, e),
         UNCHANGED <<callbacks, crashes>>,
         NEW m, m = Head(todo[p]).message,
         \A k \in Messages : k # m => outbox'[k] = outbox[k] /\ accepted'[k] = accepted[k],
         CarriesCallback(Head(todo[p])) => UNCHANGED <<outbox, accepted>>,
         \A i \in 1..Len(e) :
           /\ e[i].message = m
           /\ Relies(e[i])'
           /\ Immediate(e[i]) => i = 1
           /\ CarriesCallback(Head(todo[p])) => CarriesCallback(e[i])
           /\ CarriesCallback(e[i]) =>
                CarriesCallback(Head(todo[p])) \/ \E j \in (i + 1)..Len(e) : Counts(e[j]),
         \A i, j \in 1..Len(e) : i < j => CarriesCallback(e[i]) /\ e[j].kind # "dispatch",
         CarriesCallback(Head(todo[p])) \/ (crashes = 0 => Accounted(m)')
  PROVE  SerialInductive'
  <1>1. TypeOK /\ Planned
    BY DEF SerialInductive, Inductive
  <1>2. Planned'
    BY <1>1, PlanContinues
  <1>3. InOrderIncreases'
    BY DEF SerialInductive, InOrderIncreases
  <1>4. ASSUME NEW k \in Messages, crashes' = 0  PROVE Accounted(k)'
    <2>1. Accounted(k)
      BY <1>4 DEF SerialInductive
    <2>2. CASE k = m /\ ~CarriesCallback(Head(todo[p]))
      BY <1>4, <2>2
    <2>3. CASE k # m \/ CarriesCallback(Head(todo[p]))
      <3>1. outbox'[k] = outbox[k] /\ accepted'[k] = accepted[k] /\ callbacks'[k] = callbacks[k]
        BY <2>3
      <3> QED  BY <1>1, <2>1, <2>3, <3>1, OthersAccounted
    <2> QED  BY <2>2, <2>3
  <1> QED  BY <1>2, <1>3, <1>4 DEF SerialInductive

LEMMA SettledSerial ==
  ASSUME OneAtATime, SerialInductive, Inductive', NEW p \in Processes, dispatch_settled(p)
  PROVE  SerialInductive'
  <1>1. PICK m \in Messages :
          /\ m = Head(todo[p]).message /\ todo[p] # <<>> /\ ~CarriesCallback(Head(todo[p]))
          /\ crashes = 0 => /\ outbox[m].callback_count = Len(callbacks[m])
                            /\ accepted[m] # 0 => accepted[m] = 1 /\ IsSettled(outbox[m])
    BY DispatchHead DEF dispatch_settled, At, CarriesCallback
  <1>2. /\ Continue(p, <<>>)
        /\ UNCHANGED <<outbox, callbacks, approved, accepted, production, crashes>>
    BY DEF dispatch_settled
  <1>3. PICK e \in Seq(Steps) :
          e = <<>> /\ Len(e) = 0 /\ \A i \in 1..Len(e) : FALSE
    <2>1. <<>> \in Seq(Steps) /\ Len(<<>>) = 0
      OBVIOUS
    <2>2. \A i \in 1..Len(<<>>) : FALSE
      BY <2>1
    <2> QED  BY <2>1, <2>2
  <1>4. crashes = 0 => Accounted(m)'
    BY <1>1, <1>2 DEF Accounted
  <1>5. Continue(p, e) /\ \A k \in Messages : k # m => outbox'[k] = outbox[k] /\ accepted'[k] = accepted[k]
    BY <1>2, <1>3
  <1> QED  BY <1>1, <1>2, <1>3, <1>4, <1>5, SerialContinues

\* The steps that end in saving a row.
LEMMA SaveSerial ==
  ASSUME OneAtATime, SerialInductive, Inductive', NEW p \in Processes, todo[p] # <<>>,
         ~CarriesCallback(Head(todo[p])),
         NEW m \in Messages, m = Head(todo[p]).message,
         NEW row \in Rows, Continue(p, <<SaveStep(m, row)>>),
         UNCHANGED <<outbox, callbacks, approved, accepted, production, crashes>>,
         outbox[m].status \in {"pending", row.status},
         crashes = 0 =>
           /\ row.callback_count = Len(callbacks[m])
           /\ accepted[m] # 0 => accepted[m] = 1 /\ (IsSettled(outbox[m]) \/ IsSettled(row))
  PROVE  SerialInductive'
  <1>1. PICK e \in Seq(Steps) :
          Continue(p, e) /\ Len(e) = 1 /\ e[1] = SaveStep(m, row)
    <2> DEFINE a == SaveStep(m, row)
    <2>1. a \in Steps
      BY StepTypes
    <2> HIDE DEF a
    <2>2. <<a>> \in Seq(Steps) /\ Len(<<a>>) = 1 /\ <<a>>[1] = a
      BY <2>1
    <2> QED  BY <2>2 DEF a
  <1>2. \A i \in 1..Len(e) : i = 1
    BY <1>1
  <1>3. /\ e[1].message = m /\ e[1].kind = "save" /\ e[1].row = row
        /\ ~CarriesCallback(e[1])
    BY <1>1 DEF SaveStep, CarriesCallback
  <1>4. Relies(e[1])'
    BY <1>3 DEF Relies, CarriesCallback
  <1>5. crashes = 0 => Accounted(m)'
    <2>1. TypeOK
      BY DEF SerialInductive, Inductive
    <2>2. ToCount(m)' /\ (IsSettled(row) => ToSettle(m)')
      BY <1>1, <1>3, <2>1, OwedContinues
    <2> QED  BY <2>2 DEF Accounted, IsSettled
  <1>6. \A i \in 1..Len(e) :
           /\ e[i].message = m
           /\ Relies(e[i])'
           /\ Immediate(e[i]) => i = 1
           /\ ~CarriesCallback(e[i])
    BY <1>2, <1>3, <1>4
  <1>7. \A i, j \in 1..Len(e) : ~(i < j)
    BY <1>1
  <1>8. \A k \in Messages : k # m => outbox'[k] = outbox[k] /\ accepted'[k] = accepted[k]
    OBVIOUS
  <1> QED  BY <1>1, <1>5, <1>6, <1>7, <1>8, SerialContinues

LEMMA RefusalSerial ==
  ASSUME OneAtATime, SerialInductive, Inductive', NEW p \in Processes,
         dispatch_mismatch(p) \/ dispatch_disabled(p) \/ dispatch_timeout(p)
  PROVE  SerialInductive'
  <1> DEFINE s == Head(todo[p])
  <1>1. todo[p] # <<>> /\ s.kind = "dispatch" /\ ~CarriesCallback(s) /\ At(p, "dispatch")
          /\ ~IsSettled(s.row)
    BY DEF dispatch_mismatch, dispatch_disabled, dispatch_timeout, At, CarriesCallback
  <1>2. PICK m \in Messages :
          /\ m = s.message /\ s.row = outbox[m] /\ outbox[m] \in Rows
          /\ outbox[m].status = "pending" /\ ~IsSettled(outbox[m])
          /\ crashes = 0 => /\ outbox[m].callback_count = Len(callbacks[m])
                            /\ accepted[m] = 0
    BY <1>1, DispatchHead
  <1>3. PICK status \in {"failed", "manual_takeover", "pending"},
             error \in {"hash_mismatch", "gateway_disabled", "timeout"} :
          /\ Continue(p, <<SaveStep(m, Row(status, error, s.row.callback_count))>>)
          /\ UNCHANGED <<outbox, callbacks, approved, accepted, production, crashes>>
    BY <1>2 DEF dispatch_mismatch, dispatch_disabled, dispatch_timeout
  <1> DEFINE row == Row(status, error, outbox[m].callback_count)
  <1>4. row \in Rows /\ row.callback_count = outbox[m].callback_count
    <2>1. outbox[m].callback_count \in Nat
      BY <1>2 DEF Rows
    <2> QED  BY <2>1, RowTypes DEF OutboxStatus, Row
  <1>5. Continue(p, <<SaveStep(m, row)>>)
    BY <1>2, <1>3
  <1> HIDE DEF row
  <1> QED  BY <1>1, <1>2, <1>3, <1>4, <1>5, SaveSerial

LEMMA CountSerial ==
  ASSUME OneAtATime, SerialInductive, Inductive', NEW p \in Processes, count_callbacks(p)
  PROVE  SerialInductive'
  <1> DEFINE s == Head(todo[p])
  <1>1. /\ todo[p] # <<>> /\ s.kind = "count" /\ ~CarriesCallback(s)
        /\ Continue(p, <<SaveStep(s.message, Counted(s.message, s.row))>>)
        /\ UNCHANGED <<outbox, callbacks, approved, accepted, production, crashes>>
    BY DEF count_callbacks, At, CarriesCallback
  <1>2. TypeOK /\ Planned
    BY DEF SerialInductive, Inductive
  <1>3. PICK m \in Messages : m = s.message /\ s \in Steps /\ Relies(s)
    BY <1>1, <1>2, HeadRelies
  <1>4. outbox[m].status = "pending" /\ IsSettled(s.row) /\ s.row \in Rows
    BY <1>1, <1>3, StepFields DEF Relies
  <1>5. PICK row \in Rows :
          /\ row = Counted(m, s.row) /\ row.status = s.row.status
          /\ row.callback_count = Len(callbacks[m])
    <2>1. callbacks[m] \in Seq(CallbackRecords)
      BY <1>2 DEF TypeOK
    <2>2. Len(callbacks[m]) \in Nat
      BY <2>1
    <2>3. /\ Counted(m, s.row) \in Rows /\ Counted(m, s.row).status = s.row.status
          /\ Counted(m, s.row).callback_count = Len(callbacks[m])
      BY <1>4, <2>2 DEF Counted, Rows
    <2> QED  BY <2>3
  <1>6. IsSettled(row)
    BY <1>4, <1>5 DEF IsSettled
  <1>7. crashes = 0 => (accepted[m] # 0 => accepted[m] = 1)
    BY DEF SerialInductive, Accounted
  <1>8. Continue(p, <<SaveStep(m, row)>>)
    BY <1>1, <1>3, <1>5
  <1> HIDE DEF s
  <1> QED  BY <1>1, <1>3, <1>4, <1>5, <1>6, <1>7, <1>8, SaveSerial DEF s

LEMMA RecountSerial ==
  ASSUME OneAtATime, SerialInductive, Inductive', NEW p \in Processes, recount_callbacks(p)
  PROVE  SerialInductive'
  <1> DEFINE s == Head(todo[p])
  <1>1. /\ todo[p] # <<>> /\ s.kind = "recount" /\ ~CarriesCallback(s)
        /\ Continue(p, <<SaveStep(s.message, Counted(s.message, CurrentRow(s.message)))>>)
        /\ UNCHANGED <<outbox, callbacks, approved, accepted, production, crashes>>
    BY DEF recount_callbacks, At, CarriesCallback
  <1>2. TypeOK /\ Planned /\ StepsOK
    BY DEF SerialInductive, Inductive
  <1>3. PICK m \in Messages : m = s.message
    BY <1>1, <1>2, HeadRelies
  <1>4. outbox[m] \in Rows
    <2>1. s = todo[p][1] /\ 1 \in DOMAIN todo[p]
      BY <1>1, <1>2, HeadStep
    <2>2. outbox[m] # Blank
      BY <1>1, <1>2, <1>3, <2>1 DEF StepsOK, StepOK
    <2> QED  BY <1>2, <2>2, StoredRow
  <1>5. PICK row \in Rows :
          /\ row = Counted(m, CurrentRow(m)) /\ row.status = outbox[m].status
          /\ row.callback_count = Len(callbacks[m])
    <2>1. callbacks[m] \in Seq(CallbackRecords)
      BY <1>2 DEF TypeOK
    <2>2. Len(callbacks[m]) \in Nat
      BY <2>1
    <2>3. /\ Counted(m, CurrentRow(m)) \in Rows /\ Counted(m, CurrentRow(m)).status = outbox[m].status
          /\ Counted(m, CurrentRow(m)).callback_count = Len(callbacks[m])
      BY <1>4, <2>2 DEF Counted, CurrentRow, Rows
    <2> QED  BY <2>3
  <1>6. crashes = 0 => (accepted[m] # 0 => accepted[m] = 1 /\ IsSettled(outbox[m]))
    <2>1. ~ToSettle(m)
      BY <1>1, <1>2, <1>3, OwedByHead
    <2> QED  BY <2>1 DEF SerialInductive, Accounted
  <1>7. Continue(p, <<SaveStep(m, row)>>)
    BY <1>1, <1>3, <1>5
  <1> HIDE DEF s
  <1> QED  BY <1>1, <1>3, <1>5, <1>6, <1>7, SaveSerial DEF s

LEMMA StoreSerial ==
  ASSUME OneAtATime, SerialInductive, Inductive', NEW p \in Processes, save_outbox_message(p)
  PROVE  SerialInductive'
  <1> DEFINE s == Head(todo[p])
  <1>1. /\ todo[p] # <<>> /\ s.kind = "save" /\ ~CarriesCallback(s)
        /\ outbox' = [outbox EXCEPT ![s.message] = s.row]
        /\ Continue(p, <<>>)
        /\ UNCHANGED <<callbacks, approved, accepted, production, crashes>>
    BY DEF save_outbox_message, At, CarriesCallback
  <1>2. TypeOK /\ Planned
    BY DEF SerialInductive, Inductive
  <1>3. PICK m \in Messages : m = s.message /\ s \in Steps /\ Relies(s)
    BY <1>1, <1>2, HeadRelies
  <1>4. /\ outbox[m].status \in {"pending", s.row.status} /\ s.row \in Rows
        /\ crashes = 0 => s.row.callback_count = Len(callbacks[m])
    BY <1>1, <1>3, StepFields DEF Relies
  <1>5. outbox'[m] = s.row /\ \A k \in Messages : k # m => outbox'[k] = outbox[k]
    BY <1>1, <1>2, <1>3 DEF TypeOK
  <1>6. crashes = 0 => Accounted(m)'
    <2>1. ToSettle(m) => IsSettled(s.row)
      BY <1>1, <1>2, <1>3, OwedByHead
    <2>2. IsSettled(outbox[m]) => IsSettled(s.row)
      BY <1>4 DEF IsSettled
    <2>3. crashes = 0 => (accepted[m] # 0 => accepted[m] = 1 /\ IsSettled(s.row))
      BY <2>1, <2>2 DEF SerialInductive, Accounted
    <2> HIDE DEF s
    <2> QED  BY <1>1, <1>4, <1>5, <2>3 DEF Accounted, IsSettled
  <1>7. PICK e \in Seq(Steps) :
          e = <<>> /\ Len(e) = 0 /\ \A i \in 1..Len(e) : FALSE
    <2>1. <<>> \in Seq(Steps) /\ Len(<<>>) = 0
      OBVIOUS
    <2>2. \A i \in 1..Len(<<>>) : FALSE
      BY <2>1
    <2> QED  BY <2>1, <2>2
  <1>8. Continue(p, e) /\ UNCHANGED <<callbacks, crashes>> /\ todo[p] # <<>>
          /\ m = Head(todo[p]).message /\ ~CarriesCallback(Head(todo[p]))
    BY <1>1, <1>3, <1>7
  <1>9. \A k \in Messages : k # m => outbox'[k] = outbox[k] /\ accepted'[k] = accepted[k]
    BY <1>1, <1>5
  <1> HIDE DEF s
  <1> QED  BY <1>6, <1>7, <1>8, <1>9, SerialContinues


LEMMA AnsweredSerial ==
  ASSUME OneAtATime, SerialInductive, Inductive', NEW p \in Processes, dispatch_answered(p)
  PROVE  SerialInductive'
  <1> DEFINE s == Head(todo[p])
  <1>1. /\ todo[p] # <<>> /\ s.kind = "dispatch" /\ ~CarriesCallback(s)
        /\ s.scenario # "timeout" /\ ~IsSettled(s.row) /\ At(p, "dispatch")
        /\ Continue(p, AnswerSteps(s.message, s.scenario))
        /\ UNCHANGED <<outbox, callbacks, approved, production, crashes>>
    BY DEF dispatch_answered, At, CarriesCallback
  <1>2. TypeOK /\ Planned
    BY DEF SerialInductive, Inductive
  <1>3. PICK m \in Messages :
          /\ m = s.message /\ s \in Steps
          /\ outbox[m].status = "pending" /\ ~IsSettled(outbox[m])
          /\ crashes = 0 => /\ outbox[m].callback_count = Len(callbacks[m])
                            /\ accepted[m] = 0
    BY <1>1, <1>2, HeadRelies, DispatchHead
  <1>4. s.scenario \in Scenarios \cup {"normal"}
    BY <1>1, <1>3, StepFields
  <1>5. PICK e \in Seq(Steps) :
          /\ Continue(p, e) /\ Len(e) \in Nat \ {0}
          /\ \A i \in 1..Len(e) :
               /\ e[i].kind \in {"read_callback", "count"} /\ e[i].message = m
               /\ i # Len(e) => e[i].kind = "read_callback"
               /\ i = Len(e) => e[i].kind = "count" /\ IsSettled(e[i].row)
    <2> DEFINE a == AnswerSteps(m, s.scenario)
    <2>1. Continue(p, a)
      BY <1>1, <1>3
    <2>2. /\ a \in Seq(Steps) /\ Len(a) \in Nat \ {0}
          /\ \A i \in 1..Len(a) :
               /\ a[i].kind \in {"read_callback", "count"} /\ a[i].message = m
               /\ i # Len(a) => a[i].kind = "read_callback"
               /\ i = Len(a) => a[i].kind = "count" /\ IsSettled(a[i].row)
      BY <1>1, <1>4, AnswerFacts
    <2> HIDE DEF a
    <2> QED  BY <2>1, <2>2
  <1>6. /\ \A k \in Messages : k # m => accepted'[k] = accepted[k]
        /\ accepted[m] = 0 => accepted'[m] \in {0, 1}
    <2>1. \/ accepted' = accepted
          \/ accepted' = [accepted EXCEPT ![m] = accepted[m] + 1]
      BY <1>3 DEF dispatch_answered
    <2> QED  BY <1>2, <2>1 DEF TypeOK
  <1>7. crashes = 0 => Accounted(m)'
    <2>1. Len(e) \in 1..Len(e)
      BY <1>5
    <2>2. ToSettle(m)'
      BY <1>2, <1>1, <1>5, <2>1, OwedContinues
    <2>3. outbox'[m] = outbox[m] /\ callbacks'[m] = callbacks[m]
      BY <1>1
    <2> QED  BY <1>3, <1>6, <2>2, <2>3 DEF Accounted
  <1>8. \A i \in 1..Len(e) :
           /\ e[i].message = m
           /\ Relies(e[i])'
           /\ ~Immediate(e[i])
           /\ CarriesCallback(e[i]) => \E j \in (i + 1)..Len(e) : Counts(e[j])
    <2> SUFFICES ASSUME NEW i \in 1..Len(e)
                 PROVE  /\ Relies(e[i])' /\ ~Immediate(e[i])
                        /\ CarriesCallback(e[i]) => \E j \in (i + 1)..Len(e) : Counts(e[j])
      BY <1>5
    <2>1. outbox'[m].status = "pending"
      BY <1>1, <1>3
    <2>2. e[i].kind = "count" => IsSettled(e[i].row)
      BY <1>5
    <2>3. Relies(e[i])'
      BY <1>5, <2>1, <2>2 DEF Relies, IsSettled, CarriesCallback
    <2>4. ~Immediate(e[i])
      BY <1>5 DEF Immediate
    <2>5. ASSUME CarriesCallback(e[i])
          PROVE  \E j \in (i + 1)..Len(e) : Counts(e[j])
      <3>1. i # Len(e)
        BY <1>5, <2>5 DEF CarriesCallback
      <3>2. Len(e) \in (i + 1)..Len(e) /\ Len(e) \in 1..Len(e)
        BY <1>5, <3>1
      <3> QED  BY <1>5, <3>2 DEF Counts
    <2> QED  BY <2>3, <2>4, <2>5
  <1>9. \A i, j \in 1..Len(e) : i < j => CarriesCallback(e[i]) /\ e[j].kind # "dispatch"
    <2> SUFFICES ASSUME NEW i \in 1..Len(e), NEW j \in 1..Len(e), i < j
                 PROVE  CarriesCallback(e[i]) /\ e[j].kind # "dispatch"
      OBVIOUS
    <2>1. i # Len(e)
      BY <1>5
    <2> QED  BY <1>5, <2>1 DEF CarriesCallback
  <1>10. /\ UNCHANGED <<outbox, callbacks, crashes>> /\ todo[p] # <<>>
         /\ m = Head(todo[p]).message /\ ~CarriesCallback(Head(todo[p]))
    BY <1>1, <1>3
  <1> HIDE DEF s
  <1> QED  BY <1>5, <1>6, <1>7, <1>8, <1>9, <1>10, SerialContinues

LEMMA ReadSerial ==
  ASSUME OneAtATime, SerialInductive, Inductive', NEW p \in Processes, read_callback(p)
  PROVE  SerialInductive'
  <1> DEFINE s == Head(todo[p])
  <1>1. /\ todo[p] # <<>> /\ s.kind = "read_callback" /\ CarriesCallback(s) /\ KeyOf(s) = s.key
        /\ UNCHANGED <<outbox, callbacks, approved, accepted, production, crashes>>
    BY DEF read_callback, At, CarriesCallback, KeyOf
  <1>2. TypeOK /\ Planned
    BY DEF SerialInductive, Inductive
  <1>3. PICK m \in Messages : m = s.message /\ s \in Steps /\ Relies(s)
    BY <1>1, <1>2, HeadRelies
  <1>4. s.version \in Versions \cup {1, 2} /\ s.key \in Keys
    BY <1>1, <1>3, StepFields
  <1>5. PICK c \in CallbackRecords :
          /\ c.key = s.key
          /\ c.sequence = "in_order" =>
               \A n \in DOMAIN callbacks[m] : callbacks[m][n].version < c.version
          /\ Continue(p, <<>>) \/ Continue(p, <<InsertCallback(m, c)>>)
    <2> DEFINE d == [key |-> s.key, version |-> s.version,
                     sequence |-> SequenceState(s.message, s.version)]
    <2>1. d \in CallbackRecords
      BY <1>4 DEF SequenceState, CallbackRecords
    <2>2. ASSUME d.sequence = "in_order", NEW n \in DOMAIN callbacks[m]
          PROVE  callbacks[m][n].version < d.version
      <3>1. callbacks[m] \in Seq(CallbackRecords)
        BY <1>2 DEF TypeOK
      <3>2. callbacks[m][n] \in CallbackRecords
        BY <3>1
      <3>3. \A v \in Versions \cup {1, 2} : v \in Nat
        BY CallbacksAssumption
      <3>4. callbacks[m][n].version \in Nat /\ s.version \in Nat
        BY <1>4, <3>2, <3>3 DEF CallbackRecords
      <3>5. callbacks[m][n].version \in RecordedVersions(m)
        BY DEF RecordedVersions
      <3>6. ~(s.version <= callbacks[m][n].version)
        BY <1>3, <2>2, <3>5 DEF SequenceState
      <3> QED  BY <3>4, <3>6
    <2>3. Continue(p, <<>>) \/ Continue(p, <<InsertCallback(m, d)>>)
      BY <1>3 DEF read_callback
    <2>4. d.key = s.key
      OBVIOUS
    <2> HIDE DEF d
    <2> QED  BY <2>1, <2>2, <2>3, <2>4
  <1>6. PICK e \in Seq(Steps) :
          /\ Continue(p, e)
          /\ \A i \in 1..Len(e) : i = 1 /\ e[i] = InsertCallback(m, c)
    <2> DEFINE a == InsertCallback(m, c)
    <2>1. a \in Steps
      BY StepTypes
    <2> HIDE DEF a
    <2>2. <<a>> \in Seq(Steps) /\ \A i \in 1..Len(<<a>>) : i = 1 /\ <<a>>[i] = a
      BY <2>1
    <2>3. <<>> \in Seq(Steps) /\ Len(<<>>) = 0
      OBVIOUS
    <2>4. \A i \in 1..Len(<<>>) : i = 1 /\ <<>>[i] = a
      BY <2>3
    <2>5. Continue(p, <<>>) \/ Continue(p, <<a>>)
      BY <1>5 DEF a
    <2> HIDE DEF a
    <2>6. \E e \in Seq(Steps) : Continue(p, e) /\ \A i \in 1..Len(e) : i = 1 /\ e[i] = a
      BY <2>2, <2>3, <2>4, <2>5
    <2> QED  BY <2>6 DEF a
  <1>7. ASSUME NEW i \in 1..Len(e)
        PROVE  e[i].message = m /\ Relies(e[i])' /\ i = 1 /\ CarriesCallback(e[i])
    <2>1. /\ e[i].kind = "insert_callback" /\ e[i].message = m /\ e[i].callback = c
          /\ i = 1 /\ CarriesCallback(e[i]) /\ KeyOf(e[i]) = c.key
      BY <1>6 DEF InsertCallback, CarriesCallback, KeyOf
    <2>2. c.key \in ExternalKeys \/ outbox[m].status = "pending"
      BY <1>1, <1>3, <1>5 DEF Relies
    <2>3. outbox' = outbox /\ callbacks' = callbacks
      BY <1>1
    <2> HIDE DEF s
    <2>4. Relies(e[i])'
      BY <1>5, <2>1, <2>2, <2>3 DEF Relies
    <2> QED  BY <2>1, <2>4
  <1>8. \A i, j \in 1..Len(e) : ~(i < j)
    BY <1>7
  <1>9. /\ UNCHANGED <<outbox, callbacks, accepted, crashes>> /\ todo[p] # <<>>
        /\ m = Head(todo[p]).message /\ CarriesCallback(Head(todo[p]))
    BY <1>1, <1>3
  <1> HIDE DEF s
  <1> QED  BY <1>6, <1>7, <1>8, <1>9, SerialContinues

LEMMA InsertSerial ==
  ASSUME OneAtATime, SerialInductive, Inductive', NEW p \in Processes, insert_callback(p)
  PROVE  SerialInductive'
  <1> DEFINE s == Head(todo[p])
  <1>1. /\ todo[p] # <<>> /\ s.kind = "insert_callback" /\ CarriesCallback(s)
        /\ UNCHANGED <<outbox, approved, accepted, production, crashes>>
        /\ Continue(p, <<>>)
        /\ callbacks' = callbacks
           \/ callbacks' = [callbacks EXCEPT ![s.message] = Append(@, s.callback)]
    BY DEF insert_callback, At, CarriesCallback
  <1>2. TypeOK /\ Planned
    BY DEF SerialInductive, Inductive
  <1>3. PICK m \in Messages : m = s.message /\ s \in Steps /\ Relies(s) /\ ToCount(m)
    BY <1>1, <1>2, HeadRelies
  <1>4. callbacks[m] \in Seq(CallbackRecords) /\ s.callback \in CallbackRecords
    BY <1>1, <1>2, <1>3, StepFields DEF TypeOK
  <1>5. \A k \in Messages : k # m => callbacks'[k] = callbacks[k]
    BY <1>1, <1>2, <1>3 DEF TypeOK
  <1>6. callbacks'[m] = callbacks[m] \/ callbacks'[m] = Append(callbacks[m], s.callback)
    BY <1>1, <1>2, <1>3 DEF TypeOK
  <1>7. PICK e \in Seq(Steps) :
          e = <<>> /\ Len(e) = 0 /\ \A i \in 1..Len(e) : FALSE
    <2>1. <<>> \in Seq(Steps) /\ Len(<<>>) = 0
      OBVIOUS
    <2>2. \A i \in 1..Len(<<>>) : FALSE
      BY <2>1
    <2> QED  BY <2>1, <2>2
  <1>8. Continue(p, e)
    BY <1>1, <1>7
  <1>9. Planned'
    <2>1. /\ crashes' = crashes /\ outbox' = outbox
          /\ \A k \in Messages : k # Head(todo[p]).message =>
               outbox'[k] = outbox[k] /\ callbacks'[k] = callbacks[k]
      BY <1>1, <1>3, <1>5
    <2> HIDE DEF s
    <2> QED  BY <1>1, <1>2, <1>7, <1>8, <2>1, PlanContinues
  <1>10. InOrderIncreases'
    <2> SUFFICES ASSUME NEW k \in Messages,
                        NEW i \in DOMAIN callbacks'[k], NEW j \in DOMAIN callbacks'[k],
                        i < j, callbacks'[k][j].sequence = "in_order"
                 PROVE  callbacks'[k][i].version < callbacks'[k][j].version
      BY DEF InOrderIncreases
    <2>1. CASE callbacks'[k] = callbacks[k]
      BY <2>1 DEF SerialInductive, InOrderIncreases
    <2>2. CASE k = m /\ callbacks'[m] = Append(callbacks[m], s.callback)
      <3> DEFINE n == Len(callbacks[m])
      <3>1. /\ n \in Nat /\ DOMAIN callbacks'[m] = 1..(n + 1) /\ DOMAIN callbacks[m] = 1..n
            /\ callbacks'[m][n + 1] = s.callback
            /\ \A l \in 1..n : callbacks'[m][l] = callbacks[m][l]
        BY <1>4, <2>2
      <3> HIDE DEF n
      <3>2. i \in 1..n /\ j \in 1..(n + 1)
        BY <2>2, <3>1
      <3>3. CASE j = n + 1
        BY <1>1, <1>3, <2>2, <3>1, <3>2, <3>3 DEF Relies
      <3>4. CASE j # n + 1
        <4>1. j \in 1..n
          BY <3>1, <3>2, <3>4
        <4> QED  BY <2>2, <3>1, <3>2, <4>1 DEF SerialInductive, InOrderIncreases
      <3> QED  BY <3>3, <3>4
    <2> QED  BY <1>5, <1>6, <2>1, <2>2
  <1>11. ASSUME NEW k \in Messages, crashes' = 0  PROVE Accounted(k)'
    <2>1. Accounted(k)
      BY <1>1, <1>11 DEF SerialInductive
    <2>2. outbox'[k] = outbox[k] /\ accepted'[k] = accepted[k]
            /\ (callbacks'[k] = callbacks[k] \/ ToCount(k))
      BY <1>1, <1>3, <1>5
    <2>3. k # Head(todo[p]).message \/ CarriesCallback(Head(todo[p]))
      BY <1>1
    <2> HIDE DEF s
    <2> QED  BY <1>1, <1>2, <1>8, <2>1, <2>2, <2>3, OthersAccounted
  <1> HIDE DEF s
  <1> QED  BY <1>9, <1>10, <1>11 DEF SerialInductive

LEMMA CrashSerial ==
  ASSUME OneAtATime, SerialInductive, Inductive', NEW p \in Processes, crash(p)
  PROVE  SerialInductive'
  <1>1. /\ todo' = [todo EXCEPT ![p] = <<>>] /\ callbacks' = callbacks
        /\ crashes' = crashes + 1
    BY DEF crash
  <1>2. TypeOK
    BY DEF SerialInductive, Inductive
  <1>3. \A s \in Processes : todo'[s] = <<>>
    BY <1>1, <1>2, OnlyProcess DEF TypeOK
  <1>4. Planned'
    BY <1>3 DEF Planned, InSequence
  <1>5. InOrderIncreases'
    BY <1>1 DEF SerialInductive, InOrderIncreases
  <1>6. crashes' # 0
    BY <1>1, <1>2 DEF TypeOK
  <1> QED  BY <1>4, <1>5, <1>6 DEF SerialInductive

\* What concerns neither the rows, the callbacks nor the work under way.
LEMMA IdleSerial ==
  ASSUME SerialInductive, Inductive', UNCHANGED <<outbox, callbacks, accepted, crashes, todo>>
  PROVE  SerialInductive'
  <1>1. Planned'
    <2>1. Planned /\ todo' = todo
      BY DEF SerialInductive
    <2>2. ASSUME NEW s \in Processes, NEW i \in DOMAIN todo[s]
          PROVE  Fits(todo[s], i)'
      <3>1. Fits(todo[s], i)
        BY <2>1 DEF Planned
      <3>2. PICK t : t = todo[s][i] /\ t = todo'[s][i]
        BY <2>1
      <3>3. Relies(t) /\ UNCHANGED <<outbox, callbacks, crashes>>
        BY <3>1, <3>2 DEF Fits
      <3>4. Relies(t)'
        BY <3>3 DEF Relies
      <3> QED  BY <2>1, <3>1, <3>2, <3>4 DEF Fits, Immediate, CarriesCallback, Counts
    <2>3. \A s \in Processes : InSequence(todo[s])'
      BY <2>1 DEF Planned, InSequence, CarriesCallback
    <2> QED  BY <2>1, <2>2, <2>3 DEF Planned
  <1>2. InOrderIncreases'
    BY DEF SerialInductive, InOrderIncreases
  <1>3. crashes' = 0 => \A m \in Messages : Accounted(m)'
    BY DEF SerialInductive, Accounted, ToCount, ToSettle, Counts, IsSettled
  <1> QED  BY <1>1, <1>2, <1>3 DEF SerialInductive

LEMMA StepSerial ==
  ASSUME OneAtATime, SerialInductive, [Next]_vars
  PROVE  SerialInductive'
  <1>0. Inductive'
    BY StepInductive DEF SerialInductive
  <1>1. CASE UNCHANGED vars
    BY <1>0, <1>1, IdleSerial DEF vars
  <1>2. ASSUME NEW p \in Threads, decide_task(p) \/ ingest_simulated_dispatch_callback(p)
        PROVE  SerialInductive'
    BY <1>0, <1>2, DecideSerial, IngestSerial
  <1>3. ASSUME NEW p \in Processes, process_outbox(p) \/ Step(p) \/ crash(p)
        PROVE  SerialInductive'
    <2>1. CASE process_outbox(p) \/ crash(p)
      BY <1>0, <2>1, ProcessSerial, CrashSerial
    <2>2. CASE Dispatch(p)
      <3>1. CASE dispatch_settled(p)
        BY <1>0, <3>1, SettledSerial
      <3>2. CASE dispatch_mismatch(p) \/ dispatch_disabled(p) \/ dispatch_timeout(p)
        BY <1>0, <3>2, RefusalSerial
      <3>3. CASE dispatch_answered(p)
        BY <1>0, <3>3, AnsweredSerial
      <3> QED  BY <2>2, <3>1, <3>2, <3>3 DEF Dispatch
    <2>3. CASE read_callback(p) \/ insert_callback(p)
      BY <1>0, <2>3, ReadSerial, InsertSerial
    <2>4. CASE count_callbacks(p) \/ recount_callbacks(p)
      BY <1>0, <2>4, CountSerial, RecountSerial
    <2>5. CASE save_outbox_message(p)
      BY <1>0, <2>5, StoreSerial
    <2> QED  BY <1>3, <2>1, <2>2, <2>3, <2>4, <2>5 DEF Step
  <1>4. CASE rewrite_task
    BY <1>0, <1>4, IdleSerial DEF rewrite_task
  <1> QED  BY <1>1, <1>2, <1>3, <1>4 DEF Next

\* One handler at a time, the plan of the handler and the books of the outbox agree
\* (process_outbox, ingest_simulated_dispatch_callback, decide_task).
THEOREM SerialInvariant ==
  ASSUME OneAtATime  PROVE Spec => []SerialInductive
  <1>1. SerialInductive /\ [Next]_vars => SerialInductive'
    BY StepSerial
  <1> QED  BY <1>1, InitSerial, PTL DEF Spec

\* One handler at a time, callbacks recorded as in order get newer, the count shown is
\* the number stored, and the gateway is given a message once, as long as no handler
\* fails (_dispatch_outbox_message, _record_dispatch_callback).
THEOREM DeliveryAccounted ==
  ASSUME OneAtATime  PROVE Spec => []DeliveryIsAccounted
  <1>1. SerialInductive => DeliveryIsAccounted
    <2> SUFFICES ASSUME SerialInductive  PROVE DeliveryIsAccounted
      OBVIOUS
    <2>1. InOrderIncreases
      BY DEF SerialInductive
    <2>2. CountIsAccurate
      <3> SUFFICES ASSUME Quiet, crashes = 0, NEW m \in Messages
                   PROVE  outbox[m].callback_count = Len(callbacks[m])
        BY DEF CountIsAccurate
      <3>1. ~ToCount(m)
        BY DEF Quiet, Idle, ToCount
      <3> QED  BY <3>1 DEF SerialInductive, Accounted
    <2>3. DispatchedOnce
      <3> SUFFICES ASSUME crashes = 0, NEW m \in Messages  PROVE accepted[m] <= 1
        BY DEF DispatchedOnce
      <3>1. accepted[m] = 0 \/ accepted[m] = 1
        BY DEF SerialInductive, Accounted
      <3> QED  BY <3>1
    <2> QED  BY <2>1, <2>2, <2>3 DEF DeliveryIsAccounted, CallbacksAccounted
  <1> QED  BY <1>1, SerialInvariant, PTL


-----------------------------------------------------------------------------
(***************************************************************************)
(* The promise, step by step.                                              *)
(***************************************************************************)
LEMMA InitPromise == Init => Promise!Init
  <1> SUFFICES ASSUME Init  PROVE Promise!Init
    OBVIOUS
  <1>1. \A m \in Messages : PromiseOf(outbox[m]) = "none" /\ Receipts(m) = {}
    BY DEF Init, PromiseOf, Blank, Row, Receipts
  <1> QED  BY <1>1 DEF Promise!Init, PromisedStates, PromisedReceipts

\* What touches neither rows nor callbacks is a stutter of the promise.
LEMMA PromiseStutters ==
  ASSUME \A m \in Messages : PromiseOf(outbox[m])' = PromiseOf(outbox[m])
                             /\ Receipts(m)' = Receipts(m)
  PROVE  UNCHANGED Promise!vars
  BY DEF Promise!vars, PromisedStates, PromisedReceipts

\* One message moves on, nothing is received.
LEMMA PromiseMoves ==
  ASSUME NEW m \in Messages, NEW from, NEW to,
         PromiseOf(outbox[m]) = from, PromiseOf(outbox[m])' = to,
         \A k \in Messages : k # m => PromiseOf(outbox[k])' = PromiseOf(outbox[k]),
         callbacks' = callbacks
  PROVE  Promise!Move(m, from, to)
  <1>1. \A k \in Messages : Receipts(k)' = Receipts(k)
    BY DEF Receipts
  <1>2. PromisedReceipts' = PromisedReceipts
    BY <1>1 DEF PromisedReceipts
  <1>3. PromisedStates' = [PromisedStates EXCEPT ![m] = to] /\ PromisedStates[m] = from
    BY DEF PromisedStates
  <1> QED  BY <1>2, <1>3 DEF Promise!Move

LEMMA DecidePromise ==
  ASSUME Inductive, NEW p \in Threads, decide_task(p)
  PROVE  Promise!Next
  <1>1. PICK m \in Messages :
          outbox[m] = Blank /\ outbox' = [outbox EXCEPT ![m] = Fresh] /\ callbacks' = callbacks
    BY DEF decide_task
  <1>2. outbox'[m] = Fresh /\ \A k \in Messages : k # m => outbox'[k] = outbox[k]
    BY <1>1 DEF Inductive, TypeOK
  <1>3. PromiseOf(outbox[m]) = "none" /\ PromiseOf(outbox[m])' = "queued"
    BY <1>1, <1>2 DEF PromiseOf, Blank, Fresh, Row
  <1>4. \A k \in Messages : k # m => PromiseOf(outbox[k])' = PromiseOf(outbox[k])
    BY <1>2 DEF PromiseOf
  <1>5. Promise!Move(m, "none", "queued")
    BY <1>1, <1>3, <1>4, PromiseMoves
  <1> QED  BY <1>5 DEF Promise!Next, Promise!Queue

\* A receipt comes in while its message is queued.
LEMMA InsertPromise ==
  ASSUME SerialInductive, NEW p \in Processes, insert_callback(p)
  PROVE  [Promise!Next]_(Promise!vars)
  <1> DEFINE s == Head(todo[p])
  <1>1. /\ todo[p] # <<>> /\ s.kind = "insert_callback" /\ CarriesCallback(s)
        /\ KeyOf(s) = s.callback.key /\ outbox' = outbox
        /\ callbacks' = callbacks
           \/ callbacks' = [callbacks EXCEPT ![s.message] = Append(@, s.callback)]
    BY DEF insert_callback, At, CarriesCallback, KeyOf
  <1>2. TypeOK /\ Planned /\ StepsOK
    BY DEF SerialInductive, Inductive
  <1>3. PICK m \in Messages : m = s.message /\ s \in Steps /\ Relies(s) /\ s = todo[p][1]
                              /\ 1 \in DOMAIN todo[p]
    BY <1>1, <1>2, HeadRelies, HeadStep
  <1>4. PICK c \in CallbackRecords :
          /\ c = s.callback /\ OwnKey(m, c.key)
          /\ c.key \in ExternalKeys \/ outbox[m].status = "pending"
    <2>1. StepOK(todo[p], 1)
      BY <1>2, <1>3 DEF StepsOK
    <2>2. OwnKey(m, s.callback.key)
      BY <1>1, <1>3, <2>1 DEF StepOK
    <2> QED  BY <1>1, <1>3, <2>2, StepFields DEF Relies
  <1>5. \A k \in Messages : PromiseOf(outbox[k])' = PromiseOf(outbox[k])
    BY <1>1 DEF PromiseOf
  <1>6. CASE callbacks' = callbacks
    <2>1. \A k \in Messages : Receipts(k)' = Receipts(k)
      BY <1>6 DEF Receipts
    <2> QED  BY <1>5, <2>1, PromiseStutters
  <1>7. CASE callbacks' = [callbacks EXCEPT ![m] = Append(callbacks[m], c)]
    <2>1. callbacks'[m] = Append(callbacks[m], c) /\ callbacks[m] \in Seq(CallbackRecords)
            /\ \A k \in Messages : k # m => callbacks'[k] = callbacks[k]
      BY <1>2, <1>7 DEF TypeOK
    <2>2. \A k \in Messages : k # m => Receipts(k)' = Receipts(k)
      BY <2>1 DEF Receipts
    <2>3. Receipts(m)' = Receipts(m) \cup {v \in {1, 2} : c.key = <<m, v>>}
      <3> DEFINE n == Len(callbacks[m])
      <3>1. /\ n \in Nat /\ DOMAIN callbacks'[m] = 1..(n + 1) /\ DOMAIN callbacks[m] = 1..n
            /\ callbacks'[m][n + 1] = c
            /\ \A l \in 1..n : callbacks'[m][l] = callbacks[m][l]
        BY <2>1
      <3> HIDE DEF n
      <3>2. \A l \in 1..(n + 1) : l \in 1..n \/ l = n + 1
        BY <3>1
      <3>3. n + 1 \in 1..(n + 1) /\ \A l \in 1..n : l \in 1..(n + 1)
        BY <3>1
      <3>4. ASSUME NEW v \in {1, 2}
            PROVE  (\E i \in DOMAIN callbacks'[m] : callbacks'[m][i].key = <<m, v>>)
                     <=> (\E i \in DOMAIN callbacks[m] : callbacks[m][i].key = <<m, v>>) \/ c.key = <<m, v>>
        BY <3>1, <3>2, <3>3
      <3> QED  BY <3>4 DEF Receipts
    <2>4. CASE \E v \in {1, 2} : c.key = <<m, v>>
      <3>1. PICK v \in {1, 2} : c.key = <<m, v>>
        BY <2>4
      <3>2. {w \in {1, 2} : c.key = <<m, w>>} = {v}
        BY <3>1
      <3>3. outbox[m].status = "pending"
        <4>1. c.key \in Messages \X {1, 2}
          BY <3>1
        <4>2. c.key \notin ExternalKeys
          BY <4>1, CallbacksAssumption
        <4> QED  BY <1>4, <4>2
      <3>4. PromisedStates[m] = "queued" /\ PromisedStates' = PromisedStates
        BY <1>5, <3>3 DEF PromisedStates, PromiseOf
      <3>5. PromisedReceipts' = [PromisedReceipts EXCEPT ![m] = @ \cup {v}]
        BY <2>2, <2>3, <3>2 DEF PromisedReceipts
      <3>6. Promise!Receive(m)
        BY <3>4, <3>5 DEF Promise!Receive
      <3> QED  BY <3>6 DEF Promise!Next
    <2>5. CASE ~ \E v \in {1, 2} : c.key = <<m, v>>
      <3>1. \A k \in Messages : Receipts(k)' = Receipts(k)
        BY <2>2, <2>3, <2>5
      <3> QED  BY <1>5, <3>1, PromiseStutters
    <2> QED  BY <2>4, <2>5
  <1> QED  BY <1>1, <1>3, <1>4, <1>6, <1>7

\* A row that is saved leaves its message as it was settled, or settles it with the
\* receipts its status needs.
LEMMA SavePromise ==
  ASSUME SerialInductive, NEW p \in Processes, save_outbox_message(p)
  PROVE  [Promise!Next]_(Promise!vars)
  <1> DEFINE s == Head(todo[p])
  <1>1. /\ todo[p] # <<>> /\ s.kind = "save" /\ callbacks' = callbacks
        /\ outbox' = [outbox EXCEPT ![s.message] = s.row]
    BY DEF save_outbox_message, At
  <1>2. TypeOK /\ Planned /\ StepsOK
    BY DEF SerialInductive, Inductive
  <1>3. PICK m \in Messages : m = s.message /\ s \in Steps /\ Relies(s) /\ s = todo[p][1]
                              /\ 1 \in DOMAIN todo[p]
    BY <1>1, <1>2, HeadRelies, HeadStep
  <1>4. PICK row \in Rows :
          /\ row = s.row /\ outbox[m].status \in {"pending", row.status}
          /\ Needed(row.status) \subseteq Receipts(m)
    <2>1. StepOK(todo[p], 1)
      BY <1>2, <1>3 DEF StepsOK
    <2> QED  BY <1>1, <1>3, <2>1, StepFields DEF Relies, StepOK
  <1>5. outbox'[m] = row /\ \A k \in Messages : k # m => outbox'[k] = outbox[k]
    BY <1>1, <1>2, <1>3, <1>4 DEF TypeOK
  <1>6. \A k \in Messages : k # m => PromiseOf(outbox[k])' = PromiseOf(outbox[k])
    BY <1>5 DEF PromiseOf
  <1>7. CASE outbox[m].status = row.status
    <2>1. \A k \in Messages : PromiseOf(outbox[k])' = PromiseOf(outbox[k])
      BY <1>5, <1>6, <1>7 DEF PromiseOf
    <2>2. \A k \in Messages : Receipts(k)' = Receipts(k)
      BY <1>1 DEF Receipts
    <2> QED  BY <2>1, <2>2, PromiseStutters
  <1>8. CASE outbox[m].status = "pending" /\ row.status # "pending"
    <2>1. PromiseOf(outbox[m]) = "queued"
      BY <1>8 DEF PromiseOf
    <2>2. ASSUME NEW to, PromiseOf(row) = to  PROVE Promise!Move(m, "queued", to)
      <3>1. PromiseOf(outbox[m])' = to
        BY <1>5, <2>2 DEF PromiseOf
      <3> QED  BY <1>1, <1>6, <2>1, <3>1, PromiseMoves
    <2>3. PromisedReceipts[m] = Receipts(m)
      BY DEF PromisedReceipts
    <2>4. CASE row.status \in {"failed", "manual_takeover"}
      <3>1. PromiseOf(row) = "refused"
        BY <2>4 DEF PromiseOf
      <3> QED  BY <2>2, <3>1 DEF Promise!Next, Promise!Refuse
    <2>5. CASE row.status = "partially_sent"
      <3>1. PromiseOf(row) = "partially_sent" /\ 1 \in Receipts(m)
        BY <1>4, <2>5 DEF PromiseOf, Needed
      <3> QED  BY <2>2, <2>3, <3>1 DEF Promise!Next, Promise!SendPartially
    <2>6. CASE row.status = "sent"
      <3>1. PromiseOf(row) = "sent" /\ {1, 2} \subseteq Receipts(m)
        BY <1>4, <2>6 DEF PromiseOf, Needed
      <3> QED  BY <2>2, <2>3, <3>1 DEF Promise!Next, Promise!Send
    <2>7. row.status \in OutboxStatus
      BY DEF Rows
    <2> QED  BY <1>8, <2>4, <2>5, <2>6, <2>7 DEF OutboxStatus
  <1> QED  BY <1>4, <1>7, <1>8

LEMMA StepPromise ==
  ASSUME SerialInductive, [Next]_vars
  PROVE  [Promise!Next]_(Promise!vars)
  <1>1. ASSUME UNCHANGED <<outbox, callbacks>>  PROVE UNCHANGED Promise!vars
    <2>1. \A k \in Messages : PromiseOf(outbox[k])' = PromiseOf(outbox[k])
                              /\ Receipts(k)' = Receipts(k)
      BY <1>1 DEF PromiseOf, Receipts
    <2> QED  BY <2>1, PromiseStutters
  <1>2. CASE UNCHANGED vars
    BY <1>1, <1>2 DEF vars
  <1>3. ASSUME NEW p \in Threads, decide_task(p)  PROVE Promise!Next
    BY <1>3, DecidePromise DEF SerialInductive
  <1>4. ASSUME NEW p \in Threads, ingest_simulated_dispatch_callback(p)  PROVE UNCHANGED Promise!vars
    BY <1>1, <1>4 DEF ingest_simulated_dispatch_callback
  <1>5. ASSUME NEW p \in Processes, process_outbox(p) \/ crash(p)  PROVE UNCHANGED Promise!vars
    BY <1>1, <1>5 DEF process_outbox, crash
  <1>6. ASSUME NEW p \in Processes, Step(p)  PROVE [Promise!Next]_(Promise!vars)
    <2>1. CASE insert_callback(p)
      BY <2>1, InsertPromise
    <2>2. CASE save_outbox_message(p)
      BY <2>2, SavePromise
    <2>3. CASE Dispatch(p) \/ read_callback(p) \/ count_callbacks(p) \/ recount_callbacks(p)
      BY <1>1, <2>3 DEF Dispatch, dispatch_settled, dispatch_mismatch, dispatch_disabled,
         dispatch_timeout, dispatch_answered, read_callback, count_callbacks, recount_callbacks
    <2> QED  BY <1>6, <2>1, <2>2, <2>3 DEF Step
  <1>7. CASE rewrite_task
    BY <1>1, <1>7 DEF rewrite_task
  <1> QED  BY <1>2, <1>3, <1>4, <1>5, <1>6, <1>7 DEF Next

\* One handler at a time, the outbox implements the promise: a message is queued once,
\* its receipts come in while it is queued, and what it was settled as it stays
\* (decide_task, _dispatch_outbox_message, save_outbox_message).
THEOREM PromiseKept ==
  ASSUME OneAtATime  PROVE Spec => KeepsPromise
  <1>1. SerialInductive /\ [Next]_vars => [Promise!Next]_(Promise!vars)
    BY StepPromise
  <1> QED  BY <1>1, InitPromise, SerialInvariant, PTL DEF Spec, KeepsPromise, Promise!Spec
=============================================================================
