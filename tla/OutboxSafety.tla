---------------------------- MODULE OutboxSafety ----------------------------
(***************************************************************************)
(* What the dispatch of messages promises.                                 *)
(***************************************************************************)
EXTENDS OutboxDispatch

Rows ==
  [status : OutboxStatus,
   last_error : {"none", "hash_mismatch", "gateway_disabled", "timeout", "rejected"},
   callback_count : Nat]
Keys == (Messages \X {1, 2}) \cup ExternalKeys
CallbackRecords ==
  [key : Keys, version : Versions \cup {1, 2}, sequence : {"in_order", "out_of_order"}]

Steps ==
  [kind : {"dispatch"}, message : Messages, row : Rows,
   scenario : Scenarios \cup {"normal"}]
  \cup [kind : {"read_callback"}, message : Messages, version : Versions \cup {1, 2}, key : Keys]
  \cup [kind : {"insert_callback"}, message : Messages, callback : CallbackRecords]
  \cup [kind : {"count"}, message : Messages, row : Rows]
  \cup [kind : {"recount"}, message : Messages]
  \cup [kind : {"save"}, message : Messages, row : Rows]

\* Type invariant of the outbox, the callbacks and the work under way.
TypeOK ==
  /\ outbox \in [Messages -> Rows \cup {Blank}]
  /\ callbacks \in [Messages -> Seq(CallbackRecords)]
  /\ approved \subseteq Messages
  /\ accepted \in [Messages -> 0..2]
  /\ production \in BOOLEAN
  /\ crashes \in 0..MaxCrashes
  /\ todo \in [Processes -> Seq(Steps)]

-----------------------------------------------------------------------------
\* Gateway callbacks of m on record, by version.
Receipts(m) == {v \in {1, 2} : \E i \in DOMAIN callbacks[m] : callbacks[m][i].key = <<m, v>>}

Needed(status) ==
  CASE status = "sent"           -> {1, 2}
    [] status = "partially_sent" -> {1}
    [] OTHER                     -> {}

\* A message whose row says it was sent has the gateway's receipts on record,
\* whoever dispatched it, wherever a dispatcher failed and however many raced
\* (_dispatch_outbox_message records the callbacks before it settles).
SentHasReceipt == \A m \in Messages : Needed(outbox[m].status) \subseteq Receipts(m)

\* "Duplicate callbacks are merged": no idempotency key is on record twice,
\* also when two dispatchers record the same answer at once.
CallbacksMergedByKey ==
  \A m, n \in Messages : \A i \in DOMAIN callbacks[m], j \in DOMAIN callbacks[n] :
    callbacks[m][i].key = callbacks[n][j].key => m = n /\ i = j

\* One handler at a time: a callback recorded as in order is newer than every
\* callback recorded before it (_record_dispatch_callback).
InOrderIncreases ==
  \A m \in Messages : \A i, j \in DOMAIN callbacks[m] :
    i < j /\ callbacks[m][j].sequence = "in_order" =>
      callbacks[m][i].version < callbacks[m][j].version

Quiet == \A p \in Processes : Idle(p)

\* Between handlers that did not fail, the callback count the operator sees on
\* a message (and the metric api.py sums up) is the number of callbacks stored.
CountIsAccurate ==
  Quiet /\ crashes = 0 =>
    \A m \in Messages : outbox[m].callback_count = Len(callbacks[m])

\* The callbacks on record and the row agree on what the gateway reported and
\* in which order (_record_dispatch_callback, _dispatch_outbox_message).
CallbacksAccounted == InOrderIncreases /\ CountIsAccurate

\* "A task version is dispatched only once": as long as no handler fails after
\* the gateway took the message, one handler at a time hands it over once,
\* whatever the gateway answers and whoever calls back meanwhile.
DispatchedOnce == crashes = 0 => \A m \in Messages : accepted[m] <= 1

\* What the gateway was given and what it reported are on record as they were
\* (_dispatch_outbox_message, _record_dispatch_callback).
DeliveryIsAccounted == CallbacksAccounted /\ DispatchedOnce

-----------------------------------------------------------------------------
\* One handler at a time, the outbox implements the promise.
PromiseOf(row) ==
  CASE row.status = "absent"  -> "none"
    [] row.status = "pending" -> "queued"
    [] row.status \in {"failed", "manual_takeover"} -> "refused"
    [] OTHER -> row.status

PromisedStates == [m \in Messages |-> PromiseOf(outbox[m])]
PromisedReceipts == [m \in Messages |-> Receipts(m)]

Promise == INSTANCE DispatchPromise WITH state <- PromisedStates, receipts <- PromisedReceipts

\* Nothing a handler does, or leaves undone when it fails, breaks the promise:
\* a settled message stays as it was settled (process_outbox, ingest).
KeepsPromise == Promise!Spec

\* The worker processes every message sooner or later, although clients may
\* put it back into the queue, handlers fail and the batch is limited.
QueuedIsProcessed ==
  \A m \in Messages : outbox[m].status = "pending" ~> outbox[m].status # "pending"

-----------------------------------------------------------------------------
(***************************************************************************)
(* The inductive strengthening: what a process still has to do.            *)
(***************************************************************************)
CarriesCallback(s) == s.kind \in {"read_callback", "insert_callback"}
KeyOf(s) == IF s.kind = "read_callback" THEN s.key ELSE s.callback.key

\* A gateway key belongs to the message it names.
OwnKey(m, key) == \A n \in Messages, v \in {1, 2} : key = <<n, v>> => n = m

\* Before step i of q, receipt v of m will have been recorded.
Coming(q, i, m, v) ==
  \E j \in 1..(i - 1) :
    CarriesCallback(q[j]) /\ q[j].message = m /\ KeyOf(q[j]) = <<m, v>>

StepOK(q, i) ==
  LET m == q[i].message
  IN  /\ q[i].kind = "save" => Needed(q[i].row.status) \subseteq Receipts(m)
      /\ q[i].kind = "count" =>
           \A v \in Needed(q[i].row.status) : v \in Receipts(m) \/ Coming(q, i, m, v)
      /\ q[i].kind = "recount" => outbox[m] # Blank
      /\ CarriesCallback(q[i]) => OwnKey(m, KeyOf(q[i]))

StepsOK == \A p \in Processes : \A i \in DOMAIN todo[p] : StepOK(todo[p], i)

KeysOwned == \A m \in Messages : \A i \in DOMAIN callbacks[m] : OwnKey(m, callbacks[m][i].key)

Inductive ==
  /\ TypeOK
  /\ StepsOK
  /\ KeysOwned
  /\ SentHasReceipt
  /\ CallbacksMergedByKey
-----------------------------------------------------------------------------
(***************************************************************************)
(* The strengthening where one handler runs at a time.                     *)
(***************************************************************************)
OneAtATime == Threads = {Worker}

Counts(s) == s.kind \in {"count", "recount"}

\* What a step relies on: nobody else writes the row it read or the callbacks it
\* saw, and a gateway callback comes while its message is pending.
Relies(s) ==
  LET m == s.message
  IN  /\ s.kind = "dispatch" => s.row = outbox[m]
      /\ s.kind = "count" => outbox[m].status = "pending" /\ IsSettled(s.row)
      /\ s.kind = "save" =>
           /\ outbox[m].status \in {"pending", s.row.status}
           /\ crashes = 0 => s.row.callback_count = Len(callbacks[m])
      /\ s.kind = "insert_callback" /\ s.callback.sequence = "in_order" =>
           \A n \in DOMAIN callbacks[m] : callbacks[m][n].version < s.callback.version
      /\ CarriesCallback(s) => KeyOf(s) \in ExternalKeys \/ outbox[m].status = "pending"

\* What was read a moment ago is used next, and after a callback the callbacks are
\* counted.
Immediate(s) == s.kind \in {"save", "insert_callback"}
Fits(q, i) ==
  /\ Relies(q[i])
  /\ Immediate(q[i]) => i = 1
  /\ CarriesCallback(q[i]) =>
       \E j \in (i + 1)..Len(q) : Counts(q[j]) /\ q[j].message = q[i].message

\* Of two steps for one message the first records a callback, and the message is
\* not dispatched again.
InSequence(q) ==
  \A i, j \in DOMAIN q : i < j /\ q[i].message = q[j].message =>
    CarriesCallback(q[i]) /\ q[j].kind # "dispatch"

Planned == \A p \in Processes :
  InSequence(todo[p]) /\ \A i \in DOMAIN todo[p] : Fits(todo[p], i)

\* A message whose callbacks are not counted will be, and one the gateway took is
\* settled or will be.
ToCount(m)  ==
  \E p \in Processes : \E i \in DOMAIN todo[p] :
    todo[p][i].message = m /\ (Counts(todo[p][i]) \/ todo[p][i].kind = "save")
ToSettle(m) ==
  \E p \in Processes : \E i \in DOMAIN todo[p] :
    /\ todo[p][i].message = m
    /\ todo[p][i].kind \in {"count", "save"} /\ IsSettled(todo[p][i].row)
Accounted(m) ==
  /\ outbox[m].callback_count = Len(callbacks[m]) \/ ToCount(m)
  /\ accepted[m] # 0 => accepted[m] = 1 /\ (IsSettled(outbox[m]) \/ ToSettle(m))

SerialInductive ==
  /\ Inductive
  /\ Planned
  /\ InOrderIncreases
  /\ crashes = 0 => \A m \in Messages : Accounted(m)
=============================================================================
