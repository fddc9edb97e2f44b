--------------------------- MODULE DispatchPromise ---------------------------
(***************************************************************************)
(* What the outbox promises of each message, whatever the gateway does: it *)
(* is queued once, its receipts come in while it is queued, it is settled  *)
(* once and for all, and it counts as sent only with both receipts of the  *)
(* gateway (accepted and delivered) on record.                             *)
(***************************************************************************)
CONSTANT Messages

VARIABLES
  state,     \* none, queued, sent, partially_sent or refused
  receipts   \* gateway callback versions on record

vars == <<state, receipts>>

Init ==
  /\ state = [m \in Messages |-> "none"]
  /\ receipts = [m \in Messages |-> {}]

Move(m, from, to) ==
  /\ state[m] = from
  /\ state' = [state EXCEPT ![m] = to]
  /\ UNCHANGED receipts

Queue(m) == Move(m, "none", "queued")
Refuse(m) == Move(m, "queued", "refused")
SendPartially(m) == 1 \in receipts[m] /\ Move(m, "queued", "partially_sent")
Send(m) == {1, 2} \subseteq receipts[m] /\ Move(m, "queued", "sent")

Receive(m) ==
  /\ state[m] = "queued"
  /\ \E v \in {1, 2} : receipts' = [receipts EXCEPT ![m] = @ \cup {v}]
  /\ UNCHANGED state

Next ==
  \E m \in Messages : Queue(m) \/ Receive(m) \/ Send(m) \/ SendPartially(m) \/ Refuse(m)

Spec == Init /\ [][Next]_vars
=============================================================================
