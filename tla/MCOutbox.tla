------------------------------ MODULE MCOutbox ------------------------------
(***************************************************************************)
(* Small instances of the dispatch of messages for TLC.                    *)
(***************************************************************************)
EXTENDS OutboxSafety

OneMessage == 1..1
TwoMessages == 1..2

AllScenarios ==
  {"normal", "timeout", "reject", "partial_success", "duplicate_callback", "out_of_order_callback"}
RaceScenarios == {"normal", "timeout", "reject"}
=============================================================================
