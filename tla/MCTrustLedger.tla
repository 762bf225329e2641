---------------------------- MODULE MCTrustLedger ----------------------------
(* A ledger of up to five lines over three reports: an append after a torn   *)
(* line, a damage of either end and of the middle, an append after it.     *)
EXTENDS TrustLedger
=============================================================================
