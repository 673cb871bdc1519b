--------------------------- MODULE MCOrderLifecycle --------------------------
(* Instance of OrderLifecycle for TLC: one order, two drivers who may both   *)
(* accept it, and up to three handlers at work on its rows.                  *)
EXTENDS OrderLifecycle
=============================================================================
