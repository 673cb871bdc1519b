----------------------------- MODULE MCPayments -----------------------------
(* Instance of Payments for TLC: one order, whose creation, notifications and *)
(* deletion overlap three at a time.                                          *)
EXTENDS Payments, TLC

CallerSymmetry == Permutations(Callers)
=============================================================================
