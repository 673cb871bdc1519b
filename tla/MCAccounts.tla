----------------------------- MODULE MCAccounts ------------------------------
(* Instance of Accounts for TLC: two users, who may want the same email.     *)
EXTENDS Accounts
=============================================================================
