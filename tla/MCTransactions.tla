---------------------------- MODULE MCTransactions ---------------------------
(* Model-checking instance of ResultTransactions. *)
EXTENDS ResultTransactions
=============================================================================
