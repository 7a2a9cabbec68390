-------------------------- MODULE MCRunLogService --------------------------
(* Model-checking instance of RunLogService: small runs, crashes and faults. *)
EXTENDS RunLogService

CONSTANTS q1, q2
=============================================================================
