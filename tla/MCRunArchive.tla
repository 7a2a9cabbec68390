---------------------------- MODULE MCRunArchive ----------------------------
(* Model-checking instance of RunArchive: an arbitrary caller, two or three runs. *)
EXTENDS RunArchive, TLC

CONSTANTS q1, x1, x2

Symmetry == Permutations(Reading)
=============================================================================
