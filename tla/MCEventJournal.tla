--------------------------- MODULE MCEventJournal ---------------------------
(* Small instances of EventJournal: operations and markers are interchangeable. *)
EXTENDS EventJournal, TLC

Symmetric == Permutations(Op) \cup Permutations(Marker)
=============================================================================
