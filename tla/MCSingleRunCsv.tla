--------------------------- MODULE MCSingleRunCsv --------------------------
(* Runs of at most four acquisitions at ticks 0 to 6 of a run cut off at 5.  A
   hole is more than one tick and a log interval three, so that a hole can hide
   in an acquisition that is not logged. *)
EXTENDS SingleRunCsv
=============================================================================
