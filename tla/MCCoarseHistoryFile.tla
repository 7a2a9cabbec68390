------------------------ MODULE MCCoarseHistoryFile ------------------------
(* CoarseHistoryFile on a small instance: buckets of two samples, a ring of two
   buckets, two runs and two power losses. *)
EXTENDS CoarseHistoryFile
=============================================================================
