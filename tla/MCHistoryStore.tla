--------------------------- MODULE MCHistoryStore --------------------------
(* HistoryStore on a small instance: rings of three samples and two buckets. *)
EXTENDS HistoryStore
=============================================================================
