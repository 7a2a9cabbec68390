--------------------------- MODULE HistoryWindow ---------------------------
(***************************************************************************)
(* What lib/HistoryStore promises: of the current run, the newest raw      *)
(* samples and the newest finished buckets, each oldest first.             *)
(*                                                                         *)
(* A temperature is abstracted to whether it is finite.  A bucket is       *)
(* abstracted to the set of finite samples its average, minimum and        *)
(* maximum summarise, and to whether it carries a fault.                   *)
(***************************************************************************)
EXTENDS Integers, Sequences, FiniteSets

CONSTANTS
    RawCap,        \* RAW_HISTORY_CAPACITY
    CoarseCap,     \* COARSE_HISTORY_CAPACITY
    Resolution     \* COARSE_BUCKET_MS, in the unit of a sample's ms

ASSUME WindowAssumption == {RawCap, CoarseCap, Resolution} \subseteq Nat \ {0}

Reading == [runId : Nat, seq : Nat, ms : Nat, finite : BOOLEAN, fault : BOOLEAN]

Bucket == [ms : Nat, of : SUBSET Nat, fault : BOOLEAN]
CoarseSample == [runId : Nat, ms : Nat, of : SUBSET Nat, fault : BOOLEAN]

NoBucket == [open |-> FALSE, ms |-> 0, of |-> {}, fault |-> FALSE]

Empty(run) == [runId |-> run, raw |-> <<>>, coarse |-> <<>>, bucket |-> NoBucket]

Newest(n, s) == SubSeq(s, IF Len(s) > n THEN Len(s) - n + 1 ELSE 1, Len(s))

Slot(s) == (s.ms \div Resolution) * Resolution

(* finalizeBucket: the open bucket becomes the newest finished one. *)
Finalize(w) ==
    IF ~w.bucket.open THEN w
    ELSE [w EXCEPT
            !.coarse = Newest(CoarseCap, Append(@,
                [runId |-> w.runId, ms |-> w.bucket.ms, of |-> w.bucket.of,
                 fault |-> w.bucket.fault])),
            !.bucket = NoBucket]

Opened(w, s) ==
    [w EXCEPT !.bucket = [NoBucket EXCEPT !.open = TRUE, !.ms = Slot(s)]]

Accumulated(w, s) ==
    [w EXCEPT
        !.bucket.of = IF s.finite THEN @ \cup {s.seq} ELSE @,
        !.bucket.fault = @ \/ s.fault \/ ~s.finite]

(* The sample joins its bucket; a sample of a later bucket finishes the open
   one, a sample of an earlier bucket is kept out of the summaries. *)
Summarised(w, s) ==
    IF ~w.bucket.open THEN Accumulated(Opened(w, s), s)
    ELSE IF Slot(s) < w.bucket.ms THEN w
    ELSE IF Slot(s) = w.bucket.ms THEN Accumulated(w, s)
    ELSE Accumulated(Opened(Finalize(w), s), s)

(* push: an idle reading (run 0) leaves the window alone, one of another run
   empties it first. *)
Pushed(w, s) ==
    IF s.runId = 0 THEN w
    ELSE LET run == IF s.runId = w.runId THEN w ELSE Empty(s.runId)
         IN  Summarised([run EXCEPT !.raw = Newest(RawCap, Append(@, s))], s)

(* restoreCoarse: a bucket read back from the persisted file. *)
Restored(w, c) ==
    [w EXCEPT !.runId = c.runId, !.coarse = Newest(CoarseCap, Append(@, c))]

LatestRawSeq(w) == IF w.raw = <<>> THEN 0 ELSE w.raw[Len(w.raw)].seq

FirstN(n, s) == SubSeq(s, 1, IF Len(s) < n THEN Len(s) ELSE n)

(* copyRawAfter and copyCoarseFrom: a page, raw cursor exclusive, coarse
   cursor inclusive, both upper limits inclusive.  Entries are in order, so those
   wanted stand behind the ones before the cursor and end with the last in the limit. *)
RawPage(w, after, through, n) ==
    LET before == {i \in 1..Len(w.raw) : w.raw[i].seq <= after}
        within == {i \in 1..Len(w.raw) : w.raw[i].seq <= through}
    IN  FirstN(n, SubSeq(w.raw, Cardinality(before) + 1, Cardinality(within)))
CoarsePage(w, from, through, n) ==
    LET before == {i \in 1..Len(w.coarse) : w.coarse[i].ms < from}
        within == {i \in 1..Len(w.coarse) : w.coarse[i].ms <= through}
    IN  FirstN(n, SubSeq(w.coarse, Cardinality(before) + 1, Cardinality(within)))
=============================================================================
