---------------------------- MODULE HistoryStore ---------------------------
(***************************************************************************)
(* lib/HistoryStore/HistoryStore.cpp: the window kept in two fixed rings,  *)
(* driven by the run manager and the sampling tick as main.cpp drives it.  *)
(*                                                                         *)
(* Every call holds the store's guard from its first line to its last, so  *)
(* one call is one step.                                                   *)
(***************************************************************************)
EXTENDS HistoryWindow

CONSTANTS
    MaxRun,        \* bound: runs started
    MaxSeq,        \* bound: samples of a run
    MaxMs          \* bound: elapsed time of a run

ASSUME StoreAssumption == {MaxRun, MaxSeq, MaxMs} \subseteq Nat

VARIABLES
    raw, rawHead, rawSize,           \* the raw ring
    coarse, coarseHead, coarseSize,  \* the coarse ring
    currentRun,                      \* the run both rings belong to
    bucket,                          \* the bucket being accumulated
    call,                            \* the last call made
    run,                             \* RunManager: [id, active, seq, ms]
    taken                            \* history: the samples of currentRun

rawRing == <<raw, rawHead, rawSize>>
coarseRing == <<coarse, coarseHead, coarseSize>>
vars == <<rawRing, coarseRing, currentRun, bucket, call, run, taken>>

NoSample == [runId |-> 0, seq |-> 0, ms |-> 0, finite |-> FALSE, fault |-> FALSE]
NoCoarse == [runId |-> 0, ms |-> 0, of |-> {}, fault |-> FALSE]

(* Entry i of a ring, counted from the oldest. *)
OldestIsHead(head, size, cap) == head   \* mutant: ring taken for full
Oldest(head, size, cap) == (head + cap - size) % cap
RawAt(i) == raw[(Oldest(rawHead, rawSize, RawCap) + i) % RawCap]
CoarseAt(i) == coarse[(Oldest(coarseHead, coarseSize, CoarseCap) + i) % CoarseCap]

Window == [runId |-> currentRun,
           raw |-> [i \in 1..rawSize |-> RawAt(i - 1)],
           coarse |-> [i \in 1..coarseSize |-> CoarseAt(i - 1)],
           bucket |-> bucket]

Promise == INSTANCE HistoryPromise WITH hist <- Window

-----------------------------------------------------------------------------
Init ==
    /\ raw = [i \in 0..(RawCap - 1) |-> NoSample] /\ rawHead = 0 /\ rawSize = 0
    /\ coarse = [i \in 0..(CoarseCap - 1) |-> NoCoarse]
    /\ coarseHead = 0 /\ coarseSize = 0
    /\ currentRun = 0 /\ bucket = NoBucket
    /\ call = Promise!NoCall
    /\ run = [id |-> 0, active |-> FALSE, seq |-> 0, ms |-> 0]
    /\ taken = {}

Grown(size, cap) == IF size < cap THEN size + 1 ELSE size

(* One entry written at the head of the coarse ring. *)
PutCoarse(c) ==
    /\ coarse' = [coarse EXCEPT ![coarseHead] = c]
    /\ coarseHead' = (coarseHead + 1) % CoarseCap
    /\ coarseSize' = Grown(coarseSize, CoarseCap)

FinalizeBucket ==
    IF bucket.open
    THEN PutCoarse([runId |-> currentRun, ms |-> bucket.ms, of |-> bucket.of,
                    fault |-> bucket.fault])
    ELSE UNCHANGED coarseRing

Clear(r) ==
    /\ rawHead' = 0 /\ rawSize' = 0 /\ coarseHead' = 0 /\ coarseSize' = 0
    /\ UNCHANGED <<raw, coarse>>
    /\ currentRun' = r
    /\ bucket' = NoBucket
    /\ taken' = {}
    /\ call' = Promise!ClearCall(r)

(* The bucket a sample leaves open, given the one it finds. *)
JoinedLastFault(b, s) ==                \* mutant: the last reading's fault replaces the bucket's
    [b EXCEPT !.of = IF s.finite THEN @ \cup {s.seq} ELSE @,
              !.fault = s.fault \/ ~s.finite]
Joined(b, s) ==
    [b EXCEPT !.of = IF s.finite THEN @ \cup {s.seq} ELSE @,
              !.fault = @ \/ s.fault \/ ~s.finite]
Fresh(s) == [NoBucket EXCEPT !.open = TRUE, !.ms = Slot(s)]

(* push() of a sample of the run the rings hold.  A sample of an earlier bucket
   than the open one reaches the raw ring only. *)
PushCurrent(s) ==
    LET late == bucket.open /\ Slot(s) < bucket.ms
        turns == bucket.open /\ Slot(s) > bucket.ms
    IN  /\ raw' = [raw EXCEPT ![rawHead] = s]
        /\ rawHead' = (rawHead + 1) % RawCap
        /\ rawSize' = Grown(rawSize, RawCap)
        /\ taken' = taken \cup {s}
        /\ UNCHANGED currentRun
        /\ IF turns THEN FinalizeBucket ELSE UNCHANGED coarseRing
        /\ bucket' = IF late THEN bucket
                     ELSE Joined(IF bucket.open /\ ~turns THEN bucket ELSE Fresh(s), s)

(* push() of the first sample of a run the rings do not hold yet. *)
PushOther(s) ==
    /\ raw' = [raw EXCEPT ![0] = s]
    /\ rawHead' = 1 % RawCap /\ rawSize' = 1
    /\ coarseHead' = 0 /\ coarseSize' = 0 /\ UNCHANGED coarse
    /\ currentRun' = s.runId
    /\ taken' = {s}
    /\ bucket' = Joined(Fresh(s), s)

Push(s) ==
    /\ call' = Promise!PushCall(s)
    /\ \/ s.runId = 0 /\ UNCHANGED <<rawRing, coarseRing, currentRun, bucket, taken>>
       \/ s.runId # 0 /\ s.runId = currentRun /\ PushCurrent(s)
       \/ s.runId # 0 /\ s.runId # currentRun /\ PushOther(s)

Flush ==
    /\ ~run.active
    /\ call' = Promise!FlushCall
    /\ FinalizeBucket
    /\ bucket' = NoBucket
    /\ UNCHANGED <<rawRing, currentRun, run, taken>>

(* restoreCoarse, called at boot only, of the buckets of one saved run. *)
RestoreCoarse(c) ==
    /\ call.op \in {"none", "restore"}
    /\ c.runId # 0
    /\ run.id = 0 /\ ~bucket.open
    /\ currentRun \in {0, c.runId}
    /\ \A i \in 0..(coarseSize - 1) : CoarseAt(i).ms < c.ms
    /\ call' = Promise!RestoreCall(c)
    /\ PutCoarse(c)
    /\ currentRun' = c.runId
    /\ UNCHANGED <<rawRing, bucket, run, taken>>

-----------------------------------------------------------------------------
NextRunId == (IF run.id < currentRun THEN currentRun ELSE run.id) + 1

(* A command starts the next run: the manager counts from its first sample
   again and the rings are cleared for it. *)
StartRun ==
    /\ ~run.active /\ run.id < MaxRun
    /\ run' = [id |-> NextRunId, active |-> TRUE, seq |-> 0, ms |-> 0]
    /\ Clear(NextRunId)

(* push() does not rely on that: a sample of another run than the rings hold
   empties them itself. *)
StartRunUncleared ==
    /\ ~run.active /\ run.id < MaxRun
    /\ run' = [id |-> NextRunId, active |-> TRUE, seq |-> 0, ms |-> 0]
    /\ UNCHANGED <<rawRing, coarseRing, currentRun, bucket, call, taken>>

StopRun ==
    /\ run.active
    /\ run' = [run EXCEPT !.active = FALSE]
    /\ UNCHANGED <<rawRing, coarseRing, currentRun, bucket, call, taken>>

Sampled(id, seq, ms, r) ==
    [runId |-> id, seq |-> seq, ms |-> ms, finite |-> r.finite, fault |-> r.fault]

(* SensorService::tick: an idle reading belongs to no run; one taken while a
   run is active carries its next number and the time elapsed. *)
Tick ==
    \E r \in {[finite |-> TRUE, fault |-> FALSE], [finite |-> TRUE, fault |-> TRUE],
              [finite |-> FALSE, fault |-> TRUE]} :
       \/ /\ ~run.active /\ UNCHANGED run
          /\ Push(Sampled(0, 0, 0, r))
       \/ /\ run.active /\ run.seq < MaxSeq
          /\ \E ms \in (run.ms + 1)..MaxMs :
                /\ run' = [run EXCEPT !.seq = @ + 1, !.ms = ms]
                /\ Push(Sampled(run.id, run.seq + 1, ms, r))

Next ==
    \/ StartRun \/ StartRunUncleared \/ StopRun \/ Tick \/ Flush
    \/ \E c \in [runId : 1..MaxRun, ms : {0, Resolution}, of : {{}}, fault : BOOLEAN] :
          RestoreCoarse(c)

Spec == Init /\ [][Next]_vars

-----------------------------------------------------------------------------
(* The first ring position not in before, by the binary search of both copy
   operations; the positions in before come first. *)
LowerBound(size, before) ==
    LET Search[r \in (0..size) \X (0..size)] ==
            LET low == r[1]
                high == r[2]
                middle == low + (high - low) \div 2
            IN  IF low >= high THEN low
                ELSE IF middle \in before THEN Search[<<middle + 1, high>>]
                ELSE Search[<<low, middle>>]
    IN  Search[<<0, size>>]

(* The entries copied: from the bound, while the limit and the room allow. *)
Copied(low, entry, within, n) ==
    LET CanTake(i) == i < n /\ \A j \in 0..i : low + j \in within
        count == CHOOSE k \in 0..n : ~CanTake(k) /\ \A j \in 0..(k - 1) : CanTake(j)
    IN  [i \in 1..count |-> entry[low + i - 1]]

RawEntry == [i \in 0..(rawSize - 1) |-> RawAt(i)]
CoarseEntry == [i \in 0..(coarseSize - 1) |-> CoarseAt(i)]

CopyRawFrom(after, through, n) ==       \* mutant: inclusive cursor
    LET before == {i \in DOMAIN RawEntry : RawEntry[i].seq < after}
        within == {i \in DOMAIN RawEntry : RawEntry[i].seq <= through}
    IN  Copied(LowerBound(rawSize, before), RawEntry, within, n)
CopyRawAfter(after, through, n) ==
    LET before == {i \in DOMAIN RawEntry : RawEntry[i].seq <= after}
        within == {i \in DOMAIN RawEntry : RawEntry[i].seq <= through}
    IN  Copied(LowerBound(rawSize, before), RawEntry, within, n)

CopyCoarseFrom(from, through, n) ==
    LET before == {i \in DOMAIN CoarseEntry : CoarseEntry[i].ms < from}
        within == {i \in DOMAIN CoarseEntry : CoarseEntry[i].ms <= through}
    IN  Copied(LowerBound(coarseSize, before), CoarseEntry, within, n)

-----------------------------------------------------------------------------
Slots == {k * Resolution : k \in 0..(MaxMs \div Resolution)}

(* The rings are the window: every call of HistoryStore leaves in them exactly
   what the same call leaves in an unbounded list cut to its newest entries,
   whatever the heads have wrapped over. *)
RingsKeepTheWindow == Promise!PromiseSpec

(* What replay reads in pages is what it asked for: the binary search and the
   early stop of copyRawAfter and copyCoarseFrom return the entries of the
   window inside the limits, from the first, none skipped and none twice. *)
PagesAreExact ==
    LET w == Window
    IN  \A n \in 1..RawCap :
          /\ \A after, through \in 0..run.seq :
                CopyRawAfter(after, through, n) = RawPage(w, after, through, n)
          /\ \A from, to \in Slots :
                CopyCoarseFrom(from, to, n) = CoarsePage(w, from, to, n)

(* No reading is lost on its way from the samples to the buckets, or counted twice.
   A finished bucket of samples stands for the finite readings of its interval,
   all of them and no other, and shows a fault exactly when one of the
   interval's readings had one: a bucket is finished once, and only when no
   sample of it can follow. And none falls in between: a sample the raw ring has
   dropped is in the open bucket, in a finished one, or older than the oldest
   bucket the coarse ring still holds. *)
FinishedAreWhole ==
    run.id = currentRun /\ currentRun # 0 =>
    \A i \in 1..coarseSize :
       LET c == Window.coarse[i]
           inside == {s \in taken : Slot(s) = c.ms}
       IN  /\ c.runId = currentRun
           /\ c.of = {s.seq : s \in {t \in inside : t.finite}}
           /\ c.fault = \E s \in inside : s.fault
NothingBetween ==
    \A s \in taken :
       \/ \E i \in 1..rawSize : Window.raw[i] = s
       \/ bucket.open /\ Slot(s) = bucket.ms
       \/ \E i \in 1..coarseSize : Window.coarse[i].ms = Slot(s)
       \/ coarseSize = CoarseCap /\ \A i \in 1..coarseSize : Slot(s) < Window.coarse[i].ms
BucketsSummarise == FinishedAreWhole /\ NothingBetween
=============================================================================
