----------------------------- MODULE HistoryProofs -------------------------
(***************************************************************************)
(* Proofs about the temperature history, in RAM and in the monitor's file, *)
(* for rings of every size, every resolution and every run.                *)
(*                                                                         *)
(* HistoryStore: the rings hold the window that HistoryPromise describes,  *)
(* their pages are exact, and the buckets summarise the samples of the     *)
(* run.  CoarseHistoryFile (from the definition of Windows on): whatever   *)
(* power losses and failing writes there are, what was appended is read    *)
(* back, and what is read back was measured and stands in order.           *)
(***************************************************************************)
EXTENDS HistoryStore, CoarseHistoryFile, FiniteSetTheorems, NaturalsInduction,
        WellFoundedInduction, TLAPS

BucketRecord == [open : BOOLEAN, ms : Nat, of : SUBSET Nat, fault : BOOLEAN]

RingTypeOK ==
    /\ raw \in [0..(RawCap - 1) -> Reading]
    /\ rawHead \in 0..(RawCap - 1) /\ rawSize \in 0..RawCap
    /\ coarse \in [0..(CoarseCap - 1) -> CoarseSample]
    /\ coarseHead \in 0..(CoarseCap - 1) /\ coarseSize \in 0..CoarseCap
RunTypeOK ==
    /\ currentRun \in Nat
    /\ bucket \in BucketRecord
    /\ run \in [id : Nat, active : BOOLEAN, seq : Nat, ms : Nat]
    /\ taken \in SUBSET Reading

(* No bucket is open but one that holds a sample. *)
Closed == ~bucket.open => bucket = NoBucket
TypeInv == RingTypeOK /\ RunTypeOK /\ Closed

(* Entry i of a ring, counted from the oldest, and the entries in order. *)
At(head, size, cap, i) == (Oldest(head, size, cap) + i) % cap
Listed(f, head, size, cap) == [i \in 1..size |-> f[At(head, size, cap, i - 1)]]

(* The samples kept and the finished buckets, oldest first. *)
RawList == Listed(raw, rawHead, rawSize, RawCap)
Done == Listed(coarse, coarseHead, coarseSize, CoarseCap)

(* The rings belong to the run being sampled. *)
InRun == run.id = currentRun /\ currentRun # 0

(* Runs are numbered upwards, and a run that never started has no samples. *)
Numbered ==
    /\ run.id # 0 => currentRun <= run.id
    /\ run.id = 0 => taken = {} /\ ~run.active /\ ~bucket.open

Rising == \A i, j \in 1..coarseSize : i < j => Done[i].ms < Done[j].ms
Below(ms) == \A i \in 1..coarseSize : Done[i].ms < ms

(* Buckets follow each other in time, the open one last. *)
Ascending ==
    /\ Rising
    /\ bucket.open => Below(bucket.ms)

(* The open bucket is that of the latest sample of the run. *)
Sampling ==
    /\ \A s \in taken : ~s.finite => s.fault
    /\ InRun => \A s \in taken : s.ms <= run.ms
    /\ InRun /\ bucket.open => \E s \in taken : Slot(s) = bucket.ms
    /\ InRun /\ run.active /\ ~bucket.open => taken = {} /\ coarseSize = 0

(* No sample falls between the buckets. *)
Filed(ms) ==
    \/ \E i \in 1..coarseSize : Done[i].ms = ms
    \/ coarseSize = CoarseCap /\ \A i \in 1..coarseSize : ms < Done[i].ms
Placed == \A s \in taken : (bucket.open /\ Slot(s) = bucket.ms) \/ Filed(Slot(s))

(* A bucket stands for the samples T of its interval. *)
Finite(T, ms) == {s.seq : s \in {t \in T : t.finite /\ Slot(t) = ms}}
Faulty(T, ms) == \E s \in T : Slot(s) = ms /\ s.fault
Whole(T, b) == b.of = Finite(T, b.ms) /\ (b.fault <=> Faulty(T, b.ms))
FinishedWhole == \A i \in 1..coarseSize : Done[i].runId = currentRun /\ Whole(taken, Done[i])
OpenWhole == bucket.open => Whole(taken, bucket)

(* The inductive invariant. *)
Rest == /\ Numbered /\ Ascending /\ Sampling /\ Placed
        /\ (InRun => FinishedWhole /\ OpenWhole)
HInv == TypeInv /\ Rest

-----------------------------------------------------------------------------
(* A later sample is never of an earlier bucket. *)
LEMMA SlotGrows ==
    ASSUME NEW s \in Reading, NEW t \in Reading
    PROVE  /\ Slot(s) \in Nat
           /\ s.ms <= t.ms => Slot(s) <= Slot(t)
<1>1. PICK R \in Nat \ {0} : R = Resolution BY WindowAssumption
<1>2. s.ms \in Nat /\ t.ms \in Nat BY DEF Reading
<1>3. PICK a \in Nat, b \in Nat : a = s.ms \div R /\ b = t.ms \div R BY <1>2
<1>4. /\ a * R \in Nat /\ b * R \in Nat
      /\ a * R <= s.ms /\ t.ms < b * R + R
  BY <1>2, <1>3
<1>5. s.ms <= t.ms => a * R <= b * R
  <2> SUFFICES ASSUME s.ms <= t.ms, b + 1 <= a PROVE FALSE
    <3>1. a <= b \/ b + 1 <= a OBVIOUS
    <3>2. a <= b => a * R <= b * R OBVIOUS
    <3>3. QED BY <3>1, <3>2
  <2>1. (b + 1) * R <= a * R OBVIOUS
  <2>2. (b + 1) * R = b * R + R OBVIOUS
  <2>3. QED BY <1>2, <1>4, <2>1, <2>2
<1>6. Slot(s) = a * R /\ Slot(t) = b * R BY <1>1, <1>3 DEF Slot
<1>7. QED BY <1>4, <1>5, <1>6

-----------------------------------------------------------------------------
(* What is below the capacity of a ring is its own remainder. *)
LEMMA Wraps ==
    ASSUME NEW n \in Nat \ {0}, NEW a \in 0..(2 * n - 1)
    PROVE  a % n = (IF a < n THEN a ELSE a - n)
<1>1. CASE a < n BY <1>1
<1>2. CASE a >= n
  <2>1. a = n + (a - n) /\ a - n \in 0..(n - 1) BY <1>2
  <2>2. a % n = (a - n) % n BY <2>1
  <2>3. QED BY <1>2, <2>1, <2>2
<1>3. QED BY <1>1, <1>2

(* The place of entry i: size - i places behind the head, around the end. *)
LEMMA PlaceIs ==
    ASSUME NEW cap \in Nat \ {0}, NEW head \in 0..(cap - 1), NEW size \in 0..cap,
           NEW i \in 0..(size - 1)
    PROVE  /\ At(head, size, cap, i) \in 0..(cap - 1)
           /\ \/ At(head, size, cap, i) = head - size + i
              \/ At(head, size, cap, i) = head - size + i + cap
<1>1. PICK o \in 0..(cap - 1) : /\ o = Oldest(head, size, cap)
                                /\ o = (IF head - size >= 0 THEN head - size ELSE head - size + cap)
  <2>1. head + cap - size \in 0..(2 * cap - 1) OBVIOUS
  <2>2. (head + cap - size) % cap = (IF head + cap - size < cap THEN head + cap - size
                                                              ELSE head + cap - size - cap)
    BY <2>1, Wraps
  <2>3. QED BY <2>2 DEF Oldest
<1>2. PICK p \in 0..(2 * cap - 1) : p = o + i OBVIOUS
<1>3. p % cap = (IF p < cap THEN p ELSE p - cap) BY Wraps
<1>4. At(head, size, cap, i) = p % cap BY <1>1, <1>2 DEF At
<1>5. QED BY <1>1, <1>2, <1>3, <1>4

(* A list not yet full gets one entry longer. *)
LEMMA NewestAdds ==
    ASSUME NEW S, NEW q \in Seq(S), NEW x \in S, NEW cap \in Nat \ {0}, NEW n \in Nat,
           n = Len(q), n < cap, NEW p \in Seq(S), Len(p) = n + 1,
           p[n + 1] = x, \A i \in 1..n : p[i] = q[i]
    PROVE  p = Newest(cap, Append(q, x))
<1> PICK a : a = Append(q, x) OBVIOUS
<1>1. /\ a \in Seq(S) /\ Len(a) = n + 1 /\ a[n + 1] = x /\ \A i \in 1..n : a[i] = q[i]
  OBVIOUS
<1>2. ~(n + 1 > cap) OBVIOUS
<1>3. Newest(cap, a) = SubSeq(a, 1, n + 1) BY <1>1, <1>2 DEF Newest
<1>4. SubSeq(a, 1, n + 1) = a BY <1>1
<1>6. \A i \in 1..(n + 1) : i \in 1..n \/ i = n + 1 OBVIOUS
<1>7. \A i \in 1..(n + 1) : a[i] = p[i] BY <1>1, <1>6
<1>8. a = p BY <1>1, <1>7
<1>9. QED BY <1>3, <1>4, <1>8

(* A full list forgets its first entry. *)
LEMMA NewestShifts ==
    ASSUME NEW S, NEW q \in Seq(S), NEW x \in S, NEW cap \in Nat \ {0}, cap = Len(q),
           NEW p \in Seq(S), Len(p) = cap,
           p[cap] = x, \A i \in 1..(cap - 1) : p[i] = q[i + 1]
    PROVE  p = Newest(cap, Append(q, x))
<1> PICK a : a = Append(q, x) OBVIOUS
<1>1. /\ a \in Seq(S) /\ Len(a) = cap + 1 /\ a[cap + 1] = x /\ \A i \in 1..cap : a[i] = q[i]
  OBVIOUS
<1>2. cap + 1 > cap /\ (cap + 1) - cap + 1 = 2 OBVIOUS
<1>3. Newest(cap, a) = SubSeq(a, 2, cap + 1) BY <1>1, <1>2 DEF Newest
<1>4. SubSeq(a, 2, cap + 1) \in Seq(S) /\ Len(SubSeq(a, 2, cap + 1)) = cap BY <1>1
<1>5. \A i \in 1..cap : SubSeq(a, 2, cap + 1)[i] = a[i + 1] BY <1>1
<1>6. \A i \in 1..cap : (i \in 1..(cap - 1) /\ i + 1 \in 1..cap) \/ i = cap OBVIOUS
<1>7. \A i \in 1..cap : a[i + 1] = p[i]
  <2>1. \A i \in 1..(cap - 1) : i + 1 \in 1..cap => a[i + 1] = p[i] BY <1>1
  <2>2. a[cap + 1] = p[cap] BY <1>1
  <2>3. QED BY <1>6, <2>1, <2>2
<1>8. SubSeq(a, 2, cap + 1) = p BY <1>4, <1>5, <1>7
<1>9. QED BY <1>3, <1>8

(* x is written at the head of the ring f, which becomes g: the head moves on,
   around the end, and the ring grows unless it is full. *)
PutAt(S, cap, f, g, x, head, size, h, z) ==
    /\ cap \in Nat \ {0} /\ f \in [0..(cap - 1) -> S] /\ g \in [0..(cap - 1) -> S] /\ x \in S
    /\ head \in 0..(cap - 1) /\ size \in 0..cap /\ h \in 0..(cap - 1) /\ z \in 1..cap
    /\ h = head + 1 \/ h = head + 1 - cap
    /\ (size < cap /\ z = size + 1) \/ (size = cap /\ z = cap)
    /\ g[head] = x
    /\ \A m \in 0..(cap - 1) : m # head => g[m] = f[m]

(* One entry more: writing at the head of a ring appends to its list, and a full
   ring forgets its oldest entry. *)
LEMMA RingPut ==
    ASSUME NEW S, NEW cap, NEW f, NEW g, NEW x, NEW head, NEW size, NEW h, NEW z,
           PutAt(S, cap, f, g, x, head, size, h, z)
    PROVE  /\ Listed(f, head, size, cap) \in Seq(S) /\ Len(Listed(f, head, size, cap)) = size
           /\ Listed(g, h, z, cap) = Newest(cap, Append(Listed(f, head, size, cap), x))
<1> USE DEF PutAt
<1>0. cap \in Nat \ {0} /\ x \in S /\ size \in Nat OBVIOUS
<1> PICK q : q = Listed(f, head, size, cap) OBVIOUS
<1> PICK p : p = Listed(g, h, z, cap) OBVIOUS
<1>1. ASSUME NEW i \in 1..size, NEW k \in 0..(size - 1), k = i - 1
      PROVE  /\ q[i] = f[At(head, size, cap, k)] /\ At(head, size, cap, k) \in 0..(cap - 1)
             /\ \/ At(head, size, cap, k) = head - size + k
                \/ At(head, size, cap, k) = head - size + k + cap
  <2>1. q[i] = f[At(head, size, cap, k)] BY <1>1 DEF Listed
  <2>2. cap \in Nat \ {0} /\ head \in 0..(cap - 1) /\ size \in 0..cap /\ k \in 0..(size - 1)
    BY <1>1
  <2>3. /\ At(head, size, cap, k) \in 0..(cap - 1)
        /\ At(head, size, cap, k) = head - size + k \/ At(head, size, cap, k) = head - size + k + cap
    BY ONLY <2>2, PlaceIs
  <2>4. QED BY ONLY <2>1, <2>3
<1>2. ASSUME NEW i \in 1..z, NEW k \in 0..(z - 1), k = i - 1
      PROVE  /\ p[i] = g[At(h, z, cap, k)] /\ At(h, z, cap, k) \in 0..(cap - 1)
             /\ \/ At(h, z, cap, k) = h - z + k
                \/ At(h, z, cap, k) = h - z + k + cap
  <2>1. p[i] = g[At(h, z, cap, k)] BY <1>2 DEF Listed
  <2>2. cap \in Nat \ {0} /\ h \in 0..(cap - 1) /\ z \in 0..cap /\ k \in 0..(z - 1)
    BY <1>2
  <2>3. /\ At(h, z, cap, k) \in 0..(cap - 1)
        /\ At(h, z, cap, k) = h - z + k \/ At(h, z, cap, k) = h - z + k + cap
    BY ONLY <2>2, PlaceIs
  <2>4. QED BY ONLY <2>1, <2>3
<1>3. q \in Seq(S) /\ Len(q) = size
  <2>1. q = [i \in 1..size |-> q[i]] BY DEF Listed
  <2>2. \A i \in 1..size : q[i] \in S
    <3> TAKE i \in 1..size
    <3>1. PICK k \in 0..(size - 1) : k = i - 1 OBVIOUS
    <3>2. QED BY <1>1, <3>1, SMTT(60)
  <2>3. q \in [1..size -> S] /\ size \in Nat BY <2>1, <2>2
  <2>4. QED BY <2>3
<1>4. p \in Seq(S) /\ Len(p) = z
  <2>1. p = [i \in 1..z |-> p[i]] BY DEF Listed
  <2>2. \A i \in 1..z : p[i] \in S
    <3> TAKE i \in 1..z
    <3>1. PICK k \in 0..(z - 1) : k = i - 1 OBVIOUS
    <3>2. QED BY <1>2, <3>1, SMTT(60)
  <2>3. p \in [1..z -> S] /\ z \in Nat BY <2>1, <2>2
  <2>4. QED BY <2>3
<1>5. p[z] = x
  <2>1. PICK k \in 0..(z - 1) : k = z - 1 /\ z \in 1..z OBVIOUS
  <2>2. PICK e \in 0..(cap - 1) : p[z] = g[e] /\ (e = h - z + k \/ e = h - z + k + cap)
    BY <1>2, <2>1
  <2>3. e = head BY <2>1, <2>2
  <2>4. QED BY <2>2, <2>3
<1>6. ASSUME NEW i \in 1..z, i # z, NEW j \in 1..size,
             (size < cap /\ j = i) \/ (size = cap /\ j = i + 1)
      PROVE  p[i] = q[j]
  <2>1. PICK k \in 0..(z - 1) : k = i - 1 OBVIOUS
  <2>2. PICK m \in 0..(size - 1) : m = j - 1 OBVIOUS
  <2>3. PICK e \in 0..(cap - 1) : p[i] = g[e] /\ (e = h - z + k \/ e = h - z + k + cap)
    BY <1>2, <2>1
  <2>4. PICK d \in 0..(cap - 1) : q[j] = f[d] /\ (d = head - size + m \/ d = head - size + m + cap)
    BY <1>1, <2>2
  <2>5. e = d /\ e # head BY <1>6, <2>1, <2>2, <2>3, <2>4
  <2>6. QED BY <2>3, <2>4, <2>5
<1>7. p = Newest(cap, Append(q, x))
  <2>1. CASE size < cap /\ z = size + 1
    <3>1. \A i \in 1..size : i \in 1..z /\ i # z BY <2>1
    <3>2. \A i \in 1..size : p[i] = q[i] BY <1>6, <2>1, <3>1
    <3>3. Len(p) = size + 1 /\ p \in Seq(S) /\ p[size + 1] = x BY <1>4, <1>5, <2>1
    <3>4. QED BY ONLY <1>0, <1>3, <2>1, <3>2, <3>3, NewestAdds
  <2>2. CASE size = cap /\ z = cap
    <3>1. \A i \in 1..(cap - 1) : i \in 1..z /\ i # z /\ i + 1 \in 1..size BY <2>2
    <3>2. \A i \in 1..(cap - 1) : p[i] = q[i + 1] BY <1>6, <2>2, <3>1
    <3>3. Len(p) = cap /\ p \in Seq(S) /\ p[cap] = x BY <1>4, <1>5, <2>2
    <3>4. QED BY ONLY <1>0, <1>3, <2>2, <3>2, <3>3, NewestShifts
  <2>3. QED BY <2>1, <2>2
<1>8. QED BY <1>3, <1>7

(* The same, of the code's own statements. *)
Written(S, cap, f, g, x, head, size, h, z) ==
    /\ cap \in Nat \ {0} /\ f \in [0..(cap - 1) -> S] /\ x \in S
    /\ head \in 0..(cap - 1) /\ size \in 0..cap
    /\ g = [f EXCEPT ![head] = x] /\ h = (head + 1) % cap /\ z = Grown(size, cap)

LEMMA RingGrows ==
    ASSUME NEW S, NEW cap, NEW f, NEW g, NEW x, NEW head, NEW size, NEW h, NEW z,
           Written(S, cap, f, g, x, head, size, h, z)
    PROVE  /\ g \in [0..(cap - 1) -> S] /\ h \in 0..(cap - 1) /\ z \in 0..cap /\ z # 0
           /\ Len(Listed(f, head, size, cap)) = size
           /\ Listed(g, h, z, cap) = Newest(cap, Append(Listed(f, head, size, cap), x))
<1> USE DEF Written
<1>1. /\ z \in 1..cap
      /\ (size < cap /\ z = size + 1) \/ (size = cap /\ z = cap)
  BY DEF Grown
<1>2. h \in 0..(cap - 1) /\ (h = head + 1 \/ h = head + 1 - cap)
  <2>1. PICK p \in 0..(2 * cap - 1) : p = head + 1 OBVIOUS
  <2>2. p % cap = (IF p < cap THEN p ELSE p - cap) BY Wraps
  <2>3. QED BY <2>1, <2>2
<1>3. /\ g \in [0..(cap - 1) -> S] /\ g[head] = x
      /\ \A m \in 0..(cap - 1) : m # head => g[m] = f[m]
  OBVIOUS
<1>4. /\ Len(Listed(f, head, size, cap)) = size
      /\ Listed(g, h, z, cap) = Newest(cap, Append(Listed(f, head, size, cap), x))
  <2>1. /\ cap \in Nat \ {0} /\ f \in [0..(cap - 1) -> S] /\ head \in 0..(cap - 1)
        /\ size \in 0..cap /\ x \in S
    OBVIOUS
  <2>2. PutAt(S, cap, f, g, x, head, size, h, z) BY ONLY <1>1, <1>2, <1>3, <2>1 DEF PutAt
  <2>3. QED BY <2>2, RingPut
<1>5. QED BY <1>1, <1>2, <1>3, <1>4

-----------------------------------------------------------------------------
(* The window is what the two rings list. *)
LEMMA WindowIs ==
    /\ Window = [runId |-> currentRun, raw |-> RawList, coarse |-> Done, bucket |-> bucket]
    /\ \A i \in 1..coarseSize : Done[i] = CoarseAt(i - 1)
<1>1. RawList = [i \in 1..rawSize |-> RawAt(i - 1)] BY DEF RawList, Listed, At, RawAt
<1>2. Done = [i \in 1..coarseSize |-> CoarseAt(i - 1)] BY DEF Done, Listed, At, CoarseAt
<1>3. Window = [runId |-> currentRun, raw |-> RawList, coarse |-> Done, bucket |-> bucket]
  BY <1>1, <1>2 DEF Window
<1>4. QED BY <1>2, <1>3

LEMMA RingFacts ==
    ASSUME RingTypeOK
    PROVE  /\ RawCap \in Nat \ {0} /\ CoarseCap \in Nat \ {0} /\ Resolution \in Nat \ {0}
           /\ RawList \in Seq(Reading) /\ Len(RawList) = rawSize
           /\ Done \in Seq(CoarseSample) /\ Len(Done) = coarseSize
           /\ coarseSize \in 0..CoarseCap /\ rawSize \in 0..RawCap
<1>1. RawCap \in Nat \ {0} /\ CoarseCap \in Nat \ {0} /\ Resolution \in Nat \ {0}
  BY WindowAssumption
<1>2. \A i \in 1..rawSize : RawList[i] \in Reading
  <2> TAKE i \in 1..rawSize
  <2>1. PICK k \in 0..(rawSize - 1) : k = i - 1 BY DEF RingTypeOK
  <2>2. At(rawHead, rawSize, RawCap, k) \in 0..(RawCap - 1) BY <1>1, PlaceIs DEF RingTypeOK
  <2>3. RawList[i] = raw[At(rawHead, rawSize, RawCap, k)] BY <2>1 DEF RawList, Listed
  <2>4. QED BY <2>2, <2>3 DEF RingTypeOK
<1>3. \A i \in 1..coarseSize : Done[i] \in CoarseSample
  <2> TAKE i \in 1..coarseSize
  <2>1. PICK k \in 0..(coarseSize - 1) : k = i - 1 BY DEF RingTypeOK
  <2>2. At(coarseHead, coarseSize, CoarseCap, k) \in 0..(CoarseCap - 1)
    BY <1>1, PlaceIs DEF RingTypeOK
  <2>3. Done[i] = coarse[At(coarseHead, coarseSize, CoarseCap, k)]
    BY <2>1 DEF Done, Listed
  <2>4. QED BY <2>2, <2>3 DEF RingTypeOK
<1>4. rawSize \in Nat /\ coarseSize \in Nat BY <1>1 DEF RingTypeOK
<1>5. RawList \in [1..rawSize -> Reading] BY <1>2 DEF RawList, Listed
<1>6. Done \in [1..coarseSize -> CoarseSample] BY <1>3 DEF Done, Listed
<1>7. RawList \in Seq(Reading) /\ Len(RawList) = rawSize BY <1>4, <1>5
<1>8. Done \in Seq(CoarseSample) /\ Len(Done) = coarseSize BY <1>4, <1>6
<1>9. QED BY <1>1, <1>7, <1>8 DEF RingTypeOK

RawRingOK == /\ raw \in [0..(RawCap - 1) -> Reading]
             /\ rawHead \in 0..(RawCap - 1) /\ rawSize \in 0..RawCap
CoarseRingOK == /\ coarse \in [0..(CoarseCap - 1) -> CoarseSample]
                /\ coarseHead \in 0..(CoarseCap - 1) /\ coarseSize \in 0..CoarseCap

(* What a write to the coarse ring does to the finished buckets. *)
LEMMA PutCoarseIs ==
    ASSUME RingTypeOK, NEW c \in CoarseSample, PutCoarse(c)
    PROVE  CoarseRingOK' /\ Done' = Newest(CoarseCap, Append(Done, c))
<1> PICK g, h, z : g = coarse' /\ h = coarseHead' /\ z = coarseSize' OBVIOUS
<1>1. /\ g = [coarse EXCEPT ![coarseHead] = c] /\ h = (coarseHead + 1) % CoarseCap
      /\ z = Grown(coarseSize, CoarseCap)
  BY DEF PutCoarse
<1>2. /\ CoarseCap \in Nat \ {0} /\ coarse \in [0..(CoarseCap - 1) -> CoarseSample]
      /\ coarseHead \in 0..(CoarseCap - 1) /\ coarseSize \in 0..CoarseCap
  BY RingFacts DEF RingTypeOK
<1>3. /\ g \in [0..(CoarseCap - 1) -> CoarseSample] /\ h \in 0..(CoarseCap - 1)
      /\ z \in 0..CoarseCap
      /\ Listed(g, h, z, CoarseCap)
           = Newest(CoarseCap, Append(Listed(coarse, coarseHead, coarseSize, CoarseCap), c))
  <2>1. Written(CoarseSample, CoarseCap, coarse, g, c, coarseHead, coarseSize, h, z)
    BY <1>1, <1>2 DEF Written
  <2>2. QED BY ONLY <2>1, RingGrows
<1>4. QED BY <1>3 DEF CoarseRingOK, Done

(* What a write to the raw ring does to the samples kept. *)
LEMMA PutRawIs ==
    ASSUME RingTypeOK, NEW s \in Reading, raw' = [raw EXCEPT ![rawHead] = s],
           rawHead' = (rawHead + 1) % RawCap, rawSize' = Grown(rawSize, RawCap)
    PROVE  RawRingOK' /\ RawList' = Newest(RawCap, Append(RawList, s))
<1> PICK g, h, z : g = raw' /\ h = rawHead' /\ z = rawSize' OBVIOUS
<1>1. /\ g = [raw EXCEPT ![rawHead] = s] /\ h = (rawHead + 1) % RawCap
      /\ z = Grown(rawSize, RawCap)
  OBVIOUS
<1>2. /\ RawCap \in Nat \ {0} /\ raw \in [0..(RawCap - 1) -> Reading]
      /\ rawHead \in 0..(RawCap - 1) /\ rawSize \in 0..RawCap
  BY RingFacts DEF RingTypeOK
<1>3. /\ g \in [0..(RawCap - 1) -> Reading] /\ h \in 0..(RawCap - 1) /\ z \in 0..RawCap
      /\ Listed(g, h, z, RawCap) = Newest(RawCap, Append(Listed(raw, rawHead, rawSize, RawCap), s))
  <2>1. Written(Reading, RawCap, raw, g, s, rawHead, rawSize, h, z) BY <1>1, <1>2 DEF Written
  <2>2. QED BY ONLY <2>1, RingGrows
<1>4. QED BY <1>3 DEF RawRingOK, RawList

(* The first entry of a ring that was emptied. *)
LEMMA FirstRaw ==
    ASSUME RingTypeOK, NEW s \in Reading, raw' = [raw EXCEPT ![0] = s],
           rawHead' = 1 % RawCap, rawSize' = 1
    PROVE  RawRingOK' /\ RawList' = Newest(RawCap, Append(<<>>, s))
<1> PICK g, h, z, n : g = raw' /\ h = rawHead' /\ z = rawSize' /\ n = 0 OBVIOUS
<1>1. /\ g = [raw EXCEPT ![n] = s] /\ h = (n + 1) % RawCap /\ z = Grown(n, RawCap)
  <2>1. RawCap \in Nat \ {0} BY RingFacts
  <2>2. Grown(0, RawCap) = 1 BY <2>1 DEF Grown
  <2>3. QED BY <2>2
<1>2. /\ RawCap \in Nat \ {0} /\ raw \in [0..(RawCap - 1) -> Reading]
      /\ n \in 0..(RawCap - 1) /\ n \in 0..RawCap
  BY RingFacts DEF RingTypeOK
<1>3. /\ g \in [0..(RawCap - 1) -> Reading] /\ h \in 0..(RawCap - 1) /\ z \in 0..RawCap
      /\ Listed(g, h, z, RawCap) = Newest(RawCap, Append(Listed(raw, n, n, RawCap), s))
  <2>1. Written(Reading, RawCap, raw, g, s, n, n, h, z) BY <1>1, <1>2 DEF Written
  <2>2. QED BY ONLY <2>1, RingGrows
<1>4. Listed(raw, n, n, RawCap) = <<>> BY DEF Listed
<1>5. QED BY <1>3, <1>4 DEF RawRingOK, RawList

-----------------------------------------------------------------------------
(* A sample joins a bucket with its number, if it is finite, and its fault. *)
LEMMA JoinedIs ==
    ASSUME NEW b \in BucketRecord, NEW s \in Reading
    PROVE  /\ Joined(b, s) \in BucketRecord
           /\ (Joined(b, s).open <=> b.open) /\ Joined(b, s).ms = b.ms
           /\ Joined(b, s).of = (IF s.finite THEN b.of \cup {s.seq} ELSE b.of)
           /\ (Joined(b, s).fault <=> b.fault \/ s.fault \/ ~s.finite)
<1>1. b.of \in SUBSET Nat /\ s.seq \in Nat BY DEF BucketRecord, Reading
<1>2. (b.fault \/ s.fault \/ ~s.finite) \in BOOLEAN BY Zenon
<1> PICK o : o = (IF s.finite THEN b.of \cup {s.seq} ELSE b.of) OBVIOUS
<1>3. PICK f \in BOOLEAN : f = (b.fault \/ s.fault \/ ~s.finite) BY <1>2, Zenon
<1>4. o \in SUBSET Nat BY <1>1
<1>5. Joined(b, s) = [b EXCEPT !.of = o, !.fault = f] BY <1>3, Zenon DEF Joined
<1>6. /\ Joined(b, s) \in BucketRecord /\ Joined(b, s).open = b.open /\ Joined(b, s).ms = b.ms
      /\ Joined(b, s).of = o /\ Joined(b, s).fault = f
  BY <1>4, <1>5 DEF BucketRecord
<1>7. Joined(b, s).fault <=> b.fault \/ s.fault \/ ~s.finite BY <1>3, <1>6, Zenon
<1>8. QED BY <1>6, <1>7

(* A bucket just opened is empty. *)
LEMMA FreshIs ==
    ASSUME NEW s \in Reading
    PROVE  /\ Fresh(s) \in BucketRecord /\ Fresh(s).open /\ Fresh(s).ms = Slot(s)
           /\ Fresh(s).of = {} /\ ~Fresh(s).fault
           /\ NoBucket \in BucketRecord /\ ~NoBucket.open
<1>1. TRUE \in BOOLEAN /\ FALSE \in BOOLEAN BY Zenon
<1>2. Slot(s) \in Nat BY SlotGrows
<1>3. NoBucket \in BucketRecord /\ ~NoBucket.open /\ NoBucket.of = {} /\ ~NoBucket.fault
  BY <1>1 DEF NoBucket, BucketRecord
<1>4. Fresh(s) = [NoBucket EXCEPT !.open = TRUE, !.ms = Slot(s)] BY DEF Fresh
<1>5. QED BY <1>1, <1>2, <1>3, <1>4 DEF BucketRecord

(* The bucket that finalizeBucket writes. *)
Sealed == [runId |-> currentRun, ms |-> bucket.ms, of |-> bucket.of, fault |-> bucket.fault]
CoarseSame == Done' = Done /\ coarseSize' = coarseSize
CoarseAdds(c) == Done' = Newest(CoarseCap, Append(Done, c))
                 /\ coarseSize' = Grown(coarseSize, CoarseCap)

LEMMA SealedIs ==
    ASSUME RunTypeOK
    PROVE  /\ Sealed \in CoarseSample /\ Sealed.runId = currentRun /\ Sealed.ms = bucket.ms
           /\ Sealed.of = bucket.of /\ Sealed.fault = bucket.fault
<1>1. /\ bucket.ms \in Nat /\ bucket.of \in SUBSET Nat /\ bucket.fault \in BOOLEAN
      /\ currentRun \in Nat
  BY DEF RunTypeOK, BucketRecord
<1>2. Sealed \in CoarseSample BY <1>1 DEF Sealed, CoarseSample
<1>3. QED BY <1>2 DEF Sealed

LEMMA CoarseKept ==
    ASSUME RingTypeOK, UNCHANGED coarseRing
    PROVE  CoarseRingOK' /\ CoarseSame
BY DEF RingTypeOK, coarseRing, CoarseRingOK, CoarseSame, Done

LEMMA FinalizeIs ==
    ASSUME RingTypeOK, RunTypeOK, FinalizeBucket
    PROVE  /\ CoarseRingOK'
           /\ bucket.open => CoarseAdds(Sealed)
           /\ ~bucket.open => CoarseSame
<1>1. CASE bucket.open
  <2>1. PutCoarse(Sealed) BY <1>1 DEF FinalizeBucket, Sealed
  <2>2. CoarseRingOK' /\ Done' = Newest(CoarseCap, Append(Done, Sealed))
    BY <2>1, PutCoarseIs, SealedIs
  <2>3. coarseSize' = Grown(coarseSize, CoarseCap) BY <2>1 DEF PutCoarse
  <2>4. QED BY <1>1, <2>2, <2>3 DEF CoarseAdds
<1>2. CASE ~bucket.open BY <1>2, CoarseKept DEF FinalizeBucket
<1>3. QED BY <1>1, <1>2

(* The four ways a sample of the current run is filed. *)
Late(s) == bucket.open /\ Slot(s) < bucket.ms /\ CoarseSame /\ bucket' = bucket
Joins(s) == bucket.open /\ Slot(s) = bucket.ms /\ CoarseSame /\ bucket' = Joined(bucket, s)
Opens(s) == ~bucket.open /\ CoarseSame /\ bucket' = Joined(Fresh(s), s)
Turns(s) == /\ bucket.open /\ Slot(s) > bucket.ms /\ CoarseAdds(Sealed)
            /\ bucket' = Joined(Fresh(s), s)

LEMMA PushCurrentIs ==
    ASSUME RingTypeOK, RunTypeOK, NEW s \in Reading, PushCurrent(s)
    PROVE  /\ RingTypeOK' /\ bucket' \in BucketRecord /\ currentRun' = currentRun
           /\ taken' = taken \cup {s}
           /\ RawList' = Newest(RawCap, Append(RawList, s))
           /\ Late(s) \/ Joins(s) \/ Opens(s) \/ Turns(s)
<1>1. /\ raw' = [raw EXCEPT ![rawHead] = s] /\ rawHead' = (rawHead + 1) % RawCap
      /\ rawSize' = Grown(rawSize, RawCap) /\ taken' = taken \cup {s} /\ currentRun' = currentRun
  BY DEF PushCurrent
<1>2. RawRingOK' /\ RawList' = Newest(RawCap, Append(RawList, s))
  <2>1. /\ raw' = [raw EXCEPT ![rawHead] = s] /\ rawHead' = (rawHead + 1) % RawCap
        /\ rawSize' = Grown(rawSize, RawCap)
    BY <1>1
  <2>2. QED BY <2>1, PutRawIs
<1>3. bucket \in BucketRecord /\ bucket.ms \in Nat /\ Slot(s) \in Nat
  BY SlotGrows DEF RunTypeOK, BucketRecord
<1>4. Late(s) \/ Joins(s) \/ Opens(s) \/ Turns(s)
  <2>1. CASE bucket.open /\ Slot(s) < bucket.ms
    <3>1. ~(Slot(s) > bucket.ms) BY <1>3, <2>1
    <3>2. UNCHANGED coarseRing /\ bucket' = bucket BY <2>1, <3>1 DEF PushCurrent
    <3>3. QED BY <2>1, <3>2, CoarseKept DEF Late
  <2>2. CASE bucket.open /\ Slot(s) = bucket.ms
    <3>1. ~(Slot(s) > bucket.ms) /\ ~(Slot(s) < bucket.ms) BY <1>3, <2>2
    <3>2. UNCHANGED coarseRing /\ bucket' = Joined(bucket, s) BY <2>2, <3>1 DEF PushCurrent
    <3>3. QED BY <2>2, <3>2, CoarseKept DEF Joins
  <2>3. CASE ~bucket.open
    <3>1. UNCHANGED coarseRing /\ bucket' = Joined(Fresh(s), s) BY <2>3 DEF PushCurrent
    <3>2. QED BY <2>3, <3>1, CoarseKept DEF Opens
  <2>4. CASE bucket.open /\ Slot(s) > bucket.ms
    <3>1. ~(Slot(s) < bucket.ms) BY <1>3, <2>4
    <3>2. FinalizeBucket /\ bucket' = Joined(Fresh(s), s) BY <2>4, <3>1 DEF PushCurrent
    <3>3. QED BY <2>4, <3>2, FinalizeIs DEF Turns
  <2>5. QED BY <1>3, <2>1, <2>2, <2>3, <2>4
<1>5. CoarseRingOK'
  <2>1. UNCHANGED coarseRing \/ FinalizeBucket BY DEF PushCurrent
  <2>2. QED BY <2>1, CoarseKept, FinalizeIs
<1>6. bucket' \in BucketRecord
  <2>1. Joined(bucket, s) \in BucketRecord /\ Joined(Fresh(s), s) \in BucketRecord
    BY <1>3, JoinedIs, FreshIs
  <2>2. QED BY <1>3, <1>4, <2>1 DEF Late, Joins, Opens, Turns
<1>7. QED BY <1>1, <1>2, <1>4, <1>5, <1>6 DEF RingTypeOK, RawRingOK, CoarseRingOK

-----------------------------------------------------------------------------
(* The abstract history is written with the same operators. *)
LEMMA PromiseWords ==
    /\ \A n, q : Promise!Newest(n, q) = Newest(n, q)
    /\ \A s : Promise!Slot(s) = Slot(s)
    /\ Promise!NoBucket = NoBucket
BY DEF Promise!Newest, Newest, Promise!Slot, Slot, Promise!NoBucket, NoBucket

Made(r, q, d, b) == [runId |-> r, raw |-> q, coarse |-> d, bucket |-> b]

(* Accumulated() joins the sample to the bucket of the window. *)
LEMMA AccumulatedIs ==
    ASSUME NEW r, NEW q, NEW d, NEW b \in BucketRecord, NEW s \in Reading
    PROVE  Promise!Accumulated(Made(r, q, d, b), s) = Made(r, q, d, Joined(b, s))
<1> PICK o : o = (IF s.finite THEN b.of \cup {s.seq} ELSE b.of) OBVIOUS
<1>1. PICK f : f = (b.fault \/ s.fault \/ ~s.finite) OBVIOUS
<1>2. Joined(b, s) = [b EXCEPT !.of = o, !.fault = f] BY <1>1, Zenon DEF Joined
<1>3. PICK w : w = Made(r, q, d, b) OBVIOUS
<1>4. w.bucket = b /\ w = [runId |-> r, raw |-> q, coarse |-> d, bucket |-> b]
  BY <1>3 DEF Made
<1>5. Promise!Accumulated(w, s) = [w EXCEPT !.bucket.of = o, !.bucket.fault = f]
  BY <1>1, <1>4 DEF Promise!Accumulated
<1>6. [w EXCEPT !.bucket.of = o, !.bucket.fault = f]
        = [runId |-> r, raw |-> q, coarse |-> d, bucket |-> [b EXCEPT !.of = o, !.fault = f]]
  <2>1. PICK m, n, a, e : b = [open |-> m, ms |-> n, of |-> a, fault |-> e] BY DEF BucketRecord
  <2>2. w = [runId |-> r, raw |-> q, coarse |-> d,
             bucket |-> [open |-> m, ms |-> n, of |-> a, fault |-> e]]
    BY <1>4, <2>1
  <2>3. PICK u : u = [w EXCEPT !.bucket.of = o] OBVIOUS
  <2>4. u = [runId |-> r, raw |-> q, coarse |-> d,
             bucket |-> [open |-> m, ms |-> n, of |-> o, fault |-> e]]
    BY ONLY <2>2, <2>3
  <2>5. [u EXCEPT !.bucket.fault = f]
          = [runId |-> r, raw |-> q, coarse |-> d,
             bucket |-> [open |-> m, ms |-> n, of |-> o, fault |-> f]]
    BY ONLY <2>4
  <2>6. [w EXCEPT !.bucket.of = o, !.bucket.fault = f] = [u EXCEPT !.bucket.fault = f]
    BY ONLY <2>2, <2>3, <2>4
  <2>7. [b EXCEPT !.of = o, !.fault = f] = [open |-> m, ms |-> n, of |-> o, fault |-> f]
    <3>1. PICK v : v = [b EXCEPT !.of = o] OBVIOUS
    <3>2. v = [open |-> m, ms |-> n, of |-> o, fault |-> e] BY ONLY <2>1, <3>1
    <3>3. [v EXCEPT !.fault = f] = [open |-> m, ms |-> n, of |-> o, fault |-> f] BY ONLY <3>2
    <3>4. [b EXCEPT !.of = o, !.fault = f] = [v EXCEPT !.fault = f] BY ONLY <3>1, <3>2, <2>1
    <3>5. QED BY ONLY <3>3, <3>4
  <2>8. QED BY <2>5, <2>6, <2>7
<1>7. QED BY <1>2, <1>3, <1>5, <1>6 DEF Made

SealOf(r, b) == [runId |-> r, ms |-> b.ms, of |-> b.of, fault |-> b.fault]

LEMMA FinalizedIs ==
    ASSUME NEW r, NEW q, NEW d, NEW b \in BucketRecord
    PROVE  Promise!Finalize(Made(r, q, d, b)) =
             IF b.open THEN Made(r, q, Newest(CoarseCap, Append(d, SealOf(r, b))), NoBucket)
             ELSE Made(r, q, d, b)
<1>1. PICK w : w = Made(r, q, d, b) OBVIOUS
<1>2. /\ w = [runId |-> r, raw |-> q, coarse |-> d, bucket |-> b]
      /\ w.bucket = b /\ w.runId = r /\ w.coarse = d
  BY <1>1 DEF Made
<1>3. PICK n : n = Newest(CoarseCap, Append(d, SealOf(r, b))) OBVIOUS
<1>4. CASE b.open
  <2>1. PICK c : c = SealOf(r, b) OBVIOUS
  <2>2. [runId |-> w.runId, ms |-> w.bucket.ms, of |-> w.bucket.of, fault |-> w.bucket.fault] = c
    BY <1>2, <2>1, Zenon DEF SealOf
  <2>3. Promise!Newest(CoarseCap, Append(w.coarse, c)) = n BY <1>2, <1>3, <2>1, PromiseWords
  <2>4. Promise!Finalize(w) = [w EXCEPT !.coarse = n, !.bucket = NoBucket]
    BY <1>2, <1>4, <2>2, <2>3, PromiseWords, Zenon DEF Promise!Finalize
  <2>5. [w EXCEPT !.coarse = n, !.bucket = NoBucket]
          = [runId |-> r, raw |-> q, coarse |-> n, bucket |-> NoBucket]
    <3>1. PICK v : v = [w EXCEPT !.coarse = n] OBVIOUS
    <3>2. v = [runId |-> r, raw |-> q, coarse |-> n, bucket |-> b] BY ONLY <1>2, <3>1
    <3>3. [v EXCEPT !.bucket = NoBucket]
            = [runId |-> r, raw |-> q, coarse |-> n, bucket |-> NoBucket]
      BY ONLY <3>2
    <3>4. [w EXCEPT !.coarse = n, !.bucket = NoBucket] = [v EXCEPT !.bucket = NoBucket]
      BY ONLY <1>2, <3>1, <3>2
    <3>5. QED BY ONLY <3>3, <3>4
  <2>6. QED BY <1>1, <1>3, <1>4, <2>4, <2>5 DEF Made
<1>5. CASE ~b.open
  <2>1. Promise!Finalize(w) = w BY <1>2, <1>5, Zenon DEF Promise!Finalize
  <2>2. QED BY <1>1, <1>5, <2>1
<1>6. QED BY <1>4, <1>5

LEMMA OpenedIs ==
    ASSUME NEW r, NEW q, NEW d, NEW b, NEW s \in Reading
    PROVE  Promise!Opened(Made(r, q, d, b), s) = Made(r, q, d, Fresh(s))
<1>1. PICK w : w = Made(r, q, d, b) OBVIOUS
<1>2. PICK f : f = Fresh(s) OBVIOUS
<1>3. [Promise!NoBucket EXCEPT !.open = TRUE, !.ms = Promise!Slot(s)] = f
  BY <1>2, PromiseWords, Zenon DEF Fresh
<1>4. Promise!Opened(w, s) = [w EXCEPT !.bucket = f] BY <1>3, Zenon DEF Promise!Opened
<1>5. w = [runId |-> r, raw |-> q, coarse |-> d, bucket |-> b] BY <1>1 DEF Made
<1>6. [w EXCEPT !.bucket = f] = [runId |-> r, raw |-> q, coarse |-> d, bucket |-> f]
  BY ONLY <1>5
<1>7. QED BY <1>1, <1>2, <1>4, <1>6 DEF Made

(* The four ways of the abstract push, named as those of the rings. *)
LEMMA SummarisedIs ==
    ASSUME NEW r, NEW q, NEW d, NEW b \in BucketRecord, NEW s \in Reading
    PROVE  LET w == Promise!Summarised(Made(r, q, d, b), s)
           IN  /\ ~b.open => w = Made(r, q, d, Joined(Fresh(s), s))
               /\ b.open /\ Slot(s) < b.ms => w = Made(r, q, d, b)
               /\ b.open /\ Slot(s) = b.ms => w = Made(r, q, d, Joined(b, s))
               /\ b.open /\ Slot(s) > b.ms =>
                    w = Made(r, q, Newest(CoarseCap, Append(d, SealOf(r, b))), Joined(Fresh(s), s))
<1>1. PICK w : w = Made(r, q, d, b) OBVIOUS
<1>2. w.bucket = b BY <1>1 DEF Made
<1>3. b.ms \in Nat /\ Slot(s) \in Nat BY SlotGrows DEF BucketRecord
<1>4. Fresh(s) \in BucketRecord /\ NoBucket \in BucketRecord BY FreshIs
<1>5. Promise!Slot(s) = Slot(s) BY PromiseWords
<1>6. ASSUME ~b.open PROVE Promise!Summarised(w, s) = Made(r, q, d, Joined(Fresh(s), s))
  <2>1. Promise!Summarised(w, s) = Promise!Accumulated(Promise!Opened(w, s), s)
    BY <1>2, <1>6, Zenon DEF Promise!Summarised
  <2>2. QED BY <1>1, <1>4, <2>1, OpenedIs, AccumulatedIs
<1>7. ASSUME b.open, Slot(s) < b.ms PROVE Promise!Summarised(w, s) = Made(r, q, d, b)
  BY <1>1, <1>2, <1>5, <1>7, Zenon DEF Promise!Summarised
<1>8. ASSUME b.open, Slot(s) = b.ms PROVE Promise!Summarised(w, s) = Made(r, q, d, Joined(b, s))
  <2>1. ~(Slot(s) < b.ms) BY <1>3, <1>8
  <2>2. Promise!Summarised(w, s) = Promise!Accumulated(w, s)
    BY <1>2, <1>5, <1>8, <2>1, Zenon DEF Promise!Summarised
  <2>3. QED BY <1>1, <2>2, AccumulatedIs
<1>9. ASSUME b.open, Slot(s) > b.ms
      PROVE  Promise!Summarised(w, s)
               = Made(r, q, Newest(CoarseCap, Append(d, SealOf(r, b))), Joined(Fresh(s), s))
  <2>1. ~(Slot(s) < b.ms) /\ ~(Slot(s) = b.ms) BY <1>3, <1>9
  <2>2. Promise!Summarised(w, s) = Promise!Accumulated(Promise!Opened(Promise!Finalize(w), s), s)
    BY <1>2, <1>5, <1>9, <2>1, Zenon DEF Promise!Summarised
  <2>3. PICK n : n = Newest(CoarseCap, Append(d, SealOf(r, b))) OBVIOUS
  <2>4. Promise!Finalize(w) = Made(r, q, n, NoBucket) BY <1>1, <1>9, <2>3, FinalizedIs
  <2>5. QED BY <1>4, <2>2, <2>3, <2>4, OpenedIs, AccumulatedIs
<1>10. QED BY <1>1, <1>6, <1>7, <1>8, <1>9

LEMMA PushedOwn ==
    ASSUME NEW r, NEW q, NEW d, NEW b, NEW s \in Reading, s.runId # 0, s.runId = r
    PROVE  Promise!Pushed(Made(r, q, d, b), s)
             = Promise!Summarised(Made(r, Newest(RawCap, Append(q, s)), d, b), s)
<1>1. PICK w : w = Made(r, q, d, b) OBVIOUS
<1>2. w = [runId |-> r, raw |-> q, coarse |-> d, bucket |-> b] /\ w.runId = r /\ w.raw = q
  BY <1>1 DEF Made
<1>3. PICK n : n = Newest(RawCap, Append(q, s)) OBVIOUS
<1>4. Promise!Newest(RawCap, Append(w.raw, s)) = n BY <1>2, <1>3, PromiseWords
<1>5. Promise!Pushed(w, s) = Promise!Summarised([w EXCEPT !.raw = n], s)
  BY <1>2, <1>4, Zenon DEF Promise!Pushed
<1>6. [w EXCEPT !.raw = n] = [runId |-> r, raw |-> n, coarse |-> d, bucket |-> b]
  BY ONLY <1>2
<1>7. QED BY <1>1, <1>3, <1>5, <1>6 DEF Made

LEMMA PushedIs ==
    ASSUME NEW r, NEW q, NEW d, NEW b \in BucketRecord, NEW s \in Reading
    PROVE  LET w == Promise!Pushed(Made(r, q, d, b), s)
           IN  /\ s.runId = 0 => w = Made(r, q, d, b)
               /\ s.runId # 0 /\ s.runId # r =>
                    w = Promise!Summarised(
                          Made(s.runId, Newest(RawCap, Append(<<>>, s)), <<>>, NoBucket), s)
<1>1. PICK w : w = Made(r, q, d, b) OBVIOUS
<1>2. w = [runId |-> r, raw |-> q, coarse |-> d, bucket |-> b] /\ w.runId = r /\ w.raw = q
  BY <1>1 DEF Made
<1>3. CASE s.runId = 0
  <2>1. Promise!Pushed(w, s) = w BY <1>3 DEF Promise!Pushed
  <2>2. QED BY <1>1, <1>3, <2>1
<1>4. CASE s.runId # 0 /\ s.runId # r
  <2>1. PICK n : n = Newest(RawCap, Append(<<>>, s)) OBVIOUS
  <2>2. PICK e : e = Promise!Empty(s.runId) OBVIOUS
  <2>3. /\ e = [runId |-> s.runId, raw |-> <<>>, coarse |-> <<>>, bucket |-> NoBucket]
        /\ e.raw = <<>>
    BY <2>2, PromiseWords DEF Promise!Empty
  <2>4. Promise!Newest(RawCap, Append(e.raw, s)) = n BY <2>1, <2>3, PromiseWords
  <2>5. Promise!Pushed(w, s) = Promise!Summarised([e EXCEPT !.raw = n], s)
    BY <1>2, <1>4, <2>2, <2>4, Zenon DEF Promise!Pushed
  <2>6. [e EXCEPT !.raw = n] = [runId |-> s.runId, raw |-> n, coarse |-> <<>>, bucket |-> NoBucket]
    BY ONLY <2>3
  <2>7. QED BY <1>1, <1>4, <2>1, <2>5, <2>6 DEF Made
<1>5. QED BY <1>3, <1>4

-----------------------------------------------------------------------------
(* The window before and after a step. *)
Was == Made(currentRun, RawList, Done, bucket)

IsWindow == Window = Was

LEMMA WindowMade == IsWindow
BY WindowIs DEF IsWindow, Was, Made

(* push() of the first sample of another run. *)
LEMMA PushOtherIs ==
    ASSUME RingTypeOK, RunTypeOK, NEW s \in Reading, PushOther(s)
    PROVE  /\ RingTypeOK' /\ bucket' \in BucketRecord /\ currentRun' = s.runId
           /\ taken' = {s} /\ bucket' = Joined(Fresh(s), s)
           /\ RawList' = Newest(RawCap, Append(<<>>, s)) /\ Done' = <<>> /\ coarseSize' = 0
<1>1. /\ raw' = [raw EXCEPT ![0] = s] /\ rawHead' = 1 % RawCap /\ rawSize' = 1
  BY DEF PushOther
<1>2. RawRingOK' /\ RawList' = Newest(RawCap, Append(<<>>, s)) BY <1>1, FirstRaw
<1>3. coarseHead' = 0 /\ coarseSize' = 0 /\ coarse' = coarse BY DEF PushOther
<1>4. CoarseRingOK' BY <1>3, RingFacts DEF RingTypeOK, CoarseRingOK
<1>5. Done' = <<>> BY <1>3 DEF Done, Listed
<1>6. currentRun' = s.runId /\ taken' = {s} /\ bucket' = Joined(Fresh(s), s) BY DEF PushOther
<1>7. bucket' \in BucketRecord BY <1>6, FreshIs, JoinedIs
<1>8. QED BY <1>2, <1>3, <1>4, <1>5, <1>6, <1>7 DEF RingTypeOK, RawRingOK, CoarseRingOK

LEMMA ClearIs ==
    ASSUME RingTypeOK, NEW r \in Nat, Clear(r)
    PROVE  /\ RingTypeOK' /\ bucket' = NoBucket /\ currentRun' = r /\ taken' = {}
           /\ RawList' = <<>> /\ Done' = <<>> /\ coarseSize' = 0
<1>1. /\ rawHead' = 0 /\ rawSize' = 0 /\ coarseHead' = 0 /\ coarseSize' = 0
      /\ raw' = raw /\ coarse' = coarse
      /\ bucket' = NoBucket /\ currentRun' = r /\ taken' = {}
  BY DEF Clear
<1>2. RingTypeOK' BY <1>1, RingFacts DEF RingTypeOK
<1>3. RawList' = <<>> /\ Done' = <<>> BY <1>1 DEF RawList, Done, Listed
<1>4. QED BY <1>1, <1>2, <1>3

LEMMA RawKept ==
    ASSUME RingTypeOK, UNCHANGED rawRing
    PROVE  RawRingOK' /\ RawList' = RawList
BY DEF RingTypeOK, rawRing, RawRingOK, RawList

LEMMA FlushIs ==
    ASSUME RingTypeOK, RunTypeOK, Flush
    PROVE  /\ RingTypeOK' /\ RawList' = RawList
           /\ bucket' = NoBucket /\ currentRun' = currentRun /\ taken' = taken /\ run' = run
           /\ bucket.open => CoarseAdds(Sealed)
           /\ ~bucket.open => CoarseSame
<1>1. /\ FinalizeBucket /\ bucket' = NoBucket
      /\ UNCHANGED rawRing /\ currentRun' = currentRun /\ taken' = taken /\ run' = run
  BY DEF Flush
<1>2. RawRingOK' /\ RawList' = RawList BY <1>1, RawKept
<1>3. CoarseRingOK' BY <1>1, FinalizeIs
<1>4. QED BY <1>1, <1>2, <1>3, FinalizeIs DEF RingTypeOK, RawRingOK, CoarseRingOK

LEMMA RestoreIs ==
    ASSUME RingTypeOK, NEW c \in CoarseSample, RestoreCoarse(c)
    PROVE  /\ RingTypeOK' /\ RawList' = RawList
           /\ bucket' = bucket /\ currentRun' = c.runId /\ taken' = taken /\ run' = run
           /\ CoarseAdds(c)
<1>1. /\ PutCoarse(c) /\ currentRun' = c.runId
      /\ UNCHANGED rawRing /\ bucket' = bucket /\ taken' = taken /\ run' = run
  BY DEF RestoreCoarse
<1>2. RawRingOK' /\ RawList' = RawList BY <1>1, RawKept
<1>3. CoarseRingOK' /\ Done' = Newest(CoarseCap, Append(Done, c)) BY <1>1, PutCoarseIs
<1>4. coarseSize' = Grown(coarseSize, CoarseCap) BY <1>1 DEF PutCoarse
<1>5. QED BY <1>1, <1>2, <1>3, <1>4 DEF RingTypeOK, RawRingOK, CoarseRingOK, CoarseAdds

LEMMA PushKeeps ==
    ASSUME RingTypeOK, RunTypeOK, NEW s \in Reading, Push(s)
    PROVE  /\ RingTypeOK' /\ bucket' \in BucketRecord
           /\ currentRun' \in Nat /\ taken' \in SUBSET Reading
           /\ Was' = Promise!Pushed(Was, s)
<1> PICK r, q, d, b : r = currentRun /\ q = RawList /\ d = Done /\ b = bucket OBVIOUS
<1>1. Was = Made(r, q, d, b) /\ b \in BucketRecord /\ r \in Nat BY DEF Was, RunTypeOK
<1>2. b.ms \in Nat /\ Slot(s) \in Nat /\ s.runId \in Nat
  BY <1>1, SlotGrows DEF BucketRecord, Reading
<1>3. CASE s.runId = 0 /\ UNCHANGED <<rawRing, coarseRing, currentRun, bucket, taken>>
  <2>1. UNCHANGED rawRing /\ UNCHANGED coarseRing BY <1>3
  <2>2. RawRingOK' /\ RawList' = RawList BY <2>1, RawKept
  <2>3. CoarseRingOK' /\ Done' = Done BY <2>1, CoarseKept DEF CoarseSame
  <2>4. Promise!Pushed(Was, s) = Was BY <1>1, <1>3, PushedIs
  <2>5. currentRun' = currentRun /\ bucket' = bucket /\ taken' = taken BY <1>3
  <2>6. Was' = Was BY <2>2, <2>3, <2>5 DEF Was, Made
  <2>7. QED BY <2>2, <2>3, <2>4, <2>5, <2>6 DEF RingTypeOK, RawRingOK, CoarseRingOK, RunTypeOK
<1>4. CASE s.runId # 0 /\ s.runId = currentRun /\ PushCurrent(s)
  <2> PICK n : n = Newest(RawCap, Append(q, s)) OBVIOUS
  <2>1. /\ RingTypeOK' /\ bucket' \in BucketRecord /\ currentRun' = r
        /\ taken' = taken \cup {s} /\ RawList' = n
    BY <1>4, PushCurrentIs
  <2>2. Promise!Pushed(Was, s) = Promise!Summarised(Made(r, n, d, b), s)
    <3>1. s.runId # 0 /\ s.runId = r BY <1>4
    <3>2. Promise!Pushed(Made(r, q, d, b), s)
            = Promise!Summarised(Made(r, Newest(RawCap, Append(q, s)), d, b), s)
      BY <1>1, <3>1, PushedOwn
    <3>3. QED BY <1>1, <3>2
  <2>3. Late(s) \/ Joins(s) \/ Opens(s) \/ Turns(s) BY <1>4, PushCurrentIs
  <2>4. Was' = Promise!Summarised(Made(r, n, d, b), s)
    <3>1. Was' = Made(r, n, Done', bucket') BY <2>1 DEF Was
    <3>2. CASE Late(s)
      <4>1. b.open /\ Slot(s) < b.ms /\ Done' = d /\ bucket' = b BY <3>2 DEF Late, CoarseSame
      <4>2. QED BY <1>1, <3>1, <4>1, SummarisedIs
    <3>3. CASE Joins(s)
      <4>1. b.open /\ Slot(s) = b.ms /\ Done' = d /\ bucket' = Joined(b, s)
        BY <3>3 DEF Joins, CoarseSame
      <4>2. QED BY <1>1, <3>1, <4>1, SummarisedIs
    <3>4. CASE Opens(s)
      <4>1. ~b.open /\ Done' = d /\ bucket' = Joined(Fresh(s), s)
        BY <3>4 DEF Opens, CoarseSame
      <4>2. QED BY <1>1, <3>1, <4>1, SummarisedIs
    <3>5. CASE Turns(s)
      <4>1. Sealed = SealOf(r, b) BY DEF Sealed, SealOf
      <4>2. /\ b.open /\ Slot(s) > b.ms /\ bucket' = Joined(Fresh(s), s)
            /\ Done' = Newest(CoarseCap, Append(d, SealOf(r, b)))
        BY <3>5, <4>1 DEF Turns, CoarseAdds
      <4>3. QED BY <1>1, <3>1, <4>2, SummarisedIs
    <3>6. QED BY <2>3, <3>2, <3>3, <3>4, <3>5
  <2>5. taken' \in SUBSET Reading BY <2>1 DEF RunTypeOK
  <2>6. QED BY <1>1, <2>1, <2>2, <2>4, <2>5
<1>5. CASE s.runId # 0 /\ s.runId # currentRun /\ PushOther(s)
  <2>1. /\ RingTypeOK' /\ bucket' \in BucketRecord /\ currentRun' = s.runId
        /\ taken' = {s} /\ bucket' = Joined(Fresh(s), s)
        /\ RawList' = Newest(RawCap, Append(<<>>, s)) /\ Done' = <<>>
    BY <1>5, PushOtherIs
  <2>2. Promise!Pushed(Was, s)
          = Promise!Summarised(Made(s.runId, Newest(RawCap, Append(<<>>, s)), <<>>, NoBucket), s)
    BY <1>1, <1>5, PushedIs
  <2>3. NoBucket \in BucketRecord /\ ~NoBucket.open BY FreshIs
  <2>4. Promise!Summarised(Made(s.runId, Newest(RawCap, Append(<<>>, s)), <<>>, NoBucket), s)
          = Made(s.runId, Newest(RawCap, Append(<<>>, s)), <<>>, Joined(Fresh(s), s))
    BY <2>3, SummarisedIs
  <2>5. Was' = Made(s.runId, Newest(RawCap, Append(<<>>, s)), <<>>, Joined(Fresh(s), s))
    BY <2>1 DEF Was
  <2>6. QED BY <1>2, <2>1, <2>2, <2>4, <2>5
<1>6. QED BY <1>3, <1>4, <1>5 DEF Push

(* A push leaves its bucket open, or the bucket alone. *)
LEMMA PushOpens ==
    ASSUME RingTypeOK, RunTypeOK, NEW s \in Reading, Push(s)
    PROVE  bucket' = bucket \/ bucket'.open
<1>1. Joined(Fresh(s), s).open BY FreshIs, JoinedIs
<1>2. bucket.open => Joined(bucket, s).open
  <2>1. bucket \in BucketRecord BY DEF RunTypeOK
  <2>2. QED BY <2>1, JoinedIs
<1>3. ASSUME PushCurrent(s) PROVE bucket' = bucket \/ bucket'.open
  <2>1. Late(s) \/ Joins(s) \/ Opens(s) \/ Turns(s) BY <1>3, PushCurrentIs
  <2>2. QED BY <1>1, <1>2, <2>1, Zenon DEF Late, Joins, Opens, Turns
<1>4. ASSUME PushOther(s) PROVE bucket'.open BY <1>1, <1>4, Zenon DEF PushOther
<1>5. QED BY <1>3, <1>4, Zenon DEF Push

(* What the calls of the abstract history do to its window. *)
LEMMA AppliedIs ==
    ASSUME NEW w
    PROVE  /\ \A s : /\ Promise!PushCall(s) # Promise!NoCall
                     /\ Promise!Applied(w, Promise!PushCall(s)) = Promise!Pushed(w, s)
           /\ \A r : /\ Promise!ClearCall(r) # Promise!NoCall
                     /\ Promise!Applied(w, Promise!ClearCall(r)) = Promise!Empty(r)
           /\ \A c : /\ Promise!RestoreCall(c) # Promise!NoCall
                     /\ Promise!Applied(w, Promise!RestoreCall(c)) = Promise!Restored(w, c)
           /\ Promise!FlushCall # Promise!NoCall
           /\ Promise!Applied(w, Promise!FlushCall) = Promise!Finalize(w)
<1>0. Promise!NoCall.op = "none" BY DEF Promise!NoCall
<1>1. \A s : /\ Promise!PushCall(s) # Promise!NoCall
             /\ Promise!Applied(w, Promise!PushCall(s)) = Promise!Pushed(w, s)
  <2> TAKE s
  <2>1. PICK c : c = Promise!PushCall(s) OBVIOUS
  <2>2. c.op = "push" /\ c.sample = s BY <2>1 DEF Promise!PushCall
  <2>3. QED BY <1>0, <2>1, <2>2 DEF Promise!Applied
<1>2. \A r : /\ Promise!ClearCall(r) # Promise!NoCall
             /\ Promise!Applied(w, Promise!ClearCall(r)) = Promise!Empty(r)
  <2> TAKE r
  <2>1. PICK c : c = Promise!ClearCall(r) OBVIOUS
  <2>2. c.op = "clear" /\ c.run = r BY <2>1 DEF Promise!ClearCall
  <2>3. QED BY <1>0, <2>1, <2>2 DEF Promise!Applied
<1>3. \A k : /\ Promise!RestoreCall(k) # Promise!NoCall
             /\ Promise!Applied(w, Promise!RestoreCall(k)) = Promise!Restored(w, k)
  <2> TAKE k
  <2>1. PICK c : c = Promise!RestoreCall(k) OBVIOUS
  <2>2. c.op = "restore" /\ c.bucket = k BY <2>1 DEF Promise!RestoreCall
  <2>3. QED BY <1>0, <2>1, <2>2 DEF Promise!Applied
<1>4. /\ Promise!FlushCall # Promise!NoCall
      /\ Promise!Applied(w, Promise!FlushCall) = Promise!Finalize(w)
  <2>1. PICK c : c = Promise!FlushCall OBVIOUS
  <2>2. c.op = "flush" BY <2>1 DEF Promise!FlushCall
  <2>3. QED BY <1>0, <2>1, <2>2 DEF Promise!Applied
<1>5. QED BY <1>1, <1>2, <1>3, <1>4

-----------------------------------------------------------------------------
(* A reading of the sampling tick: idle, or the next of the active run. *)
Next1(s) ==
    /\ run.active /\ s.runId = run.id /\ s.ms > run.ms
    /\ run'.id = run.id /\ run'.active = run.active /\ run'.ms = s.ms
    /\ s.seq = run.seq + 1 /\ run'.seq = s.seq
Idle(s) == ~run.active /\ s.runId = 0 /\ run' = run

LEMMA TickIs ==
    ASSUME RunTypeOK, Tick
    PROVE  /\ \E s \in Reading : /\ Push(s) /\ (~s.finite => s.fault)
                                 /\ Idle(s) \/ Next1(s)
           /\ run' \in [id : Nat, active : BOOLEAN, seq : Nat, ms : Nat]
<1>1. /\ run \in [id : Nat, active : BOOLEAN, seq : Nat, ms : Nat]
      /\ run.id \in Nat /\ run.seq \in Nat /\ run.ms \in Nat /\ MaxMs \in Nat
  BY StoreAssumption DEF RunTypeOK
<1>2. PICK r : /\ r.finite \in BOOLEAN /\ r.fault \in BOOLEAN /\ (~r.finite => r.fault)
               /\ \/ /\ ~run.active /\ UNCHANGED run
                     /\ Push(Sampled(0, 0, 0, r))
                  \/ /\ run.active /\ run.seq < MaxSeq
                     /\ \E ms \in (run.ms + 1)..MaxMs :
                           /\ run' = [run EXCEPT !.seq = @ + 1, !.ms = ms]
                           /\ Push(Sampled(run.id, run.seq + 1, ms, r))
  <2>1. PICK r \in {[finite |-> TRUE, fault |-> FALSE], [finite |-> TRUE, fault |-> TRUE],
                    [finite |-> FALSE, fault |-> TRUE]} :
                  \/ /\ ~run.active /\ UNCHANGED run
                     /\ Push(Sampled(0, 0, 0, r))
                  \/ /\ run.active /\ run.seq < MaxSeq
                     /\ \E ms \in (run.ms + 1)..MaxMs :
                           /\ run' = [run EXCEPT !.seq = @ + 1, !.ms = ms]
                           /\ Push(Sampled(run.id, run.seq + 1, ms, r))
    BY Zenon DEF Tick
  <2>2. r.finite \in BOOLEAN /\ r.fault \in BOOLEAN /\ (~r.finite => r.fault)
    <3>1. CASE r = [finite |-> TRUE, fault |-> FALSE] BY ONLY <3>1, Zenon
    <3>2. CASE r = [finite |-> TRUE, fault |-> TRUE] BY ONLY <3>2, Zenon
    <3>3. CASE r = [finite |-> FALSE, fault |-> TRUE] BY ONLY <3>3, Zenon
    <3>4. QED BY <3>1, <3>2, <3>3, Zenon
  <2>3. QED BY <2>1, <2>2, Zenon
<1>3. ASSUME NEW i \in Nat, NEW n \in Nat, NEW m \in Nat
      PROVE  /\ Sampled(i, n, m, r) \in Reading
             /\ Sampled(i, n, m, r).runId = i /\ Sampled(i, n, m, r).ms = m
             /\ Sampled(i, n, m, r).seq = n
             /\ (~Sampled(i, n, m, r).finite => Sampled(i, n, m, r).fault)
  <2>1. /\ Sampled(i, n, m, r).runId = i /\ Sampled(i, n, m, r).ms = m
        /\ Sampled(i, n, m, r).seq = n
        /\ Sampled(i, n, m, r).finite = r.finite /\ Sampled(i, n, m, r).fault = r.fault
    BY DEF Sampled
  <2>2. Sampled(i, n, m, r) \in Reading BY <1>2 DEF Sampled, Reading
  <2>3. QED BY <1>2, <2>1, <2>2, Zenon
<1>4. CASE /\ ~run.active /\ UNCHANGED run /\ Push(Sampled(0, 0, 0, r))
  <2>1. PICK s : s = Sampled(0, 0, 0, r) OBVIOUS
  <2>2. s \in Reading /\ s.runId = 0 /\ (~s.finite => s.fault) BY <1>3, <2>1
  <2>3. Idle(s) /\ Push(s) BY <1>4, <2>1, <2>2, Zenon DEF Idle
  <2>4. run' = run BY <1>4
  <2>5. QED BY <1>1, <2>2, <2>3, <2>4, Zenon
<1>5. CASE /\ run.active /\ run.seq < MaxSeq
           /\ \E ms \in (run.ms + 1)..MaxMs :
                 /\ run' = [run EXCEPT !.seq = @ + 1, !.ms = ms]
                 /\ Push(Sampled(run.id, run.seq + 1, ms, r))
  <2>1. PICK ms \in (run.ms + 1)..MaxMs :
                 /\ run' = [run EXCEPT !.seq = @ + 1, !.ms = ms]
                 /\ Push(Sampled(run.id, run.seq + 1, ms, r))
    BY <1>5, Zenon
  <2>2. ms \in Nat /\ ms > run.ms /\ run.seq + 1 \in Nat BY <1>1
  <2>5. PICK n \in Nat : n = run.seq + 1 BY <2>2
  <2>3. PICK s : s = Sampled(run.id, n, ms, r) OBVIOUS
  <2>4. s \in Reading /\ s.runId = run.id /\ s.ms = ms /\ s.seq = n /\ (~s.finite => s.fault)
    <3>1. run.id \in Nat /\ ms \in Nat BY <1>1, <2>2
    <3>2. QED BY ONLY <1>3, <2>3, <3>1
  <2>6. run' = [run EXCEPT !.seq = n, !.ms = ms] BY <2>1, <2>5
  <2>7. /\ run'.id = run.id /\ run'.active = run.active /\ run'.ms = ms /\ run'.seq = n
        /\ run' \in [id : Nat, active : BOOLEAN, seq : Nat, ms : Nat]
    BY ONLY <1>1, <2>2, <2>5, <2>6
  <2>8. Next1(s) BY <1>5, <2>2, <2>4, <2>5, <2>7 DEF Next1
  <2>9. Push(s) BY <2>1, <2>3, <2>5
  <2>10. QED BY <2>4, <2>7, <2>8, <2>9
<1>6. QED BY <1>2, <1>4, <1>5

LEMMA InitTyped == Init => TypeInv /\ Promise!PromiseInit
<1> SUFFICES ASSUME Init PROVE TypeInv /\ Promise!PromiseInit OBVIOUS
<1>1. RawCap \in Nat \ {0} /\ CoarseCap \in Nat \ {0} BY WindowAssumption
<1>2. NoBucket \in BucketRecord /\ FALSE \in BOOLEAN
  BY DEF BucketRecord, NoBucket
<1>3. NoSample \in Reading BY DEF NoSample, Reading
<1>4. NoCoarse \in CoarseSample BY DEF NoCoarse, CoarseSample
<1>5. RingTypeOK BY <1>1, <1>3, <1>4 DEF Init, RingTypeOK
<1>6. RunTypeOK BY <1>2 DEF Init, RunTypeOK
<1>7. RawList = <<>> /\ Done = <<>> BY DEF Init, RawList, Done, Listed
<1>8. Window = [runId |-> 0, raw |-> <<>>, coarse |-> <<>>, bucket |-> NoBucket]
  BY <1>7, WindowIs DEF Init
<1>9. Promise!PromiseInit BY <1>8, PromiseWords DEF Init, Promise!PromiseInit, Promise!Empty
<1>10. Closed BY DEF Init, Closed
<1>11. QED BY <1>5, <1>6, <1>9, <1>10 DEF TypeInv

(* A reading is pushed, whatever the manager does. *)
LEMMA TickKeeps ==
    ASSUME TypeInv, Tick
    PROVE  TypeInv' /\ Promise!PromiseNext
<1>1. RingTypeOK /\ RunTypeOK BY DEF TypeInv
<1>2. run' \in [id : Nat, active : BOOLEAN, seq : Nat, ms : Nat] BY <1>1, TickIs
<1>3. PICK s \in Reading : Push(s) BY <1>1, TickIs
<1>4. /\ RingTypeOK' /\ bucket' \in BucketRecord /\ currentRun' \in Nat
      /\ taken' \in SUBSET Reading /\ Was' = Promise!Pushed(Was, s)
  BY <1>1, <1>3, PushKeeps
<1>5. call' = Promise!PushCall(s) BY <1>3 DEF Push
<1>6. Promise!Applied(Window, call') = Promise!Pushed(Window, s) /\ call' # Promise!NoCall
  BY <1>5, AppliedIs
<1>7. Window = Was BY WindowMade DEF IsWindow
<1>8. Window' = Was'
  <2>1. IsWindow' BY WindowMade, PTL
  <2>2. QED BY <2>1 DEF IsWindow
<1>9. Promise!PromiseNext BY <1>4, <1>6, <1>7, <1>8 DEF Promise!PromiseNext
<1>10. Closed'
  <2>1. bucket' = bucket \/ bucket'.open BY <1>1, <1>3, PushOpens
  <2>2. Closed BY DEF TypeInv
  <2>3. QED BY <2>1, <2>2, Zenon DEF Closed
<1>11. RunTypeOK' BY <1>2, <1>4 DEF RunTypeOK
<1>12. QED BY <1>4, <1>9, <1>10, <1>11 DEF TypeInv

LEMMA StartRunKeeps ==
    ASSUME TypeInv, StartRun
    PROVE  TypeInv' /\ Promise!PromiseNext
<1>1. RingTypeOK /\ RunTypeOK BY DEF TypeInv
<1>2. NextRunId \in Nat BY <1>1 DEF RunTypeOK, NextRunId
<1>3. PICK r \in Nat : r = NextRunId BY <1>2
<1>4. Clear(r) BY <1>3 DEF StartRun
<1>5. /\ RingTypeOK' /\ bucket' = NoBucket /\ currentRun' = r /\ taken' = {}
      /\ RawList' = <<>> /\ Done' = <<>>
  BY <1>1, <1>4, ClearIs
<1>6. run' \in [id : Nat, active : BOOLEAN, seq : Nat, ms : Nat]
  <2>1. TRUE \in BOOLEAN BY Zenon
  <2>2. run' = [id |-> r, active |-> TRUE, seq |-> 0, ms |-> 0] BY <1>3 DEF StartRun
  <2>3. QED BY <2>1, <2>2
<1>7. bucket' \in BucketRecord BY <1>5 DEF NoBucket, BucketRecord
<1>8. Promise!Applied(Window, call') = Promise!Empty(r) /\ call' # Promise!NoCall
  <2>1. call' = Promise!ClearCall(r) BY <1>4 DEF Clear
  <2>2. QED BY <2>1, AppliedIs
<1>9. Window' = Was'
  <2>1. IsWindow' BY WindowMade, PTL
  <2>2. QED BY <2>1 DEF IsWindow
<1>10. Was' = [runId |-> r, raw |-> <<>>, coarse |-> <<>>, bucket |-> NoBucket]
  BY <1>5 DEF Was, Made
<1>11. Promise!Empty(r) = [runId |-> r, raw |-> <<>>, coarse |-> <<>>, bucket |-> NoBucket]
  BY PromiseWords DEF Promise!Empty
<1>12. Promise!PromiseNext BY <1>8, <1>9, <1>10, <1>11 DEF Promise!PromiseNext
<1>13. Closed' BY <1>5 DEF Closed
<1>14. RunTypeOK' BY <1>5, <1>6, <1>7 DEF RunTypeOK
<1>15. QED BY <1>5, <1>12, <1>13, <1>14 DEF TypeInv

LEMMA FlushKeeps ==
    ASSUME TypeInv, Flush
    PROVE  TypeInv' /\ Promise!PromiseNext
<1>1. RingTypeOK /\ RunTypeOK BY DEF TypeInv
<1>2. /\ RingTypeOK' /\ RawList' = RawList
      /\ bucket' = NoBucket /\ currentRun' = currentRun /\ taken' = taken /\ run' = run
      /\ bucket.open => CoarseAdds(Sealed)
      /\ ~bucket.open => CoarseSame
  BY <1>1, FlushIs
<1>3. bucket \in BucketRecord /\ NoBucket \in BucketRecord
  BY <1>1 DEF RunTypeOK, NoBucket, BucketRecord
<1>4. RunTypeOK' BY <1>1, <1>2, <1>3 DEF RunTypeOK
<1>5. Promise!Applied(Window, call') = Promise!Finalize(Window) /\ call' # Promise!NoCall
  <2>1. call' = Promise!FlushCall BY DEF Flush
  <2>2. QED BY <2>1, AppliedIs
<1>6. Promise!Finalize(Window) = Was'
  <2>1. Window = Made(currentRun, RawList, Done, bucket) BY WindowMade DEF IsWindow, Was
  <2>2. CASE bucket.open
    <3>1. Promise!Finalize(Window) = Made(currentRun, RawList,
                 Newest(CoarseCap, Append(Done, SealOf(currentRun, bucket))), NoBucket)
      BY <1>3, <2>1, <2>2, FinalizedIs
    <3>2. Done' = Newest(CoarseCap, Append(Done, SealOf(currentRun, bucket)))
      BY <1>2, <2>2 DEF CoarseAdds, Sealed, SealOf
    <3>3. QED BY <1>2, <3>1, <3>2 DEF Was
  <2>3. CASE ~bucket.open
    <3>1. Promise!Finalize(Window) = Window BY <1>3, <2>1, <2>3, FinalizedIs
    <3>2. Done' = Done BY <1>2, <2>3 DEF CoarseSame
    <3>3. bucket = NoBucket BY <2>3 DEF TypeInv, Closed
    <3>4. QED BY <1>2, <2>1, <3>1, <3>2, <3>3 DEF Was
  <2>4. QED BY <2>2, <2>3
<1>7. Window' = Was'
  <2>1. IsWindow' BY WindowMade, PTL
  <2>2. QED BY <2>1 DEF IsWindow
<1>8. Promise!PromiseNext BY <1>5, <1>6, <1>7 DEF Promise!PromiseNext
<1>9. Closed' BY <1>2 DEF Closed
<1>10. QED BY <1>2, <1>4, <1>8, <1>9 DEF TypeInv

(* The records of the saved file that the model restores. *)
Saved == [runId : 1..MaxRun, ms : {0, Resolution}, of : {{}}, fault : BOOLEAN]

LEMMA SavedIs == \A c \in Saved : c \in CoarseSample /\ c.runId \in Nat /\ c.runId # 0
<1>1. MaxRun \in Nat /\ Resolution \in Nat BY StoreAssumption, WindowAssumption
<1>2. QED BY <1>1 DEF Saved, CoarseSample

LEMMA RestoreKeeps ==
    ASSUME TypeInv, NEW c \in Saved, RestoreCoarse(c)
    PROVE  TypeInv' /\ Promise!PromiseNext
<1>1. RingTypeOK /\ RunTypeOK /\ Closed BY DEF TypeInv
<1>2. c \in CoarseSample /\ c.runId \in Nat BY SavedIs
<1>3. /\ RingTypeOK' /\ RawList' = RawList
      /\ bucket' = bucket /\ currentRun' = c.runId /\ taken' = taken /\ run' = run
      /\ CoarseAdds(c)
  BY <1>1, <1>2, RestoreIs
<1>4. RunTypeOK' BY <1>1, <1>2, <1>3 DEF RunTypeOK
<1>5. Closed' BY <1>1, <1>3 DEF Closed
<1>6. Promise!Applied(Window, call') = Promise!Restored(Window, c) /\ call' # Promise!NoCall
  <2>1. call' = Promise!RestoreCall(c) BY DEF RestoreCoarse
  <2>2. QED BY <2>1, AppliedIs
<1>7. Promise!Restored(Window, c) = Was'
  <2>1. PICK n : n = Newest(CoarseCap, Append(Done, c)) OBVIOUS
  <2>2. PICK r, q, d, b : r = currentRun /\ q = RawList /\ d = Done /\ b = bucket OBVIOUS
  <2>3. PICK w : w = Window OBVIOUS
  <2>4. w = [runId |-> r, raw |-> q, coarse |-> d, bucket |-> b]
    BY <2>2, <2>3, WindowMade DEF IsWindow, Was, Made
  <2>5. Promise!Newest(CoarseCap, Append(w.coarse, c)) = n BY <2>1, <2>2, <2>4, PromiseWords
  <2>6. Promise!Restored(w, c) = [w EXCEPT !.runId = c.runId, !.coarse = n]
    BY <2>5 DEF Promise!Restored
  <2>7. PICK v : v = [w EXCEPT !.runId = c.runId] OBVIOUS
  <2>8. v = [runId |-> c.runId, raw |-> q, coarse |-> d, bucket |-> b] BY ONLY <2>4, <2>7
  <2>9. [w EXCEPT !.runId = c.runId, !.coarse = n] = [v EXCEPT !.coarse = n]
    BY ONLY <2>4, <2>7, <2>8
  <2>10. [v EXCEPT !.coarse = n] = [runId |-> c.runId, raw |-> q, coarse |-> n, bucket |-> b]
    BY ONLY <2>8
  <2>11. Was' = [runId |-> c.runId, raw |-> q, coarse |-> n, bucket |-> b]
    BY <1>3, <2>1, <2>2 DEF CoarseAdds, Was, Made
  <2>12. QED BY <2>3, <2>6, <2>9, <2>10, <2>11
<1>8. Window' = Was'
  <2>1. IsWindow' BY WindowMade, PTL
  <2>2. QED BY <2>1 DEF IsWindow
<1>9. Promise!PromiseNext BY <1>6, <1>7, <1>8 DEF Promise!PromiseNext
<1>10. QED BY <1>3, <1>4, <1>5, <1>9 DEF TypeInv

LEMMA SameStore ==
    ASSUME TypeInv, UNCHANGED <<rawRing, coarseRing, currentRun, bucket, call, taken>>,
           run' \in [id : Nat, active : BOOLEAN, seq : Nat, ms : Nat]
    PROVE  TypeInv' /\ UNCHANGED <<Window, call>>
<1>1. RingTypeOK /\ RunTypeOK /\ Closed BY DEF TypeInv
<1>2. /\ raw' = raw /\ rawHead' = rawHead /\ rawSize' = rawSize
      /\ coarse' = coarse /\ coarseHead' = coarseHead /\ coarseSize' = coarseSize
      /\ currentRun' = currentRun /\ bucket' = bucket /\ call' = call /\ taken' = taken
  BY DEF rawRing, coarseRing
<1>3. RingTypeOK' BY <1>1, <1>2 DEF RingTypeOK
<1>4. RunTypeOK' BY <1>1, <1>2 DEF RunTypeOK
<1>5. Closed' BY <1>1, <1>2 DEF Closed
<1>6. Was' = Was BY <1>2 DEF Was, RawList, Done
<1>7. Window = Was /\ Window' = Was'
  <2>1. IsWindow' BY WindowMade, PTL
  <2>2. QED BY <2>1, WindowMade DEF IsWindow
<1>8. QED BY <1>2, <1>3, <1>4, <1>5, <1>6, <1>7 DEF TypeInv

LEMMA StartUnclearedRun ==
    ASSUME RunTypeOK, StartRunUncleared
    PROVE  /\ run' \in [id : Nat, active : BOOLEAN, seq : Nat, ms : Nat]
           /\ run'.id = NextRunId /\ run'.active /\ run'.ms = 0 /\ NextRunId \in Nat
<1>1. TRUE \in BOOLEAN BY Zenon
<1>2. NextRunId \in Nat BY DEF RunTypeOK, NextRunId
<1>3. PICK r \in Nat : r = NextRunId BY <1>2
<1>4. run' = [id |-> r, active |-> TRUE, seq |-> 0, ms |-> 0] BY <1>3 DEF StartRunUncleared
<1>5. QED BY <1>1, <1>3, <1>4

LEMMA StoppedRun ==
    ASSUME RunTypeOK, StopRun
    PROVE  /\ run' \in [id : Nat, active : BOOLEAN, seq : Nat, ms : Nat]
           /\ run'.id = run.id /\ ~run'.active /\ run'.ms = run.ms /\ run'.seq = run.seq
<1>1. PICK f \in BOOLEAN : f = FALSE BY Zenon
<1>2. run' = [run EXCEPT !.active = f] BY <1>1, Zenon DEF StopRun
<1>3. run \in [id : Nat, active : BOOLEAN, seq : Nat, ms : Nat] BY DEF RunTypeOK
<1>4. /\ run' \in [id : Nat, active : BOOLEAN, seq : Nat, ms : Nat]
      /\ run'.id = run.id /\ run'.active = f /\ run'.ms = run.ms /\ run'.seq = run.seq
  BY ONLY <1>1, <1>2, <1>3
<1>5. ~run'.active BY <1>1, <1>4, Zenon
<1>6. QED BY <1>4, <1>5

LEMMA StepKeeps ==
    ASSUME TypeInv, [Next]_vars
    PROVE  TypeInv' /\ [Promise!PromiseNext]_<<Window, call>>
<1>1. RunTypeOK BY DEF TypeInv
<1>2. CASE StartRun BY <1>2, StartRunKeeps
<1>3. CASE StartRunUncleared
  <2>1. UNCHANGED <<rawRing, coarseRing, currentRun, bucket, call, taken>>
    BY <1>3 DEF StartRunUncleared
  <2>2. QED BY <1>1, <1>3, <2>1, StartUnclearedRun, SameStore
<1>4. CASE StopRun
  <2>1. UNCHANGED <<rawRing, coarseRing, currentRun, bucket, call, taken>>
    BY <1>4 DEF StopRun
  <2>2. QED BY <1>1, <1>4, <2>1, StoppedRun, SameStore
<1>5. CASE Tick BY <1>5, TickKeeps
<1>6. CASE Flush BY <1>6, FlushKeeps
<1>7. CASE \E c \in [runId : 1..MaxRun, ms : {0, Resolution}, of : {{}}, fault : BOOLEAN] :
             RestoreCoarse(c)
  BY <1>7, RestoreKeeps DEF Saved
<1>8. CASE UNCHANGED vars
  <2>1. UNCHANGED <<rawRing, coarseRing, currentRun, bucket, call, taken>> /\ run' = run
    BY <1>8 DEF vars
  <2>2. run' \in [id : Nat, active : BOOLEAN, seq : Nat, ms : Nat] BY <1>1, <2>1 DEF RunTypeOK
  <2>3. QED BY <2>1, <2>2, SameStore
<1>9. QED BY <1>2, <1>3, <1>4, <1>5, <1>6, <1>7, <1>8 DEF Next

(* Every step of the two rings is the step of the abstract history: after any
   calls of push, clear, flush and restoreCoarse, whatever the heads have wrapped
   over and however small the rings, they hold the newest samples and the newest
   finished buckets of the current run, oldest first. *)
THEOREM RingsImplementPromise == Spec => RingsKeepTheWindow
<1>1. Init => TypeInv /\ Promise!PromiseInit BY InitTyped
<1>2. TypeInv /\ [Next]_vars => TypeInv' /\ [Promise!PromiseNext]_<<Window, call>>
  BY StepKeeps
<1>3. QED BY <1>1, <1>2, PTL DEF Spec, RingsKeepTheWindow, Promise!PromiseSpec

-----------------------------------------------------------------------------
LEMMA DoneTyped ==
    ASSUME RingTypeOK
    PROVE  \A j \in 1..coarseSize : Done[j] \in CoarseSample /\ Done[j].ms \in Nat
<1> TAKE j \in 1..coarseSize
<1>1. PICK q \in Seq(CoarseSample) : q = Done /\ Len(q) = coarseSize BY RingFacts
<1>2. q[j] \in CoarseSample BY <1>1
<1>3. \A c \in CoarseSample : c.ms \in Nat BY DEF CoarseSample
<1>4. QED BY <1>1, <1>2, <1>3

(* What was added to the finished buckets, entry by entry: when the ring is
   full, entry i is the one that was i + 1. *)
LEMMA AddedAt ==
    ASSUME RingTypeOK, NEW c \in CoarseSample, CoarseAdds(c)
    PROVE  \E k \in {0, 1}, m \in 1..CoarseCap :
             /\ coarseSize' = m /\ m = coarseSize + 1 - k
             /\ (k = 1 <=> coarseSize = CoarseCap)
             /\ Done'[m] = c
             /\ \A i \in 1..(m - 1) : i + k \in 1..coarseSize /\ Done'[i] = Done[i + k]
<1>1. /\ CoarseCap \in Nat \ {0} /\ Done \in Seq(CoarseSample) /\ Len(Done) = coarseSize
      /\ coarseSize \in 0..CoarseCap
  BY RingFacts
<1> PICK n \in Nat : n = coarseSize BY <1>1
<1>2. PICK m \in Nat : m = (IF n < CoarseCap THEN n + 1 ELSE n) OBVIOUS
<1>3. coarseSize' = m BY <1>2 DEF CoarseAdds, Grown
<1>4. PICK q \in Seq(CoarseSample) : q = Done /\ Len(q) = n BY <1>1
<1> PICK a : a = Append(q, c) OBVIOUS
<1>5. /\ a \in Seq(CoarseSample) /\ Len(a) = n + 1 /\ a[n + 1] = c
      /\ \A i \in 1..n : a[i] = q[i]
  BY <1>4
<1>6. PICK p : p = Done' /\ p = Newest(CoarseCap, a) BY <1>4, <1>5 DEF CoarseAdds
<1>7. CASE n < CoarseCap
  <2>1. ~(n + 1 > CoarseCap) BY <1>1, <1>7
  <2>2. p = SubSeq(a, 1, n + 1) BY <1>5, <1>6, <2>1 DEF Newest
  <2>3. SubSeq(a, 1, n + 1) = a BY <1>5
  <2>4. m = n + 1 - 0 /\ m \in 1..CoarseCap /\ ~(n = CoarseCap) /\ m - 1 = n
    BY <1>1, <1>2, <1>7
  <2>5. \A i \in 1..(m - 1) : i + 0 \in 1..n /\ p[i] = q[i + 0]
    BY <1>5, <2>2, <2>3, <2>4
  <2>6. p[m] = c BY <1>5, <2>2, <2>3, <2>4
  <2>7. QED BY <1>3, <1>4, <1>6, <2>4, <2>5, <2>6
<1>8. CASE n = CoarseCap
  <2>1. n + 1 > CoarseCap /\ (n + 1) - CoarseCap + 1 = 2 BY <1>1, <1>8
  <2>2. p = SubSeq(a, 2, n + 1) BY <1>5, <1>6, <2>1 DEF Newest
  <2>3. m = n + 1 - 1 /\ m \in 1..CoarseCap /\ m = n BY <1>1, <1>2, <1>8
  <2>4. \A i \in 1..n : p[i] = a[i + 1] BY <1>5, <2>2
  <2>5. \A i \in 1..(m - 1) : i + 1 \in 1..n /\ p[i] = q[i + 1] BY <1>5, <2>3, <2>4
  <2>6. p[m] = c BY <1>5, <2>3, <2>4
  <2>7. QED BY <1>3, <1>4, <1>6, <1>8, <2>3, <2>5, <2>6
<1>9. QED BY <1>1, <1>7, <1>8

(* An added bucket later than all leaves them ascending. *)
LEMMA AddedRises ==
    ASSUME RingTypeOK, NEW c \in CoarseSample, CoarseAdds(c), Rising, Below(c.ms)
    PROVE  /\ Rising'
           /\ \A m \in Nat : c.ms < m => Below(m)'
           /\ \A i \in 1..coarseSize' : Done'[i] = c \/ \E j \in 1..coarseSize : Done'[i] = Done[j]
<1>1. PICK k \in {0, 1}, m \in 1..CoarseCap :
             /\ coarseSize' = m /\ m = coarseSize + 1 - k
             /\ Done'[m] = c
             /\ \A i \in 1..(m - 1) : i + k \in 1..coarseSize /\ Done'[i] = Done[i + k]
  BY AddedAt
<1>2. CoarseCap \in Nat BY WindowAssumption
<1>3. PICK p : p = Done' OBVIOUS
<1>4. \A i \in 1..m : i = m \/ i \in 1..(m - 1) BY <1>2
<1>5. \A i \in 1..m : p[i] = c \/ \E j \in 1..coarseSize : p[i] = Done[j]
  BY <1>1, <1>3, <1>4
<1>6. \A j \in 1..coarseSize : Done[j].ms \in Nat BY DoneTyped
<1>7. \A x \in Nat : c.ms < x => \A i \in 1..m : p[i].ms < x
  <2> SUFFICES ASSUME NEW x \in Nat, c.ms < x, NEW i \in 1..m PROVE p[i].ms < x OBVIOUS
  <2>1. c.ms \in Nat BY DEF CoarseSample
  <2>2. CASE p[i] = c BY <2>2
  <2>3. ASSUME NEW j \in 1..coarseSize, p[i] = Done[j] PROVE p[i].ms < x
    <3>1. Done[j].ms < c.ms /\ Done[j].ms \in Nat BY <1>6 DEF Below
    <3>2. QED BY <2>1, <2>3, <3>1
  <2>4. QED BY <1>5, <2>2, <2>3
<1>8. ASSUME NEW i \in 1..m, NEW j \in 1..m, i < j PROVE p[i].ms < p[j].ms
  <2>1. i \in 1..(m - 1) BY <1>2, <1>8
  <2>2. i + k \in 1..coarseSize /\ p[i] = Done[i + k] BY <1>1, <1>3, <2>1
  <2>3. CASE j = m BY <1>1, <1>3, <2>2, <2>3 DEF Below
  <2>4. CASE j \in 1..(m - 1)
    <3>1. j + k \in 1..coarseSize /\ p[j] = Done[j + k] BY <1>1, <1>3, <2>4
    <3>2. i + k < j + k BY <1>2, <1>8
    <3>3. QED BY <2>2, <3>1, <3>2 DEF Rising
  <2>5. QED BY <1>4, <2>3, <2>4
<1>9. QED BY <1>1, <1>3, <1>5, <1>7, <1>8 DEF Rising, Below

(* An interval that was finished stays finished, or is older than all that are
   left; the interval added is finished. *)
LEMMA AddedFiles ==
    ASSUME RingTypeOK, NEW c \in CoarseSample, CoarseAdds(c), Rising, Below(c.ms),
           NEW x \in Nat, Filed(x) \/ x = c.ms
    PROVE  Filed(x)'
<1>1. PICK k \in {0, 1}, m \in 1..CoarseCap :
             /\ coarseSize' = m /\ m = coarseSize + 1 - k
             /\ (k = 1 <=> coarseSize = CoarseCap)
             /\ Done'[m] = c
             /\ \A i \in 1..(m - 1) : i + k \in 1..coarseSize /\ Done'[i] = Done[i + k]
  BY AddedAt
<1>2. CoarseCap \in Nat \ {0} /\ coarseSize \in 0..CoarseCap BY RingFacts
<1>3. PICK p : p = Done' OBVIOUS
<1>4. \A j \in 1..coarseSize : Done[j].ms \in Nat BY DoneTyped
<1>5. c.ms \in Nat BY DEF CoarseSample
<1>6. \A i \in 1..m : i = m \/ i \in 1..(m - 1) BY <1>2
<1>7. CASE x = c.ms
  <2>1. m \in 1..m /\ p[m].ms = x BY <1>1, <1>2, <1>3, <1>7
  <2>2. QED BY <1>1, <1>3, <2>1 DEF Filed
<1>8. ASSUME NEW j \in 1..coarseSize, Done[j].ms = x, j - k \in 1..(m - 1) PROVE Filed(x)'
  <2>1. PICK i \in 1..(m - 1) : i = j - k BY <1>8
  <2>2. i + k = j /\ i \in 1..m BY <1>2, <2>1
  <2>3. p[i].ms = x BY <1>1, <1>3, <1>8, <2>1, <2>2
  <2>4. QED BY <1>1, <1>3, <2>2, <2>3 DEF Filed
<1>9. ASSUME k = 1, \A i \in 1..m : x < p[i].ms PROVE Filed(x)'
  <2>1. coarseSize' = CoarseCap BY <1>1, <1>2, <1>9
  <2>2. QED BY <1>1, <1>3, <1>9, <2>1 DEF Filed
<1>10. ASSUME NEW j \in 1..coarseSize, Done[j].ms = x PROVE Filed(x)'
  <2>1. j - k \in 1..(m - 1) \/ (k = 1 /\ j = 1) BY <1>1, <1>2
  <2>2. CASE k = 1 /\ j = 1
    <3>1. ASSUME NEW i \in 1..m PROVE x < p[i].ms
      <4>1. CASE i = m BY <1>1, <1>3, <1>10, <4>1 DEF Below
      <4>2. CASE i \in 1..(m - 1)
        <5>1. i + k \in 1..coarseSize /\ p[i] = Done[i + k] /\ j < i + k
          BY <1>1, <1>2, <1>3, <2>2, <4>2
        <5>2. QED BY <1>10, <5>1 DEF Rising
      <4>3. QED BY <1>6, <4>1, <4>2
    <3>2. QED BY <1>9, <2>2, <3>1
  <2>3. QED BY <1>8, <1>10, <2>1, <2>2
<1>11. ASSUME coarseSize = CoarseCap, \A i \in 1..coarseSize : x < Done[i].ms PROVE Filed(x)'
  <2>1. k = 1 BY <1>1, <1>11
  <2>2. 1 \in 1..coarseSize BY <1>2, <1>11
  <2>3. x < Done[1].ms /\ Done[1].ms < c.ms /\ Done[1].ms \in Nat
    BY <1>4, <1>11, <2>2 DEF Below
  <2>4. x < c.ms BY <1>5, <2>3
  <2>5. ASSUME NEW i \in 1..m PROVE x < p[i].ms
    <3>1. CASE i = m BY <1>1, <1>3, <2>4, <3>1
    <3>2. CASE i \in 1..(m - 1)
      <4>1. i + k \in 1..coarseSize /\ p[i] = Done[i + k] BY <1>1, <1>3, <3>2
      <4>2. QED BY <1>11, <4>1
    <3>3. QED BY <1>6, <3>1, <3>2
  <2>6. QED BY <1>9, <2>1, <2>5
<1>12. QED BY <1>7, <1>10, <1>11 DEF Filed

-----------------------------------------------------------------------------
(* A sample of another interval leaves a bucket whole. *)
LEMMA WholeGrows ==
    ASSUME NEW T, NEW s, NEW b, b.ms # Slot(s), Whole(T, b)
    PROVE  Whole(T \cup {s}, b)
<1> PICK x : x = b.ms OBVIOUS
<1>1. Finite(T \cup {s}, x) = Finite(T, x) BY Zenon DEF Finite
<1>2. Faulty(T \cup {s}, x) <=> Faulty(T, x) BY Zenon DEF Faulty
<1>3. QED BY <1>1, <1>2, Zenon DEF Whole

(* A sample of its interval that joins a bucket leaves it whole. *)
LEMMA WholeJoins ==
    ASSUME NEW T, NEW s \in Reading, NEW b \in BucketRecord, b.ms = Slot(s), Whole(T, b),
           ~s.finite => s.fault
    PROVE  Whole(T \cup {s}, Joined(b, s))
<1> PICK x : x = b.ms OBVIOUS
<1>1. /\ Joined(b, s).ms = x
      /\ Joined(b, s).of = (IF s.finite THEN b.of \cup {s.seq} ELSE b.of)
      /\ (Joined(b, s).fault <=> b.fault \/ s.fault \/ ~s.finite)
  BY JoinedIs
<1>2. b.of = Finite(T, x) /\ (b.fault <=> Faulty(T, x)) BY DEF Whole
<1>3. Finite(T \cup {s}, x) = (IF s.finite THEN b.of \cup {s.seq} ELSE b.of)
  <2>1. CASE s.finite
    <3>1. Finite(T \cup {s}, x) = Finite(T, x) \cup {s.seq} BY <2>1, Zenon DEF Finite
    <3>2. QED BY <1>2, <2>1, <3>1
  <2>2. CASE ~s.finite
    <3>1. Finite(T \cup {s}, x) = Finite(T, x) BY <2>2, Zenon DEF Finite
    <3>2. QED BY <1>2, <2>2, <3>1
  <2>3. QED BY <2>1, <2>2
<1>4. Faulty(T \cup {s}, x) <=> Faulty(T, x) \/ s.fault BY Zenon DEF Faulty
<1>5. Joined(b, s).fault <=> Faulty(T \cup {s}, x) BY <1>1, <1>2, <1>4, Zenon
<1>6. QED BY <1>1, <1>3, <1>5 DEF Whole

(* The first sample of an interval opens a bucket that is whole. *)
LEMMA WholeOpens ==
    ASSUME NEW T, NEW s \in Reading, \A t \in T : Slot(t) # Slot(s), ~s.finite => s.fault
    PROVE  Whole(T \cup {s}, Joined(Fresh(s), s))
<1> PICK x : x = Slot(s) OBVIOUS
<1> PICK b : b = Fresh(s) OBVIOUS
<1>1. b \in BucketRecord /\ b.ms = x /\ b.of = {} /\ ~b.fault BY FreshIs
<1>2. Finite(T, x) = {} BY Zenon DEF Finite
<1>3. ~Faulty(T, x) BY Zenon DEF Faulty
<1>4. Whole(T, b) BY <1>1, <1>2, <1>3 DEF Whole
<1>5. QED BY <1>1, <1>4, WholeJoins

(* The steps that leave the buckets alone. *)
SameBuckets == UNCHANGED <<coarseRing, currentRun, bucket, taken>>

LEMMA SameIs ==
    ASSUME SameBuckets
    PROVE  /\ Done' = Done /\ coarseSize' = coarseSize /\ currentRun' = currentRun
           /\ bucket' = bucket /\ taken' = taken
BY DEF SameBuckets, coarseRing, Done

LEMMA SameRest ==
    ASSUME SameBuckets, Ascending, Placed, FinishedWhole \/ ~InRun, OpenWhole \/ ~InRun
    PROVE  /\ Ascending' /\ Placed'
           /\ InRun => FinishedWhole' /\ OpenWhole'
<1>1. /\ Done' = Done /\ coarseSize' = coarseSize /\ currentRun' = currentRun
      /\ bucket' = bucket /\ taken' = taken
  BY SameIs
<1>2. Ascending' BY <1>1 DEF Ascending, Rising, Below
<1>3. Placed' BY <1>1 DEF Placed, Filed
<1>4. FinishedWhole => FinishedWhole' BY <1>1 DEF FinishedWhole
<1>5. OpenWhole => OpenWhole' BY <1>1 DEF OpenWhole
<1>6. QED BY <1>2, <1>3, <1>4, <1>5

(* Stopping a run, and an idle reading. *)
LEMMA QuietRest ==
    ASSUME Rest, SameBuckets, run'.id = run.id, run'.ms = run.ms, run'.active => run.active
    PROVE  Rest'
<1>1. /\ Done' = Done /\ coarseSize' = coarseSize /\ currentRun' = currentRun
      /\ bucket' = bucket /\ taken' = taken
  BY SameIs
<1>2. InRun' <=> InRun BY <1>1 DEF InRun
<1>3. Numbered' BY <1>1 DEF Rest, Numbered
<1>4. Sampling' BY <1>1, <1>2 DEF Rest, Sampling
<1>5. Ascending' /\ Placed' /\ (InRun => FinishedWhole' /\ OpenWhole')
  BY SameRest DEF Rest
<1>6. QED BY <1>2, <1>3, <1>4, <1>5 DEF Rest

LEMMA NewRunIs ==
    ASSUME RunTypeOK
    PROVE  NextRunId \in Nat /\ NextRunId > currentRun /\ NextRunId # 0
BY DEF RunTypeOK, NextRunId

(* A run started without clearing the rings: they belong to another run. *)
LEMMA UnclearedRest ==
    ASSUME RunTypeOK, Rest, StartRunUncleared
    PROVE  Rest'
<1>1. SameBuckets BY DEF StartRunUncleared, SameBuckets
<1>2. /\ Done' = Done /\ coarseSize' = coarseSize /\ currentRun' = currentRun
      /\ bucket' = bucket /\ taken' = taken
  BY <1>1, SameIs
<1>3. run'.id > currentRun /\ run'.id # 0 /\ run'.id \in Nat /\ currentRun \in Nat
  BY StartUnclearedRun, NewRunIs DEF RunTypeOK
<1>4. ~InRun' BY <1>2, <1>3 DEF InRun
<1>5. Numbered' BY <1>2, <1>3 DEF Numbered
<1>6. Sampling' BY <1>2, <1>4 DEF Rest, Sampling
<1>7. Ascending' /\ Placed' BY <1>1, SameRest DEF Rest
<1>8. QED BY <1>4, <1>5, <1>6, <1>7 DEF Rest

(* The command's start clears the rings for the new run. *)
LEMMA ClearedRest ==
    ASSUME TypeInv, StartRun
    PROVE  Rest'
<1>1. RingTypeOK /\ RunTypeOK BY DEF TypeInv
<1>2. PICK r \in Nat : r = NextRunId /\ r # 0 BY <1>1, NewRunIs
<1>3. Clear(r) BY <1>2 DEF StartRun
<1>4. bucket' = NoBucket /\ currentRun' = r /\ taken' = {} /\ coarseSize' = 0
  BY <1>1, <1>3, ClearIs
<1>5. ~bucket'.open BY <1>4 DEF NoBucket
<1>6. run'.id = r
  <2>1. run' = [id |-> r, active |-> TRUE, seq |-> 0, ms |-> 0] BY <1>2 DEF StartRun
  <2>2. QED BY <2>1
<1>7. Numbered' BY <1>2, <1>4, <1>6 DEF Numbered
<1>8. Ascending' BY <1>4, <1>5 DEF Ascending, Rising, Below
<1>9. Sampling' BY <1>4, <1>5 DEF Sampling
<1>10. Placed' BY <1>4 DEF Placed
<1>11. FinishedWhole' BY <1>4 DEF FinishedWhole
<1>12. OpenWhole' BY <1>5 DEF OpenWhole
<1>13. QED BY <1>7, <1>8, <1>9, <1>10, <1>11, <1>12 DEF Rest

(* A bucket finished at the end of a run. *)
LEMMA FlushRest ==
    ASSUME TypeInv, Rest, Flush
    PROVE  Rest'
<1>1. RingTypeOK /\ RunTypeOK BY DEF TypeInv
<1>2. /\ bucket' = NoBucket /\ currentRun' = currentRun /\ taken' = taken /\ run' = run
      /\ bucket.open => CoarseAdds(Sealed)
      /\ ~bucket.open => CoarseSame
  BY <1>1, FlushIs
<1>3. ~bucket'.open BY <1>2 DEF NoBucket
<1>4. ~run'.active BY <1>2, Zenon DEF Flush
<1>5. InRun' <=> InRun BY <1>2 DEF InRun
<1>6. Numbered' BY <1>2, <1>3 DEF Rest, Numbered
<1>7. Sampling' BY <1>2, <1>3, <1>4, <1>5 DEF Rest, Sampling
<1>8. OpenWhole' BY <1>3 DEF OpenWhole
<1>9. Ascending' /\ Placed' /\ (InRun => FinishedWhole')
  <2>1. CASE bucket.open
    <3>1. CoarseAdds(Sealed) BY <1>2, <2>1
    <3>2. /\ Sealed \in CoarseSample /\ Sealed.ms = bucket.ms /\ Sealed.runId = currentRun
          /\ Sealed.of = bucket.of /\ Sealed.fault = bucket.fault
      BY <1>1, SealedIs
    <3>3. PICK c \in CoarseSample : c = Sealed BY <3>2
    <3>4. Rising /\ Below(c.ms) BY <2>1, <3>2, <3>3 DEF Rest, Ascending
    <3>5. Rising' BY <1>1, <3>1, <3>3, <3>4, AddedRises
    <3>6. Ascending' BY <1>3, <3>5 DEF Ascending
    <3>7. Placed'
      <4> SUFFICES ASSUME NEW s \in taken PROVE Filed(Slot(s))' BY <1>2 DEF Placed
      <4>1. PICK x \in Nat : x = Slot(s) BY <1>1, SlotGrows DEF RunTypeOK
      <4>2. Filed(x) \/ x = c.ms BY <3>2, <3>3, <4>1 DEF Rest, Placed
      <4>3. Filed(x)' BY <1>1, <3>1, <3>3, <3>4, <4>2, AddedFiles
      <4>4. QED BY <4>1, <4>3
    <3>8. ASSUME InRun PROVE FinishedWhole'
      <4>1. FinishedWhole /\ Whole(taken, bucket) BY <2>1, <3>8 DEF Rest, OpenWhole
      <4>2. Whole(taken, c) BY <3>2, <3>3, <4>1 DEF Whole
      <4>3. \A i \in 1..coarseSize' : Done'[i] = c \/ \E j \in 1..coarseSize : Done'[i] = Done[j]
        BY <1>1, <3>1, <3>3, <3>4, AddedRises
      <4>4. QED BY <1>2, <3>2, <3>3, <4>1, <4>2, <4>3 DEF FinishedWhole
    <3>9. QED BY <3>6, <3>7, <3>8
  <2>2. CASE ~bucket.open
    <3>1. Done' = Done /\ coarseSize' = coarseSize BY <1>2, <2>2 DEF CoarseSame
    <3>2. Ascending' BY <1>3, <3>1 DEF Rest, Ascending, Rising
    <3>3. \A s \in taken : Filed(Slot(s)) BY <2>2 DEF Rest, Placed
    <3>4. Placed' BY <1>2, <3>1, <3>3 DEF Placed, Filed
    <3>5. FinishedWhole => FinishedWhole' BY <1>2, <3>1 DEF FinishedWhole
    <3>6. QED BY <3>2, <3>4, <3>5 DEF Rest
  <2>3. QED BY <2>1, <2>2
<1>10. QED BY <1>5, <1>6, <1>7, <1>8, <1>9 DEF Rest

(* A bucket of a saved run, before any run. *)
LEMMA RestoreRest ==
    ASSUME TypeInv, Rest, NEW c \in Saved, RestoreCoarse(c)
    PROVE  Rest'
<1>1. RingTypeOK /\ RunTypeOK /\ c \in CoarseSample BY SavedIs DEF TypeInv
<1>2. bucket' = bucket /\ currentRun' = c.runId /\ taken' = taken /\ run' = run /\ CoarseAdds(c)
  BY <1>1, RestoreIs
<1>3. run.id = 0 /\ taken = {} BY DEF RestoreCoarse, Rest, Numbered
<1>4. ~bucket.open BY DEF RestoreCoarse
<1>5. ~InRun' BY <1>2, <1>3, SavedIs DEF InRun
<1>6. Rising /\ Below(c.ms)
  <2>1. \A i \in 0..(coarseSize - 1) : CoarseAt(i).ms < c.ms BY DEF RestoreCoarse
  <2>2. \A i \in 1..coarseSize : Done[i] = CoarseAt(i - 1) BY WindowIs
  <2>3. \A i \in 1..coarseSize : i - 1 \in 0..(coarseSize - 1) BY <1>1 DEF RingTypeOK
  <2>4. QED BY <2>1, <2>2, <2>3 DEF Below, Rest, Ascending
<1>7. Rising' BY <1>1, <1>2, <1>6, AddedRises
<1>8. Ascending' BY <1>2, <1>4, <1>7 DEF Ascending
<1>9. Numbered' BY <1>2, <1>3 DEF Rest, Numbered
<1>10. Placed' BY <1>2, <1>3 DEF Placed
<1>11. Sampling' BY <1>2, <1>3, <1>5 DEF Sampling
<1>12. QED BY <1>5, <1>8, <1>9, <1>10, <1>11 DEF Rest

(* The first sample of a run the rings do not hold. *)
LEMMA OtherRest ==
    ASSUME TypeInv, Rest, NEW s \in Reading, PushOther(s), Next1(s), ~s.finite => s.fault,
           s.runId # 0
    PROVE  Rest'
<1>1. RingTypeOK /\ RunTypeOK BY DEF TypeInv
<1>2. /\ currentRun' = s.runId /\ taken' = {s} /\ bucket' = Joined(Fresh(s), s)
      /\ Done' = <<>> /\ coarseSize' = 0
  BY <1>1, PushOtherIs
<1>3. run'.id = s.runId /\ run'.ms = s.ms /\ s.runId \in Nat /\ s.ms \in Nat
  BY DEF Next1, Reading
<1> PICK b : b = Joined(Fresh(s), s) OBVIOUS
<1>4. b = Joined(Fresh(s), s) /\ b.ms = Slot(s)
  <2>1. Fresh(s) \in BucketRecord /\ Fresh(s).ms = Slot(s) BY FreshIs
  <2>2. Joined(Fresh(s), s).ms = Slot(s) BY <2>1, JoinedIs
  <2>3. QED BY <2>2
<1>5. b.open
  <2>1. Fresh(s) \in BucketRecord /\ Fresh(s).open BY FreshIs
  <2>2. Joined(Fresh(s), s).open BY <2>1, JoinedIs
  <2>3. QED BY <1>4, <2>2, Zenon
<1>6. Numbered' BY <1>2, <1>3 DEF Numbered
<1>7. Ascending' BY <1>2 DEF Ascending, Rising, Below
<1>8. Sampling'
  <2>1. \A t \in taken' : ~t.finite => t.fault BY <1>2
  <2>2. \A t \in taken' : t.ms <= run'.ms BY <1>2, <1>3
  <2>3. \E t \in taken' : Slot(t) = bucket'.ms BY <1>2, <1>4
  <2>4. bucket'.open BY <1>2, <1>4, <1>5
  <2>5. QED BY <2>1, <2>2, <2>3, <2>4 DEF Sampling
<1>9. Placed' BY <1>2, <1>4, <1>5 DEF Placed
<1>10. FinishedWhole' BY <1>2 DEF FinishedWhole
<1>11. OpenWhole'
  <2>1. Whole({} \cup {s}, Joined(Fresh(s), s)) BY WholeOpens
  <2>2. Whole(taken', bucket') BY <1>2, <2>1
  <2>3. QED BY <2>2 DEF OpenWhole
<1>12. QED BY <1>6, <1>7, <1>8, <1>9, <1>10, <1>11 DEF Rest

(* In a run the samples follow each other, so none is of an earlier bucket than
   the open one, and all earlier samples are of this bucket or an earlier one. *)
LEMMA InOrder ==
    ASSUME TypeInv, Rest, InRun, NEW s \in Reading, s.ms > run.ms
    PROVE  /\ \A t \in taken : Slot(t) <= Slot(s) /\ Slot(t) \in Nat
           /\ bucket.open => bucket.ms <= Slot(s) /\ (\A t \in taken : Slot(t) <= bucket.ms)
<1>1. RingTypeOK /\ RunTypeOK BY DEF TypeInv
<1>2. run.ms \in Nat /\ s.ms \in Nat /\ bucket.ms \in Nat /\ Slot(s) \in Nat
  BY <1>1, SlotGrows DEF RunTypeOK, Reading, BucketRecord
<1>3. ASSUME NEW t \in taken PROVE Slot(t) <= Slot(s) /\ Slot(t) \in Nat
  <2>1. t \in Reading /\ t.ms <= run.ms BY <1>1 DEF RunTypeOK, Rest, Sampling
  <2>2. t.ms \in Nat BY <2>1 DEF Reading
  <2>3. t.ms <= s.ms BY <1>2, <2>1, <2>2
  <2>4. QED BY <2>1, <2>3, SlotGrows
<1>4. ASSUME bucket.open
      PROVE  bucket.ms <= Slot(s) /\ (\A t \in taken : Slot(t) <= bucket.ms)
  <2>1. \E t \in taken : Slot(t) = bucket.ms BY <1>4 DEF Rest, Sampling
  <2>2. bucket.ms <= Slot(s) BY <1>3, <2>1
  <2>3. Below(bucket.ms) BY <1>4 DEF Rest, Ascending
  <2>4. ASSUME NEW t \in taken PROVE Slot(t) <= bucket.ms
    <3>1. Slot(t) = bucket.ms \/ Filed(Slot(t)) BY DEF Rest, Placed
    <3>2. Slot(t) \in Nat BY <1>3
    <3>3. ASSUME Filed(Slot(t)) PROVE Slot(t) <= bucket.ms
      <4>1. \E i \in 1..coarseSize : Slot(t) <= Done[i].ms /\ Done[i].ms \in Nat
        <5>1. CASE \E i \in 1..coarseSize : Done[i].ms = Slot(t) BY <3>2, <5>1
        <5>2. CASE coarseSize = CoarseCap /\ \A i \in 1..coarseSize : Slot(t) < Done[i].ms
          <6>1. 1 \in 1..coarseSize BY <1>1, <5>2, RingFacts
          <6>2. Slot(t) < Done[1].ms /\ Done[1].ms \in Nat BY <1>1, <5>2, <6>1, DoneTyped
          <6>3. QED BY <3>2, <6>1, <6>2
        <5>3. QED BY <3>3, <5>1, <5>2 DEF Filed
      <4>2. PICK i \in 1..coarseSize : Slot(t) <= Done[i].ms /\ Done[i].ms \in Nat BY <4>1
      <4>3. Done[i].ms < bucket.ms BY <2>3 DEF Below
      <4>4. QED BY <1>2, <3>2, <4>2, <4>3
    <3>4. QED BY <1>2, <3>1, <3>2, <3>3
  <2>5. QED BY <2>2, <2>4
<1>5. QED BY <1>3, <1>4

(* What every push of the current run keeps. *)
LEMMA CurrentNumbers ==
    ASSUME TypeInv, Rest, NEW s \in Reading, Next1(s), ~s.finite => s.fault, InRun,
           currentRun' = currentRun, taken' = taken \cup {s}, bucket'.open,
           bucket'.ms = Slot(s)
    PROVE  Numbered' /\ Sampling'
<1>1. RunTypeOK BY DEF TypeInv
<1>2. /\ run'.id = run.id /\ run'.ms = s.ms /\ s.ms > run.ms
      /\ run.ms \in Nat /\ s.ms \in Nat
  BY <1>1 DEF Next1, RunTypeOK, Reading
<1>3. run.id # 0 BY <1>1 DEF InRun
<1>4. Numbered' BY <1>2, <1>3 DEF Rest, Numbered
<1>5. \A t \in taken' : ~t.finite => t.fault BY DEF Rest, Sampling
<1>6. \A t \in taken' : t.ms <= run'.ms
  <2> SUFFICES ASSUME NEW t \in taken PROVE t.ms <= s.ms BY <1>2
  <2>1. t.ms <= run.ms BY DEF Rest, Sampling
  <2>2. t.ms \in Nat BY <1>1 DEF RunTypeOK, Reading
  <2>3. QED BY <1>2, <2>1, <2>2
<1>7. \E t \in taken' : Slot(t) = bucket'.ms OBVIOUS
<1>8. Sampling' BY <1>5, <1>6, <1>7 DEF Sampling
<1>9. QED BY <1>4, <1>8

(* The finished buckets do not hold what comes after them. *)
LEMMA FinishedKept ==
    ASSUME FinishedWhole, NEW s, Below(Slot(s)), currentRun' = currentRun,
           Done' = Done, coarseSize' = coarseSize, taken' = taken \cup {s},
           \A j \in 1..coarseSize : Done[j].ms \in Nat, Slot(s) \in Nat
    PROVE  FinishedWhole'
<1>1. ASSUME NEW i \in 1..coarseSize
      PROVE  Done[i].runId = currentRun /\ Whole(taken \cup {s}, Done[i])
  <2>1. PICK b : b = Done[i] OBVIOUS
  <2>2. b.runId = currentRun /\ Whole(taken, b) BY <2>1 DEF FinishedWhole
  <2>3. b.ms < Slot(s) /\ b.ms \in Nat BY <2>1 DEF Below
  <2>4. b.ms # Slot(s) BY <2>3
  <2>5. Whole(taken \cup {s}, b) BY <2>2, <2>4, WholeGrows
  <2>6. QED BY <2>1, <2>2, <2>5
<1>2. QED BY <1>1 DEF FinishedWhole

(* A sample of the open bucket. *)
LEMMA JoinsRest ==
    ASSUME TypeInv, Rest, NEW s \in Reading, Next1(s), ~s.finite => s.fault, InRun,
           currentRun' = currentRun, taken' = taken \cup {s}, Joins(s)
    PROVE  Rest'
<1>1. RingTypeOK /\ bucket \in BucketRecord BY DEF TypeInv, RunTypeOK
<1>2. /\ bucket.open /\ Slot(s) = bucket.ms /\ bucket' = Joined(bucket, s)
      /\ Done' = Done /\ coarseSize' = coarseSize
  BY DEF Joins, CoarseSame
<1>3. bucket'.ms = Slot(s) BY <1>1, <1>2, JoinedIs
<1>4. bucket'.open
  <2>1. Joined(bucket, s).open BY <1>1, <1>2, JoinedIs
  <2>2. QED BY <1>2, <2>1, Zenon
<1>5. Numbered' /\ Sampling' BY <1>3, <1>4, CurrentNumbers
<1>6. Rising /\ Below(Slot(s)) BY <1>2 DEF Rest, Ascending
<1>7. Ascending' BY <1>2, <1>3, <1>6 DEF Ascending, Rising, Below
<1>8. Placed'
  <2> SUFFICES ASSUME NEW t \in taken'
               PROVE  Slot(t) = bucket'.ms \/ Filed(Slot(t))'
    BY <1>4 DEF Placed
  <2>1. CASE t = s BY <1>3, <2>1
  <2>2. CASE t \in taken
    <3>1. Slot(t) = bucket.ms \/ Filed(Slot(t)) BY <2>2 DEF Rest, Placed
    <3>2. Filed(Slot(t)) => Filed(Slot(t))' BY <1>2 DEF Filed
    <3>3. QED BY <1>2, <1>3, <3>1, <3>2
  <2>3. QED BY <2>1, <2>2
<1>9. FinishedWhole'
  <2>1. FinishedWhole BY DEF Rest
  <2>2. Slot(s) \in Nat BY SlotGrows
  <2>3. \A j \in 1..coarseSize : Done[j].ms \in Nat BY <1>1, DoneTyped
  <2>4. QED BY <1>2, <1>6, <2>1, <2>2, <2>3, FinishedKept
<1>10. OpenWhole'
  <2>1. Whole(taken, bucket) BY <1>2 DEF Rest, OpenWhole
  <2>2. Whole(taken \cup {s}, Joined(bucket, s)) BY <1>1, <1>2, <2>1, WholeJoins
  <2>3. Whole(taken', bucket') BY <1>2, <2>2
  <2>4. QED BY <2>3 DEF OpenWhole
<1>11. QED BY <1>5, <1>7, <1>8, <1>9, <1>10 DEF Rest

(* The first sample of a run whose rings were cleared. *)
LEMMA OpensRest ==
    ASSUME TypeInv, Rest, NEW s \in Reading, Next1(s), ~s.finite => s.fault, InRun,
           currentRun' = currentRun, taken' = taken \cup {s}, Opens(s)
    PROVE  Rest'
<1>1. bucket' = Joined(Fresh(s), s) /\ Done' = Done /\ coarseSize' = coarseSize
  BY DEF Opens, CoarseSame
<1>2. taken = {} /\ coarseSize = 0
  <2>1. run.active /\ ~bucket.open BY Zenon DEF Next1, Opens
  <2>2. QED BY <2>1 DEF Rest, Sampling
<1>3. Fresh(s) \in BucketRecord /\ Fresh(s).ms = Slot(s) BY FreshIs
<1>4. bucket'.ms = Slot(s) BY <1>1, <1>3, JoinedIs
<1>5. bucket'.open
  <2>1. Fresh(s).open BY FreshIs
  <2>2. Joined(Fresh(s), s).open BY <1>3, <2>1, JoinedIs
  <2>3. QED BY <1>1, <2>2, Zenon
<1>6. Numbered' /\ Sampling' BY <1>4, <1>5, CurrentNumbers
<1>7. Ascending' BY <1>1, <1>2 DEF Ascending, Rising, Below
<1>8. Placed' BY <1>2, <1>4, <1>5 DEF Placed
<1>9. FinishedWhole' BY <1>1, <1>2 DEF FinishedWhole
<1>10. OpenWhole'
  <2>1. Whole(taken \cup {s}, Joined(Fresh(s), s)) BY <1>2, WholeOpens
  <2>2. Whole(taken', bucket') BY <1>1, <2>1
  <2>3. QED BY <2>2 DEF OpenWhole
<1>11. QED BY <1>6, <1>7, <1>8, <1>9, <1>10 DEF Rest

(* A sample of a later bucket finishes the open one. *)
LEMMA TurnsRest ==
    ASSUME TypeInv, Rest, NEW s \in Reading, Next1(s), ~s.finite => s.fault, InRun,
           currentRun' = currentRun, taken' = taken \cup {s}, Turns(s)
    PROVE  Rest'
<1>1. RingTypeOK /\ RunTypeOK /\ bucket \in BucketRecord /\ bucket.ms \in Nat /\ Slot(s) \in Nat
  BY SlotGrows DEF TypeInv, RunTypeOK, BucketRecord
<1>2. /\ bucket.open /\ bucket.ms < Slot(s) /\ bucket' = Joined(Fresh(s), s)
      /\ CoarseAdds(Sealed)
  BY <1>1 DEF Turns
<1>3. Fresh(s) \in BucketRecord /\ Fresh(s).ms = Slot(s) BY FreshIs
<1>4. bucket'.ms = Slot(s) BY <1>2, <1>3, JoinedIs
<1>5. bucket'.open
  <2>1. Fresh(s).open BY FreshIs
  <2>2. Joined(Fresh(s), s).open BY <1>3, <2>1, JoinedIs
  <2>3. QED BY <1>2, <2>2, Zenon
<1>6. Numbered' /\ Sampling' BY <1>4, <1>5, CurrentNumbers
<1>7. /\ Sealed \in CoarseSample /\ Sealed.ms = bucket.ms /\ Sealed.runId = currentRun
      /\ Sealed.of = bucket.of /\ Sealed.fault = bucket.fault
  BY <1>1, SealedIs
<1>8. PICK c \in CoarseSample : c = Sealed BY <1>7
<1>9. CoarseAdds(c) /\ Rising /\ Below(c.ms) /\ c.ms < Slot(s)
  BY <1>2, <1>7, <1>8 DEF Rest, Ascending
<1>10. Rising' /\ Below(Slot(s))' BY <1>1, <1>9, AddedRises
<1>11. \A i \in 1..coarseSize' : Done'[i] = c \/ \E j \in 1..coarseSize : Done'[i] = Done[j]
  BY <1>1, <1>9, AddedRises
<1>12. Ascending' BY <1>4, <1>10 DEF Ascending, Below
<1>13. Placed'
  <2> SUFFICES ASSUME NEW t \in taken'
               PROVE  Slot(t) = bucket'.ms \/ Filed(Slot(t))'
    BY <1>5 DEF Placed
  <2>1. CASE t = s BY <1>4, <2>1
  <2>2. CASE t \in taken
    <3>1. PICK x \in Nat : x = Slot(t) BY <1>1, <2>2, SlotGrows DEF RunTypeOK
    <3>2. Filed(x) \/ x = c.ms BY <1>7, <1>8, <2>2, <3>1 DEF Rest, Placed
    <3>3. Filed(x)' BY <1>1, <1>9, <3>2, AddedFiles
    <3>4. QED BY <3>1, <3>3
  <2>3. QED BY <2>1, <2>2
<1>14. FinishedWhole'
  <2>1. FinishedWhole /\ Whole(taken, bucket) BY <1>2 DEF Rest, OpenWhole
  <2>2. Whole(taken, c) /\ c.runId = currentRun BY <1>7, <1>8, <2>1 DEF Whole
  <2>3. c.ms \in Nat BY DEF CoarseSample
  <2>4. c.ms # Slot(s) BY <1>1, <1>9, <2>3
  <2>5. Whole(taken \cup {s}, c) BY <2>2, <2>4, WholeGrows
  <2>6. ASSUME NEW j \in 1..coarseSize
        PROVE  Done[j].runId = currentRun /\ Whole(taken \cup {s}, Done[j])
    <3>1. PICK b : b = Done[j] OBVIOUS
    <3>2. b.runId = currentRun /\ Whole(taken, b) BY <2>1, <3>1 DEF FinishedWhole
    <3>3. b.ms < c.ms /\ b.ms \in Nat BY <1>1, <1>9, <3>1, DoneTyped DEF Below
    <3>4. b.ms # Slot(s) BY <1>1, <1>9, <2>3, <3>3
    <3>5. Whole(taken \cup {s}, b) BY <3>2, <3>4, WholeGrows
    <3>6. QED BY <3>1, <3>2, <3>5
  <2>7. QED BY <1>11, <2>2, <2>5, <2>6 DEF FinishedWhole
<1>15. OpenWhole'
  <2>1. s.ms > run.ms BY DEF Next1
  <2>2. \A t \in taken : Slot(t) <= bucket.ms /\ Slot(t) \in Nat BY <1>2, <2>1, InOrder
  <2>3. \A t \in taken : Slot(t) # Slot(s) BY <1>1, <1>2, <2>2
  <2>4. Whole(taken \cup {s}, Joined(Fresh(s), s)) BY <2>3, WholeOpens
  <2>5. Whole(taken', bucket') BY <1>2, <2>4
  <2>6. QED BY <2>5 DEF OpenWhole
<1>16. QED BY <1>6, <1>12, <1>13, <1>14, <1>15 DEF Rest

(* A reading of the sampling tick. *)
LEMMA TickRest ==
    ASSUME TypeInv, Rest, Tick
    PROVE  Rest'
<1>1. RingTypeOK /\ RunTypeOK BY DEF TypeInv
<1>2. PICK s \in Reading : Push(s) /\ (~s.finite => s.fault) /\ (Idle(s) \/ Next1(s))
  BY <1>1, TickIs
<1>3. CASE Idle(s)
  <2>1. run' = run /\ s.runId = 0 BY <1>3 DEF Idle
  <2>2. SameBuckets BY <1>2, <2>1 DEF Push, SameBuckets
  <2>3. QED BY <2>1, <2>2, QuietRest
<1>4. CASE Next1(s)
  <2>1. s.runId = run.id /\ s.ms > run.ms BY <1>4 DEF Next1
  <2>2. run.id # 0
    <3>1. run.active BY <1>4, Zenon DEF Next1
    <3>2. QED BY <3>1, Zenon DEF Rest, Numbered
  <2>3. CASE s.runId # currentRun
    <3>1. PushOther(s) BY <1>2, <2>1, <2>2, <2>3 DEF Push
    <3>2. QED BY <1>2, <1>4, <2>1, <2>2, <3>1, OtherRest
  <2>4. CASE s.runId = currentRun
    <3>1. PushCurrent(s) BY <1>2, <2>1, <2>2, <2>4 DEF Push
    <3>2. InRun BY <2>1, <2>2, <2>4 DEF InRun
    <3>3. /\ currentRun' = currentRun /\ taken' = taken \cup {s}
          /\ Late(s) \/ Joins(s) \/ Opens(s) \/ Turns(s)
      BY <1>1, <3>1, PushCurrentIs
    <3>4. ~Late(s)
      <4>1. Slot(s) \in Nat /\ bucket.ms \in Nat
        BY <1>1, SlotGrows DEF RunTypeOK, BucketRecord
      <4>2. bucket.open => bucket.ms <= Slot(s) BY <2>1, <3>2, InOrder
      <4>3. QED BY <4>1, <4>2 DEF Late
    <3>5. ~s.finite => s.fault BY <1>2
    <3>6. QED BY <1>4, <3>2, <3>3, <3>4, <3>5, JoinsRest, OpensRest, TurnsRest
  <2>5. QED BY <2>3, <2>4
<1>5. QED BY <1>2, <1>3, <1>4

LEMMA StepRest ==
    ASSUME HInv, [Next]_vars
    PROVE  HInv'
<1>1. TypeInv /\ Rest /\ RunTypeOK BY DEF HInv, TypeInv
<1>2. TypeInv' BY <1>1, StepKeeps
<1>3. Rest'
  <2>1. CASE StartRun BY <1>1, <2>1, ClearedRest
  <2>2. CASE StartRunUncleared BY <1>1, <2>2, UnclearedRest
  <2>3. CASE StopRun
    <3>1. SameBuckets BY <2>3 DEF StopRun, SameBuckets
    <3>2. run'.id = run.id /\ run'.ms = run.ms /\ ~run'.active BY <1>1, <2>3, StoppedRun
    <3>3. QED BY <1>1, <3>1, <3>2, QuietRest
  <2>4. CASE Tick BY <1>1, <2>4, TickRest
  <2>5. CASE Flush BY <1>1, <2>5, FlushRest
  <2>6. CASE \E c \in [runId : 1..MaxRun, ms : {0, Resolution}, of : {{}}, fault : BOOLEAN] :
               RestoreCoarse(c)
    BY <1>1, <2>6, RestoreRest DEF Saved
  <2>7. CASE UNCHANGED vars
    <3>1. SameBuckets /\ run' = run BY <2>7 DEF vars, SameBuckets
    <3>2. QED BY <1>1, <3>1, QuietRest
  <2>8. QED BY <2>1, <2>2, <2>3, <2>4, <2>5, <2>6, <2>7 DEF Next
<1>4. QED BY <1>2, <1>3 DEF HInv

LEMMA InitRest == Init => Rest
<1> SUFFICES ASSUME Init PROVE Rest OBVIOUS
<1>1. taken = {} /\ coarseSize = 0 /\ currentRun = 0 /\ run.id = 0 BY DEF Init
<1>2. ~run.active /\ ~bucket.open BY DEF Init, NoBucket
<1>3. Numbered BY <1>1, <1>2 DEF Numbered
<1>4. Ascending BY <1>1, <1>2 DEF Ascending, Rising
<1>5. Sampling BY <1>1, <1>2 DEF Sampling
<1>6. Placed BY <1>1 DEF Placed
<1>7. ~InRun BY <1>1 DEF InRun
<1>8. QED BY <1>3, <1>4, <1>5, <1>6, <1>7 DEF Rest

LEMMA BucketsFollow ==
    ASSUME HInv
    PROVE  BucketsSummarise
<1>1. TypeInv /\ Rest BY DEF HInv
<1>2. Window.coarse = Done BY WindowIs
<1>3. FinishedAreWhole
  <2> SUFFICES ASSUME run.id = currentRun /\ currentRun # 0, NEW i \in 1..coarseSize
               PROVE  LET c == Window.coarse[i]
                          inside == {s \in taken : Slot(s) = c.ms}
                      IN  /\ c.runId = currentRun
                          /\ c.of = {s.seq : s \in {t \in inside : t.finite}}
                          /\ c.fault = \E s \in inside : s.fault
    BY DEF FinishedAreWhole
  <2>1. InRun BY DEF InRun
  <2>2. PICK c : c = Window.coarse[i] OBVIOUS
  <2>3. c = Done[i] BY <1>2, <2>2
  <2>4. c.runId = currentRun /\ Whole(taken, c)
    BY <1>1, <2>1, <2>3 DEF Rest, FinishedWhole
  <2>5. PICK inside : inside = {s \in taken : Slot(s) = c.ms} OBVIOUS
  <2>6. c.of = {s.seq : s \in {t \in inside : t.finite}}
    <3>1. c.of = Finite(taken, c.ms) BY <2>4 DEF Whole
    <3>2. Finite(taken, c.ms) = {s.seq : s \in {t \in inside : t.finite}}
      BY <2>5, Zenon DEF Finite
    <3>3. QED BY <3>1, <3>2
  <2>7. c.fault = \E s \in inside : s.fault
    <3>1. c.fault <=> Faulty(taken, c.ms) BY <2>4 DEF Whole
    <3>2. Faulty(taken, c.ms) <=> \E s \in inside : s.fault BY <2>5, Zenon DEF Faulty
    <3>3. c.fault \in BOOLEAN
      <4>1. c \in CoarseSample BY <1>1, <2>3, DoneTyped DEF TypeInv
      <4>2. QED BY <4>1 DEF CoarseSample
    <3>4. QED BY <3>1, <3>2, <3>3, Zenon
  <2>8. QED BY <2>2, <2>4, <2>5, <2>6, <2>7, Zenon
<1>4. NothingBetween
  <2> SUFFICES ASSUME NEW s \in taken
               PROVE  \/ bucket.open /\ Slot(s) = bucket.ms
                      \/ \E i \in 1..coarseSize : Window.coarse[i].ms = Slot(s)
                      \/ coarseSize = CoarseCap
                         /\ \A i \in 1..coarseSize : Slot(s) < Window.coarse[i].ms
    BY DEF NothingBetween
  <2>1. (bucket.open /\ Slot(s) = bucket.ms) \/ Filed(Slot(s)) BY <1>1 DEF Rest, Placed
  <2>2. QED BY <1>2, <2>1 DEF Filed
<1>5. QED BY <1>3, <1>4 DEF BucketsSummarise

(* The rings, the buckets and the samples stay as they belong together, whatever
   order runs, readings, flushes and restored buckets come in. *)
THEOREM StoreInvariant == Spec => []HInv
<1>1. Init => HInv BY InitTyped, InitRest DEF HInv
<1>2. HInv /\ [Next]_vars => HInv' BY StepRest
<1>3. QED BY <1>1, <1>2, PTL DEF Spec

(* No reading is lost on its way to the buckets of push() and finalizeBucket(), or
   counted twice: a finished bucket is exactly the finite readings of its
   interval, and every reading of the run is in a bucket or older than all. *)
THEOREM BucketsAreWhole == Spec => []BucketsSummarise
<1>1. HInv => BucketsSummarise BY BucketsFollow
<1>2. QED BY <1>1, StoreInvariant, PTL

-----------------------------------------------------------------------------
LEMMA LeastNumber ==
    ASSUME NEW T, T \subseteq Nat, T # {}
    PROVE  \E x \in T : \A y \in T : x <= y
<1> DEFINE R == OpToRel(<, Nat)
<1>1. IsWellFoundedOn(R, Nat) BY NatLessThanWellFounded
<1>2. \A x, y \in Nat : <<y, x>> \in R <=> y < x BY DEF OpToRel
<1> HIDE DEF R
<1>3. PICK x \in T : \A y \in T : ~ (<<y, x>> \in R) BY <1>1, WFMin
<1>4. \A y \in T : y \in Nat /\ x \in Nat /\ ~(y < x) BY <1>2, <1>3
<1>5. QED BY <1>4

Clamped(b, low, high) == IF low >= high \/ b < low THEN low ELSE IF b > high THEN high ELSE b

(* The binary search of LowerBound. *)
Narrowed(f, r, before) ==
    LET low == r[1]
        high == r[2]
        middle == low + (high - low) \div 2
    IN  IF low >= high THEN low
        ELSE IF middle \in before THEN f[<<middle + 1, high>>]
        ELSE f[<<low, middle>>]
Searches(f, size, before) ==
    f = [r \in (0..size) \X (0..size) |-> Narrowed(f, r, before)]

LEMMA HalfWay ==
    ASSUME NEW size \in Nat, NEW low \in 0..size, NEW high \in 0..size, low < high
    PROVE  /\ low + (high - low) \div 2 \in 0..size
           /\ low <= low + (high - low) \div 2 /\ low + (high - low) \div 2 < high
<1>1. PICK d \in Nat : d = high - low /\ d > 0 OBVIOUS
<1>2. PICK m : m = d \div 2 OBVIOUS
<1>3. m \in Nat /\ m < d BY <1>1, <1>2
<1>4. QED BY <1>1, <1>2, <1>3

LEMMA SearchExists ==
    ASSUME NEW size \in Nat, NEW b \in 0..size, NEW before,
           \A i \in 0..(size - 1) : i \in before <=> i < b
    PROVE  \E f : Searches(f, size, before)
<1> DEFINE Pairs == (0..size) \X (0..size)
           g == [r \in Pairs |-> Clamped(b, r[1], r[2])]
<1>1. \A low, high \in 0..size : g[<<low, high>>] = Clamped(b, low, high) OBVIOUS
<1>2. g = [r \in Pairs |-> g[r]] OBVIOUS
<1> HIDE DEF g
<1>3. ASSUME NEW r \in Pairs
      PROVE  g[r] = Narrowed(g, r, before)
  <2>1. PICK low \in 0..size, high \in 0..size : r = <<low, high>> OBVIOUS
  <2>2. r[1] = low /\ r[2] = high BY <2>1
  <2>3. g[r] = Clamped(b, low, high) BY <1>1, <2>1
  <2>4. CASE low >= high BY <2>2, <2>3, <2>4 DEF Clamped, Narrowed
  <2>5. CASE low < high
    <3>1. PICK m \in 0..size : m = low + (high - low) \div 2 /\ low <= m /\ m < high
      BY <2>5, HalfWay
    <3>2. m \in before <=> m < b BY <3>1
    <3>3. m + 1 \in 0..size BY <3>1
    <3>4. g[<<m + 1, high>>] = Clamped(b, m + 1, high) /\ g[<<low, m>>] = Clamped(b, low, m)
      BY <1>1, <3>3
    <3>5. Clamped(b, low, high) = IF m \in before THEN Clamped(b, m + 1, high) ELSE Clamped(b, low, m)
      BY <2>5, <3>1, <3>2 DEF Clamped
    <3>6. ~(low >= high) BY <2>5
    <3>7. Narrowed(g, r, before) = IF m \in before THEN g[<<m + 1, high>>] ELSE g[<<low, m>>]
      BY ONLY <2>2, <3>1, <3>6 DEF Narrowed
    <3>8. QED BY <2>3, <3>4, <3>5, <3>7
  <2>6. QED BY <2>4, <2>5
<1>4. g = [r \in Pairs |-> Narrowed(g, r, before)] BY <1>2, <1>3, Zenon
<1>5. QED BY <1>4 DEF Searches

LEMMA SearchFinds ==
    ASSUME NEW size \in Nat, NEW b \in 0..size, NEW before,
           \A i \in 0..(size - 1) : i \in before <=> i < b,
           NEW f, Searches(f, size, before)
    PROVE  f[<<0, size>>] = b
<1> DEFINE Wrong == {d \in 0..size : \E low, high \in 0..size :
                        low <= b /\ b <= high /\ d = high - low /\ f[<<low, high>>] # b}
<1>1. ASSUME NEW low \in 0..size, NEW high \in 0..size
      PROVE  f[<<low, high>>] = Narrowed(f, <<low, high>>, before)
  BY DEF Searches
<1>2. SUFFICES ASSUME f[<<0, size>>] # b PROVE FALSE OBVIOUS
<1>3. size \in Wrong
  <2>1. 0 \in 0..size /\ size \in 0..size /\ size = size - 0 /\ 0 <= b /\ b <= size OBVIOUS
  <2>2. QED BY <1>2, <2>1
<1>4. PICK d \in Wrong : \A e \in Wrong : d <= e
  <2>1. Wrong \subseteq Nat OBVIOUS
  <2>2. QED BY <1>3, <2>1, LeastNumber
<1>5. PICK low \in 0..size, high \in 0..size :
         low <= b /\ b <= high /\ d = high - low /\ f[<<low, high>>] # b
  BY <1>4
<1>6. \A e \in 0..size : e < d => e \notin Wrong BY <1>4
<1>7. f[<<low, high>>] = Narrowed(f, <<low, high>>, before) BY <1>1
<1>8. low < high
  <2>1. SUFFICES ASSUME low >= high PROVE FALSE OBVIOUS
  <2>2. f[<<low, high>>] = low BY <1>7, <2>1 DEF Narrowed
  <2>3. QED BY <1>5, <2>1, <2>2
<1>9. PICK m \in 0..size : m = low + (high - low) \div 2 /\ low <= m /\ m < high
  BY <1>8, HalfWay
<1>10. f[<<low, high>>] = IF m \in before THEN f[<<m + 1, high>>] ELSE f[<<low, m>>]
  <2>1. ~(low >= high) BY <1>8
  <2>2. QED BY ONLY <1>7, <1>9, <2>1 DEF Narrowed
<1>11. CASE m \in before
  <2>1. m < b BY <1>9, <1>11
  <2>2. m + 1 \in 0..size /\ m + 1 <= b /\ high - (m + 1) \in 0..size /\ high - (m + 1) < d
    BY <1>5, <1>9, <2>1
  <2>3. f[<<m + 1, high>>] # b BY <1>5, <1>10, <1>11
  <2>4. high - (m + 1) \in Wrong BY <1>5, <2>2, <2>3
  <2>5. QED BY <1>6, <2>2, <2>4
<1>12. CASE m \notin before
  <2>1. b <= m BY <1>9, <1>12
  <2>2. m - low \in 0..size /\ m - low < d BY <1>5, <1>9
  <2>3. f[<<low, m>>] # b BY <1>5, <1>10, <1>12
  <2>4. m - low \in Wrong BY <1>5, <2>1, <2>2, <2>3
  <2>5. QED BY <1>6, <2>2, <2>4
<1>13. QED BY <1>11, <1>12

(* The binary search finds the number of positions before the bound. *)
LEMMA LowerBoundIs ==
    ASSUME NEW size \in Nat, NEW b \in 0..size, NEW before,
           \A i \in 0..(size - 1) : i \in before <=> i < b
    PROVE  LowerBound(size, before) = b
<1>1. PICK f : f = CHOOSE g : Searches(g, size, before) OBVIOUS
<1>2. Searches(f, size, before) BY <1>1, SearchExists
<1>3. f[<<0, size>>] = b BY <1>2, SearchFinds
<1>4. LowerBound(size, before) = f[<<0, size>>]
  BY <1>1, Zenon DEF LowerBound, Searches, Narrowed
<1>5. QED BY <1>3, <1>4

(* The entries whose key is below x come first, and are as many as their indices. *)
LEMMA BoundIs ==
    ASSUME NEW n \in Nat, NEW key \in [1..n -> Nat], NEW x \in Nat,
           \A i, j \in 1..n : i < j => key[i] < key[j]
    PROVE  \E b \in 0..n : /\ \A i \in 1..n : key[i] < x <=> i <= b
                          /\ Cardinality({i \in 1..n : key[i] < x}) = b
<1> DEFINE T == {b \in 0..n : b = n \/ ~(key[b + 1] < x)}
<1>1. PICK b \in T : \A c \in T : b <= c
  <2>1. n \in T /\ T \subseteq Nat OBVIOUS
  <2>2. QED BY <2>1, LeastNumber
<1>2. b \in 0..n /\ (b = n \/ ~(key[b + 1] < x)) OBVIOUS
<1>3. \A c \in 0..n : c < b => c # n /\ key[c + 1] < x BY <1>1
<1> HIDE DEF T
<1>4. ASSUME NEW i \in 1..n PROVE key[i] < x <=> i <= b
  <2>1. CASE i <= b
    <3>1. i - 1 \in 0..n /\ i - 1 < b /\ (i - 1) + 1 = i BY <1>2, <2>1
    <3>2. QED BY <1>3, <2>1, <3>1
  <2>2. CASE i > b
    <3>1. b + 1 \in 1..n /\ b # n BY <1>2, <2>2
    <3>2. i = b + 1 \/ b + 1 < i BY <1>2, <2>2
    <3>3. key[b + 1] \in Nat /\ key[i] \in Nat BY <3>1
    <3>4. QED BY <1>2, <2>2, <3>1, <3>2, <3>3
  <2>3. QED BY <1>2, <2>1, <2>2
<1>5. {i \in 1..n : key[i] < x} = 1..b BY <1>2, <1>4
<1>6. Cardinality(1..b) = b BY <1>2, FS_Interval
<1>7. QED BY <1>2, <1>4, <1>5, <1>6

(* From position b on, the entries inside the limit, at most n of them. *)
Between(S, list, size, entry, b, w, within, n) ==
    /\ size \in Nat /\ list \in Seq(S) /\ Len(list) = size
    /\ \A i \in 0..(size - 1) : entry[i] = list[i + 1]
    /\ b \in 0..size /\ w \in 0..size /\ n \in Nat
    /\ \A i \in Nat : i \in within <=> i < w

LEMMA CopiedIs ==
    ASSUME NEW S, NEW list, NEW size, NEW entry, NEW b, NEW w, NEW within, NEW n,
           Between(S, list, size, entry, b, w, within, n)
    PROVE  Copied(b, entry, within, n) = FirstN(n, SubSeq(list, b + 1, w))
<1> USE DEF Between
<1> DEFINE CanTake(i) == i < n /\ \A j \in 0..i : b + j \in within
           Ends(k) == ~CanTake(k) /\ \A j \in 0..(k - 1) : CanTake(j)
<1>1. PICK most \in Nat : (b <= w => most = w - b) /\ (w < b => most = 0)
  <2>1. CASE b <= w
    <3>1. w - b \in Nat /\ ~(w < b) BY <2>1
    <3>2. QED BY <3>1
  <2>2. CASE w < b
    <3>1. 0 \in Nat /\ ~(b <= w) BY <2>2
    <3>2. QED BY <3>1
  <2>3. QED BY <2>1, <2>2
<1>2. PICK m \in 0..n : (most < n => m = most) /\ (n <= most => m = n)
  <2>1. CASE most < n BY <2>1
  <2>2. CASE n <= most BY <2>2
  <2>3. QED BY <2>1, <2>2
<1>3. ASSUME NEW i \in Nat PROVE CanTake(i) <=> i < m
  <2>1. (\A j \in 0..i : b + j \in within) <=> b + i < w
    <3>1. \A j \in 0..i : b + j \in Nat /\ (b + j \in within <=> b + j < w) OBVIOUS
    <3>2. i \in 0..i OBVIOUS
    <3>3. \A j \in 0..i : b + i < w => b + j < w OBVIOUS
    <3>4. (\A j \in 0..i : b + j \in within) => b + i < w BY ONLY <3>1, <3>2
    <3>5. b + i < w => \A j \in 0..i : b + j \in within BY ONLY <3>1, <3>3
    <3>6. QED BY <3>4, <3>5
  <2>2. b + i < w <=> i < most BY <1>1
  <2>3. i < n /\ i < most <=> i < m BY <1>2
  <2>4. QED BY <2>1, <2>2, <2>3, Zenon
<1> HIDE DEF CanTake
<1>4. ASSUME NEW k \in 0..n PROVE Ends(k) <=> k = m
  <2>1. CASE k = m
    <3>1. ~CanTake(k) BY <1>3, <2>1
    <3>2. \A j \in 0..(k - 1) : CanTake(j) BY <1>3, <2>1
    <3>3. QED BY <2>1, <3>1, <3>2
  <2>2. CASE k < m BY <1>3, <2>2
  <2>3. CASE m < k
    <3>1. m \in 0..(k - 1) /\ ~CanTake(m) BY <1>3, <2>3
    <3>2. QED BY <2>3, <3>1
  <2>4. QED BY <2>1, <2>2, <2>3
<1>5. PICK count : count = CHOOSE k \in 0..n : Ends(k) OBVIOUS
<1> HIDE DEF Ends
<1>6. count = m
  <2>1. \E k \in 0..n : Ends(k) BY <1>4
  <2>2. count \in 0..n /\ Ends(count) BY <1>5, <2>1
  <2>3. QED BY <1>4, <2>2
<1>7. Copied(b, entry, within, n) = [i \in 1..m |-> entry[b + i - 1]]
  BY <1>5, <1>6, Zenon DEF Copied, Ends, CanTake
<1>8. PICK sub : sub = SubSeq(list, b + 1, w) OBVIOUS
<1>9. sub \in Seq(S) /\ Len(sub) = most /\ \A i \in 1..most : sub[i] = list[b + i]
  <2>1. CASE b <= w
    <3>1. b + 1 \in 1..(size + 1) /\ w \in b..size BY <2>1
    <3>2. sub = [i \in 1..(w - b) |-> list[b + i]] BY <1>8, <2>1
    <3>3. \A i \in 1..(w - b) : b + i \in 1..size BY <2>1
    <3>4. most = w - b BY <1>1, <2>1
    <3>5. QED BY <3>2, <3>3, <3>4
  <2>2. CASE w < b
    <3>1. most = 0 BY <1>1, <2>2
    <3>2. sub = <<>> BY <1>8, <2>2
    <3>3. QED BY <3>1, <3>2
  <2>3. QED BY <2>1, <2>2
<1>10. FirstN(n, sub) = SubSeq(sub, 1, m)
  <2>1. (IF Len(sub) < n THEN Len(sub) ELSE n) = m BY <1>2, <1>9
  <2>2. QED BY <2>1 DEF FirstN
<1>11. SubSeq(sub, 1, m) = [i \in 1..m |-> sub[i]] BY <1>1, <1>2, <1>9
<1>12. \A i \in 1..m : sub[i] = entry[b + i - 1]
  <2> TAKE i \in 1..m
  <2>1. i \in 1..most /\ b + i \in 1..size BY <1>1, <1>2
  <2>2. PICK k \in 0..(size - 1) : k = b + i - 1 BY <2>1
  <2>3. entry[k] = list[k + 1] /\ k + 1 = b + i BY <2>2
  <2>4. QED BY <1>9, <2>1, <2>2, <2>3
<1>13. QED BY <1>7, <1>8, <1>10, <1>11, <1>12

-----------------------------------------------------------------------------
(* The samples kept are numbered upwards, and none is later than the last of the
   run they belong to. *)
Upwards(q) == \A i, j \in 1..Len(q) : i < j => q[i].seq < q[j].seq
UpTo(q, n) == \A i \in 1..Len(q) : q[i].seq <= n
Stamped == Upwards(RawList) /\ (run.id = currentRun => UpTo(RawList, run.seq))

LEMMA NewestRises ==
    ASSUME NEW q \in Seq(Reading), NEW s \in Reading, NEW n \in Nat, NEW cap \in Nat \ {0},
           Upwards(q), UpTo(q, n), s.seq = n + 1
    PROVE  /\ Upwards(Newest(cap, Append(q, s)))
           /\ UpTo(Newest(cap, Append(q, s)), n + 1)
<1> PICK len \in Nat : len = Len(q) OBVIOUS
<1> PICK a : a = Append(q, s) OBVIOUS
<1>1. /\ a \in Seq(Reading) /\ Len(a) = len + 1 /\ a[len + 1] = s
      /\ \A i \in 1..len : a[i] = q[i]
  OBVIOUS
<1>2. PICK k \in 0..(len + 1) : /\ (len + 1 > cap => k = len + 1 - cap)
                               /\ (~(len + 1 > cap) => k = 0)
  <2>1. CASE len + 1 > cap
    <3>1. len + 1 - cap \in 0..(len + 1) BY <2>1
    <3>2. QED BY <2>1, <3>1
  <2>2. CASE ~(len + 1 > cap) BY <2>2
  <2>3. QED BY <2>1, <2>2
<1>3. PICK p : p = Newest(cap, Append(q, s)) OBVIOUS
<1>4. p = SubSeq(a, k + 1, len + 1)
  <2>1. (IF Len(a) > cap THEN Len(a) - cap + 1 ELSE 1) = k + 1 BY <1>1, <1>2
  <2>2. QED BY <1>1, <1>3, <2>1 DEF Newest
<1>5. Len(p) = len + 1 - k /\ \A i \in 1..(len + 1 - k) : p[i] = a[i + k]
  <2>1. p = [i \in 1..(len + 1 - k) |-> a[i + k]]
    <3>1. k + 1 \in 1..(len + 2) BY <1>2
    <3>2. QED BY <1>1, <1>4, <3>1
  <2>2. len + 1 - k \in Nat BY <1>2
  <2>3. PICK m \in Nat : m = len + 1 - k BY <2>2
  <2>4. p = [i \in 1..m |-> a[i + k]] BY <2>1, <2>3
  <2>5. Len(p) = m BY <2>4
  <2>6. QED BY <2>3, <2>4, <2>5
<1>6. \A x \in Reading : x.seq \in Nat BY DEF Reading
<1>7. \A i \in 1..(len + 1) : a[i].seq \in Nat /\ a[i].seq <= n + 1
  <2> TAKE i \in 1..(len + 1)
  <2>1. CASE i = len + 1 BY <1>1, <2>1
  <2>2. CASE i \in 1..len
    <3>1. q[i].seq <= n BY <1>1, <2>2 DEF UpTo
    <3>2. a[i] = q[i] /\ a[i] \in Reading BY <1>1, <2>2
    <3>3. a[i].seq \in Nat BY <1>6, <3>2
    <3>4. QED BY <3>1, <3>2, <3>3
  <2>3. QED BY <2>1, <2>2
<1>8. \A i, j \in 1..(len + 1) : i < j => a[i].seq < a[j].seq
  <2> SUFFICES ASSUME NEW i \in 1..(len + 1), NEW j \in 1..(len + 1), i < j
               PROVE  a[i].seq < a[j].seq
    OBVIOUS
  <2>1. i \in 1..len /\ a[i] = q[i] BY <1>1
  <2>2. CASE j = len + 1
    <3>1. q[i].seq <= n BY <1>1, <2>1 DEF UpTo
    <3>2. a[i].seq \in Nat BY <1>7
    <3>3. QED BY <1>1, <2>1, <2>2, <3>1, <3>2
  <2>3. CASE j \in 1..len BY <1>1, <2>1, <2>3 DEF Upwards
  <2>4. QED BY <2>2, <2>3
<1>9. ASSUME NEW i \in 1..Len(p)
      PROVE  i + k \in 1..(len + 1) /\ p[i] = a[i + k]
  BY <1>5
<1>10. UpTo(p, n + 1) BY <1>7, <1>9 DEF UpTo
<1>11. Upwards(p)
  <2> SUFFICES ASSUME NEW i \in 1..Len(p), NEW j \in 1..Len(p), i < j
               PROVE  p[i].seq < p[j].seq
    BY DEF Upwards
  <2>1. i + k < j + k BY <1>5
  <2>2. QED BY <1>8, <1>9, <2>1
<1>12. QED BY <1>3, <1>10, <1>11

LEMMA NoneUpwards == Upwards(<<>>) /\ \A n : UpTo(<<>>, n)
BY DEF Upwards, UpTo

LEMMA StepStamped ==
    ASSUME HInv, Stamped, [Next]_vars
    PROVE  Stamped'
<1>1. TypeInv /\ Rest /\ RingTypeOK /\ RunTypeOK BY DEF HInv, TypeInv
<1>2. /\ RawList \in Seq(Reading) /\ RawCap \in Nat \ {0}
      /\ run.id \in Nat /\ run.seq \in Nat /\ currentRun \in Nat
  BY <1>1, RingFacts DEF RunTypeOK
<1>3. ASSUME RawList' = RawList, run'.id = currentRun' => run.id = currentRun /\ run'.seq = run.seq
      PROVE  Stamped'
  BY <1>3 DEF Stamped
<1>4. CASE StartRun
  <2>1. Clear(NextRunId) /\ NextRunId \in Nat BY <1>2, <1>4 DEF StartRun, NextRunId
  <2>2. RawList' = <<>> BY <1>1, <2>1, ClearIs
  <2>3. QED BY <2>2, NoneUpwards DEF Stamped
<1>5. CASE StartRunUncleared
  <2>1. RawList' = RawList /\ currentRun' = currentRun
    BY <1>5 DEF StartRunUncleared, rawRing, RawList
  <2>2. run'.id = NextRunId BY <1>1, <1>5, StartUnclearedRun
  <2>3. NextRunId # currentRun BY <1>2 DEF NextRunId
  <2>4. QED BY <1>3, <2>1, <2>2, <2>3
<1>6. CASE StopRun
  <2>1. RawList' = RawList /\ currentRun' = currentRun
    BY <1>6 DEF StopRun, rawRing, RawList
  <2>2. run'.id = run.id /\ run'.seq = run.seq BY <1>1, <1>6, StoppedRun
  <2>3. QED BY <1>3, <2>1, <2>2
<1>7. CASE Tick
  <2>1. PICK s \in Reading : Push(s) /\ (Idle(s) \/ Next1(s)) BY <1>1, <1>7, TickIs
  <2>2. CASE Idle(s)
    <3>1. s.runId = 0 /\ run' = run BY <2>2 DEF Idle
    <3>2. RawList' = RawList /\ currentRun' = currentRun
      BY <2>1, <3>1 DEF Push, rawRing, RawList
    <3>3. QED BY <1>3, <3>1, <3>2
  <2>3. CASE Next1(s)
    <3>1. /\ s.runId = run.id /\ s.seq = run.seq + 1 /\ run'.seq = run.seq + 1
          /\ run'.id = run.id
      BY <2>3 DEF Next1
    <3>2. run.id # 0
      <4>1. run.active BY <2>3, Zenon DEF Next1
      <4>2. QED BY <1>1, <4>1, Zenon DEF Rest, Numbered
    <3>3. CASE s.runId # currentRun
      <4>1. PushOther(s) BY <2>1, <3>1, <3>2, <3>3 DEF Push
      <4>2. RawList' = Newest(RawCap, Append(<<>>, s)) BY <1>1, <4>1, PushOtherIs
      <4>3. <<>> \in Seq(Reading) OBVIOUS
      <4>4. QED BY <1>2, <3>1, <4>2, <4>3, NewestRises, NoneUpwards DEF Stamped
    <3>4. CASE s.runId = currentRun
      <4>1. PushCurrent(s) BY <2>1, <3>1, <3>2, <3>4 DEF Push
      <4>2. RawList' = Newest(RawCap, Append(RawList, s)) BY <1>1, <4>1, PushCurrentIs
      <4>3. Upwards(RawList) /\ UpTo(RawList, run.seq) BY <3>1, <3>4 DEF Stamped
      <4>4. QED BY <1>2, <3>1, <4>2, <4>3, NewestRises DEF Stamped
    <3>5. QED BY <3>3, <3>4
  <2>4. QED BY <2>1, <2>2, <2>3
<1>8. CASE Flush
  <2>1. RawList' = RawList /\ currentRun' = currentRun /\ run' = run BY <1>1, <1>8, FlushIs
  <2>2. QED BY <1>3, <2>1
<1>9. CASE \E c \in [runId : 1..MaxRun, ms : {0, Resolution}, of : {{}}, fault : BOOLEAN] :
             RestoreCoarse(c)
  <2>1. PICK c \in [runId : 1..MaxRun, ms : {0, Resolution}, of : {{}}, fault : BOOLEAN] :
             RestoreCoarse(c)
    BY <1>9
  <2>2. /\ RawList' = RawList /\ currentRun' = c.runId /\ run' = run /\ run.id = 0
        /\ c.runId # 0
    BY <2>1 DEF RestoreCoarse, rawRing, RawList
  <2>3. QED BY <1>3, <2>2
<1>10. CASE UNCHANGED vars
  <2>1. RawList' = RawList /\ currentRun' = currentRun /\ run' = run
    BY <1>10 DEF vars, rawRing, RawList
  <2>2. QED BY <1>3, <2>1
<1>11. QED BY <1>4, <1>5, <1>6, <1>7, <1>8, <1>9, <1>10 DEF Next

LEMMA InitStamped == Init => Stamped
<1> SUFFICES ASSUME Init PROVE Stamped OBVIOUS
<1>1. RawList = <<>> BY DEF Init, RawList, Listed
<1>2. QED BY <1>1, NoneUpwards DEF Stamped

(* A page is what the binary search and the early stop copy: of a ring whose
   entries have ascending keys, the first n behind the cursor inside the limit. *)
Asked(S, list, size, key, entry, x, y, n, before, within) ==
    /\ list \in Seq(S) /\ size \in Nat /\ Len(list) = size
    /\ key \in [1..size -> Nat] /\ \A i, j \in 1..size : i < j => key[i] < key[j]
    /\ \A i \in 0..(size - 1) : entry[i] = list[i + 1]
    /\ x \in Nat /\ y \in Nat /\ n \in Nat
    /\ before = {i \in 0..(size - 1) : key[i + 1] < x}
    /\ within = {i \in 0..(size - 1) : key[i + 1] < y}

LEMMA PageIs ==
    ASSUME NEW S, NEW list, NEW size, NEW key, NEW entry, NEW x, NEW y, NEW n,
           NEW before, NEW within, Asked(S, list, size, key, entry, x, y, n, before, within)
    PROVE  Copied(LowerBound(size, before), entry, within, n)
             = FirstN(n, SubSeq(list, Cardinality({i \in 1..size : key[i] < x}) + 1,
                                      Cardinality({i \in 1..size : key[i] < y})))
<1> USE DEF Asked
<1>0. /\ size \in Nat /\ key \in [1..size -> Nat] /\ x \in Nat /\ y \in Nat
      /\ \A i, j \in 1..size : i < j => key[i] < key[j]
  OBVIOUS
<1>1. PICK b \in 0..size : /\ \A i \in 1..size : key[i] < x <=> i <= b
                           /\ Cardinality({i \in 1..size : key[i] < x}) = b
  BY ONLY <1>0, BoundIs, ZenonT(30)
<1>2. PICK w \in 0..size : /\ \A i \in 1..size : key[i] < y <=> i <= w
                           /\ Cardinality({i \in 1..size : key[i] < y}) = w
  BY ONLY <1>0, BoundIs, ZenonT(30)
<1>3. \A i \in 0..(size - 1) : i \in before <=> i < b
  <2> TAKE i \in 0..(size - 1)
  <2>1. i + 1 \in 1..size /\ (i + 1 <= b <=> i < b) OBVIOUS
  <2>2. QED BY <1>1, <2>1
<1>4. \A i \in Nat : i \in within <=> i < w
  <2> TAKE i \in Nat
  <2>1. CASE i \in 0..(size - 1)
    <3>1. i + 1 \in 1..size /\ (i + 1 <= w <=> i < w) BY <2>1
    <3>2. QED BY <1>2, <2>1, <3>1
  <2>2. CASE i \notin 0..(size - 1) BY <2>2
  <2>3. QED BY <2>1, <2>2
<1>5. LowerBound(size, before) = b BY <1>3, LowerBoundIs
<1>6. Copied(b, entry, within, n) = FirstN(n, SubSeq(list, b + 1, w))
  <2>1. Between(S, list, size, entry, b, w, within, n) BY <1>4 DEF Between
  <2>2. QED BY ONLY <2>1, CopiedIs
<1>7. QED BY <1>1, <1>2, <1>5, <1>6

LEMMA PagesFollow ==
    ASSUME TypeInv, Rest, Stamped
    PROVE  PagesAreExact
<1>1. RingTypeOK BY DEF TypeInv
<1>2. /\ RawList \in Seq(Reading) /\ Len(RawList) = rawSize /\ rawSize \in Nat
      /\ Done \in Seq(CoarseSample) /\ Len(Done) = coarseSize /\ coarseSize \in Nat
      /\ RawCap \in Nat /\ Resolution \in Nat \ {0} /\ MaxMs \in Nat /\ run.seq \in Nat
  BY <1>1, RingFacts, StoreAssumption DEF TypeInv, RunTypeOK
<1>3. Window.raw = RawList /\ Window.coarse = Done BY WindowIs
<1>4. ASSUME NEW n \in 1..RawCap, NEW after \in 0..run.seq, NEW through \in 0..run.seq
      PROVE  CopyRawAfter(after, through, n) = RawPage(Window, after, through, n)
  <2>1. PICK x \in Nat, y \in Nat : x = after + 1 /\ y = through + 1 BY <1>2
  <2>2. PICK key : key = [i \in 1..rawSize |-> RawList[i].seq] OBVIOUS
  <2>3. \A r \in Reading : r.seq \in Nat BY DEF Reading
  <2>4. key \in [1..rawSize -> Nat] BY <1>2, <2>2, <2>3
  <2>5. \A i, j \in 1..rawSize : i < j => key[i] < key[j] BY <1>2, <2>2 DEF Stamped, Upwards
  <2>6. \A i \in 1..rawSize : /\ RawList[i].seq <= after <=> key[i] < x
                              /\ RawList[i].seq <= through <=> key[i] < y
    BY <1>2, <2>1, <2>2, <2>4
  <2>7. \A i \in 0..(rawSize - 1) : i + 1 \in 1..rawSize /\ RawEntry[i] = RawList[i + 1]
    <3>1. RawList = [i \in 1..rawSize |-> RawAt(i - 1)] BY DEF RawList, Listed, At, RawAt
    <3> TAKE k \in 0..(rawSize - 1)
    <3>2. PICK i \in 1..rawSize : i = k + 1 /\ i - 1 = k BY <1>2
    <3>3. RawEntry[k] = RawAt(k) BY DEF RawEntry
    <3>4. QED BY <3>1, <3>2, <3>3
  <2>8. DOMAIN RawEntry = 0..(rawSize - 1) BY DEF RawEntry
  <2>9. PICK before : before = {i \in DOMAIN RawEntry : RawEntry[i].seq <= after} OBVIOUS
  <2>10. PICK within : within = {i \in DOMAIN RawEntry : RawEntry[i].seq <= through} OBVIOUS
  <2>11. before = {i \in 0..(rawSize - 1) : key[i + 1] < x} BY <2>6, <2>7, <2>8, <2>9
  <2>12. within = {i \in 0..(rawSize - 1) : key[i + 1] < y} BY <2>6, <2>7, <2>8, <2>10
  <2>13. CopyRawAfter(after, through, n) = Copied(LowerBound(rawSize, before), RawEntry, within, n)
    BY <2>9, <2>10 DEF CopyRawAfter
  <2>14. Copied(LowerBound(rawSize, before), RawEntry, within, n)
           = FirstN(n, SubSeq(RawList, Cardinality({i \in 1..rawSize : key[i] < x}) + 1,
                                       Cardinality({i \in 1..rawSize : key[i] < y})))
    <3>1. n \in Nat /\ x \in Nat /\ y \in Nat BY <1>2
    <3>2. \A i \in 0..(rawSize - 1) : RawEntry[i] = RawList[i + 1] BY <2>7
    <3>3. Asked(Reading, RawList, rawSize, key, RawEntry, x, y, n, before, within)
      BY ONLY <1>2, <2>4, <2>5, <2>11, <2>12, <3>1, <3>2 DEF Asked
    <3>4. QED BY ONLY <3>3, PageIs
  <2>15. /\ {i \in 1..Len(Window.raw) : Window.raw[i].seq <= after}
              = {i \in 1..rawSize : key[i] < x}
         /\ {i \in 1..Len(Window.raw) : Window.raw[i].seq <= through}
              = {i \in 1..rawSize : key[i] < y}
    BY <1>2, <1>3, <2>6
  <2>16. QED BY <1>3, <2>13, <2>14, <2>15 DEF RawPage
<1>5. ASSUME NEW n \in 1..RawCap, NEW from \in Slots, NEW to \in Slots
      PROVE  CopyCoarseFrom(from, to, n) = CoarsePage(Window, from, to, n)
  <2>1. PICK x \in Nat, y \in Nat : x = from /\ y = to + 1
    <3>1. \A k \in 0..(MaxMs \div Resolution) : k * Resolution \in Nat BY <1>2
    <3>2. from \in Nat /\ to \in Nat BY <3>1 DEF Slots
    <3>3. QED BY <3>2
  <2>2. PICK key : key = [i \in 1..coarseSize |-> Done[i].ms] OBVIOUS
  <2>3. \A r \in CoarseSample : r.ms \in Nat BY DEF CoarseSample
  <2>4. key \in [1..coarseSize -> Nat] BY <1>2, <2>2, <2>3
  <2>5. \A i, j \in 1..coarseSize : i < j => key[i] < key[j]
    BY <1>2, <2>2 DEF Rest, Ascending, Rising
  <2>6. to \in Nat
    <3>1. \A k \in 0..(MaxMs \div Resolution) : k * Resolution \in Nat BY <1>2
    <3>2. QED BY <3>1 DEF Slots
  <2>7. \A i \in 1..coarseSize : /\ Done[i].ms < from <=> key[i] < x
                                 /\ Done[i].ms <= to <=> key[i] < y
    BY <1>2, <2>1, <2>2, <2>4, <2>6
  <2>8. \A i \in 0..(coarseSize - 1) : i + 1 \in 1..coarseSize /\ CoarseEntry[i] = Done[i + 1]
    <3>1. Done = [i \in 1..coarseSize |-> CoarseAt(i - 1)] BY DEF Done, Listed, At, CoarseAt
    <3> TAKE k \in 0..(coarseSize - 1)
    <3>2. PICK i \in 1..coarseSize : i = k + 1 /\ i - 1 = k BY <1>2
    <3>3. CoarseEntry[k] = CoarseAt(k) BY DEF CoarseEntry
    <3>4. QED BY <3>1, <3>2, <3>3
  <2>9. DOMAIN CoarseEntry = 0..(coarseSize - 1) BY DEF CoarseEntry
  <2>10. PICK before : before = {i \in DOMAIN CoarseEntry : CoarseEntry[i].ms < from} OBVIOUS
  <2>11. PICK within : within = {i \in DOMAIN CoarseEntry : CoarseEntry[i].ms <= to} OBVIOUS
  <2>12. before = {i \in 0..(coarseSize - 1) : key[i + 1] < x} BY <2>7, <2>8, <2>9, <2>10
  <2>13. within = {i \in 0..(coarseSize - 1) : key[i + 1] < y} BY <2>7, <2>8, <2>9, <2>11
  <2>14. CopyCoarseFrom(from, to, n)
           = Copied(LowerBound(coarseSize, before), CoarseEntry, within, n)
    BY <2>10, <2>11 DEF CopyCoarseFrom
  <2>15. Copied(LowerBound(coarseSize, before), CoarseEntry, within, n)
           = FirstN(n, SubSeq(Done, Cardinality({i \in 1..coarseSize : key[i] < x}) + 1,
                                    Cardinality({i \in 1..coarseSize : key[i] < y})))
    <3>1. n \in Nat /\ x \in Nat /\ y \in Nat BY <1>2
    <3>2. \A i \in 0..(coarseSize - 1) : CoarseEntry[i] = Done[i + 1] BY <2>8
    <3>3. Asked(CoarseSample, Done, coarseSize, key, CoarseEntry, x, y, n, before, within)
      BY ONLY <1>2, <2>4, <2>5, <2>12, <2>13, <3>1, <3>2 DEF Asked
    <3>4. QED BY ONLY <3>3, PageIs
  <2>16. /\ {i \in 1..Len(Window.coarse) : Window.coarse[i].ms < from}
              = {i \in 1..coarseSize : key[i] < x}
         /\ {i \in 1..Len(Window.coarse) : Window.coarse[i].ms <= to}
              = {i \in 1..coarseSize : key[i] < y}
    BY <1>2, <1>3, <2>7
  <2>17. QED BY <1>3, <2>14, <2>15, <2>16 DEF CoarsePage
<1>6. QED BY <1>4, <1>5, Zenon DEF PagesAreExact

(* The pages of copyRawAfter and copyCoarseFrom are exact for rings of every size
   and limits of every value: the binary search and the early stop return the
   entries of the window between the limits, from the first, none skipped and none
   twice, wherever the heads of the rings stand. *)
THEOREM PagesOfTheWindow == Spec => []PagesAreExact
<1>1. Init => HInv /\ Stamped BY InitTyped, InitRest, InitStamped DEF HInv
<1>2. (HInv /\ Stamped) /\ [Next]_vars => (HInv /\ Stamped)' BY StepRest, StepStamped
<1>3. HInv /\ Stamped => PagesAreExact BY PagesFollow DEF HInv
<1>4. QED BY <1>1, <1>2, <1>3, PTL DEF Spec

-----------------------------------------------------------------------------
(***************************************************************************)
(* CoarseHistoryFile.  Its invariant FInv rests on two things: the records *)
(* before the first torn one are true and in order (FileOK), and whenever  *)
(* a bucket may be appended it belongs behind all records, or it is one of *)
(* them (Link).                                                            *)
(***************************************************************************)
Windows == [runId : Nat, raw : Seq(Reading), coarse : Seq(CoarseSample), bucket : BucketRecord]
Records == Seq(CoarseSample \cup {Torn})

FileTyped ==
    /\ nvs \in Nat /\ file \in CoarseFile \cup {None}
    /\ up \in BOOLEAN /\ mounted \in BOOLEAN /\ activeRun \in Nat
    /\ manager \in [id : Nat, active : BOOLEAN, seq : Nat]
    /\ hist \in Windows /\ acked \in SUBSET CoarseSample /\ made \in SUBSET CoarseSample

(* The first k records are not torn, and each of them stands in order. *)
Sound(recs, k) == \A i \in 1..k : recs[i] # Torn
AtMost(s, ms) == \A i \in 1..Len(s) : s[i].ms <= ms
Rises(s) == \A i, j \in 1..Len(s) : i <= j => s[i].ms <= s[j].ms
RecordsRise(recs) ==
    \A k \in 1..Len(recs) : Sound(recs, k) => \A i \in 1..k : recs[i].ms <= recs[k].ms

(* Run ids only grow, and nothing is of a run that was not started. *)
RunOK ==
    /\ up => manager.id = nvs /\ activeRun <= nvs
    /\ hist.runId <= nvs /\ (file # None => file.runId <= nvs)
    /\ up /\ manager.active => hist.runId = manager.id /\ manager.id # 0

(* The coarse ring is of one run and in order, and the open bucket belongs behind it. *)
Ordered(w) ==
    /\ w \in Windows
    /\ \A i \in 1..Len(w.coarse) : w.coarse[i].runId = w.runId
    /\ Rises(w.coarse)
    /\ w.bucket.open => AtMost(w.coarse, w.bucket.ms)
(* It was measured, and a running run has a bucket open from its first sample on. *)
HistOK ==
    /\ Ordered(hist)
    /\ up => \A i \in 1..Len(hist.coarse) : hist.coarse[i] \in made
    /\ up /\ manager.active /\ ~hist.bucket.open => hist.coarse = <<>>

(* The records of the file were measured, in its run, and what it took is among those
   the decoder keeps, under a header it accepts. *)
FileOK ==
    /\ acked # {} => file # None /\ file.header = "good"
    /\ file # None =>
       /\ \A i \in 1..Len(file.recs) : file.recs[i] # Torn =>
             file.recs[i] \in made /\ file.recs[i].runId = file.runId
       /\ RecordsRise(file.recs)
       /\ \A c \in acked : \E k \in 1..Len(file.recs) : Sound(file.recs, k) /\ file.recs[k] = c

(* Where a bucket may be appended: the file is that of its run, and either the bucket
   belongs behind all records, or the ring was restored, a torn record stands behind what
   it was restored from, and the bucket is a record before it. *)
Own(recs, s) ==
    Sound(recs, Len(recs)) /\ (Len(recs) > 0 => Len(s) > 0 /\ AtMost(recs, s[Len(s)].ms))
Restores(recs, s) ==
    /\ ~Sound(recs, Len(recs))
    /\ Len(s) > 0 /\ \E k \in 1..Len(recs) : Sound(recs, k) /\ recs[k] = s[Len(s)]
Writes == up /\ mounted /\ activeRun = hist.runId /\ (manager.active \/ Len(hist.coarse) > 0)
Link ==
    Writes =>
       /\ file # None /\ file.runId = activeRun
       /\ \/ Own(file.recs, hist.coarse)
          \/ ~manager.active /\ Restores(file.recs, hist.coarse)

(* The inductive invariant. *)
FInv == FileTyped /\ RunOK /\ HistOK /\ FileOK /\ Link

-----------------------------------------------------------------------------
(* The decoder keeps the records before the first torn one. *)
LEMMA PrefixIs ==
    ASSUME NEW recs \in Records
    PROVE  \E n \in 0..Len(recs), p \in Seq(CoarseSample) :
              /\ p = ValidPrefix(recs) /\ Len(p) = n /\ Sound(recs, n)
              /\ n = Len(recs) \/ recs[n + 1] = Torn
              /\ \A i \in 1..n : p[i] = recs[i]
<1>1. PICK l \in Nat : l = Len(recs) BY DEF Records
<1> DEFINE Ends(n) == n = l \/ recs[n + 1] = Torn
<1>2. PICK m \in {n \in 0..l : Ends(n)} : \A k \in {n \in 0..l : Ends(n)} : m <= k
  <2>1. l \in {n \in 0..l : Ends(n)} OBVIOUS
  <2>2. {n \in 0..l : Ends(n)} \subseteq Nat OBVIOUS
  <2> HIDE DEF Ends
  <2> QED BY <2>1, <2>2, LeastNumber
<1>3. Sound(recs, m) /\ Ends(m)
  <2>1. ASSUME NEW i \in 1..m, recs[i] = Torn PROVE FALSE
    <3>1. i - 1 \in 0..l /\ (i - 1) + 1 = i OBVIOUS
    <3>2. Ends(i - 1) BY <2>1, <3>1
    <3>3. m <= i - 1 BY <1>2, <3>1, <3>2
    <3> QED BY <3>3
  <2> QED BY <1>2, <2>1 DEF Sound
<1>4. PICK n : n = CHOOSE k \in 0..Len(recs) :
                      (\A i \in 1..k : recs[i] # Torn) /\ (k = Len(recs) \/ recs[k + 1] = Torn)
  OBVIOUS
<1>5. n \in 0..l /\ Sound(recs, n) /\ Ends(n) BY <1>1, <1>3, <1>4 DEF Sound
<1>6. PICK p : p = SubSeq(recs, 1, n) OBVIOUS
<1>7. p = ValidPrefix(recs) BY <1>4, <1>6 DEF ValidPrefix
<1>8. Len(p) = n /\ \A i \in 1..n : p[i] = recs[i] BY <1>1, <1>5, <1>6 DEF Records
<1>9. p \in Seq(CoarseSample)
  <2>1. \A i \in 1..n : recs[i] \in CoarseSample
    <3>1. \A i \in 1..l : recs[i] \in CoarseSample \cup {Torn} BY <1>1 DEF Records
    <3> QED BY <1>5, <3>1 DEF Sound
  <2>2. p \in Seq(CoarseSample \cup {Torn}) BY <1>1, <1>5, <1>6 DEF Records
  <2>3. \A i \in 1..Len(p) : p[i] \in CoarseSample BY <1>8, <2>1
  <2> QED BY <2>2, <2>3
<1> QED BY <1>1, <1>5, <1>7, <1>8, <1>9

LEMMA PrefixHolds ==
    ASSUME NEW recs \in Records, NEW k \in 1..Len(recs), Sound(recs, k)
    PROVE  recs[k] \in ToSet(ValidPrefix(recs))
<1>1. PICK n \in 0..Len(recs), p \in Seq(CoarseSample) :
         /\ p = ValidPrefix(recs) /\ Len(p) = n /\ Sound(recs, n)
         /\ n = Len(recs) \/ recs[n + 1] = Torn
         /\ \A i \in 1..n : p[i] = recs[i]
  BY PrefixIs
<1>2. PICK l \in Nat : l = Len(recs) BY DEF Records
<1>3. k <= n
  <2>1. SUFFICES ASSUME n < k PROVE FALSE BY <1>2
  <2>2. n + 1 \in 1..k BY <1>2, <2>1
  <2>3. recs[n + 1] # Torn BY <2>2 DEF Sound
  <2>4. n # l BY <1>2, <2>1
  <2> QED BY <1>1, <1>2, <2>3, <2>4
<1>4. k \in 1..Len(p) /\ p[k] = recs[k] BY <1>1, <1>2, <1>3
<1> QED BY <1>1, <1>4 DEF ToSet

-----------------------------------------------------------------------------
(* A list cut to its newest entries. *)
Ends(u, d, s, cap) ==
    /\ d \in Nat /\ u = Newest(cap, s) /\ Len(u) = Len(s) - d
    /\ Len(u) = (IF Len(s) > cap THEN cap ELSE Len(s))
    /\ \A i \in 1..Len(u) : i + d \in 1..Len(s) /\ u[i] = s[i + d]
LEMMA NewestEnds ==
    ASSUME NEW S, NEW s \in Seq(S), NEW cap \in Nat \ {0}
    PROVE  \E d, u : u \in Seq(S) /\ Ends(u, d, s, cap)
<1>1. PICK l \in Nat : l = Len(s) OBVIOUS
<1>2. PICK d \in Nat : d = (IF l > cap THEN l - cap ELSE 0)
  <2>1. l > cap => l - cap \in Nat OBVIOUS
  <2> QED BY <2>1
<1>3. PICK u : u = SubSeq(s, d + 1, l) OBVIOUS
<1>4. u = Newest(cap, s)
  <2>1. (IF Len(s) > cap THEN Len(s) - cap + 1 ELSE 1) = d + 1 BY <1>1, <1>2
  <2> QED BY <1>1, <1>3, <2>1 DEF Newest
<1>5. u \in Seq(S) /\ Len(u) = l - d /\ \A i \in 1..(l - d) : u[i] = s[d + i]
  <2>1. l = 0 => d = 0 BY <1>2
  <2>2. d <= l BY <1>2
  <2>3. SubSeq(s, d + 1, l) \in Seq(S)
    <3>1. \A i \in (d + 1)..l : i \in 1..l OBVIOUS
    <3> QED BY <1>1, <3>1
  <2>4. Len(u) = l - (d + 1) + 1
    <3>1. d + 1 <= l + 1 BY <2>2
    <3> QED BY <1>1, <1>3, <3>1
  <2>5. \A i \in 1..(l - (d + 1) + 1) : u[i] = s[(d + 1) + i - 1] BY <1>1, <1>3
  <2>6. l - (d + 1) + 1 = l - d /\ \A i \in Nat : (d + 1) + i - 1 = d + i OBVIOUS
  <2>7. \A i \in 1..(l - d) : i \in Nat /\ u[i] = s[(d + 1) + i - 1] BY <2>5, <2>6
  <2>8. \A i \in 1..(l - d) : u[i] = s[d + i] BY <2>6, <2>7
  <2> QED BY <1>3, <2>3, <2>4, <2>6, <2>8
<1>6. l - d = (IF l > cap THEN cap ELSE l) BY <1>2
<1>7. \A i \in 1..(l - d) : i + d \in 1..l /\ u[i] = s[i + d] BY <1>2, <1>5
<1>8. Ends(u, d, s, cap) BY <1>1, <1>4, <1>5, <1>6, <1>7 DEF Ends
<1> QED BY <1>5, <1>8

(* Cutting before an entry is added changes nothing. *)
LEMMA NewestAgain ==
    ASSUME NEW S, NEW q \in Seq(S), NEW x \in S, NEW cap \in Nat \ {0}
    PROVE  Newest(cap, Append(Newest(cap, q), x)) = Newest(cap, Append(q, x))
<1>1. PICK l \in Nat : l = Len(q) OBVIOUS
<1>2. PICK d, u : u \in Seq(S) /\ Ends(u, d, q, cap) BY NewestEnds
<1>3. /\ d \in Nat /\ u = Newest(cap, q) /\ Len(u) = Len(q) - d
       /\ Len(u) = (IF Len(q) > cap THEN cap ELSE Len(q))
       /\ \A i \in 1..Len(u) : i + d \in 1..Len(q) /\ u[i] = q[i + d]
  BY <1>2 DEF Ends
<1>4. PICK m \in Nat : m = Len(u) BY <1>2
<1>5. PICK a : a = Append(q, x) OBVIOUS
<1>6. a \in Seq(S) /\ Len(a) = l + 1 /\ a[l + 1] = x /\ \A i \in 1..l : a[i] = q[i]
  BY <1>1, <1>5
<1>7. PICK b : b = Append(u, x) OBVIOUS
<1>8. b \in Seq(S) /\ Len(b) = m + 1 /\ b[m + 1] = x /\ \A i \in 1..m : b[i] = u[i]
  BY <1>2, <1>4, <1>7
<1>9. PICK e, v : v \in Seq(S) /\ Ends(v, e, b, cap)
  BY ONLY <1>8, NewestEnds, cap \in Nat \ {0}
<1>10. /\ e \in Nat /\ v = Newest(cap, b) /\ Len(v) = Len(b) - e
      /\ Len(v) = (IF Len(b) > cap THEN cap ELSE Len(b))
      /\ \A i \in 1..Len(v) : i + e \in 1..Len(b) /\ v[i] = b[i + e]
  BY <1>9 DEF Ends
<1>11. PICK c, w : w \in Seq(S) /\ Ends(w, c, a, cap)
  BY ONLY <1>6, NewestEnds, cap \in Nat \ {0}
<1>12. /\ c \in Nat /\ w = Newest(cap, a) /\ Len(w) = Len(a) - c
      /\ Len(w) = (IF Len(a) > cap THEN cap ELSE Len(a))
      /\ \A i \in 1..Len(w) : i + c \in 1..Len(a) /\ w[i] = a[i + c]
  BY <1>11 DEF Ends
<1>13. PICK n \in Nat : n = Len(w) BY <1>11
<1>14. /\ d \in Nat /\ e \in Nat /\ c \in Nat
       /\ m = l - d /\ n = l + 1 - c /\ Len(v) = m + 1 - e
  <2>1. m = l - d BY <1>1, <1>3, <1>4
  <2>2. n = l + 1 - c BY <1>6, <1>12, <1>13
  <2>3. Len(v) = m + 1 - e BY <1>8, <1>10
  <2> QED BY <1>3, <1>10, <1>12, <2>1, <2>2, <2>3
<1>15. n = Len(v) /\ c = d + e
  <2>1. m = (IF l > cap THEN cap ELSE l) BY <1>1, <1>3, <1>4
  <2>2. n = (IF l + 1 > cap THEN cap ELSE l + 1) BY <1>6, <1>12, <1>13
  <2>3. Len(v) = (IF m + 1 > cap THEN cap ELSE m + 1) BY <1>8, <1>10
  <2>4. n = Len(v) BY <2>1, <2>2, <2>3
  <2> QED BY <1>14, <2>4
<1>16. ASSUME NEW i \in 1..n PROVE v[i] = w[i]
  <2>1. i + e \in 1..(m + 1) /\ v[i] = b[i + e] BY <1>8, <1>10, <1>15
  <2>2. i + c \in 1..(l + 1) /\ w[i] = a[i + c] BY <1>6, <1>12, <1>13
  <2>3. CASE i + e = m + 1
    <3>1. i + c = l + 1 BY <1>14, <1>15, <2>3
    <3> QED BY <1>6, <1>8, <2>1, <2>2, <2>3, <3>1
  <2>4. CASE i + e # m + 1
    <3>1. i + e \in 1..m BY <2>1, <2>4
    <3>2. (i + e) + d \in 1..l /\ u[i + e] = q[(i + e) + d] BY <1>1, <1>3, <1>4, <3>1
    <3>3. (i + e) + d = i + c BY <1>14, <1>15
    <3> QED BY <1>6, <1>8, <2>1, <2>2, <3>1, <3>2, <3>3
  <2> QED BY <2>3, <2>4
<1>17. v = w
  <2>1. v \in Seq(S) /\ w \in Seq(S) /\ Len(v) = Len(w) BY <1>9, <1>11, <1>13, <1>15
  <2>2. \A i \in 1..Len(w) : v[i] = w[i] BY <1>13, <1>16
  <2> QED BY ONLY <2>1, <2>2
<1> QED BY <1>3, <1>5, <1>7, <1>10, <1>12, <1>17

-----------------------------------------------------------------------------
(* What ReadBack computes: the ring after the first n records is cut from them. *)
Reads(f, id, recs) ==
    f = [n \in 0..Len(recs) |->
           IF n = 0 THEN Empty(id) ELSE Restored(f[n - 1], [recs[n] EXCEPT !.runId = id])]
RingOf(id, s) == [runId |-> id, raw |-> <<>>, coarse |-> Newest(CoarseCap, s), bucket |-> NoBucket]
OfRun(id, recs) ==
    recs \in Seq(CoarseSample) /\ \A i \in 1..Len(recs) : recs[i].runId = id

LEMMA RingStarts ==
    ASSUME NEW id, NEW recs \in Seq(CoarseSample)
    PROVE  RingOf(id, SubSeq(recs, 1, 0)) = Empty(id)
<1>1. SubSeq(recs, 1, 0) = <<>> OBVIOUS
<1>2. CoarseCap \in Nat \ {0} BY WindowAssumption
<1>3. Newest(CoarseCap, <<>>) = <<>>
  <2>1. Len(<<>>) = 0 OBVIOUS
  <2>2. ~(Len(<<>>) > CoarseCap) BY <1>2, <2>1
  <2>3. Newest(CoarseCap, <<>>) = SubSeq(<<>>, 1, 0) BY <2>1, <2>2 DEF Newest
  <2> QED BY <2>3
<1> QED BY <1>1, <1>3 DEF RingOf, Empty

LEMMA RingTakes ==
    ASSUME NEW id, NEW recs, OfRun(id, recs), NEW n \in 1..Len(recs)
    PROVE  RingOf(id, SubSeq(recs, 1, n))
              = Restored(RingOf(id, SubSeq(recs, 1, n - 1)), [recs[n] EXCEPT !.runId = id])
<1>1. PICK l \in Nat : l = Len(recs) BY DEF OfRun
<1>2. recs \in Seq(CoarseSample) /\ recs[n] \in CoarseSample /\ recs[n].runId = id BY DEF OfRun
<1>3. [recs[n] EXCEPT !.runId = id] = recs[n] BY <1>2 DEF CoarseSample
<1>4. PICK q : q = SubSeq(recs, 1, n - 1) OBVIOUS
<1>5. q \in Seq(CoarseSample) BY <1>1, <1>2, <1>4
<1>6. SubSeq(recs, 1, n) = Append(q, recs[n])
  <2>1. PICK a, b : a = SubSeq(recs, 1, n) /\ b = Append(q, recs[n]) OBVIOUS
  <2>2. n - 1 \in 0..l /\ n \in 1..l BY <1>1
  <2>3. Len(q) = n - 1 /\ \A i \in 1..(n - 1) : q[i] = recs[i] BY <1>1, <1>2, <1>4, <2>2
  <2>4. a \in Seq(CoarseSample) /\ Len(a) = n /\ \A i \in 1..n : a[i] = recs[i]
    BY <1>1, <1>2, <2>1, <2>2
  <2>5. /\ b \in Seq(CoarseSample) /\ Len(b) = (n - 1) + 1 /\ b[(n - 1) + 1] = recs[n]
        /\ \A i \in 1..(n - 1) : b[i] = q[i]
    BY <1>2, <1>5, <2>1, <2>3
  <2>6. \A i \in 1..n : i = (n - 1) + 1 \/ i \in 1..(n - 1) BY <2>2
  <2>7. Len(b) = n /\ \A i \in 1..n : b[i] = recs[i] BY <2>2, <2>3, <2>5, <2>6
  <2>8. a = b BY <2>2, <2>4, <2>5, <2>7
  <2> QED BY <2>1, <2>8
<1>7. PICK r : r = RingOf(id, q) OBVIOUS
<1>8. /\ r = [runId |-> id, raw |-> <<>>, coarse |-> Newest(CoarseCap, q), bucket |-> NoBucket]
  BY <1>7 DEF RingOf
<1>9. CoarseCap \in Nat \ {0} BY WindowAssumption
<1>10. Newest(CoarseCap, Append(Newest(CoarseCap, q), recs[n]))
          = Newest(CoarseCap, Append(q, recs[n]))
  BY ONLY <1>2, <1>5, <1>9, NewestAgain
<1>11. Restored(r, recs[n])
          = [r EXCEPT !.runId = id, !.coarse = Newest(CoarseCap, Append(q, recs[n]))]
  BY <1>2, <1>8, <1>10 DEF Restored
<1>12. Restored(r, recs[n]) = RingOf(id, Append(q, recs[n])) BY <1>8, <1>11 DEF RingOf
<1> QED BY <1>3, <1>4, <1>6, <1>7, <1>12

LEMMA ReadBackIs ==
    ASSUME NEW id, NEW recs, OfRun(id, recs)
    PROVE  ReadBack(id, recs) = RingOf(id, recs)
<1>1. PICK l \in Nat : l = Len(recs) BY DEF OfRun
<1>2. recs \in Seq(CoarseSample) BY DEF OfRun
<1>3. PICK g : g = [n \in 0..l |-> RingOf(id, SubSeq(recs, 1, n))] OBVIOUS
<1>4. ASSUME NEW n \in 0..l
      PROVE  g[n] = IF n = 0 THEN Empty(id)
                    ELSE Restored(g[n - 1], [recs[n] EXCEPT !.runId = id])
  <2>1. CASE n = 0 BY <1>2, <1>3, <2>1, RingStarts
  <2>2. CASE n # 0
    <3>1. n \in 1..Len(recs) /\ n - 1 \in 0..l BY <1>1, <2>2
    <3>2. g[n] = RingOf(id, SubSeq(recs, 1, n)) /\ g[n - 1] = RingOf(id, SubSeq(recs, 1, n - 1))
      BY <1>3, <3>1
    <3>3. g[n] = Restored(g[n - 1], [recs[n] EXCEPT !.runId = id]) BY <3>1, <3>2, RingTakes
    <3> QED BY <2>2, <3>3
  <2> QED BY <2>1, <2>2
<1>5. Reads(g, id, recs)
  <2>1. g = [n \in 0..l |-> g[n]] BY <1>3
  <2>2. g = [n \in 0..l |-> IF n = 0 THEN Empty(id)
                            ELSE Restored(g[n - 1], [recs[n] EXCEPT !.runId = id])]
    BY <1>4, <2>1, Zenon
  <2> QED BY <1>1, <2>2 DEF Reads
<1>6. PICK f : f = CHOOSE h : Reads(h, id, recs) OBVIOUS
<1>7. Reads(f, id, recs) BY <1>5, <1>6
<1>8. \A n \in 0..l : f[n] = IF n = 0 THEN Empty(id)
                            ELSE Restored(f[n - 1], [recs[n] EXCEPT !.runId = id])
  BY <1>1, <1>7 DEF Reads
<1>9. f[l] = g[l]
  <2> DEFINE Wrong == {n \in 0..l : f[n] # g[n]}
  <2>1. SUFFICES ASSUME l \in Wrong PROVE FALSE BY <1>1
  <2>2. PICK n \in Wrong : \A k \in Wrong : n <= k
    <3>1. Wrong \subseteq Nat OBVIOUS
    <3> QED BY <2>1, <3>1, LeastNumber
  <2>3. n \in 0..l /\ f[n] # g[n] OBVIOUS
  <2>4. CASE n = 0 BY <1>4, <1>8, <2>3, <2>4
  <2>5. CASE n # 0
    <3>1. n - 1 \in 0..l /\ ~(n <= n - 1) BY <2>3, <2>5
    <3>2. f[n - 1] = g[n - 1] BY <2>2, <3>1
    <3> QED BY <1>4, <1>8, <2>3, <2>5, <3>2
  <2> QED BY <2>4, <2>5
<1>10. ReadBack(id, recs) = f[l] BY <1>1, <1>6, Zenon DEF ReadBack, Reads
<1>11. SubSeq(recs, 1, l) = recs BY <1>1, <1>2
<1>12. g[l] = RingOf(id, SubSeq(recs, 1, l)) BY <1>3
<1> QED BY <1>9, <1>10, <1>11, <1>12

-----------------------------------------------------------------------------
(* The newest entries of a list in order are in order, and end as it ends. *)
LEMMA CutRises ==
    ASSUME NEW s \in Seq(CoarseSample), Rises(s)
    PROVE  \E u \in Seq(CoarseSample) :
              /\ u = Newest(CoarseCap, s) /\ Rises(u)
              /\ Len(s) > 0 => Len(u) > 0 /\ u[Len(u)] = s[Len(s)]
              /\ \A i \in 1..Len(u) : \E j \in 1..Len(s) : u[i] = s[j]
<1>1. CoarseCap \in Nat \ {0} BY WindowAssumption
<1>2. PICK d, u : u \in Seq(CoarseSample) /\ Ends(u, d, s, CoarseCap) BY <1>1, NewestEnds
<1>3. PICK l \in Nat, m \in Nat : l = Len(s) /\ m = Len(u) BY <1>2
<1>4. /\ d \in Nat /\ u = Newest(CoarseCap, s) /\ m = l - d
      /\ m = (IF l > CoarseCap THEN CoarseCap ELSE l)
      /\ \A i \in 1..m : i + d \in 1..l /\ u[i] = s[i + d]
  BY <1>2, <1>3 DEF Ends
<1>5. ASSUME l > 0 PROVE m > 0 /\ u[m] = s[l]
  <2>1. m > 0 BY <1>1, <1>4, <1>5
  <2>2. m \in 1..m /\ m + d = l BY <1>4, <2>1
  <2> QED BY <1>4, <2>1, <2>2
<1>6. Rises(u)
  <2>1. SUFFICES ASSUME NEW i \in 1..m, NEW j \in 1..m, i <= j PROVE u[i].ms <= u[j].ms
    BY <1>3 DEF Rises
  <2>2. i + d \in 1..l /\ j + d \in 1..l /\ i + d <= j + d BY <1>4, <2>1
  <2>3. s[i + d].ms <= s[j + d].ms BY <1>3, <2>2 DEF Rises
  <2> QED BY <1>4, <2>3
<1> QED BY <1>2, <1>3, <1>4, <1>5, <1>6

LEMMA LastIs ==
    ASSUME NEW s \in Seq(CoarseSample), Rises(s), Len(s) > 0
    PROVE  AtMost(s, s[Len(s)].ms)
<1>1. PICK l \in Nat : l = Len(s) OBVIOUS
<1>2. \A i \in 1..l : l \in 1..l /\ i <= l OBVIOUS
<1> QED BY <1>1, <1>2 DEF Rises, AtMost

LEMMA AtMostGrows ==
    ASSUME NEW s \in Seq(CoarseSample), NEW a \in Nat, NEW b \in Nat, a <= b, AtMost(s, a)
    PROVE  AtMost(s, b)
<1>1. \A i \in 1..Len(s) : s[i] \in CoarseSample OBVIOUS
<1>2. \A i \in 1..Len(s) : s[i].ms \in Nat BY <1>1 DEF CoarseSample
<1> QED BY <1>2 DEF AtMost

(* An entry behind all others leaves the list in order. *)
LEMMA RisesOn ==
    ASSUME NEW s \in Seq(CoarseSample), NEW c \in CoarseSample, Rises(s), AtMost(s, c.ms)
    PROVE  /\ Append(s, c) \in Seq(CoarseSample) /\ Rises(Append(s, c))
           /\ Len(Append(s, c)) = Len(s) + 1 /\ Append(s, c)[Len(s) + 1] = c
           /\ \A i \in 1..Len(s) : Append(s, c)[i] = s[i]
<1>0. PICK l \in Nat : l = Len(s) OBVIOUS
<1>1. PICK a : a = Append(s, c) /\ l = Len(s) BY <1>0
<1>2. a \in Seq(CoarseSample) /\ Len(a) = l + 1 /\ a[l + 1] = c /\ \A i \in 1..l : a[i] = s[i]
  BY <1>1
<1>3. c.ms \in Nat BY DEF CoarseSample
<1>4. Rises(a)
  <2>1. SUFFICES ASSUME NEW i \in 1..(l + 1), NEW j \in 1..(l + 1), i <= j
                 PROVE  a[i].ms <= a[j].ms
    BY <1>2 DEF Rises
  <2>2. CASE j = l + 1
    <3>1. CASE i = l + 1 BY <1>2, <1>3, <2>2, <3>1
    <3>2. CASE i # l + 1
      <4>1. i \in 1..l BY <3>2
      <4> QED BY <1>1, <1>2, <2>2, <4>1 DEF AtMost
    <3> QED BY <3>1, <3>2
  <2>3. CASE j # l + 1
    <3>1. i \in 1..l /\ j \in 1..l BY <2>1, <2>3
    <3> QED BY <1>1, <1>2, <2>1, <3>1 DEF Rises
  <2> QED BY <2>2, <2>3
<1> QED BY <1>1, <1>2, <1>4

(* The window u continues w. *)
Later(u, w) ==
    Len(w.coarse) > 0 =>
       Len(u.coarse) > 0 /\ w.coarse[Len(w.coarse)].ms <= u.coarse[Len(u.coarse)].ms
Follows(u, w) == Ordered(u) /\ u.runId = w.runId /\ Later(u, w)

LEMMA SameCoarse ==
    ASSUME NEW w, Ordered(w), NEW u \in Windows, u.runId = w.runId, u.coarse = w.coarse,
           u.bucket.open => AtMost(w.coarse, u.bucket.ms)
    PROVE  Follows(u, w)
<1>1. w.coarse \in Seq(CoarseSample) BY DEF Ordered, Windows
<1>2. PICK l \in Nat : l = Len(w.coarse) BY <1>1
<1>3. l > 0 => w.coarse[l].ms \in Nat
  <2>1. \A i \in 1..l : w.coarse[i] \in CoarseSample BY <1>1, <1>2
  <2> QED BY <2>1 DEF CoarseSample
<1> QED BY <1>2, <1>3 DEF Follows, Ordered, Later

LEMMA FinalizeKeeps ==
    ASSUME NEW w, Ordered(w)
    PROVE  /\ Follows(Finalize(w), w) /\ ~Finalize(w).bucket.open
           /\ w.bucket.open => AtMost(Finalize(w).coarse, w.bucket.ms)
<1>1. /\ w \in Windows /\ w.coarse \in Seq(CoarseSample) /\ w.runId \in Nat
      /\ w.bucket \in BucketRecord
  BY DEF Ordered, Windows
<1>2. CASE ~w.bucket.open
  <2>1. Finalize(w) = w BY <1>2 DEF Finalize
  <2> QED BY <1>1, <1>2, <2>1, SameCoarse
<1>3. CASE w.bucket.open
  <2>1. PICK c : c = [runId |-> w.runId, ms |-> w.bucket.ms, of |-> w.bucket.of,
                      fault |-> w.bucket.fault]
    OBVIOUS
  <2>2. c \in CoarseSample /\ c.ms = w.bucket.ms /\ c.runId = w.runId /\ c.ms \in Nat
    BY <1>1, <2>1 DEF BucketRecord, CoarseSample
  <2>3. PICK a : a = Append(w.coarse, c) OBVIOUS
  <2>4. PICK l \in Nat : l = Len(w.coarse) BY <1>1
  <2>5. Rises(w.coarse) /\ AtMost(w.coarse, c.ms) BY <1>3, <2>2 DEF Ordered
  <2>6. /\ a \in Seq(CoarseSample) /\ Rises(a) /\ Len(a) = l + 1 /\ a[l + 1] = c
        /\ \A i \in 1..l : a[i] = w.coarse[i]
    BY <1>1, <2>2, <2>3, <2>4, <2>5, RisesOn
  <2>7. PICK q \in Seq(CoarseSample) :
              /\ q = Newest(CoarseCap, a) /\ Rises(q)
              /\ Len(a) > 0 => Len(q) > 0 /\ q[Len(q)] = a[Len(a)]
              /\ \A i \in 1..Len(q) : \E j \in 1..Len(a) : q[i] = a[j]
    BY <2>6, CutRises
  <2>8. Finalize(w) = [w EXCEPT !.coarse = q, !.bucket = NoBucket]
    BY <1>3, <2>1, <2>3, <2>7 DEF Finalize
  <2>9. NoBucket \in BucketRecord /\ ~NoBucket.open BY DEF NoBucket, BucketRecord
  <2>10. PICK u : u = Finalize(w) OBVIOUS
  <2>11. /\ u \in Windows /\ u.runId = w.runId /\ u.coarse = q /\ u.bucket = NoBucket
    BY <1>1, <2>8, <2>9, <2>10 DEF Windows
  <2>12. Len(q) > 0 /\ q[Len(q)] = c BY <2>4, <2>6, <2>7
  <2>13. \A j \in 1..Len(a) : a[j].runId = w.runId
    <3>1. \A j \in 1..Len(a) : j = l + 1 \/ j \in 1..l BY <2>4, <2>6
    <3>2. \A j \in 1..l : a[j].runId = w.runId BY <2>4, <2>6 DEF Ordered
    <3> QED BY <2>2, <2>6, <3>1, <3>2
  <2>14. \A i \in 1..Len(q) : q[i].runId = w.runId BY <2>7, <2>13
  <2>15. Ordered(u) BY <2>7, <2>9, <2>11, <2>14 DEF Ordered
  <2>16. Later(u, w)
    <3>1. l > 0 => l \in 1..l /\ w.coarse[l].ms <= c.ms BY <2>4, <2>5 DEF AtMost
    <3> QED BY <2>4, <2>11, <2>12, <3>1 DEF Later
  <2>17. AtMost(q, c.ms) BY <2>7, <2>12, LastIs
  <2> QED BY <2>2, <2>9, <2>10, <2>11, <2>15, <2>16, <2>17 DEF Follows
<1> QED BY <1>2, <1>3

LEMMA SlotTime == \A s \in Reading : Slot(s) \in Nat
  BY SlotGrows

LEMMA AccumulateKeeps ==
    ASSUME NEW w, Ordered(w), w.bucket.open, NEW s \in Reading
    PROVE  Follows(Accumulated(w, s), w) /\ Accumulated(w, s).bucket.open
<1>1. w \in Windows /\ w.bucket \in BucketRecord BY DEF Ordered, Windows
<1>2. PICK o : o = IF s.finite THEN w.bucket.of \cup {s.seq} ELSE w.bucket.of OBVIOUS
<1>3. PICK f : f = (w.bucket.fault \/ s.fault \/ ~s.finite) OBVIOUS
<1>4. o \in SUBSET Nat BY <1>1, <1>2 DEF BucketRecord, Reading
<1>5. f \in BOOLEAN BY <1>3
<1>6. PICK b : b = [w.bucket EXCEPT !.of = o, !.fault = f] OBVIOUS
<1>7. b \in BucketRecord /\ b.open = w.bucket.open /\ b.ms = w.bucket.ms
  BY <1>1, <1>4, <1>5, <1>6 DEF BucketRecord
<1>8. Accumulated(w, s) = [w EXCEPT !.bucket = b]
  BY <1>1, <1>2, <1>3, <1>6 DEF Accumulated, Windows, BucketRecord
<1>9. PICK u : u = Accumulated(w, s) OBVIOUS
<1>10. /\ u \in Windows /\ u.runId = w.runId /\ u.coarse = w.coarse /\ u.bucket = b
  BY <1>1, <1>7, <1>8, <1>9 DEF Windows
<1>11. AtMost(w.coarse, u.bucket.ms) BY <1>7, <1>10 DEF Ordered
<1> QED BY <1>7, <1>9, <1>10, <1>11, SameCoarse

LEMMA OpenKeeps ==
    ASSUME NEW w, Ordered(w), NEW s \in Reading, AtMost(w.coarse, Slot(s))
    PROVE  Follows(Opened(w, s), w) /\ Opened(w, s).bucket.open
<1>1. w \in Windows BY DEF Ordered
<1>2. PICK b : b = [NoBucket EXCEPT !.open = TRUE, !.ms = Slot(s)] OBVIOUS
<1>3. b \in BucketRecord /\ b.open = TRUE /\ b.ms = Slot(s)
  BY <1>2, SlotTime DEF NoBucket, BucketRecord
<1>4. PICK u : u = Opened(w, s) OBVIOUS
<1>5. /\ u \in Windows /\ u.runId = w.runId /\ u.coarse = w.coarse /\ u.bucket = b
  BY <1>1, <1>2, <1>3, <1>4 DEF Opened, Windows
<1> QED BY <1>3, <1>4, <1>5, SameCoarse

LEMMA FollowsOn ==
    ASSUME NEW w, NEW v, NEW u, Ordered(w), Follows(v, w), Follows(u, v)
    PROVE  Follows(u, w)
<1>1. \A x : Ordered(x) => x.coarse \in Seq(CoarseSample) BY DEF Ordered, Windows
<1>2. /\ w.coarse \in Seq(CoarseSample) /\ v.coarse \in Seq(CoarseSample)
      /\ u.coarse \in Seq(CoarseSample)
  BY <1>1 DEF Follows
<1>3. \A s \in Seq(CoarseSample) : Len(s) > 0 => s[Len(s)].ms \in Nat
  <2>1. ASSUME NEW s \in Seq(CoarseSample), Len(s) > 0 PROVE s[Len(s)].ms \in Nat
    <3>1. s[Len(s)] \in CoarseSample BY <2>1
    <3> QED BY <3>1 DEF CoarseSample
  <2> QED BY <2>1
<1>4. /\ Len(w.coarse) > 0 => w.coarse[Len(w.coarse)].ms \in Nat
      /\ Len(v.coarse) > 0 => v.coarse[Len(v.coarse)].ms \in Nat
      /\ Len(u.coarse) > 0 => u.coarse[Len(u.coarse)].ms \in Nat
  BY <1>2, <1>3
<1> QED BY <1>4 DEF Follows, Later

(* A sample of the run continues the window, and leaves a bucket open. *)
LEMMA SummariseKeeps ==
    ASSUME NEW w, Ordered(w), NEW s \in Reading, ~w.bucket.open => AtMost(w.coarse, Slot(s))
    PROVE  Follows(Summarised(w, s), w) /\ Summarised(w, s).bucket.open
<1>1. w \in Windows /\ w.bucket.ms \in Nat /\ Slot(s) \in Nat
  BY SlotTime DEF Ordered, Windows, BucketRecord
<1>2. CASE ~w.bucket.open
  <2>1. Follows(Opened(w, s), w) /\ Opened(w, s).bucket.open BY <1>2, OpenKeeps
  <2>2. Ordered(Opened(w, s)) BY <2>1 DEF Follows
  <2>3. /\ Follows(Accumulated(Opened(w, s), s), Opened(w, s))
        /\ Accumulated(Opened(w, s), s).bucket.open
    BY <2>1, <2>2, AccumulateKeeps
  <2> QED BY <1>2, <2>1, <2>3, FollowsOn DEF Summarised
<1>3. CASE w.bucket.open /\ Slot(s) < w.bucket.ms
  <2>1. Follows(w, w) BY <1>1, SameCoarse DEF Ordered
  <2> QED BY <1>3, <2>1 DEF Summarised
<1>4. CASE w.bucket.open /\ Slot(s) = w.bucket.ms
  <2>1. ~(Slot(s) < w.bucket.ms) BY <1>1, <1>4
  <2>2. Summarised(w, s) = Accumulated(w, s) BY <1>4, <2>1 DEF Summarised
  <2> QED BY <1>4, <2>2, AccumulateKeeps
<1>5. CASE w.bucket.open /\ w.bucket.ms < Slot(s)
  <2>1. ~(Slot(s) < w.bucket.ms) /\ Slot(s) # w.bucket.ms BY <1>1, <1>5
  <2>2. PICK v, o : v = Finalize(w) /\ o = Opened(v, s) OBVIOUS
  <2>3. Follows(v, w) /\ AtMost(v.coarse, w.bucket.ms) BY <1>5, <2>2, FinalizeKeeps
  <2>4. Ordered(v) /\ v.coarse \in Seq(CoarseSample) BY <2>3 DEF Follows, Ordered, Windows
  <2>5. AtMost(v.coarse, Slot(s)) BY <1>1, <1>5, <2>3, <2>4, AtMostGrows
  <2>6. Follows(o, v) /\ o.bucket.open BY <2>2, <2>4, <2>5, OpenKeeps
  <2>7. Follows(o, w) BY <2>3, <2>6, FollowsOn
  <2>8. Ordered(o) BY <2>6 DEF Follows
  <2>9. Follows(Accumulated(o, s), o) /\ Accumulated(o, s).bucket.open
    BY <2>6, <2>8, AccumulateKeeps
  <2>10. Follows(Accumulated(o, s), w) BY <2>7, <2>9, FollowsOn
  <2>11. Summarised(w, s) = Accumulated(o, s) BY <1>5, <2>1, <2>2 DEF Summarised
  <2> QED BY <2>9, <2>10, <2>11
<1> QED BY <1>1, <1>2, <1>3, <1>4, <1>5

LEMMA PushKeepsOrder ==
    ASSUME NEW w, Ordered(w), NEW s \in Reading, s.runId # 0, s.runId = w.runId,
           ~w.bucket.open => w.coarse = <<>>
    PROVE  Follows(Pushed(w, s), w) /\ Pushed(w, s).bucket.open
<1>1. /\ w \in Windows /\ w.raw \in Seq(Reading) /\ w.coarse \in Seq(CoarseSample)
      /\ RawCap \in Nat \ {0}
  BY WindowAssumption DEF Ordered, Windows
<1>2. PICK q : q = Newest(RawCap, Append(w.raw, s)) OBVIOUS
<1>3. q \in Seq(Reading)
  <2>1. Append(w.raw, s) \in Seq(Reading) BY <1>1
  <2>2. PICK d, u : u \in Seq(Reading) /\ Ends(u, d, Append(w.raw, s), RawCap)
    BY <1>1, <2>1, NewestEnds
  <2> QED BY <1>2, <2>2 DEF Ends
<1>4. PICK v : v = [w EXCEPT !.raw = q] OBVIOUS
<1>5. v \in Windows /\ v.runId = w.runId /\ v.coarse = w.coarse /\ v.bucket = w.bucket
  BY <1>1, <1>3, <1>4 DEF Windows
<1>6. Follows(v, w) BY <1>5, SameCoarse DEF Ordered
<1>7. Pushed(w, s) = Summarised(v, s) BY <1>2, <1>4 DEF Pushed
<1>8. ~v.bucket.open => AtMost(v.coarse, Slot(s))
  <2>1. AtMost(<<>>, Slot(s)) BY DEF AtMost
  <2> QED BY <1>5, <2>1
<1>9. Ordered(v) BY <1>6 DEF Follows
<1>10. Follows(Summarised(v, s), v) /\ Summarised(v, s).bucket.open BY <1>8, <1>9, SummariseKeeps
<1> QED BY <1>6, <1>7, <1>10, FollowsOn

-----------------------------------------------------------------------------
(* One record more. *)
LEMMA PutIs ==
    ASSUME NEW r \in Records, NEW x \in CoarseSample \cup {Torn}, NEW l \in Nat, l = Len(r)
    PROVE  /\ Append(r, x) \in Records /\ Len(Append(r, x)) = l + 1
           /\ Append(r, x)[l + 1] = x /\ \A i \in 1..l : Append(r, x)[i] = r[i]
           /\ \A k \in 0..l : Sound(Append(r, x), k) <=> Sound(r, k)
           /\ Sound(Append(r, x), l + 1) <=> Sound(r, l) /\ x # Torn
<1>1. PICK b : b = Append(r, x) OBVIOUS
<1>2. b \in Records /\ Len(b) = l + 1 /\ b[l + 1] = x /\ \A i \in 1..l : b[i] = r[i]
  BY <1>1 DEF Records
<1>3. \A k \in 0..l : Sound(b, k) <=> Sound(r, k)
  <2>1. \A k \in 0..l : \A i \in 1..k : i \in 1..l OBVIOUS
  <2> QED BY <1>2, <2>1 DEF Sound
<1>4. Sound(b, l + 1) <=> Sound(r, l) /\ x # Torn
  <2>1. \A i \in 1..(l + 1) : i = l + 1 \/ i \in 1..l OBVIOUS
  <2>2. l + 1 \in 1..(l + 1) /\ \A i \in 1..l : i \in 1..(l + 1) OBVIOUS
  <2> QED BY <1>2, <2>1, <2>2 DEF Sound
<1> QED BY <1>1, <1>2, <1>3, <1>4

LEMMA PutFile ==
    ASSUME FileTyped, FileOK, file # None, NEW x \in CoarseSample \cup {Torn}, PutRecord(x),
           made \subseteq made',
           x # Torn => x \in made' /\ x.runId = file.runId,
           Sound(file.recs, Len(file.recs)) /\ x # Torn => AtMost(file.recs, x.ms),
           acked' # {} => acked # {} \/ file.header = "good",
           \A c \in acked' :
              \/ c \in acked
              \/ /\ c = x /\ x # Torn
                 /\ \/ Sound(file.recs, Len(file.recs))
                    \/ \E k \in 1..Len(file.recs) : Sound(file.recs, k) /\ file.recs[k] = x
    PROVE  /\ FileOK' /\ file' \in CoarseFile /\ file' # None
           /\ file'.runId = file.runId /\ file'.recs = Append(file.recs, x)
<1>1. file \in CoarseFile /\ file.recs \in Records BY DEF FileTyped, CoarseFile, Records
<1>0. PICK l \in Nat : l = Len(file.recs) BY <1>1 DEF Records
<1>2. PICK r : r = file.recs /\ l = Len(r) BY <1>0
<1>3. PICK b : b = Append(r, x) OBVIOUS
<1>4. /\ b \in Records /\ Len(b) = l + 1 /\ b[l + 1] = x /\ \A i \in 1..l : b[i] = r[i]
      /\ \A k \in 0..l : Sound(b, k) <=> Sound(r, k)
      /\ Sound(b, l + 1) <=> Sound(r, l) /\ x # Torn
  BY <1>1, <1>2, <1>3, PutIs
<1>14. PICK h : h = IF file.header = "short" THEN "bad" ELSE file.header OBVIOUS
<1>15. h \in {"short", "bad", "good"} /\ (file.header = "good" => h = "good")
  BY <1>1, <1>14 DEF CoarseFile
<1>5. file' = [file EXCEPT !.recs = b, !.header = h]
  BY <1>2, <1>3, <1>14 DEF PutRecord
<1>6. /\ file' \in CoarseFile /\ file'.runId = file.runId /\ file'.recs = b /\ file'.header = h
  BY <1>1, <1>4, <1>5, <1>15 DEF CoarseFile, Records
<1>7. file' # None BY <1>6, FileAssumption
<1>8. /\ \A i \in 1..l : r[i] # Torn => r[i] \in made /\ r[i].runId = file.runId
      /\ RecordsRise(r)
      /\ \A c \in acked : \E k \in 1..l : Sound(r, k) /\ r[k] = c
  BY <1>2 DEF FileOK
<1>9. \A i \in 1..(l + 1) : i = l + 1 \/ i \in 1..l OBVIOUS
<1>10. \A i \in 1..(l + 1) : b[i] # Torn => b[i] \in made' /\ b[i].runId = file'.runId
  BY <1>4, <1>6, <1>8, <1>9
<1>11. RecordsRise(b)
  <2>1. SUFFICES ASSUME NEW k \in 1..(l + 1), Sound(b, k), NEW i \in 1..k
                 PROVE  b[i].ms <= b[k].ms
    BY <1>4 DEF RecordsRise
  <2>2. CASE k \in 1..l
    <3>1. k \in 0..l /\ i \in 1..l BY <2>2
    <3>2. Sound(r, k) BY <1>4, <2>1, <3>1
    <3>3. r[i].ms <= r[k].ms BY <1>2, <1>8, <2>2, <3>2 DEF RecordsRise
    <3> QED BY <1>4, <2>2, <3>1, <3>3
  <2>3. CASE k = l + 1
    <3>1. Sound(r, l) /\ x # Torn BY <1>4, <2>1, <2>3
    <3>2. AtMost(r, x.ms) BY <1>2, <3>1
    <3>3. CASE i = l + 1
      <4>1. x \in CoarseSample BY <3>1
      <4>2. x.ms \in Nat BY <4>1 DEF CoarseSample
      <4> QED BY <1>4, <2>3, <3>3, <4>2
    <3>4. CASE i # l + 1
      <4>1. i \in 1..l BY <2>3, <3>4
      <4>2. r[i].ms <= x.ms BY <1>2, <3>2, <4>1 DEF AtMost
      <4> QED BY <1>4, <2>3, <4>1, <4>2
    <3> QED BY <3>3, <3>4
  <2> QED BY <1>9, <2>2, <2>3
<1>12. ASSUME NEW c \in acked' PROVE \E k \in 1..(l + 1) : Sound(b, k) /\ b[k] = c
  <2>1. ASSUME NEW k \in 1..l, Sound(r, k), r[k] = c
        PROVE  \E j \in 1..(l + 1) : Sound(b, j) /\ b[j] = c
    <3>1. k \in 0..l /\ k \in 1..(l + 1) OBVIOUS
    <3> QED BY <1>4, <2>1, <3>1
  <2>2. CASE c = x /\ x # Torn /\ Sound(r, l)
    <3>1. l + 1 \in 1..(l + 1) OBVIOUS
    <3> QED BY <1>4, <2>2, <3>1
  <2> QED BY <1>2, <1>8, <2>1, <2>2
<1>16. acked' # {} => file' # None /\ file'.header = "good" BY <1>6, <1>7, <1>15 DEF FileOK
<1>13. FileOK' BY <1>4, <1>6, <1>10, <1>11, <1>12, <1>16 DEF FileOK
<1> QED BY <1>2, <1>3, <1>6, <1>7, <1>13

-----------------------------------------------------------------------------
(* The window kept in hist, and its last bucket offered to the file: it continues the
   window before, and no bucket is finished while no run is active. *)
Stores(w) ==
    /\ up /\ Stored(w) /\ Follows(w, hist)
    /\ UNCHANGED <<nvs, up, mounted, activeRun>>
    /\ manager' \in [id : Nat, active : BOOLEAN, seq : Nat] /\ manager'.id = manager.id
    /\ manager'.active => manager.active /\ (~w.bucket.open => w.coarse = <<>>)
    /\ ~manager.active => w = hist

LEMMA OwnFollows ==
    ASSUME FInv, NEW w, Stores(w), file # None, Own(file.recs, hist.coarse)
    PROVE  Own(file.recs, w.coarse)
<1>0. /\ file.recs \in Records /\ hist.coarse \in Seq(CoarseSample)
      /\ w.coarse \in Seq(CoarseSample)
  BY DEF FInv, FileTyped, CoarseFile, Records, Windows, Stores, Follows, Ordered
<1>1. PICK r, s, u : r = file.recs /\ s = hist.coarse /\ u = w.coarse OBVIOUS
<1>2. PICK l \in Nat : l = Len(r) BY <1>0, <1>1 DEF Records
<1>3. Sound(r, l) /\ (l > 0 => Len(s) > 0 /\ AtMost(r, s[Len(s)].ms)) BY <1>1, <1>2 DEF Own
<1>4. Len(s) > 0 => Len(u) > 0 /\ s[Len(s)].ms <= u[Len(u)].ms
  BY <1>1 DEF Stores, Follows, Later
<1>5. ASSUME l > 0 PROVE Len(u) > 0 /\ AtMost(r, u[Len(u)].ms)
  <2>1. s[Len(s)] \in CoarseSample /\ u[Len(u)] \in CoarseSample
    BY <1>0, <1>1, <1>3, <1>4, <1>5
  <2>2. s[Len(s)].ms \in Nat /\ u[Len(u)].ms \in Nat BY <2>1 DEF CoarseSample
  <2>3. \A i \in 1..l : r[i] \in CoarseSample BY <1>0, <1>1, <1>2, <1>3 DEF Records, Sound
  <2>4. \A i \in 1..l : r[i].ms \in Nat BY <2>3 DEF CoarseSample
  <2>5. \A i \in 1..l : r[i].ms <= s[Len(s)].ms BY <1>2, <1>3, <1>5 DEF AtMost
  <2>6. \A i \in 1..l : r[i].ms <= u[Len(u)].ms BY <1>3, <1>4, <1>5, <2>2, <2>4, <2>5
  <2> QED BY <1>2, <1>3, <1>4, <1>5, <2>6 DEF AtMost
<1> QED BY <1>1, <1>2, <1>3, <1>5 DEF Own

LEMMA Offered ==
    ASSUME FInv, NEW w, Stores(w), w.coarse # <<>>
    PROVE  /\ w.coarse \in Seq(CoarseSample) /\ Len(w.coarse) \in Nat /\ Len(w.coarse) > 0
           /\ Last(w.coarse) = w.coarse[Len(w.coarse)] /\ Last(w.coarse) \in CoarseSample
           /\ Last(w.coarse) \in ToSet(w.coarse) /\ Last(w.coarse).runId = hist.runId
<1>1. w \in Windows /\ w.runId = hist.runId BY DEF Stores, Follows, Ordered
<1>2. w.coarse \in Seq(CoarseSample) BY <1>1 DEF Windows
<1>3. PICK l \in Nat : l = Len(w.coarse) BY <1>2
<1>4. l > 0 BY <1>2, <1>3
<1>5. l \in 1..l BY <1>4
<1>6. Last(w.coarse) = w.coarse[l] BY <1>3 DEF Last
<1>7. w.coarse[l].runId = w.runId BY <1>3, <1>5 DEF Stores, Follows, Ordered
<1>8. w.coarse[l] \in ToSet(w.coarse) BY <1>3, <1>5 DEF ToSet
<1> QED BY <1>1, <1>2, <1>3, <1>4, <1>5, <1>6, <1>7, <1>8

LEMMA MadeGrows ==
    ASSUME NEW w, Stores(w), FInv
    PROVE  /\ made' = made \cup ToSet(w.coarse) /\ made \subseteq made'
           /\ made' \in SUBSET CoarseSample
           /\ \A i \in 1..Len(w.coarse) : w.coarse[i] \in made'
<1>1. made' = made \cup ToSet(w.coarse) BY DEF Stores, Stored
<1>2. w.coarse \in Seq(CoarseSample) BY DEF Stores, Follows, Ordered, Windows
<1>3. ToSet(w.coarse) \subseteq CoarseSample BY <1>2 DEF ToSet
<1>4. \A i \in 1..Len(w.coarse) : w.coarse[i] \in ToSet(w.coarse) BY <1>2 DEF ToSet
<1> QED BY <1>1, <1>3, <1>4 DEF FInv, FileTyped

LEMMA StoreRuns ==
    ASSUME FInv, NEW w, Stores(w), file' # None => file # None /\ file'.runId = file.runId
    PROVE  RunOK' /\ HistOK'
<1>1. hist' = w /\ w.runId = hist.runId /\ Ordered(w) BY DEF Stores, Stored, Follows
<1>2. RunOK' BY <1>1 DEF FInv, RunOK, Stores
<1>3. \A i \in 1..Len(hist'.coarse) : hist'.coarse[i] \in made' BY <1>1, MadeGrows
<1>4. Ordered(hist') BY <1>1
<1>5. HistOK' BY <1>1, <1>3, <1>4 DEF HistOK, Stores
<1> QED BY <1>2, <1>5

(* Nothing was appended. *)
LEMMA NotAppended ==
    ASSUME FInv, NEW w, Stores(w), UNCHANGED <<file, acked>>
    PROVE  FInv'
<1>1. RunOK' /\ HistOK' BY StoreRuns DEF FInv
<1>2. made \subseteq made' /\ made' \in SUBSET CoarseSample BY MadeGrows
<1>3. hist' = w /\ w \in Windows BY DEF Stores, Stored, Follows, Ordered
<1>4. FileTyped' BY <1>2, <1>3 DEF FInv, FileTyped, Stores
<1>5. FileOK' BY <1>2 DEF FInv, FileOK
<1>6. ASSUME Writes'
      PROVE  /\ file' # None /\ file'.runId = activeRun'
             /\ \/ Own(file'.recs, hist'.coarse)
                \/ ~manager'.active /\ Restores(file'.recs, hist'.coarse)
  <2>1. Writes
    <3>1. up /\ mounted /\ activeRun = hist.runId BY <1>3, <1>6 DEF Writes, Stores, Follows
    <3>2. manager.active \/ Len(hist.coarse) > 0 BY <1>3, <1>6 DEF Writes, Stores
    <3> QED BY <3>1, <3>2 DEF Writes
  <2>2. /\ file # None /\ file.runId = activeRun
        /\ \/ Own(file.recs, hist.coarse)
           \/ ~manager.active /\ Restores(file.recs, hist.coarse)
    BY <2>1 DEF FInv, Link
  <2>3. file' = file /\ activeRun' = activeRun BY DEF Stores
  <2>4. CASE ~manager.active BY <1>3, <2>2, <2>3, <2>4 DEF Stores
  <2>5. CASE manager.active
    <3>1. Own(file.recs, hist.coarse) BY <2>2, <2>5
    <3>2. Own(file.recs, w.coarse) BY <2>2, <3>1, OwnFollows
    <3> QED BY <1>3, <2>2, <2>3, <3>2
  <2> QED BY <2>4, <2>5
<1>7. Link' BY <1>6 DEF Link
<1> QED BY <1>1, <1>4, <1>5, <1>7 DEF FInv

(* The newest bucket was appended: behind all records, or behind a torn one, and then it
   is one of the records it was restored from. *)
LEMMA Appended ==
    ASSUME FInv, NEW w, Stores(w), w.coarse # <<>>, NEW x, x = Last(w.coarse),
           Appends(x), PutRecord(x), Kept(x)
    PROVE  FInv'
<1>1. hist' = w /\ w \in Windows BY DEF Stores, Stored, Follows, Ordered
<1>2. /\ Len(w.coarse) > 0 /\ x = w.coarse[Len(w.coarse)] /\ x \in CoarseSample
      /\ x \in ToSet(w.coarse) /\ x.runId = hist.runId
      /\ w.coarse \in Seq(CoarseSample)
  BY Offered
<1>3. Writes
  <2>1. up /\ mounted /\ activeRun = hist.runId BY <1>2 DEF Appends, Stores
  <2>2. manager.active \/ Len(hist.coarse) > 0 BY <1>2 DEF Stores
  <2> QED BY <2>1, <2>2 DEF Writes
<1>4. /\ file # None /\ file.runId = activeRun
      /\ \/ Own(file.recs, hist.coarse)
         \/ ~manager.active /\ Restores(file.recs, hist.coarse)
  BY <1>3 DEF FInv, Link
<1>5. x # Torn /\ x \in CoarseSample \cup {Torn} BY <1>2, FileAssumption
<1>10. /\ \A c \in acked' : c \in acked \/ c = x
       /\ acked' # {} => acked # {} \/ file.header = "good"
  <2>1. CASE file.header = "good" BY <2>1 DEF Kept
  <2>2. CASE file.header # "good"
    <3>1. acked' = acked BY <2>2 DEF Kept
    <3> QED BY <3>1
  <2> QED BY <2>1, <2>2
<1>11. acked' \in SUBSET CoarseSample BY <1>2, <1>10 DEF FInv, FileTyped
<1>6. made \subseteq made' /\ made' \in SUBSET CoarseSample /\ x \in made' BY <1>2, MadeGrows
<1>7. x.runId = file.runId BY <1>2, <1>3, <1>4 DEF Writes
<1>8. CASE Own(file.recs, hist.coarse)
  <2>1. Own(file.recs, w.coarse) BY <1>4, <1>8, OwnFollows
  <2>2. /\ Sound(file.recs, Len(file.recs))
        /\ Len(file.recs) > 0 => AtMost(file.recs, x.ms)
    BY <1>2, <2>1 DEF Own
  <2>3. file.recs \in Records BY <1>4 DEF FInv, FileTyped, CoarseFile, Records
  <2>4. PICK l \in Nat : l = Len(file.recs) BY <2>3 DEF Records
  <2>5. AtMost(file.recs, x.ms)
    <3>1. CASE l = 0
      <4>1. \A i \in 1..l : FALSE BY <3>1
      <4> QED BY <2>4, <4>1 DEF AtMost
    <3>2. CASE l > 0 BY <2>2, <2>4, <3>2
    <3> QED BY <3>1, <3>2
  <2>7. /\ FileOK' /\ file' \in CoarseFile /\ file' # None
        /\ file'.runId = file.runId /\ file'.recs = Append(file.recs, x)
    BY <1>4, <1>5, <1>6, <1>7, <1>10, <2>2, <2>5, PutFile DEF FInv
  <2>8. Own(file'.recs, w.coarse)
    <3>1. PICK r, b : r = file.recs /\ b = Append(r, x) OBVIOUS
    <3>2. /\ b \in Records /\ Len(b) = l + 1 /\ b[l + 1] = x /\ \A i \in 1..l : b[i] = r[i]
          /\ Sound(b, l + 1) <=> Sound(r, l) /\ x # Torn
      BY <1>5, <2>3, <2>4, <3>1, PutIs
    <3>3. Sound(b, l + 1) BY <1>5, <2>2, <2>4, <3>1, <3>2
    <3>4. x.ms \in Nat BY <1>2 DEF CoarseSample
    <3>5. ASSUME NEW i \in 1..(l + 1) PROVE b[i].ms <= x.ms
      <4>1. CASE i = l + 1 BY <3>2, <3>4, <4>1
      <4>2. CASE i # l + 1
        <5>1. i \in 1..l BY <4>2
        <5> QED BY <2>4, <2>5, <3>1, <3>2, <5>1 DEF AtMost
      <4> QED BY <4>1, <4>2
    <3>6. AtMost(b, x.ms) BY <3>2, <3>5 DEF AtMost
    <3> QED BY <1>2, <2>7, <3>1, <3>2, <3>3, <3>6 DEF Own
  <2>9. RunOK' /\ HistOK' BY <1>4, <2>7, StoreRuns
  <2>10. FileTyped' BY <1>1, <1>6, <1>11, <2>7 DEF FInv, FileTyped, Stores
  <2>11. Link' BY <1>1, <1>4, <2>7, <2>8 DEF Link, Stores
  <2> QED BY <2>7, <2>9, <2>10, <2>11 DEF FInv
<1>9. CASE ~manager.active /\ Restores(file.recs, hist.coarse)
  <2>1. w = hist BY <1>9 DEF Stores
  <2>2. ~Sound(file.recs, Len(file.recs)) BY <1>9 DEF Restores
  <2>3. PICK k \in 1..Len(file.recs) : Sound(file.recs, k) /\ file.recs[k] = x
    BY <1>2, <1>9, <2>1 DEF Restores
  <2>4. /\ FileOK' /\ file' \in CoarseFile /\ file' # None
        /\ file'.runId = file.runId /\ file'.recs = Append(file.recs, x)
    BY <1>4, <1>5, <1>6, <1>7, <1>10, <2>2, <2>3, PutFile DEF FInv
  <2>5. file.recs \in Records BY <1>4 DEF FInv, FileTyped, CoarseFile, Records
  <2>6. PICK l \in Nat : l = Len(file.recs) BY <2>5 DEF Records
  <2>7. Restores(file'.recs, hist.coarse)
    <3>1. PICK r, b : r = file.recs /\ b = Append(r, x) OBVIOUS
    <3>2. /\ Len(b) = l + 1 /\ \A i \in 1..l : b[i] = r[i]
          /\ \A j \in 0..l : Sound(b, j) <=> Sound(r, j)
          /\ Sound(b, l + 1) <=> Sound(r, l) /\ x # Torn
      BY <1>5, <2>5, <2>6, <3>1, PutIs
    <3>3. k \in 1..l /\ k \in 0..l /\ k \in 1..(l + 1) BY <2>6
    <3>4. Sound(b, k) /\ b[k] = x BY <2>3, <3>1, <3>2, <3>3
    <3>5. ~Sound(b, l + 1) BY <2>2, <2>6, <3>1, <3>2
    <3> QED BY <1>2, <2>1, <2>4, <3>1, <3>2, <3>3, <3>4, <3>5 DEF Restores
  <2>8. RunOK' /\ HistOK' BY <1>4, <2>4, StoreRuns
  <2>9. FileTyped' BY <1>1, <1>6, <1>11, <2>4 DEF FInv, FileTyped, Stores
  <2>10. Link' BY <1>1, <1>4, <1>9, <2>1, <2>4, <2>7 DEF Link, Stores
  <2> QED BY <2>4, <2>8, <2>9, <2>10 DEF FInv
<1> QED BY <1>4, <1>8, <1>9

LEMMA StoreKeeps ==
    ASSUME FInv, NEW w, Stores(w)
    PROVE  FInv'
<1>1. PersistLatest(w) BY DEF Stores, Stored
<1>2. CASE UNCHANGED <<file, acked>> BY <1>2, NotAppended
<1>3. CASE ~UNCHANGED <<file, acked>>
  <2>1. w.coarse # <<>> /\ AppendBucket(Last(w.coarse)) BY <1>1, <1>3 DEF PersistLatest
  <2>2. PICK x : x = Last(w.coarse) OBVIOUS
  <2>3. Appends(x) /\ PutRecord(x) /\ Kept(x)
    BY <1>3, <2>1, <2>2 DEF AppendBucket
  <2> QED BY <2>1, <2>2, <2>3, Appended
<1> QED BY <1>2, <1>3

-----------------------------------------------------------------------------
LEMMA SampleKeeps == FInv /\ OnSample => FInv'
<1> SUFFICES ASSUME FInv, OnSample PROVE FInv' OBVIOUS
<1>0. Ordered(hist) /\ hist \in Windows BY DEF FInv, HistOK, Ordered
<1>1. CASE ~manager.active /\ Stored(hist) /\ UNCHANGED manager
  <2>1. Follows(hist, hist) BY <1>0, SameCoarse DEF Ordered
  <2>2. Stores(hist) BY <1>1, <2>1 DEF OnSample, Stores, FInv, FileTyped
  <2> QED BY <2>2, StoreKeeps
<1>2. CASE manager.active /\ manager.seq < MaxSamples
  <2>1. PICK s : s = [runId |-> manager.id, seq |-> manager.seq + 1, ms |-> manager.seq + 1,
                      finite |-> TRUE, fault |-> FALSE]
    OBVIOUS
  <2>2. manager' = [manager EXCEPT !.seq = @ + 1] /\ Stored(Pushed(hist, s))
    BY <1>2, <2>1 DEF OnSample
  <2>3. manager \in [id : Nat, active : BOOLEAN, seq : Nat] BY DEF FInv, FileTyped
  <2>4. /\ manager' \in [id : Nat, active : BOOLEAN, seq : Nat] /\ manager'.id = manager.id
        /\ manager'.active
    BY <1>2, <2>2, <2>3
  <2>5. s \in Reading /\ s.runId = manager.id BY <2>1, <2>3 DEF Reading
  <2>6. up /\ UNCHANGED <<nvs, up, mounted, activeRun>> BY DEF OnSample
  <2>7. s.runId = hist.runId /\ s.runId # 0 /\ (~hist.bucket.open => hist.coarse = <<>>)
    BY <1>2, <2>5, <2>6 DEF FInv, RunOK, HistOK
  <2>8. PICK w : w = Pushed(hist, s) OBVIOUS
  <2>9. Follows(w, hist) /\ w.bucket.open BY <1>0, <2>5, <2>7, <2>8, PushKeepsOrder
  <2>10. Stores(w) BY <1>2, <2>2, <2>4, <2>6, <2>8, <2>9 DEF Stores
  <2> QED BY <2>10, StoreKeeps
<1> QED BY <1>1, <1>2 DEF OnSample

LEMMA StopKeeps == FInv /\ Stop => FInv'
<1> SUFFICES ASSUME FInv, Stop PROVE FInv' OBVIOUS
<1>1. Ordered(hist) BY DEF FInv, HistOK
<1>2. PICK w : w = Finalize(hist) OBVIOUS
<1>3. Follows(w, hist) BY <1>1, <1>2, FinalizeKeeps
<1>4. manager \in [id : Nat, active : BOOLEAN, seq : Nat] BY DEF FInv, FileTyped
<1>5. manager' = [manager EXCEPT !.active = FALSE] BY DEF Stop
<1>6. /\ manager' \in [id : Nat, active : BOOLEAN, seq : Nat] /\ manager'.id = manager.id
      /\ ~manager'.active
  BY <1>4, <1>5
<1>7. Stores(w) BY <1>2, <1>3, <1>6 DEF Stop, Stores
<1> QED BY <1>7, StoreKeeps

(* An empty window of run id. *)
LEMMA EmptyOrdered ==
    ASSUME NEW id \in Nat
    PROVE  /\ Ordered(Empty(id)) /\ Empty(id) \in Windows
           /\ Empty(id).runId = id /\ Empty(id).coarse = <<>> /\ ~Empty(id).bucket.open
<1>1. PICK w : w = Empty(id) OBVIOUS
<1>2. /\ w.runId = id /\ w.raw = <<>> /\ w.coarse = <<>> /\ w.bucket = NoBucket
      /\ w = [runId |-> id, raw |-> <<>>, coarse |-> <<>>, bucket |-> NoBucket]
  BY <1>1 DEF Empty
<1>3. NoBucket \in BucketRecord /\ ~NoBucket.open BY DEF NoBucket, BucketRecord
<1>4. w \in Windows BY <1>2, <1>3 DEF Windows
<1>5. \A i \in 1..Len(w.coarse) : FALSE BY <1>2
<1>6. Ordered(w) BY <1>2, <1>3, <1>4, <1>5 DEF Ordered, Rises
<1> QED BY <1>1, <1>2, <1>3, <1>4, <1>6

(* What begin() reads back of a good file. *)
LEMMA RestoredIs ==
    ASSUME FInv, file # None
    PROVE  \E w \in Windows :
              /\ w = ReadBack(file.runId, ValidPrefix(file.recs))
              /\ Ordered(w) /\ w.runId = file.runId
              /\ \A i \in 1..Len(w.coarse) : w.coarse[i] \in made
              /\ Len(w.coarse) > 0 => Own(file.recs, w.coarse) \/ Restores(file.recs, w.coarse)
<1>1. PICK r, id : r = file.recs /\ id = file.runId OBVIOUS
<1>2. r \in Records /\ id \in Nat BY <1>1 DEF FInv, FileTyped, CoarseFile, Records
<1>3. PICK l \in Nat : l = Len(r) BY <1>2 DEF Records
<1>4. PICK n \in 0..Len(r), p \in Seq(CoarseSample) :
         /\ p = ValidPrefix(r) /\ Len(p) = n /\ Sound(r, n)
         /\ n = Len(r) \/ r[n + 1] = Torn
         /\ \A i \in 1..n : p[i] = r[i]
  BY <1>2, PrefixIs
<1>5. n \in 0..l /\ \A i \in 1..n : i \in 1..l BY <1>3, <1>4
<1>6. /\ \A i \in 1..l : r[i] # Torn => r[i] \in made /\ r[i].runId = id
      /\ RecordsRise(r)
  BY <1>1, <1>3 DEF FInv, FileOK
<1>7. \A i \in 1..n : p[i] \in made /\ p[i].runId = id BY <1>4, <1>5, <1>6 DEF Sound
<1>8. OfRun(id, p) BY <1>4, <1>7 DEF OfRun
<1>9. ReadBack(id, p) = RingOf(id, p) BY <1>8, ReadBackIs
<1>10. ASSUME NEW k \in 1..n, NEW i \in 1..k PROVE r[i].ms <= r[k].ms
  <2>1. \A j \in 1..k : j \in 1..n BY <1>5
  <2>2. Sound(r, k) BY <1>4, <2>1 DEF Sound
  <2> QED BY <1>3, <1>5, <1>6, <2>2 DEF RecordsRise
<1>11. Rises(p)
  <2>1. SUFFICES ASSUME NEW i \in 1..n, NEW k \in 1..n, i <= k PROVE p[i].ms <= p[k].ms
    BY <1>4 DEF Rises
  <2>2. i \in 1..k BY <2>1
  <2> QED BY <1>4, <1>10, <2>2
<1>12. PICK q \in Seq(CoarseSample) :
              /\ q = Newest(CoarseCap, p) /\ Rises(q)
              /\ Len(p) > 0 => Len(q) > 0 /\ q[Len(q)] = p[Len(p)]
              /\ \A i \in 1..Len(q) : \E j \in 1..Len(p) : q[i] = p[j]
  BY <1>11, CutRises
<1>13. PICK w : w = ReadBack(id, p) OBVIOUS
<1>14. NoBucket \in BucketRecord /\ ~NoBucket.open BY DEF NoBucket, BucketRecord
<1>15. w = [runId |-> id, raw |-> <<>>, coarse |-> q, bucket |-> NoBucket]
  BY <1>9, <1>12, <1>13 DEF RingOf
<1>16. w \in Windows /\ w.runId = id /\ w.coarse = q /\ ~w.bucket.open
  BY <1>2, <1>14, <1>15 DEF Windows
<1>17. \A i \in 1..Len(q) : q[i] \in made /\ q[i].runId = id BY <1>4, <1>7, <1>12
<1>18. Ordered(w) BY <1>12, <1>16, <1>17 DEF Ordered
<1>19. ASSUME Len(q) > 0 PROVE Own(r, q) \/ Restores(r, q)
  <2>1. n > 0
    <3>1. 1 \in 1..Len(q) BY <1>19
    <3>2. PICK j \in 1..n : TRUE BY <1>4, <1>12, <3>1
    <3> QED BY <3>2
  <2>2. n \in 1..n /\ q[Len(q)] = r[n] BY <1>4, <1>12, <2>1
  <2>3. CASE n = l
    <3>1. \A i \in 1..l : r[i].ms <= r[l].ms BY <1>10, <2>2, <2>3
    <3> QED BY <1>3, <1>4, <1>19, <2>2, <2>3, <3>1 DEF Own, AtMost
  <2>4. CASE n # l
    <3>1. n + 1 \in 1..l /\ n \in 1..l BY <1>5, <2>1, <2>4
    <3>2. r[n + 1] = Torn BY <1>3, <1>4, <2>4
    <3>3. ~Sound(r, l) BY <3>1, <3>2 DEF Sound
    <3> QED BY <1>3, <1>4, <1>19, <2>2, <3>1, <3>3 DEF Restores
  <2> QED BY <2>3, <2>4
<1>20. /\ w = ReadBack(file.runId, ValidPrefix(file.recs))
       /\ Ordered(w) /\ w.runId = file.runId
       /\ \A i \in 1..Len(w.coarse) : w.coarse[i] \in made
       /\ Len(w.coarse) > 0 => Own(file.recs, w.coarse) \/ Restores(file.recs, w.coarse)
  BY <1>1, <1>4, <1>13, <1>16, <1>17, <1>18, <1>19
<1> QED BY <1>16, <1>20

LEMMA BootKeeps == FInv /\ Boot => FInv'
<1> SUFFICES ASSUME FInv, Boot PROVE FInv' OBVIOUS
<1>1. /\ up' = TRUE /\ manager' = [id |-> nvs, active |-> FALSE, seq |-> 0]
      /\ mounted' \in BOOLEAN /\ nvs' = nvs /\ acked' = acked /\ made' = made
  BY DEF Boot
<1>2. /\ nvs \in Nat /\ activeRun \in Nat
      /\ acked \in SUBSET CoarseSample /\ made \in SUBSET CoarseSample
      /\ file \in CoarseFile \cup {None}
  BY DEF FInv, FileTyped
<1>3. /\ manager' \in [id : Nat, active : BOOLEAN, seq : Nat] /\ manager'.id = nvs
      /\ ~manager'.active
  BY <1>1, <1>2
<1>4. CASE /\ activeRun' = 0 /\ hist' = Empty(0)
           /\ file' = file \/ (file' = None /\ file.header = "bad")
  <2>1. /\ Ordered(hist') /\ hist' \in Windows /\ hist'.runId = 0 /\ hist'.coarse = <<>>
        /\ ~hist'.bucket.open
    BY <1>4, EmptyOrdered
  <2>2. FileTyped' BY <1>1, <1>2, <1>3, <1>4, <2>1 DEF FileTyped
  <2>3. RunOK' BY <1>1, <1>2, <1>3, <1>4, <2>1 DEF FInv, RunOK
  <2>4. HistOK'
    <3>1. \A i \in 1..Len(hist'.coarse) : FALSE BY <2>1
    <3> QED BY <1>3, <2>1, <3>1 DEF HistOK
  <2>5. FileOK' BY <1>1, <1>4 DEF FInv, FileOK
  <2>6. Link'
    <3>1. ~(Len(hist'.coarse) > 0) BY <2>1
    <3> QED BY <1>3, <3>1 DEF Link, Writes
  <2> QED BY <2>2, <2>3, <2>4, <2>5, <2>6 DEF FInv
<1>5. CASE /\ mounted' /\ file # None /\ file.header = "good"
           /\ activeRun' = file.runId /\ file' = file
           /\ hist' = ReadBack(file.runId, ValidPrefix(file.recs))
  <2>1. /\ hist' \in Windows /\ Ordered(hist') /\ hist'.runId = file.runId
        /\ \A i \in 1..Len(hist'.coarse) : hist'.coarse[i] \in made
        /\ Len(hist'.coarse) > 0 =>
             Own(file.recs, hist'.coarse) \/ Restores(file.recs, hist'.coarse)
    BY <1>5, RestoredIs
  <2>2. file.runId \in Nat /\ file.runId <= nvs BY <1>2, <1>5 DEF CoarseFile, FInv, RunOK
  <2>3. FileTyped' BY <1>1, <1>2, <1>3, <1>5, <2>1, <2>2 DEF FileTyped
  <2>4. RunOK' BY <1>1, <1>3, <1>5, <2>1, <2>2 DEF FInv, RunOK
  <2>5. HistOK' BY <1>1, <1>3, <2>1 DEF HistOK
  <2>6. FileOK' BY <1>1, <1>5 DEF FInv, FileOK
  <2>7. Link' BY <1>3, <1>5, <2>1 DEF Link, Writes
  <2> QED BY <2>3, <2>4, <2>5, <2>6, <2>7 DEF FInv
<1> QED
  <2>1. CASE activeRun' = 0 /\ hist' = Empty(0) /\ UNCHANGED file BY <1>4, <2>1
  <2>2. CASE /\ mounted' /\ file # None /\ file.header = "bad"
             /\ activeRun' = 0 /\ hist' = Empty(0) /\ file' = None
    BY <1>4, <2>2
  <2>3. CASE /\ mounted' /\ file # None /\ file.header = "good"
             /\ activeRun' = file.runId
             /\ hist' = ReadBack(file.runId, ValidPrefix(file.recs))
             /\ UNCHANGED file
    BY <1>5, <2>3
  <2> QED BY <2>1, <2>2, <2>3 DEF Boot

(* A file just begun holds nothing. *)
LEMMA NewIs ==
    ASSUME NEW h \in {"short", "bad", "good"}, NEW id \in Nat
    PROVE  /\ NewFile(h, id) \in CoarseFile /\ NewFile(h, id) # None
           /\ NewFile(h, id).runId = id /\ NewFile(h, id).recs = <<>>
<1>1. NewFile(h, id) \in CoarseFile BY DEF NewFile, CoarseFile
<1> QED BY <1>1, FileAssumption DEF NewFile

LEMMA BegunFile ==
    ASSUME NEW h \in {"short", "bad", "good"}, NEW id \in Nat, file' = NewFile(h, id), acked' = {}
    PROVE  FileOK'
<1>1. file'.recs = <<>> /\ file' # None BY NewIs
<1>2. \A i \in 1..Len(file'.recs) : FALSE BY <1>1
<1> QED BY <1>2 DEF FileOK, RecordsRise

LEMMA StartsKeeps == FInv /\ Start => FInv'
<1> SUFFICES ASSUME FInv, Start PROVE FInv' OBVIOUS
<1>1. PICK id : id = manager.id + 1 OBVIOUS
<1>2. /\ nvs \in Nat /\ activeRun \in Nat /\ acked \in SUBSET CoarseSample
      /\ made \in SUBSET CoarseSample /\ file \in CoarseFile \cup {None} /\ mounted \in BOOLEAN
      /\ up /\ manager.id = nvs /\ activeRun <= nvs
  BY DEF FInv, FileTyped, RunOK, Start
<1>3. id \in Nat /\ id = nvs + 1 /\ id # 0 BY <1>1, <1>2
<1>4. /\ nvs' = id /\ manager' = [id |-> id, active |-> TRUE, seq |-> 0] /\ hist' = Empty(id)
      /\ up' = up /\ mounted' = mounted /\ made' = made /\ StartFile(id)
  BY <1>1 DEF Start
<1>5. /\ Ordered(hist') /\ hist' \in Windows /\ hist'.runId = id /\ hist'.coarse = <<>>
  BY <1>3, <1>4, EmptyOrdered
<1>6. /\ manager' \in [id : Nat, active : BOOLEAN, seq : Nat] /\ manager'.id = id
  BY <1>3, <1>4
<1>7. HistOK'
  <2>1. \A i \in 1..Len(hist'.coarse) : FALSE BY <1>5
  <2> QED BY <1>5, <2>1 DEF HistOK
<1>8. CASE UNCHANGED <<file, activeRun, acked>>
  <2>1. FileTyped' BY <1>2, <1>3, <1>4, <1>5, <1>6, <1>8 DEF FileTyped
  <2>2. RunOK'
    <3>1. file # None => file.runId \in Nat /\ file.runId <= nvs
      BY <1>2 DEF CoarseFile, FInv, RunOK
    <3>2. activeRun <= id /\ (file # None => file.runId <= id) BY <1>2, <1>3, <3>1
    <3> QED BY <1>3, <1>4, <1>5, <1>6, <1>8, <3>2 DEF RunOK
  <2>3. FileOK' BY <1>4, <1>8 DEF FInv, FileOK
  <2>4. Link' BY <1>2, <1>3, <1>5, <1>8 DEF Link, Writes
  <2> QED BY <1>7, <2>1, <2>2, <2>3, <2>4 DEF FInv
<1>9. CASE file' = None /\ UNCHANGED activeRun /\ acked' = {}
  <2>1. FileTyped' BY <1>2, <1>3, <1>4, <1>5, <1>6, <1>9 DEF FileTyped
  <2>2. RunOK'
    <3>1. activeRun <= id BY <1>2, <1>3
    <3> QED BY <1>3, <1>4, <1>5, <1>6, <1>9, <3>1 DEF RunOK
  <2>3. FileOK' BY <1>9 DEF FileOK
  <2>4. Link' BY <1>2, <1>3, <1>5, <1>9 DEF Link, Writes
  <2> QED BY <1>7, <2>1, <2>2, <2>3, <2>4 DEF FInv
<1>10. CASE file' = NewFile("short", id) /\ activeRun' = activeRun /\ acked' = {}
  <2>1. file' \in CoarseFile /\ file'.runId = id BY <1>3, <1>10, NewIs
  <2>2. FileTyped' BY <1>2, <1>3, <1>4, <1>5, <1>6, <1>10, <2>1 DEF FileTyped
  <2>3. RunOK'
    <3>1. activeRun <= id BY <1>2, <1>3
    <3> QED BY <1>3, <1>4, <1>5, <1>6, <1>10, <2>1, <3>1 DEF RunOK
  <2>4. FileOK' BY <1>3, <1>10, BegunFile
  <2>5. Link' BY <1>2, <1>3, <1>5, <1>10 DEF Link, Writes
  <2> QED BY <1>7, <2>2, <2>3, <2>4, <2>5 DEF FInv
<1>11. ASSUME NEW h \in {"short", "good"}, file' = NewFile(h, id), activeRun' = id, acked' = {}
       PROVE  FInv'
  <2>1. file' \in CoarseFile /\ file'.runId = id /\ file'.recs = <<>> /\ file' # None
    BY <1>3, <1>11, NewIs
  <2>2. FileTyped' BY <1>2, <1>3, <1>4, <1>5, <1>6, <1>11, <2>1 DEF FileTyped
  <2>3. RunOK' BY <1>3, <1>4, <1>5, <1>6, <1>11, <2>1 DEF RunOK
  <2>4. FileOK' BY <1>3, <1>11, BegunFile
  <2>5. Own(file'.recs, hist'.coarse)
    <3>1. Len(<<>>) = 0 /\ \A i \in 1..0 : FALSE OBVIOUS
    <3> QED BY <2>1, <3>1 DEF Own, Sound
  <2>6. Link' BY <1>11, <2>1, <2>5 DEF Link
  <2> QED BY <1>7, <2>2, <2>3, <2>4, <2>6 DEF FInv
<1> QED
  <2>1. CASE /\ file' = NewFile("short", id) /\ activeRun' \in {activeRun, id} /\ acked' = {}
    <3>1. activeRun' = activeRun \/ activeRun' = id BY <2>1
    <3> QED BY <1>10, <1>11, <2>1, <3>1
  <2>2. CASE file' = NewFile("good", id) /\ activeRun' = id /\ acked' = {}
    BY <1>11, <2>2
  <2> QED BY <1>4, <1>8, <1>9, <2>1, <2>2 DEF StartFile

LEMMA PowerKeeps == FInv /\ PowerLoss => FInv'
<1> SUFFICES ASSUME FInv, PowerLoss PROVE FInv' OBVIOUS
<1>1. /\ up /\ up' = FALSE
      /\ UNCHANGED <<mounted, activeRun, manager, hist, made>>
  BY DEF PowerLoss
<1>2. /\ nvs \in Nat /\ manager.id = nvs /\ hist.runId \in Nat /\ hist.runId <= nvs
      /\ file \in CoarseFile \cup {None} /\ (file # None => file.runId <= nvs)
      /\ FileTyped /\ HistOK /\ FileOK
  BY <1>1 DEF FInv, FileTyped, RunOK, Windows
<1>3. HistOK' BY <1>1, <1>2 DEF HistOK
<1>4. Link' BY <1>1 DEF Link, Writes
<1>5. file # None => file.runId \in Nat BY <1>2 DEF CoarseFile
<1>6. CASE UNCHANGED <<nvs, file, acked>>
  <2>1. FileTyped' BY <1>1, <1>2, <1>6 DEF FileTyped
  <2>2. RunOK' BY <1>1, <1>2, <1>6 DEF RunOK
  <2>3. FileOK' BY <1>1, <1>2, <1>6 DEF FileOK
  <2> QED BY <1>3, <1>4, <2>1, <2>2, <2>3 DEF FInv
<1>7. CASE nvs' = manager.id + 1 /\ UNCHANGED <<file, acked>>
  <2>1. FileTyped'
    <3>1. nvs' \in Nat BY <1>2, <1>7
    <3> QED BY <1>1, <1>2, <1>7, <3>1 DEF FileTyped
  <2>2. RunOK' BY <1>1, <1>2, <1>5, <1>7 DEF RunOK
  <2>3. FileOK' BY <1>1, <1>2, <1>7 DEF FileOK
  <2> QED BY <1>3, <1>4, <2>1, <2>2, <2>3 DEF FInv
<1>8. CASE /\ nvs' = manager.id + 1 /\ acked' = {}
           /\ file' \in {None} \cup {NewFile(h, manager.id + 1) : h \in {"short", "bad"}}
  <2>1. PICK id : id = manager.id + 1 OBVIOUS
  <2>2. id \in Nat /\ id = nvs + 1 BY <1>2, <2>1
  <2>3. CASE file' = None
    <3>1. FileTyped' BY <1>1, <1>2, <1>8, <2>1, <2>2, <2>3 DEF FileTyped
    <3>2. RunOK' BY <1>1, <1>2, <1>8, <2>1, <2>2, <2>3 DEF RunOK
    <3>3. FileOK' BY <1>8, <2>3 DEF FileOK
    <3> QED BY <1>3, <1>4, <3>1, <3>2, <3>3 DEF FInv
  <2>4. ASSUME NEW h \in {"short", "bad"}, file' = NewFile(h, id) PROVE FInv'
    <3>1. file' \in CoarseFile /\ file'.runId = id BY <2>2, <2>4, NewIs
    <3>2. FileTyped' BY <1>1, <1>2, <1>8, <2>1, <2>2, <3>1 DEF FileTyped
    <3>3. RunOK' BY <1>1, <1>2, <1>8, <2>1, <2>2, <3>1 DEF RunOK
    <3>4. FileOK' BY <1>8, <2>2, <2>4, BegunFile
    <3> QED BY <1>3, <1>4, <3>2, <3>3, <3>4 DEF FInv
  <2> QED BY <1>8, <2>1, <2>3, <2>4
<1>9. CASE /\ hist.coarse # <<>> /\ Appends(Last(hist.coarse)) /\ PutRecord(Torn)
           /\ UNCHANGED <<nvs, acked>>
  <2>1. hist.coarse \in Seq(CoarseSample) BY <1>2 DEF FileTyped, Windows
  <2>2. PICK l \in Nat : l = Len(hist.coarse) BY <2>1
  <2>3. l > 0 /\ l \in 1..l BY <1>9, <2>1, <2>2
  <2>4. Last(hist.coarse).runId = hist.runId
    BY <1>2, <2>2, <2>3 DEF Last, HistOK, Ordered
  <2>5. Writes BY <1>1, <1>9, <2>2, <2>3, <2>4 DEF Appends, Writes
  <2>6. file # None BY <2>5 DEF FInv, Link
  <2>7. Torn \in CoarseSample \cup {Torn} OBVIOUS
  <2>8. FileOK' /\ file' \in CoarseFile /\ file' # None /\ file'.runId = file.runId
    BY <1>1, <1>2, <1>9, <2>6, <2>7, PutFile
  <2>9. FileTyped' BY <1>1, <1>2, <1>9, <2>8 DEF FileTyped
  <2>10. RunOK' BY <1>1, <1>2, <1>9, <2>6, <2>8 DEF RunOK
  <2> QED BY <1>3, <1>4, <2>8, <2>9, <2>10 DEF FInv
<1> QED BY <1>6, <1>7, <1>8, <1>9 DEF PowerLoss

LEMMA FileBegins == FileInit => FInv
<1> SUFFICES ASSUME FileInit PROVE FInv OBVIOUS
<1>1. /\ nvs = 0 /\ file = None /\ up = FALSE /\ mounted = FALSE /\ activeRun = 0
      /\ manager = [id |-> 0, active |-> FALSE, seq |-> 0] /\ hist = Empty(0)
      /\ acked = {} /\ made = {}
  BY DEF FileInit
<1>2. /\ Ordered(hist) /\ hist \in Windows /\ hist.runId = 0 /\ hist.coarse = <<>>
  BY <1>1, EmptyOrdered
<1>3. FileTyped BY <1>1, <1>2 DEF FileTyped
<1>4. RunOK BY <1>1, <1>2 DEF RunOK
<1>5. HistOK BY <1>1, <1>2 DEF HistOK
<1>6. FileOK /\ Link BY <1>1 DEF FileOK, Link, Writes
<1> QED BY <1>3, <1>4, <1>5, <1>6 DEF FInv

LEMMA FileStutters == FInv /\ UNCHANGED fileVars => FInv'
BY DEF FInv, fileVars, ram, FileTyped, RunOK, HistOK, FileOK, Link, Writes, Ordered, Own, Restores,
       Rises, AtMost, RecordsRise, Sound, Windows

(* The persisted history keeps FInv over every start, sample, stop, boot, failed write and
   power loss. *)
THEOREM FileInvariant == FileSpec => []FInv
<1>1. FInv /\ [FileNext]_fileVars => FInv'
  BY BootKeeps, StartsKeeps, SampleKeeps, StopKeeps, PowerKeeps, FileStutters DEF FileNext
<1> QED BY <1>1, FileBegins, PTL DEF FileSpec

(* LittleFsHistoryPersistence::append, startRun and begin: a bucket that reached the file
   is among the records every later boot decodes, under a header it accepts, until the next
   run's file replaces it, whatever other appends, starts and boots fail or are cut short. *)
THEOREM AppendedAreKept == FileSpec => []AppendedSurvive
<1>1. FInv => AppendedSurvive
  <2> SUFFICES ASSUME FInv, acked # {}, NEW c \in acked
               PROVE  /\ file # None /\ file.header = "good"
                      /\ c \in ToSet(ValidPrefix(file.recs))
    BY DEF AppendedSurvive
  <2>1. file # None /\ file.header = "good" BY DEF FInv, FileOK
  <2>2. file.recs \in Records BY <2>1 DEF FInv, FileTyped, CoarseFile, Records
  <2>3. PICK k \in 1..Len(file.recs) : Sound(file.recs, k) /\ file.recs[k] = c
    BY <2>1 DEF FInv, FileOK
  <2> QED BY <2>1, <2>2, <2>3, PrefixHolds
<1> QED BY <1>1, FileInvariant, PTL

(* begin() and append(): what the coarse ring shows, restored or not, was measured, and it
   is in time order, which the binary search of copyCoarseFrom relies on. *)
THEOREM RestoredWasMeasured == FileSpec => []RestoredIsTrue
<1>1. FInv => RestoredIsTrue
  <2> SUFFICES ASSUME FInv PROVE RestoredIsTrue OBVIOUS
  <2>1. hist.coarse \in Seq(CoarseSample) BY DEF FInv, FileTyped, Windows
  <2>2. PICK l \in Nat : l = Len(hist.coarse) BY <2>1
  <2>3. up => ToSet(hist.coarse) \subseteq made BY <2>1 DEF FInv, HistOK, ToSet
  <2>4. \A i \in 1..(l - 1) : i \in 1..l /\ i + 1 \in 1..l /\ i <= i + 1 BY <2>2
  <2>5. \A i \in 1..(l - 1) : hist.coarse[i].ms <= hist.coarse[i + 1].ms
    BY <2>2, <2>4 DEF FInv, HistOK, Ordered, Rises
  <2> QED BY <2>2, <2>3, <2>5 DEF RestoredIsTrue
<1> QED BY <1>1, FileInvariant, PTL
=============================================================================
