-------------------------- MODULE TelemetryProofs --------------------------
(***************************************************************************)
(* Proofs about Telemetry, for any number of runs, samples, sockets and    *)
(* pages, any size of the rings and every interleaving of the owner loop,  *)
(* the AsyncTCP callbacks and the browser.  Under every label the browser  *)
(* is given what was measured in one run (Labelled), a replay once begun   *)
(* is on its way to the browser whole or about to be begun again           *)
(* (ReplayOnItsWay), and what the browser has, with what is on the wire    *)
(* and what the replay has still to send, is the whole graph (Delivers).   *)
(***************************************************************************)
EXTENDS Telemetry, FiniteSetTheorems, SequenceTheorems, NaturalsInduction,
        WellFoundedInduction, TLAPS

BucketRecord == [open : BOOLEAN, ms : Nat, of : SUBSET Nat, fault : BOOLEAN]
Windows == [runId : Nat, raw : Seq(Reading), coarse : Seq(CoarseSample), bucket : BucketRecord]
Run == [id : Nat, active : BOOLEAN, seq : Nat]
Physical == [run : Nat, seq : Nat] \cup {None}
Replay == [phase : {"idle", "coarse", "raw", "end"}, client : Nat, snap : Nat, run : Nat,
           through : Nat, throughMs : Nat, from : Nat, after : Nat]
Point == [seq : Nat, in : Nat]
Summary == [ms : Nat, of : SUBSET Nat, in : Nat]
News == [type : {"hello", "state"}, run : Nat, active : BOOLEAN]
Live == [type : {"sample"}, run : Nat, seq : Nat, in : Nat]
Message == News \cup Live
           \cup [type : {"begin", "end"}, snap : Nat, run : Nat]
           \cup [type : {"history"}, snap : Nat, run : Nat,
                 coarse : SUBSET Summary, raw : SUBSET Point]
           \cup [type : {"open", "close"}]
Transaction == [snap : Nat, run : Nat, raw : SUBSET Point, coarse : SUBSET Summary]
Answers == News \cup Live

DeviceTypeOK ==
    /\ pc \in {"tick", "routes", "publish", "replay"}
    /\ run \in Run /\ hist \in Windows /\ latest \in Physical
    /\ replay \in Replay /\ snapshots \in Nat /\ extra \in Nat
    /\ published \in [id : Nat, active : BOOLEAN, reading : Physical]
    /\ pending \in Nat /\ clients \subseteq Nat /\ wire \in Seq(Message)
BrowserTypeOK ==
    /\ sock \in [id : Nat, st : {"closed", "connecting", "open"}]
    /\ requests \in Nat
    /\ http \in [Requester -> [st : {"none", "info", "hello", "now", "reading"},
                               answer : Answers \cup {None}]]
    /\ \A r \in Requester : http[r].st \in {"hello", "reading"} => http[r].answer \in Answers
    /\ app \in [id : Nat, active : BOOLEAN]
    /\ tel \in [run : Nat, raw : SUBSET Point, coarse : SUBSET Summary]
    /\ tx \in Transaction \cup {None}
TypeOK == DeviceTypeOK /\ BrowserTypeOK

(* The history holds one run's samples and buckets, and an active run's are its own. *)
OfOneRun(w) ==
    /\ \A i \in 1..Len(w.raw) : w.raw[i].runId = w.runId
    /\ \A i \in 1..Len(w.coarse) : w.coarse[i].runId = w.runId
HistoryOfRun ==
    /\ OfOneRun(hist) /\ hist.runId <= run.id
    /\ run.active => run.id # 0 /\ hist.runId = run.id

(* The graph, the snapshot and the run shown change together. *)
ShownTogether == tel.run = app.id /\ (tx # None => tx.run = app.id)

-----------------------------------------------------------------------------
(* What the browser has been, or may yet be, told: pairs of the run a sample is
   labelled with and the run it was measured in. *)
Marks(label, S) == {<<label, x.in>> : x \in S}
OfMessage(m) == IF m.type = "sample" THEN {<<m.run, m.in>>}
                ELSE IF m.type = "history" THEN Marks(m.run, m.raw) \cup Marks(m.run, m.coarse)
                ELSE {}
OfAnswer(h) == IF h.st \in {"hello", "reading"} THEN OfMessage(h.answer) ELSE {}
OfReading(s) == IF s = None THEN {} ELSE {<<s.run, s.run>>}
OfPoints(t) == Marks(t.run, t.raw) \cup Marks(t.run, t.coarse)
OfSnapshot == IF tx = None THEN {} ELSE OfPoints(tx)

OfMessages(w) == UNION {OfMessage(w[i]) : i \in 1..Len(w)}
OnHttp == UNION {OfAnswer(http[r]) : r \in Requester}
Told == OfMessages(wire) \cup OnHttp \cup OfReading(latest) \cup OfReading(published.reading)
        \cup OfPoints(tel) \cup OfSnapshot

(* One label, one run: that of the history while the label is the current one. *)
Agree(T, id, of) ==
    /\ \A p \in T : p \in (0..id) \X Nat
    /\ \A p \in T : (p[1] = id => p[2] = of) /\ (p[1] = 0 => p[2] = 0)
    /\ \A p, q \in T : p[1] = q[1] => p[2] = q[2]
Labelled == Agree(Told, run.id, hist.runId)

(* Without Starts that fail, the label is the run. *)
Honest(T) == \A p \in T : p[1] = p[2]
LabelIsRun == Honest(Told) /\ hist.runId = run.id

TInv == TypeOK /\ HistoryOfRun /\ ShownTogether /\ Labelled

-----------------------------------------------------------------------------
(* Sockets are numbered; one that is served has been greeted unless its replay is
   still to be started. *)
Served == sock.id \in clients /\ sock.st # "closed"
Greeted == Served /\ pending # sock.id
Numbered ==
    /\ sock.st # "closed" => sock.id # 0
    /\ \A c \in clients : c \in 1..sock.id
    /\ pending \in 0..sock.id /\ replay.run <= run.id
    /\ Greeted => pending = 0 /\ replay.client = sock.id
    /\ pc = "replay" => published.id = run.id /\ published.active = run.active

(* After the messages w the browser, which shows a, will show the run r. *)
IsNews(m) == m.type \in {"hello", "state"}
Tells(w, a, r) ==
    \/ /\ \A i \in 1..Len(w) : ~IsNews(w[i])
       /\ a.id = r.id /\ a.active = r.active
    \/ \E i \in 1..Len(w) :
          /\ IsNews(w[i]) /\ w[i].run = r.id /\ w[i].active = r.active
          /\ \A j \in (i + 1)..Len(w) : ~IsNews(w[j])
RunTold == Tells(wire, app, run)

(* The snapshot sn of run r is open in the browser once it has handled the first n
   messages of w. *)
Plain(m, r) == m.type \in {"sample", "history"} \/ (m.type = "state" /\ m.run = r)
IsOpen(t, r, sn) == t # None /\ t.run = r /\ t.snap = sn
Opens(w, k, a, r, sn) ==
    /\ w[k].type = "begin" /\ w[k].run = r /\ w[k].snap = sn
    /\ k = 1 => a.id = r
    /\ k > 1 => w[k - 1].type = "hello" /\ w[k - 1].run = r
Entered(w, n, a, t, r, sn) ==
    \E k \in 0..n : /\ k = 0 => IsOpen(t, r, sn)
                    /\ k > 0 => Opens(w, k, a, r, sn)
                    /\ \A j \in (k + 1)..n : Plain(w[j], r)

(* A replay that is over ends, or has ended, in the browser too. *)
Calm(m) == m.type \in {"sample", "history", "state"}
LivePhase == {"live-active", "live-idle"}
Ends(w, a, t, p) ==
    \/ p \in LivePhase /\ \A i \in 1..Len(w) : Calm(w[i])
    \/ \E e \in 1..Len(w), r, sn \in Nat :
          /\ w[e].type = "end" /\ w[e].run = r /\ w[e].snap = sn
          /\ Entered(w, e - 1, a, t, r, sn)
          /\ \A j \in (e + 1)..Len(w) : Calm(w[j])
ReplayOnItsWay ==
    /\ replay.phase = "idle" => Ends(wire, app, tx, phase)
    /\ replay.phase # "idle" /\ replay.run = run.id =>
          Entered(wire, Len(wire), app, tx, run.id, replay.snap)

Followed == Greeted => RunTold /\ ReplayOnItsWay
Onwards == Numbered /\ Followed
Silent == sock.st = "closed" => wire = <<>>
CInv == TInv /\ Silent /\ Onwards

(* An answer to a state request is handled although the socket has been greeted. *)
LateAnswer == Greeted /\ \E r \in Requester : Answered(r)

-----------------------------------------------------------------------------
(* The history: a push, a flush and a new run keep it a history of one run. *)
HistoryOf(w, r) == w \in Windows /\ w.runId = r /\ OfOneRun(w)

(* What is left of a list cut to its newest entries is still of its run. *)
ListOf(S, r, s) == s \in Seq(S) /\ \A i \in 1..Len(s) : s[i].runId = r

LEMMA NewestAre ==
    ASSUME NEW S, NEW r, NEW s, ListOf(S, r, s), NEW x \in S, x.runId = r,
           NEW n \in Nat \ {0}
    PROVE  ListOf(S, r, Newest(n, Append(s, x)))
<1> PICK a : a = Append(s, x) OBVIOUS
<1>1. /\ a \in Seq(S) /\ Len(s) \in Nat /\ Len(a) = Len(s) + 1
      /\ \A i \in 1..Len(a) : IF i = Len(a) THEN a[i] = x ELSE i \in 1..Len(s) /\ a[i] = s[i]
  BY DEF ListOf
<1>2. \A i \in 1..Len(a) : a[i].runId = r BY <1>1 DEF ListOf
<1>3. PICK k \in 1..Len(a) : Newest(n, a) = SubSeq(a, k, Len(a))
  <2>1. CASE Len(a) > n
    <3>1. Newest(n, a) = SubSeq(a, Len(a) - n + 1, Len(a)) BY <2>1 DEF Newest
    <3>2. Len(a) - n + 1 \in 1..Len(a) BY <1>1, <2>1
    <3> QED BY <3>1, <3>2
  <2>2. CASE ~(Len(a) > n)
    <3>1. Newest(n, a) = SubSeq(a, 1, Len(a)) BY <2>2 DEF Newest
    <3>2. 1 \in 1..Len(a) BY <1>1
    <3> QED BY <3>1, <3>2
  <2> QED BY <2>1, <2>2
<1>4. /\ SubSeq(a, k, Len(a)) \in Seq(S) /\ Len(SubSeq(a, k, Len(a))) = Len(a) - k + 1
      /\ \A i \in 1..(Len(a) - k + 1) : SubSeq(a, k, Len(a))[i] = a[k + i - 1]
  BY <1>1
<1>5. \A i \in 1..(Len(a) - k + 1) : k + i - 1 \in 1..Len(a) BY <1>1
<1> QED BY <1>2, <1>3, <1>4, <1>5 DEF ListOf

LEMMA EmptyIs == \A r \in Nat : HistoryOf(Empty(r), r)
BY DEF HistoryOf, Empty, Windows, OfOneRun, NoBucket, BucketRecord

(* Another bucket, or samples of the run appended to, change neither. *)
LEMMA OtherBucket ==
    ASSUME NEW r, NEW w, HistoryOf(w, r), NEW b \in BucketRecord
    PROVE  HistoryOf([w EXCEPT !.bucket = b], r)
<1>1. [w EXCEPT !.bucket = b] \in Windows BY DEF HistoryOf, Windows
<1>2. /\ [w EXCEPT !.bucket = b].runId = w.runId /\ [w EXCEPT !.bucket = b].raw = w.raw
      /\ [w EXCEPT !.bucket = b].coarse = w.coarse
  BY DEF HistoryOf, Windows
<1> QED BY <1>1, <1>2 DEF HistoryOf, OfOneRun

LEMMA RawGrows ==
    ASSUME NEW r, NEW w, HistoryOf(w, r), NEW s \in Reading, s.runId = r
    PROVE  HistoryOf([w EXCEPT !.raw = Newest(RawCap, Append(@, s))], r)
<1>1. /\ w \in Windows /\ w.runId = r /\ w.raw \in Seq(Reading) /\ RawCap \in Nat \ {0}
      /\ \A i \in 1..Len(w.raw) : w.raw[i].runId = r
  BY WindowAssumption DEF HistoryOf, Windows, OfOneRun
<1>2. ListOf(Reading, r, w.raw) BY <1>1 DEF ListOf
<1>3. ListOf(Reading, r, Newest(RawCap, Append(w.raw, s))) BY <1>1, <1>2, NewestAre
<1> PICK new : new = Newest(RawCap, Append(w.raw, s)) OBVIOUS
<1>4. [w EXCEPT !.raw = new] \in Windows BY <1>1, <1>3 DEF Windows, ListOf
<1>5. /\ [w EXCEPT !.raw = new].runId = r /\ [w EXCEPT !.raw = new].raw = new
      /\ [w EXCEPT !.raw = new].coarse = w.coarse
  BY <1>1 DEF Windows
<1> QED BY <1>1, <1>3, <1>4, <1>5 DEF HistoryOf, OfOneRun, ListOf

LEMMA CoarseGrows ==
    ASSUME NEW r, NEW w, HistoryOf(w, r), NEW c \in CoarseSample, c.runId = r
    PROVE  HistoryOf([w EXCEPT !.coarse = Newest(CoarseCap, Append(@, c))], r)
<1>1. /\ w \in Windows /\ w.runId = r /\ w.coarse \in Seq(CoarseSample)
      /\ CoarseCap \in Nat \ {0}
      /\ \A i \in 1..Len(w.coarse) : w.coarse[i].runId = r
  BY WindowAssumption DEF HistoryOf, Windows, OfOneRun
<1>2. ListOf(CoarseSample, r, w.coarse) BY <1>1 DEF ListOf
<1>3. ListOf(CoarseSample, r, Newest(CoarseCap, Append(w.coarse, c))) BY <1>1, <1>2, NewestAre
<1> PICK new : new = Newest(CoarseCap, Append(w.coarse, c)) OBVIOUS
<1>4. [w EXCEPT !.coarse = new] \in Windows BY <1>1, <1>3 DEF Windows, ListOf
<1>5. /\ [w EXCEPT !.coarse = new].runId = r /\ [w EXCEPT !.coarse = new].coarse = new
      /\ [w EXCEPT !.coarse = new].raw = w.raw
  BY <1>1 DEF Windows
<1> QED BY <1>1, <1>3, <1>4, <1>5 DEF HistoryOf, OfOneRun, ListOf

LEMMA SlotIsTime == \A s \in Reading : Slot(s) \in Nat
<1>1. Resolution \in Nat \ {0} BY WindowAssumption
<1>2. \A t \in Nat : t \div Resolution \in Nat BY <1>1
<1>3. \A s \in Reading : s.ms \div Resolution \in Nat BY <1>2 DEF Reading
<1>4. \A k \in Nat : k * Resolution \in Nat BY <1>1
<1> QED BY <1>3, <1>4 DEF Slot

LEMMA FinalizeIs ==
    ASSUME NEW r \in Nat, NEW w, HistoryOf(w, r)
    PROVE  HistoryOf(Finalize(w), r)
<1>1. CASE ~w.bucket.open BY <1>1 DEF Finalize
<1>2. CASE w.bucket.open
  <2>1. w \in Windows /\ w.bucket \in BucketRecord /\ w.runId = r BY DEF HistoryOf, Windows
  <2> PICK c : c = [runId |-> w.runId, ms |-> w.bucket.ms, of |-> w.bucket.of,
                    fault |-> w.bucket.fault]
    OBVIOUS
  <2>2. c \in CoarseSample BY <2>1 DEF BucketRecord, CoarseSample
  <2>3. c.runId = r BY <2>1
  <2> PICK v : v = [w EXCEPT !.coarse = Newest(CoarseCap, Append(@, c))] OBVIOUS
  <2>4. HistoryOf(v, r) BY <2>2, <2>3, CoarseGrows
  <2>5. NoBucket \in BucketRecord BY DEF NoBucket, BucketRecord
  <2>6. HistoryOf([v EXCEPT !.bucket = NoBucket], r) BY <2>4, <2>5, OtherBucket
  <2>7. Finalize(w) = [w EXCEPT !.coarse = Newest(CoarseCap, Append(@, c)), !.bucket = NoBucket]
    BY <1>2 DEF Finalize
  <2>8. Finalize(w) = [v EXCEPT !.bucket = NoBucket] BY <2>1, <2>7 DEF Windows
  <2> QED BY <2>6, <2>8
<1> QED BY <1>1, <1>2

LEMMA AccumulatedIs ==
    ASSUME NEW r \in Nat, NEW w, HistoryOf(w, r), NEW s \in Reading
    PROVE  HistoryOf(Accumulated(w, s), r)
<1>1. w \in Windows /\ w.bucket \in BucketRecord BY DEF HistoryOf, Windows
<1> PICK o : o = IF s.finite THEN w.bucket.of \cup {s.seq} ELSE w.bucket.of OBVIOUS
<1> PICK f : f = (w.bucket.fault \/ s.fault \/ ~s.finite) OBVIOUS
<1>2. o \in SUBSET Nat BY <1>1 DEF BucketRecord, Reading
<1>3. f \in BOOLEAN OBVIOUS
<1> PICK b : b = [w.bucket EXCEPT !.of = o, !.fault = f] OBVIOUS
<1>4. b \in BucketRecord BY <1>1, <1>2, <1>3 DEF BucketRecord
<1>5. Accumulated(w, s) = [w EXCEPT !.bucket = b] BY <1>1 DEF Accumulated, Windows, BucketRecord
<1> QED BY <1>4, <1>5, OtherBucket

LEMMA OpenedIs ==
    ASSUME NEW r \in Nat, NEW w, HistoryOf(w, r), NEW s \in Reading
    PROVE  HistoryOf(Opened(w, s), r)
<1>1. Slot(s) \in Nat BY SlotIsTime
<1>2. [NoBucket EXCEPT !.open = TRUE, !.ms = Slot(s)] \in BucketRecord
  BY <1>1 DEF NoBucket, BucketRecord
<1> QED BY <1>2, OtherBucket DEF Opened

LEMMA SummarisedIs ==
    ASSUME NEW r \in Nat, NEW w, HistoryOf(w, r), NEW s \in Reading
    PROVE  HistoryOf(Summarised(w, s), r)
<1>1. CASE ~w.bucket.open BY <1>1, OpenedIs, AccumulatedIs DEF Summarised
<1>2. CASE w.bucket.open
  <2>1. HistoryOf(Finalize(w), r) BY FinalizeIs
  <2>2. HistoryOf(Opened(Finalize(w), s), r) BY <2>1, OpenedIs
  <2>3. HistoryOf(Accumulated(Opened(Finalize(w), s), s), r) BY <2>2, AccumulatedIs
  <2>4. HistoryOf(Accumulated(w, s), r) BY AccumulatedIs
  <2> QED BY <1>2, <2>3, <2>4 DEF Summarised
<1> QED BY <1>1, <1>2

(* A sample of a run makes the history that run's. *)
LEMMA PushedIs ==
    ASSUME NEW r \in Nat, NEW w, HistoryOf(w, r), NEW s \in Reading, s.runId # 0
    PROVE  HistoryOf(Pushed(w, s), s.runId)
<1> PICK v : v = IF s.runId = w.runId THEN w ELSE Empty(s.runId) OBVIOUS
<1>1. s.runId \in Nat BY DEF Reading
<1>2. HistoryOf(v, s.runId) BY <1>1, EmptyIs DEF HistoryOf
<1> PICK u : u = [v EXCEPT !.raw = Newest(RawCap, Append(@, s))] OBVIOUS
<1>3. HistoryOf(u, s.runId) BY <1>2, RawGrows
<1>4. HistoryOf(Summarised(u, s), s.runId) BY <1>1, <1>3, SummarisedIs
<1> QED BY <1>4 DEF Pushed

(* A page holds entries of the history. *)
LEMMA PartIs ==
    ASSUME NEW S, NEW r, NEW s, ListOf(S, r, s), NEW a \in Nat \ {0}, NEW b \in Nat,
           b <= Len(s)
    PROVE  ListOf(S, r, SubSeq(s, a, b))
<1>1. s \in Seq(S) /\ Len(s) \in Nat BY DEF ListOf
<1> PICK l \in Nat : l = Len(s) BY <1>1
<1> PICK p : p = SubSeq(s, a, b) OBVIOUS
<1>2. \A i \in a..b : i \in 1..l OBVIOUS
<1>3. \A i \in a..b : s[i] \in S /\ s[i].runId = r BY <1>1, <1>2 DEF ListOf
<1>4. CASE a <= b
  <2>1. /\ p \in Seq(S) /\ Len(p) = b - a + 1
        /\ \A i \in 1..(b - a + 1) : p[i] = s[a + i - 1]
    BY <1>1, <1>3, <1>4
  <2>2. \A i \in 1..(b - a + 1) : a + i - 1 \in a..b BY <1>4
  <2> QED BY <1>3, <2>1, <2>2 DEF ListOf
<1>5. CASE ~(a <= b)
  <2>1. p = <<>> BY <1>1, <1>5
  <2> QED BY <2>1 DEF ListOf
<1> QED BY <1>4, <1>5

LEMMA PageIs ==
    ASSUME NEW S, NEW r, NEW s, ListOf(S, r, s), NEW A \in SUBSET (1..Len(s)),
           NEW B \in SUBSET (1..Len(s)), NEW n \in Nat
    PROVE  ListOf(S, r, FirstN(n, SubSeq(s, Cardinality(A) + 1, Cardinality(B))))
<1>1. s \in Seq(S) /\ Len(s) \in Nat BY DEF ListOf
<1> PICK l \in Nat : l = Len(s) BY <1>1
<1>2. IsFiniteSet(1..l) /\ Cardinality(1..l) = l
  <2>1. 1 \in Int /\ l \in Int OBVIOUS
  <2>2. IsFiniteSet(1..l) /\ Cardinality(1..l) = IF 1 > l THEN 0 ELSE l - 1 + 1
    BY ONLY <2>1, FS_Interval
  <2> QED BY <2>2
<1>3. IsFiniteSet(A) /\ Cardinality(A) <= l
  <2>1. A \in SUBSET (1..l) OBVIOUS
  <2>2. IsFiniteSet(A) /\ Cardinality(A) <= Cardinality(1..l) BY ONLY <1>2, <2>1, FS_Subset
  <2> QED BY <1>2, <2>2
<1>4. IsFiniteSet(B) /\ Cardinality(B) <= l
  <2>1. B \in SUBSET (1..l) OBVIOUS
  <2>2. IsFiniteSet(B) /\ Cardinality(B) <= Cardinality(1..l) BY ONLY <1>2, <2>1, FS_Subset
  <2> QED BY <1>2, <2>2
<1>5. Cardinality(A) \in Nat /\ Cardinality(B) \in Nat BY <1>3, <1>4, FS_CardinalityType
<1> PICK a \in Nat, b \in Nat : a = Cardinality(A) /\ b = Cardinality(B) BY <1>5
<1> PICK p : p = SubSeq(s, a + 1, b) OBVIOUS
<1>6. ListOf(S, r, p) BY <1>4, PartIs
<1>7. PICK m \in Nat : m = Len(p) BY <1>6 DEF ListOf
<1> PICK k : k = IF m < n THEN m ELSE n OBVIOUS
<1>8. k \in Nat /\ k <= Len(p)
  <2>1. k \in Nat /\ k <= m OBVIOUS
  <2> QED BY <1>7, <2>1
<1>9. ListOf(S, r, SubSeq(p, 1, k))
  <2>1. 1 \in Nat \ {0} OBVIOUS
  <2> QED BY ONLY <1>6, <1>8, <2>1, PartIs
<1>10. FirstN(n, p) = SubSeq(p, 1, k) BY <1>7 DEF FirstN
<1> QED BY <1>9, <1>10

LEMMA PagesAre ==
    ASSUME NEW r \in Nat, NEW w, HistoryOf(w, r), NEW from \in Nat, NEW upto \in Nat,
           NEW n \in Nat
    PROVE  /\ ListOf(Reading, r, RawPage(w, from, upto, n))
           /\ ListOf(CoarseSample, r, CoarsePage(w, from, upto, n))
<1>1. ListOf(Reading, r, w.raw) /\ ListOf(CoarseSample, r, w.coarse)
  BY DEF HistoryOf, Windows, OfOneRun, ListOf
<1>2. ListOf(Reading, r, RawPage(w, from, upto, n))
  <2> DEFINE A == {i \in 1..Len(w.raw) : w.raw[i].seq <= from}
             B == {i \in 1..Len(w.raw) : w.raw[i].seq <= upto}
  <2>1. A \in SUBSET (1..Len(w.raw)) /\ B \in SUBSET (1..Len(w.raw)) OBVIOUS
  <2>2. RawPage(w, from, upto, n) = FirstN(n, SubSeq(w.raw, Cardinality(A) + 1, Cardinality(B)))
    BY DEF RawPage
  <2> HIDE DEF A, B
  <2> QED BY <1>1, <2>1, <2>2, PageIs
<1>3. ListOf(CoarseSample, r, CoarsePage(w, from, upto, n))
  <2> DEFINE A == {i \in 1..Len(w.coarse) : w.coarse[i].ms < from}
             B == {i \in 1..Len(w.coarse) : w.coarse[i].ms <= upto}
  <2>1. A \in SUBSET (1..Len(w.coarse)) /\ B \in SUBSET (1..Len(w.coarse)) OBVIOUS
  <2>2. CoarsePage(w, from, upto, n)
            = FirstN(n, SubSeq(w.coarse, Cardinality(A) + 1, Cardinality(B)))
    BY DEF CoarsePage
  <2> HIDE DEF A, B
  <2> QED BY <1>1, <2>1, <2>2, PageIs
<1> QED BY <1>2, <1>3

-----------------------------------------------------------------------------
(* Labels.  What is told under the current label is of the history's run. *)
LEMMA AgreeGrows ==
    ASSUME NEW id \in Nat, NEW of \in Nat, of <= id, NEW T, Agree(T, id, of), NEW U,
           \A p \in U : p \in T \/ p = <<id, of>> \/ p = <<0, 0>>
    PROVE  Agree(U, id, of)
<1>1. \A p \in U : p \in (0..id) \X Nat BY DEF Agree
<1>2. \A p \in U : (p[1] = id => p[2] = of) /\ (p[1] = 0 => p[2] = 0)
  <2>1. id = 0 => of = 0 OBVIOUS
  <2> QED BY <2>1 DEF Agree
<1>3. \A p, q \in U : p[1] = q[1] => p[2] = q[2] BY <1>2 DEF Agree
<1> QED BY <1>1, <1>2, <1>3 DEF Agree

(* A new label has not been used. *)
LEMMA AgreeNext ==
    ASSUME NEW id \in Nat, NEW of \in Nat, NEW T, Agree(T, id, of), NEW U, U \subseteq T,
           NEW new \in Nat
    PROVE  Agree(U, id + 1, new)
<1>1. \A p \in U : p \in (0..id) \X Nat BY DEF Agree
<1>2. \A p \in U : p[1] \in 0..id /\ p \in (0..(id + 1)) \X Nat BY <1>1
<1>3. \A p \in U : p[1] # id + 1 BY <1>2
<1> QED BY <1>2, <1>3 DEF Agree

(* Messages and what they tell. *)
LEMMA NewsIs == \A m \in News : m \in Message /\ OfMessage(m) = {}
BY DEF News, Message, OfMessage

LEMMA LiveIs == \A m \in Live : m \in Message /\ OfMessage(m) = {<<m.run, m.in>>}
BY DEF Live, Message, OfMessage

LEMMA OtherIs ==
    \A m \in [type : {"begin", "end"}, snap : Nat, run : Nat] \cup [type : {"open", "close"}] :
        m \in Message /\ OfMessage(m) = {}
BY DEF Message, OfMessage

LEMMA HistoryIs ==
    \A m \in [type : {"history"}, snap : Nat, run : Nat,
              coarse : SUBSET Summary, raw : SUBSET Point] :
        m \in Message /\ OfMessage(m) = Marks(m.run, m.raw) \cup Marks(m.run, m.coarse)
BY DEF Message, OfMessage

(* A message behind the others, and the first of them gone. *)
LEMMA MessagesGrow ==
    ASSUME NEW w \in Seq(Message), NEW u \in Seq(Message)
    PROVE  /\ w \o u \in Seq(Message)
           /\ OfMessages(w \o u) \subseteq OfMessages(w) \cup OfMessages(u)
<1>1. /\ w \o u \in Seq(Message) /\ Len(w \o u) = Len(w) + Len(u)
      /\ \A i \in 1..(Len(w) + Len(u)) :
            (w \o u)[i] = IF i <= Len(w) THEN w[i] ELSE u[i - Len(w)]
  OBVIOUS
<1>2. ASSUME NEW i \in 1..Len(w \o u)
      PROVE  \/ \E j \in 1..Len(w) : (w \o u)[i] = w[j]
             \/ \E j \in 1..Len(u) : (w \o u)[i] = u[j]
  <2>1. Len(w) \in Nat /\ Len(u) \in Nat OBVIOUS
  <2>2. i <= Len(w) => i \in 1..Len(w) BY <1>1, <2>1
  <2>3. ~(i <= Len(w)) => i - Len(w) \in 1..Len(u) BY <1>1, <2>1
  <2> QED BY <1>1, <2>2, <2>3
<1> QED BY <1>1, <1>2 DEF OfMessages

LEMMA MessagesOfOne ==
    ASSUME NEW m \in Message
    PROVE  <<m>> \in Seq(Message) /\ OfMessages(<<m>>) = OfMessage(m)
<1>1. <<m>> \in Seq(Message) /\ Len(<<m>>) = 1 /\ <<m>>[1] = m OBVIOUS
<1>2. 1..1 = {1} OBVIOUS
<1> QED BY <1>1, <1>2 DEF OfMessages

LEMMA MessagesOfTwo ==
    ASSUME NEW m \in Message, NEW n \in Message
    PROVE  <<m, n>> \in Seq(Message) /\ OfMessages(<<m, n>>) = OfMessage(m) \cup OfMessage(n)
<1>1. /\ <<m, n>> \in Seq(Message) /\ Len(<<m, n>>) = 2
      /\ <<m, n>>[1] = m /\ <<m, n>>[2] = n
  OBVIOUS
<1>2. 1..2 = {1, 2} OBVIOUS
<1> QED BY <1>1, <1>2 DEF OfMessages

LEMMA MessagesShrink ==
    ASSUME NEW w \in Seq(Message), w # <<>>
    PROVE  /\ Head(w) \in Message /\ Tail(w) \in Seq(Message)
           /\ OfMessage(Head(w)) \subseteq OfMessages(w)
           /\ OfMessages(Tail(w)) \subseteq OfMessages(w)
<1>1. /\ Head(w) = w[1] /\ Head(w) \in Message /\ 1 \in 1..Len(w)
      /\ Tail(w) \in Seq(Message) /\ Len(Tail(w)) = Len(w) - 1 /\ Len(w) \in Nat
      /\ \A i \in 1..Len(Tail(w)) : Tail(w)[i] = w[i + 1]
  OBVIOUS
<1>2. \A i \in 1..Len(Tail(w)) : i + 1 \in 1..Len(w) BY <1>1
<1> QED BY <1>1, <1>2 DEF OfMessages

LEMMA NoMessages == <<>> \in Seq(Message) /\ OfMessages(<<>>) = {}
BY DEF OfMessages

(* What is sent goes behind the messages on their way, or nowhere. *)
LEMMA SentIs ==
    ASSUME wire \in Seq(Message), NEW u \in Seq(Message), NEW c
    PROVE  /\ Sent(u, c) \in Seq(Message)
           /\ OfMessages(Sent(u, c)) \subseteq OfMessages(wire) \cup OfMessages(u)
<1>1. Sent(u, c) = wire \/ Sent(u, c) = wire \o u BY DEF Sent
<1>2. /\ wire \o u \in Seq(Message)
      /\ OfMessages(wire \o u) \subseteq OfMessages(wire) \cup OfMessages(u)
  BY MessagesGrow
<1> QED BY <1>1, <1>2

-----------------------------------------------------------------------------
(* Every step either tells no more than what is known already and what the current
   label says, or takes a label nothing was told under. *)
Known == Told \cup {<<run.id, hist.runId>>, <<0, 0>>}
Grown ==
    \/ run'.id = run.id /\ hist'.runId = hist.runId /\ Told' \subseteq Known
    \/ /\ run'.id = run.id + 1 /\ Told' \subseteq Told
       /\ hist'.runId = run'.id \/ FailedStarts
Stepped == TypeOK' /\ HistoryOfRun' /\ ShownTogether' /\ Grown

LEMMA SteppedKeeps == ASSUME TInv, Stepped PROVE TInv'
<1>1. run.id \in Nat /\ hist.runId \in Nat /\ hist.runId <= run.id /\ run'.id \in Nat
      /\ hist'.runId \in Nat
  BY DEF TInv, Stepped, TypeOK, DeviceTypeOK, Run, Windows, HistoryOfRun
<1>2. Agree(Told, run.id, hist.runId) BY DEF TInv, Labelled
<1>3. CASE run'.id = run.id /\ hist'.runId = hist.runId /\ Told' \subseteq Known
  <2>1. \A p \in Told' : p \in Told \/ p = <<run.id, hist.runId>> \/ p = <<0, 0>>
    BY <1>3 DEF Known
  <2>2. Agree(Told', run.id, hist.runId) BY ONLY <1>1, <1>2, <2>1, AgreeGrows
  <2>3. Labelled' BY <1>3, <2>2 DEF Labelled
  <2> QED BY <2>3 DEF TInv, Stepped
<1>4. CASE run'.id = run.id + 1 /\ Told' \subseteq Told
  <2>1. Agree(Told', run.id + 1, hist'.runId) BY ONLY <1>1, <1>2, <1>4, AgreeNext
  <2>2. Labelled' BY <1>4, <2>1 DEF Labelled
  <2> QED BY <2>2 DEF TInv, Stepped
<1> QED BY <1>3, <1>4 DEF Stepped, Grown

(* The device's steps leave the browser alone. *)
DeviceGrown ==
    \/ /\ run'.id = run.id /\ hist'.runId = hist.runId
       /\ OfMessages(wire') \subseteq Known /\ OfReading(latest') \subseteq Known
       /\ OfReading(published'.reading) \subseteq Known
    \/ /\ run'.id = run.id + 1 /\ (hist'.runId = run'.id \/ FailedStarts)
       /\ OfMessages(wire') \subseteq Told /\ OfReading(latest') \subseteq Told
       /\ OfReading(published'.reading) \subseteq Told

LEMMA DeviceSteps ==
    ASSUME TInv, UNCHANGED <<transport, store>>, DeviceTypeOK', HistoryOfRun', DeviceGrown
    PROVE  Stepped
<1>1. /\ sock' = sock /\ timer' = timer /\ polling' = polling /\ http' = http
      /\ requests' = requests /\ app' = app /\ tel' = tel /\ tx' = tx /\ phase' = phase
  BY DEF transport, store
<1>2. BrowserTypeOK' BY <1>1 DEF TInv, TypeOK, BrowserTypeOK
<1>3. ShownTogether' BY <1>1 DEF TInv, ShownTogether
<1>4. OnHttp' = OnHttp BY <1>1 DEF OnHttp
<1>5. Told' = OfMessages(wire') \cup OnHttp \cup OfReading(latest')
              \cup OfReading(published'.reading) \cup OfPoints(tel) \cup OfSnapshot
  BY <1>1, <1>4 DEF Told, OfSnapshot
<1>6. OnHttp \subseteq Told /\ OfPoints(tel) \subseteq Told /\ OfSnapshot \subseteq Told
  BY DEF Told
<1>7. Told \subseteq Known BY DEF Known
<1>8. Grown BY <1>5, <1>6, <1>7 DEF DeviceGrown, Grown
<1> QED BY <1>2, <1>3, <1>8 DEF Stepped, TypeOK

(* Facts of the types at hand in every step. *)
LEMMA DeviceIs ==
    ASSUME TInv
    PROVE  /\ run.id \in Nat /\ run.seq \in Nat /\ run \in Run
           /\ hist.runId \in Nat /\ HistoryOf(hist, hist.runId) /\ hist.runId <= run.id
           /\ latest \in Physical /\ published.reading \in Physical /\ published.id \in Nat
           /\ wire \in Seq(Message) /\ snapshots \in Nat /\ extra \in Nat /\ pending \in Nat
BY DEF TInv, TypeOK, DeviceTypeOK, Run, Windows, HistoryOf, HistoryOfRun

LEMMA ToldHas ==
    /\ OfMessages(wire) \subseteq Told /\ OnHttp \subseteq Told
    /\ OfReading(latest) \subseteq Told /\ OfReading(published.reading) \subseteq Told
    /\ OfPoints(tel) \subseteq Told /\ OfSnapshot \subseteq Told
    /\ Told \subseteq Known /\ <<run.id, hist.runId>> \in Known /\ <<0, 0>> \in Known
BY DEF Told, Known

LEMMA BroadcastIs ==
    ASSUME TInv, run' \in Run, Broadcast
    PROVE  /\ published' \in [id : Nat, active : BOOLEAN, reading : Physical]
           /\ wire' \in Seq(Message) /\ OfMessages(wire') \subseteq Told
           /\ OfReading(published'.reading) \subseteq Told
<1> PICK m : m = [type |-> "state", run |-> run'.id, active |-> run'.active] OBVIOUS
<1>1. run'.id \in Nat /\ run'.active \in BOOLEAN BY DEF Run
<1>2. m \in News BY <1>1 DEF News
<1>3. m \in Message /\ OfMessage(m) = {} BY <1>2, NewsIs
<1>4. <<m>> \in Seq(Message) /\ OfMessages(<<m>>) = {} BY <1>3, MessagesOfOne
<1>5. wire \in Seq(Message) /\ latest \in Physical BY DeviceIs
<1>6. wire' = Sent(<<m>>, sock.id) BY DEF Broadcast, SentToAll
<1>7. /\ wire' \in Seq(Message)
      /\ OfMessages(wire') \subseteq OfMessages(wire) \cup OfMessages(<<m>>)
  BY <1>4, <1>5, <1>6, SentIs
<1>8. published' = [id |-> run'.id, active |-> run'.active, reading |-> latest]
  BY DEF Broadcast
<1>9. published' \in [id : Nat, active : BOOLEAN, reading : Physical] BY <1>1, <1>5, <1>8
<1>10. published'.reading = latest BY <1>8
<1> QED BY <1>4, <1>7, <1>9, <1>10, ToldHas

LEMMA HistoryStays ==
    ASSUME TInv, HistoryOf(hist', hist.runId), run'.id = run.id, run'.active => run.active
    PROVE  HistoryOfRun' /\ hist' \in Windows /\ hist'.runId = hist.runId
<1>1. hist' \in Windows /\ hist'.runId = hist.runId /\ OfOneRun(hist') BY DEF HistoryOf
<1>2. /\ hist.runId <= run.id
      /\ run.active => run.id # 0 /\ hist.runId = run.id
  BY DEF TInv, HistoryOfRun
<1> QED BY <1>1, <1>2 DEF HistoryOfRun

(* A run's sample: it is of the history's run, which is the current one. *)
LEMMA SampledIs ==
    ASSUME TInv, Sampled
    PROVE  /\ run' \in Run /\ HistoryOf(hist', hist.runId) /\ latest' \in Physical
           /\ run'.id = run.id /\ run'.active = run.active
           /\ published' = published /\ extra' = extra
           /\ wire' \in Seq(Message) /\ OfMessages(wire') \subseteq Known
           /\ OfReading(latest') \subseteq Known
<1> PICK id \in Nat, n \in Nat : id = run.id /\ n = run.seq + 1 BY DeviceIs
<1>1. run.active /\ id # 0 /\ hist.runId = id BY DEF TInv, HistoryOfRun, Sampled
<1>2. /\ run' = [run EXCEPT !.seq = n]
      /\ hist' = Pushed(hist, [runId |-> id, seq |-> n, ms |-> n, finite |-> TRUE,
                               fault |-> FALSE])
      /\ latest' = [run |-> id, seq |-> n]
      /\ wire' = Sent(<<[type |-> "sample", run |-> id, seq |-> n, in |-> id]>>, sock.id)
      /\ published' = published /\ extra' = extra
  BY DEF Sampled, SentToAll
<1>3. run' \in Run /\ run'.id = run.id /\ run'.active = run.active BY <1>2, DeviceIs DEF Run
<1>4. HistoryOf(hist', hist.runId)
  <2> PICK s : s = [runId |-> id, seq |-> n, ms |-> n, finite |-> TRUE, fault |-> FALSE] OBVIOUS
  <2>1. s \in Reading /\ s.runId = id BY DEF Reading
  <2>2. HistoryOf(hist, id) BY <1>1, DeviceIs
  <2>3. HistoryOf(Pushed(hist, s), id) BY <1>1, <2>1, <2>2, PushedIs
  <2> QED BY <1>1, <1>2, <2>3
<1>5. latest' \in Physical /\ OfReading(latest') \subseteq Known
  <2>1. latest' \in [run : Nat, seq : Nat] /\ latest'.run = id BY <1>2
  <2>2. OfReading(latest') \subseteq {<<id, id>>} BY <2>1 DEF OfReading
  <2> QED BY <1>1, <2>1, <2>2, ToldHas DEF Physical
<1>6. wire' \in Seq(Message) /\ OfMessages(wire') \subseteq Known
  <2> PICK m : m = [type |-> "sample", run |-> id, seq |-> n, in |-> id] OBVIOUS
  <2>1. m \in Live /\ m.run = id /\ m.in = id BY DEF Live
  <2>2. m \in Message /\ OfMessage(m) = {<<id, id>>} BY <2>1, LiveIs
  <2>3. <<m>> \in Seq(Message) /\ OfMessages(<<m>>) = {<<id, id>>} BY <2>2, MessagesOfOne
  <2>4. wire' = Sent(<<m>>, sock.id) BY <1>2
  <2>5. /\ wire' \in Seq(Message)
        /\ OfMessages(wire') \subseteq OfMessages(wire) \cup OfMessages(<<m>>)
    BY <2>3, <2>4, DeviceIs, SentIs
  <2> QED BY <1>1, <2>3, <2>5, ToldHas
<1> QED BY <1>2, <1>3, <1>4, <1>5, <1>6

LEMMA IdleSampledIs ==
    ASSUME TInv, IdleSampled
    PROVE  /\ run' = run /\ hist' = hist /\ published' = published /\ extra' \in Nat
           /\ latest' \in Physical /\ OfReading(latest') \subseteq Known
           /\ wire' \in Seq(Message) /\ OfMessages(wire') \subseteq Known
<1>1. /\ latest' = [run |-> 0, seq |-> 0] /\ extra' = extra + 1
      /\ wire' = Sent(<<[type |-> "sample", run |-> 0, seq |-> 0, in |-> 0]>>, sock.id)
      /\ run' = run /\ hist' = hist /\ published' = published
  BY DEF IdleSampled, SentToAll
<1>2. latest' \in Physical /\ OfReading(latest') \subseteq Known
  <2>1. latest' \in [run : Nat, seq : Nat] /\ latest'.run = 0 BY <1>1
  <2>2. OfReading(latest') \subseteq {<<0, 0>>} BY <2>1 DEF OfReading
  <2> QED BY <2>1, <2>2, ToldHas DEF Physical
<1>3. wire' \in Seq(Message) /\ OfMessages(wire') \subseteq Known
  <2> PICK m : m = [type |-> "sample", run |-> 0, seq |-> 0, in |-> 0] OBVIOUS
  <2>1. m \in Live /\ m.run = 0 /\ m.in = 0 BY DEF Live
  <2>2. m \in Message /\ OfMessage(m) = {<<0, 0>>} BY <2>1, LiveIs
  <2>3. <<m>> \in Seq(Message) /\ OfMessages(<<m>>) = {<<0, 0>>} BY <2>2, MessagesOfOne
  <2>4. wire' = Sent(<<m>>, sock.id) BY <1>1
  <2>5. /\ wire' \in Seq(Message)
        /\ OfMessages(wire') \subseteq OfMessages(wire) \cup OfMessages(<<m>>)
    BY <2>3, <2>4, DeviceIs, SentIs
  <2> QED BY <2>3, <2>5, ToldHas
<1> QED BY <1>1, <1>2, <1>3, DeviceIs

(* The end of a run, at its limit or by a Stop. *)
LEMMA EndedIs ==
    ASSUME TInv, run' = [run EXCEPT !.active = FALSE], hist' \in {hist, Finalize(hist)}
    PROVE  /\ run' \in Run /\ run'.id = run.id /\ ~run'.active
           /\ HistoryOf(hist', hist.runId)
<1>1. run' \in Run /\ run'.id = run.id /\ ~run'.active BY DeviceIs DEF Run
<1>2. HistoryOf(Finalize(hist), hist.runId) BY DeviceIs, FinalizeIs
<1> QED BY <1>1, <1>2, DeviceIs

LEMMA TickSteps == ASSUME TInv, LoopTick PROVE Stepped
<1>1. /\ UNCHANGED <<transport, store>> /\ pc' = "routes" /\ replay' = replay
      /\ snapshots' = snapshots /\ pending' = pending /\ clients' = clients
  BY DEF LoopTick, Goes
<1>2. /\ replay \in Replay /\ clients \subseteq Nat /\ run \in Run
      /\ published \in [id : Nat, active : BOOLEAN, reading : Physical]
  BY DEF TInv, TypeOK, DeviceTypeOK
<1> DEFINE Fine == /\ run' \in Run /\ HistoryOf(hist', hist.runId) /\ run'.id = run.id
                   /\ (run'.active => run.active) /\ latest' \in Physical /\ extra' \in Nat
                   /\ published' \in [id : Nat, active : BOOLEAN, reading : Physical]
                   /\ wire' \in Seq(Message) /\ OfMessages(wire') \subseteq Known
                   /\ OfReading(latest') \subseteq Known
                   /\ OfReading(published'.reading) \subseteq Known
<1>3. Fine
  <2>1. CASE UNCHANGED <<run, hist, latest, extra, overrun, published, wire>>
    <3>1. /\ run' = run /\ hist' = hist /\ latest' = latest /\ extra' = extra
          /\ published' = published /\ wire' = wire
      BY <2>1
    <3> QED BY <1>2, <3>1, DeviceIs, ToldHas
  <2>2. CASE Sampled BY <1>2, <2>2, SampledIs, DeviceIs, ToldHas
  <2>3. CASE IdleSampled BY <1>2, <2>3, IdleSampledIs, DeviceIs, ToldHas
  <2>4. CASE /\ run.active /\ run' = [run EXCEPT !.active = FALSE]
             /\ hist' \in {hist, Finalize(hist)}
             /\ Broadcast /\ UNCHANGED <<latest, extra, overrun>>
    <3>1. /\ run' \in Run /\ run'.id = run.id /\ ~run'.active
          /\ HistoryOf(hist', hist.runId)
      BY <2>4, EndedIs
    <3>2. latest' = latest /\ extra' = extra BY <2>4
    <3> QED BY <2>4, <3>1, <3>2, BroadcastIs, DeviceIs, ToldHas
  <2> QED BY <2>1, <2>2, <2>3, <2>4 DEF LoopTick
<1> HIDE DEF Fine
<1>4. HistoryOfRun' /\ hist' \in Windows /\ hist'.runId = hist.runId BY <1>3, HistoryStays DEF Fine
<1>5. DeviceTypeOK' BY <1>1, <1>2, <1>3, <1>4, DeviceIs DEF Fine, DeviceTypeOK
<1>6. DeviceGrown BY <1>3, <1>4 DEF Fine, DeviceGrown
<1> QED BY <1>1, <1>4, <1>5, <1>6, DeviceSteps

LEMMA RoutesSteps == ASSUME TInv, LoopRoutes PROVE Stepped
<1>1. /\ UNCHANGED <<transport, store>> /\ pc' = "publish" /\ replay' = replay
      /\ snapshots' = snapshots /\ pending' = pending /\ clients' = clients /\ latest' = latest
  BY DEF LoopRoutes, Goes
<1>2. /\ replay \in Replay /\ clients \subseteq Nat /\ run \in Run
      /\ published \in [id : Nat, active : BOOLEAN, reading : Physical]
  BY DEF TInv, TypeOK, DeviceTypeOK
<1> DEFINE Told1 == /\ published' \in [id : Nat, active : BOOLEAN, reading : Physical]
                    /\ wire' \in Seq(Message) /\ OfMessages(wire') \subseteq Told
                    /\ OfReading(published'.reading) \subseteq Told
<1>3. ASSUME run' \in Run, extra' \in Nat, Told1, run'.id = run.id, (run'.active => run.active),
             HistoryOf(hist', hist.runId)
      PROVE  Stepped
  <2>1. HistoryOfRun' /\ hist' \in Windows /\ hist'.runId = hist.runId BY <1>3, HistoryStays
  <2>2. DeviceTypeOK' BY <1>1, <1>2, <1>3, <2>1, DeviceIs DEF DeviceTypeOK
  <2>3. DeviceGrown BY <1>1, <1>3, <2>1, ToldHas DEF DeviceGrown
  <2> QED BY <1>1, <2>1, <2>2, <2>3, DeviceSteps
<1>4. CASE UNCHANGED <<run, hist, published, wire, extra>>
  <2>1. run' = run /\ hist' = hist /\ published' = published /\ wire' = wire /\ extra' = extra
    BY <1>4
  <2>2. Told1 BY <1>2, <2>1, DeviceIs, ToldHas
  <2> HIDE DEF Told1
  <2> QED BY <1>2, <1>3, <2>1, <2>2, DeviceIs
<1>5. CASE extra' = extra + 1 /\ extra < MaxExtra /\ UNCHANGED <<run, hist>> /\ Broadcast
  <2>1. run' = run /\ hist' = hist /\ extra' \in Nat BY <1>5, DeviceIs
  <2>2. Told1 BY <1>2, <1>5, <2>1, BroadcastIs
  <2> HIDE DEF Told1
  <2> QED BY <1>2, <1>3, <2>1, <2>2, DeviceIs
<1>6. CASE /\ run.active /\ run' = [run EXCEPT !.active = FALSE]
           /\ hist' \in {hist, Finalize(hist)} /\ Broadcast /\ UNCHANGED extra
  <2>1. run' \in Run /\ run'.id = run.id /\ ~run'.active /\ HistoryOf(hist', hist.runId)
    BY <1>6, EndedIs
  <2>2. Told1 BY <1>6, <2>1, BroadcastIs
  <2>3. extra' \in Nat BY <1>6, DeviceIs
  <2> HIDE DEF Told1
  <2> QED BY <1>3, <2>1, <2>2, <2>3
<1>7. CASE /\ ~run.active /\ run.id < MaxRun
           /\ run' = [id |-> run.id + 1, active |-> TRUE, seq |-> 0]
           /\ hist' = Empty(run.id + 1) /\ Broadcast /\ UNCHANGED extra
  <2>1. run.id + 1 \in Nat /\ run.id + 1 # 0 BY DeviceIs
  <2>2. run' \in Run /\ run'.id = run.id + 1 BY <1>7, <2>1 DEF Run
  <2>3. HistoryOf(hist', run.id + 1) BY <1>7, <2>1, EmptyIs
  <2>4. HistoryOfRun' /\ hist' \in Windows /\ hist'.runId = run'.id
    BY <2>1, <2>2, <2>3 DEF HistoryOf, HistoryOfRun
  <2>5. Told1 BY <1>7, <2>2, BroadcastIs
  <2>6. extra' \in Nat BY <1>7, DeviceIs
  <2>7. DeviceTypeOK' BY <1>1, <1>2, <2>2, <2>4, <2>5, <2>6, DeviceIs DEF DeviceTypeOK
  <2>8. DeviceGrown BY <1>1, <2>2, <2>4, <2>5, ToldHas DEF DeviceGrown
  <2> QED BY <1>1, <2>4, <2>7, <2>8, DeviceSteps
<1>8. CASE /\ FailedStarts /\ ~run.active /\ run.id < MaxRun
           /\ run' = [run EXCEPT !.id = @ + 1] /\ Broadcast /\ UNCHANGED <<hist, extra>>
  <2>1. run' \in Run /\ run'.id = run.id + 1 /\ ~run'.active BY <1>8, DeviceIs DEF Run
  <2>2. hist' = hist /\ extra' \in Nat BY <1>8, DeviceIs
  <2>3. HistoryOfRun' /\ hist' \in Windows
    <3>1. /\ hist \in Windows /\ OfOneRun(hist) /\ hist.runId <= run.id + 1
      BY DeviceIs DEF HistoryOf
    <3> QED BY <2>1, <2>2, <3>1 DEF HistoryOfRun
  <2>4. Told1 BY <1>8, <2>1, BroadcastIs
  <2>5. DeviceTypeOK' BY <1>1, <1>2, <2>1, <2>2, <2>3, <2>4, DeviceIs DEF DeviceTypeOK
  <2>6. DeviceGrown BY <1>1, <1>8, <2>1, <2>4, ToldHas DEF DeviceGrown
  <2> QED BY <1>1, <2>3, <2>5, <2>6, DeviceSteps
<1> QED BY <1>4, <1>5, <1>6, <1>7, <1>8 DEF LoopRoutes

LEMMA PublishSteps == ASSUME TInv, LoopPublish PROVE Stepped
<1>1. /\ UNCHANGED <<transport, store>> /\ pc' = "replay" /\ replay' = replay /\ run' = run
      /\ snapshots' = snapshots /\ pending' = pending /\ clients' = clients
      /\ hist' = hist /\ latest' = latest /\ wire' = wire /\ extra' = extra
  BY DEF LoopPublish, Goes
<1>2. published' = [id |-> run.id, active |-> run.active, reading |-> latest]
  BY DEF LoopPublish
<1>3. replay \in Replay /\ clients \subseteq Nat /\ run \in Run BY DEF TInv, TypeOK, DeviceTypeOK
<1>4. published' \in [id : Nat, active : BOOLEAN, reading : Physical]
  BY <1>2, <1>3, DeviceIs DEF Run
<1>5. published'.reading = latest BY <1>2
<1>6. HistoryOfRun' /\ hist' \in Windows /\ hist'.runId = hist.runId
  BY <1>1, DeviceIs, HistoryStays
<1>7. DeviceTypeOK' BY <1>1, <1>3, <1>4, <1>6, DeviceIs DEF DeviceTypeOK
<1>8. DeviceGrown BY <1>1, <1>5, <1>6, ToldHas DEF DeviceGrown
<1> QED BY <1>1, <1>6, <1>7, <1>8, DeviceSteps

-----------------------------------------------------------------------------
(* The replay sends what the history holds, under the current label. *)
LEMMA BegunIs ==
    ASSUME TInv, NEW c \in Nat, StartReplay(c)
    PROVE  /\ replay' \in Replay /\ snapshots' \in Nat /\ wire' \in Seq(Message)
           /\ OfMessages(wire') \subseteq Told
<1>1. replay \in Replay /\ hist \in Windows BY DEF TInv, TypeOK, DeviceTypeOK
<1>2. CASE c \notin clients BY <1>1, <1>2, DeviceIs, ToldHas DEF StartReplay
<1>3. CASE c \in clients
  <2> PICK n : n = snapshots + 1 OBVIOUS
  <2> PICK t : t = LatestRawSeq(hist) OBVIOUS
  <2> PICK l : l = IF Len(hist.coarse) = 0 THEN 0 ELSE hist.coarse[Len(hist.coarse)].ms OBVIOUS
  <2> PICK f : f = IF Len(hist.coarse) = 0 THEN "raw" ELSE "coarse" OBVIOUS
  <2>1. n \in Nat BY DeviceIs
  <2>2. t \in Nat
    <3>1. hist.raw \in Seq(Reading) BY <1>1 DEF Windows
    <3>2. hist.raw # <<>> => hist.raw[Len(hist.raw)] \in Reading BY <3>1
    <3> QED BY <3>2 DEF LatestRawSeq, Reading
  <2>3. l \in Nat
    <3>1. hist.coarse \in Seq(CoarseSample) BY <1>1 DEF Windows
    <3>2. Len(hist.coarse) # 0 => hist.coarse[Len(hist.coarse)] \in CoarseSample BY <3>1
    <3> QED BY <3>2 DEF CoarseSample
  <2>4. f \in {"coarse", "raw"} OBVIOUS
  <2>5. /\ replay' = [IdleReplay EXCEPT !.phase = f, !.client = c, !.snap = n, !.run = run.id,
                                        !.through = t, !.throughMs = l]
        /\ snapshots' = n
        /\ wire' = Sent(<<Hello, [type |-> "begin", snap |-> n, run |-> run.id]>>, c)
    BY <1>3 DEF StartReplay
  <2>6. replay' \in Replay BY <2>1, <2>2, <2>3, <2>4, <2>5, DeviceIs DEF IdleReplay, Replay
  <2> PICK m : m = [type |-> "begin", snap |-> n, run |-> run.id] OBVIOUS
  <2>7. m \in Message /\ OfMessage(m) = {} BY <2>1, DeviceIs, OtherIs
  <2>8. Hello \in News
    <3>1. published.id \in Nat /\ published.active \in BOOLEAN
      BY DEF TInv, TypeOK, DeviceTypeOK
    <3> QED BY <3>1 DEF Hello, News
  <2>9. Hello \in Message /\ OfMessage(Hello) = {} BY <2>8, NewsIs
  <2>10. <<Hello, m>> \in Seq(Message) /\ OfMessages(<<Hello, m>>) = {}
    BY <2>7, <2>9, MessagesOfTwo
  <2>11. /\ Sent(<<Hello, m>>, c) \in Seq(Message)
         /\ OfMessages(Sent(<<Hello, m>>, c)) \subseteq OfMessages(wire)
    BY <2>10, DeviceIs, SentIs
  <2> QED BY <2>1, <2>5, <2>6, <2>11, ToldHas
<1> QED BY <1>2, <1>3

(* A page sent under the current label: its entries are of the history's run. *)
LEMMA ChunkIs ==
    ASSUME TInv, replay.run = run.id, NEW C \in SUBSET Summary, NEW R \in SUBSET Point,
           \A x \in C : x.in = hist.runId, \A x \in R : x.in = hist.runId, NEW c
    PROVE  /\ Sent(<<Chunk(C, R)>>, c) \in Seq(Message)
           /\ OfMessages(Sent(<<Chunk(C, R)>>, c)) \subseteq Known
           /\ Chunk(C, R) \in Message /\ Chunk(C, R).type = "history"
<1>1. replay.snap \in Nat /\ replay.run \in Nat BY DEF TInv, TypeOK, DeviceTypeOK, Replay
<1> PICK m : m = Chunk(C, R) OBVIOUS
<1>2. /\ m \in [type : {"history"}, snap : Nat, run : Nat,
                coarse : SUBSET Summary, raw : SUBSET Point]
      /\ m.run = run.id /\ m.coarse = C /\ m.raw = R
  BY <1>1 DEF Chunk
<1>3. m \in Message /\ OfMessage(m) = Marks(run.id, R) \cup Marks(run.id, C)
  BY <1>2, HistoryIs
<1>4. Marks(run.id, R) \subseteq Known /\ Marks(run.id, C) \subseteq Known
  BY ToldHas DEF Marks
<1>5. <<m>> \in Seq(Message) /\ OfMessages(<<m>>) \subseteq Known BY <1>3, <1>4, MessagesOfOne
<1>6. /\ Sent(<<m>>, c) \in Seq(Message)
      /\ OfMessages(Sent(<<m>>, c)) \subseteq OfMessages(wire) \cup OfMessages(<<m>>)
  BY <1>5, DeviceIs, SentIs
<1>7. m.type = "history" BY <1>2
<1> QED BY <1>3, <1>5, <1>6, <1>7, ToldHas

(* The replay's cursors and phase move. *)
LEMMA ReplayMoves ==
    ASSUME NEW x \in Replay, NEW p \in {"idle", "coarse", "raw", "end"}, NEW n \in Nat
    PROVE  /\ [x EXCEPT !.from = n, !.phase = p] \in Replay
           /\ [x EXCEPT !.after = n, !.phase = p] \in Replay
<1>1. [x EXCEPT !.from = n, !.phase = p] \in Replay BY DEF Replay
<1>2. [x EXCEPT !.after = n, !.phase = p] \in Replay BY DEF Replay
<1> QED BY <1>1, <1>2

(* The replay under way goes on, with a page or with its end, or without a message. *)
Continues ==
    /\ replay'.client = replay.client /\ replay'.run = replay.run /\ replay'.snap = replay.snap
    /\ \/ wire' = wire /\ replay'.phase # "idle"
       \/ \E m \in Message :
             /\ wire' = Sent(<<m>>, replay.client)
             /\ \/ m.type = "history" /\ replay'.phase # "idle"
                \/ /\ m.type = "end" /\ m.run = replay.run /\ m.snap = replay.snap
                   /\ replay'.phase = "idle"

LEMMA SendCoarseIs ==
    ASSUME TInv, replay.run = run.id, SendCoarse
    PROVE  /\ replay' \in Replay /\ wire' \in Seq(Message) /\ OfMessages(wire') \subseteq Known
           /\ replay.phase # "idle" => Continues
<1> PICK page : page = CoarsePage(hist, replay.from, replay.throughMs, CoarsePageSize) OBVIOUS
<1>1. replay \in Replay /\ replay.from \in Nat /\ replay.throughMs \in Nat
  BY DEF TInv, TypeOK, DeviceTypeOK, Replay
<1>2. CoarsePageSize \in Nat \ {0} /\ Resolution \in Nat \ {0}
  BY TelemetryAssumption, WindowAssumption
<1>3. ListOf(CoarseSample, hist.runId, page) BY <1>1, <1>2, DeviceIs, PagesAre
<1>4. page \in Seq(CoarseSample) /\ \A i \in 1..Len(page) : page[i].runId = hist.runId
  BY <1>3 DEF ListOf
<1> PICK n \in Nat : n = Len(page) BY <1>4
<1>5. CASE n = 0
  <2>1. replay' = [replay EXCEPT !.phase = "raw"] /\ wire' = wire BY <1>5 DEF SendCoarse
  <2>2. Continues BY <1>1, <2>1 DEF Continues, Replay
  <2> QED BY <1>1, <2>1, <2>2, DeviceIs, ToldHas DEF Replay
<1>6. CASE n # 0
  <2> PICK C : C = {[ms |-> page[i].ms, of |-> page[i].of, in |-> page[i].runId] : i \in 1..n}
    OBVIOUS
  <2> PICK p : p = IF n < CoarsePageSize \/ page[n].ms >= replay.throughMs
                   THEN "raw" ELSE replay.phase
    OBVIOUS
  <2> PICK f : f = page[n].ms + Resolution OBVIOUS
  <2>1. /\ replay' = [replay EXCEPT !.from = f, !.phase = p]
        /\ wire' = Sent(<<Chunk(C, {})>>, replay.client)
    BY <1>6 DEF SendCoarse
  <2>2. \A i \in 1..n : page[i] \in CoarseSample BY <1>4
  <2>3. f \in Nat BY <1>2, <1>6, <2>2 DEF CoarseSample
  <2>4. p \in {"idle", "coarse", "raw", "end"} BY <1>1 DEF Replay
  <2>5. replay' \in Replay BY <1>1, <2>1, <2>3, <2>4, ReplayMoves
  <2>6. C \in SUBSET Summary /\ \A x \in C : x.in = hist.runId
    <3>1. ASSUME NEW x \in C PROVE x \in Summary /\ x.in = hist.runId
      <4> PICK i \in 1..n : x = [ms |-> page[i].ms, of |-> page[i].of, in |-> page[i].runId]
        OBVIOUS
      <4>1. page[i].ms \in Nat /\ page[i].of \in SUBSET Nat BY <2>2 DEF CoarseSample
      <4>2. page[i].runId = hist.runId /\ hist.runId \in Nat BY <1>4, DeviceIs
      <4> QED BY <4>1, <4>2 DEF Summary
    <3> QED BY <3>1
  <2>7. {} \in SUBSET Point /\ \A x \in {} : x.in = hist.runId OBVIOUS
  <2>8. /\ wire' \in Seq(Message) /\ OfMessages(wire') \subseteq Known
        /\ Chunk(C, {}) \in Message /\ Chunk(C, {}).type = "history"
    BY <2>1, <2>6, <2>7, ChunkIs
  <2>9. ASSUME replay.phase # "idle" PROVE Continues
    <3>1. /\ replay'.client = replay.client /\ replay'.run = replay.run
          /\ replay'.snap = replay.snap /\ replay'.phase # "idle"
      BY <1>1, <2>1, <2>9 DEF Replay
    <3> QED BY <2>1, <2>8, <3>1 DEF Continues
  <2> QED BY <2>5, <2>8, <2>9
<1> QED BY <1>5, <1>6

LEMMA SendRawIs ==
    ASSUME TInv, replay.run = run.id, SendRaw
    PROVE  /\ replay' \in Replay /\ wire' \in Seq(Message) /\ OfMessages(wire') \subseteq Known
           /\ replay.phase # "idle" => Continues
<1> PICK page : page = RawPage(hist, replay.after, replay.through, RawPageSize) OBVIOUS
<1>1. replay \in Replay /\ replay.after \in Nat /\ replay.through \in Nat
  BY DEF TInv, TypeOK, DeviceTypeOK, Replay
<1>2. RawPageSize \in Nat \ {0} BY TelemetryAssumption
<1>3. ListOf(Reading, hist.runId, page) BY <1>1, <1>2, DeviceIs, PagesAre
<1>4. page \in Seq(Reading) /\ \A i \in 1..Len(page) : page[i].runId = hist.runId
  BY <1>3 DEF ListOf
<1> PICK n \in Nat : n = Len(page) BY <1>4
<1>5. CASE n = 0
  <2>1. replay' = [replay EXCEPT !.phase = "end"] /\ wire' = wire BY <1>5 DEF SendRaw
  <2>2. Continues BY <1>1, <2>1 DEF Continues, Replay
  <2> QED BY <1>1, <2>1, <2>2, DeviceIs, ToldHas DEF Replay
<1>6. CASE n # 0
  <2> PICK R : R = {[seq |-> page[i].seq, in |-> page[i].runId] : i \in 1..n} OBVIOUS
  <2> PICK p : p = IF n < RawPageSize \/ page[n].seq >= replay.through
                   THEN "end" ELSE replay.phase
    OBVIOUS
  <2> PICK a : a = page[n].seq OBVIOUS
  <2>1. /\ replay' = [replay EXCEPT !.after = a, !.phase = p]
        /\ wire' = Sent(<<Chunk({}, R)>>, replay.client)
    BY <1>6 DEF SendRaw
  <2>2. \A i \in 1..n : page[i] \in Reading BY <1>4
  <2>3. a \in Nat BY <1>6, <2>2 DEF Reading
  <2>4. p \in {"idle", "coarse", "raw", "end"} BY <1>1 DEF Replay
  <2>5. replay' \in Replay BY <1>1, <2>1, <2>3, <2>4, ReplayMoves
  <2>6. R \in SUBSET Point /\ \A x \in R : x.in = hist.runId
    <3>1. ASSUME NEW x \in R PROVE x \in Point /\ x.in = hist.runId
      <4> PICK i \in 1..n : x = [seq |-> page[i].seq, in |-> page[i].runId] OBVIOUS
      <4>1. page[i].seq \in Nat BY <2>2 DEF Reading
      <4>2. page[i].runId = hist.runId /\ hist.runId \in Nat BY <1>4, DeviceIs
      <4> QED BY <4>1, <4>2 DEF Point
    <3> QED BY <3>1
  <2>7. {} \in SUBSET Summary /\ \A x \in {} : x.in = hist.runId OBVIOUS
  <2>8. /\ wire' \in Seq(Message) /\ OfMessages(wire') \subseteq Known
        /\ Chunk({}, R) \in Message /\ Chunk({}, R).type = "history"
    BY <2>1, <2>6, <2>7, ChunkIs
  <2>9. ASSUME replay.phase # "idle" PROVE Continues
    <3>1. /\ replay'.client = replay.client /\ replay'.run = replay.run
          /\ replay'.snap = replay.snap /\ replay'.phase # "idle"
      BY <1>1, <2>1, <2>9 DEF Replay
    <3> QED BY <2>1, <2>8, <3>1 DEF Continues
  <2> QED BY <2>5, <2>8, <2>9
<1> QED BY <1>5, <1>6

LEMMA SendEndIs ==
    ASSUME TInv, SendEnd
    PROVE  /\ replay' \in Replay /\ wire' \in Seq(Message) /\ OfMessages(wire') \subseteq Known
           /\ replay.phase # "idle" => Continues
<1>1. replay \in Replay /\ replay.snap \in Nat /\ replay.run \in Nat
  BY DEF TInv, TypeOK, DeviceTypeOK, Replay
<1> PICK m : m = [type |-> "end", snap |-> replay.snap, run |-> replay.run] OBVIOUS
<1>2. replay' = [replay EXCEPT !.phase = "idle"] /\ wire' = Sent(<<m>>, replay.client)
  BY DEF SendEnd
<1>3. m \in Message /\ OfMessage(m) = {} BY <1>1, OtherIs
<1>4. <<m>> \in Seq(Message) /\ OfMessages(<<m>>) = {} BY <1>3, MessagesOfOne
<1>5. wire' \in Seq(Message) /\ OfMessages(wire') \subseteq OfMessages(wire)
  BY <1>2, <1>4, DeviceIs, SentIs
<1>6. /\ replay'.client = replay.client /\ replay'.run = replay.run
      /\ replay'.snap = replay.snap /\ replay'.phase = "idle"
  BY <1>1, <1>2 DEF Replay
<1>7. Continues BY <1>2, <1>3, <1>6 DEF Continues
<1> QED BY <1>1, <1>2, <1>5, <1>7, ToldHas DEF Replay

LEMMA ReplaySteps == ASSUME TInv, LoopReplay PROVE Stepped
<1>1. /\ UNCHANGED <<transport, store>> /\ pc' = "tick" /\ pending' = 0 /\ run' = run
      /\ clients' = clients /\ hist' = hist /\ latest' = latest /\ extra' = extra
      /\ published' = published
  BY DEF LoopReplay, Goes
<1>2. /\ replay \in Replay /\ clients \subseteq Nat /\ run \in Run /\ replay.client \in Nat
      /\ published \in [id : Nat, active : BOOLEAN, reading : Physical]
  BY DEF TInv, TypeOK, DeviceTypeOK, Replay
<1> DEFINE Fine == /\ replay' \in Replay /\ snapshots' \in Nat /\ wire' \in Seq(Message)
                   /\ OfMessages(wire') \subseteq Known
<1>3. Fine
  <2>1. CASE pending # 0 /\ StartReplay(pending) BY <2>1, BegunIs, DeviceIs, ToldHas
  <2>2. CASE UNCHANGED <<replay, snapshots, overrun, wire>>
    BY <1>2, <2>2, DeviceIs, ToldHas
  <2>3. CASE replay' = [replay EXCEPT !.phase = "idle"] /\ UNCHANGED <<snapshots, overrun, wire>>
    BY <1>2, <2>3, DeviceIs, ToldHas DEF Replay
  <2>4. CASE StartReplay(replay.client) BY <1>2, <2>4, BegunIs, ToldHas
  <2>5. CASE UNCHANGED <<snapshots, overrun>> /\ UNCHANGED <<replay, wire>>
    BY <1>2, <2>5, DeviceIs, ToldHas
  <2>6. CASE UNCHANGED <<snapshots, overrun>> /\ ~Outdated /\ SendCoarse
    BY <2>6, SendCoarseIs, DeviceIs DEF Outdated
  <2>7. CASE UNCHANGED <<snapshots, overrun>> /\ ~Outdated /\ SendRaw
    BY <2>7, SendRawIs, DeviceIs DEF Outdated
  <2>8. CASE UNCHANGED <<snapshots, overrun>> /\ ~Outdated /\ SendEnd
    BY <2>8, SendEndIs, DeviceIs
  <2>9. replay.phase \in {"idle", "coarse", "raw", "end"} BY <1>2 DEF Replay
  <2> QED BY <2>1, <2>2, <2>3, <2>4, <2>5, <2>6, <2>7, <2>8, <2>9 DEF LoopReplay
<1> HIDE DEF Fine
<1>4. HistoryOfRun' /\ hist' \in Windows /\ hist'.runId = hist.runId
  BY <1>1, DeviceIs, HistoryStays
<1>5. DeviceTypeOK' BY <1>1, <1>2, <1>3, <1>4, DeviceIs DEF Fine, DeviceTypeOK
<1>6. DeviceGrown BY <1>1, <1>3, <1>4, ToldHas DEF Fine, DeviceGrown
<1> QED BY <1>1, <1>4, <1>5, <1>6, DeviceSteps

-----------------------------------------------------------------------------
(* The browser and the callbacks: they tell the browser nothing new. *)
LEMMA CallSteps ==
    ASSUME TInv, UNCHANGED <<owner, published>>, pending' \in Nat, clients' \subseteq Nat,
           wire' \in Seq(Message), BrowserTypeOK', ShownTogether',
           OfMessages(wire') \subseteq Told, OnHttp' \subseteq Told,
           OfPoints(tel') \subseteq Told, OfSnapshot' \subseteq Told
    PROVE  Stepped
<1>1. /\ pc' = pc /\ run' = run /\ hist' = hist /\ latest' = latest /\ replay' = replay
      /\ snapshots' = snapshots /\ extra' = extra /\ published' = published
  BY DEF owner
<1>2. DeviceTypeOK' BY <1>1 DEF TInv, TypeOK, DeviceTypeOK
<1>3. HistoryOfRun' BY <1>1 DEF TInv, HistoryOfRun, OfOneRun
<1>4. Told' = OfMessages(wire') \cup OnHttp' \cup OfReading(latest)
              \cup OfReading(published.reading) \cup OfPoints(tel') \cup OfSnapshot'
  BY <1>1 DEF Told
<1>5. Told' \subseteq Known BY <1>4, ToldHas
<1>6. Grown BY <1>1, <1>5 DEF Grown
<1> QED BY <1>2, <1>3, <1>6 DEF Stepped, TypeOK

LEMMA BrowserIs ==
    ASSUME TInv
    PROVE  /\ sock \in [id : Nat, st : {"closed", "connecting", "open"}] /\ requests \in Nat
           /\ http \in [Requester -> [st : {"none", "info", "hello", "now", "reading"},
                                      answer : Answers \cup {None}]]
           /\ \A r \in Requester : http[r].st \in {"hello", "reading"} => http[r].answer \in Answers
           /\ app \in [id : Nat, active : BOOLEAN]
           /\ tel \in [run : Nat, raw : SUBSET Point, coarse : SUBSET Summary]
           /\ tx \in Transaction \cup {None} /\ clients \subseteq Nat /\ ShownTogether
BY DEF TInv, TypeOK, DeviceTypeOK, BrowserTypeOK

(* A step that leaves the store and the requests as they are. *)
LEMMA WireSteps ==
    ASSUME TInv, UNCHANGED <<owner, published>>, pending' \in Nat, clients' \subseteq Nat,
           wire' \in Seq(Message), OfMessages(wire') \subseteq Told,
           sock' \in [id : Nat, st : {"closed", "connecting", "open"}],
           requests' = requests, http' = http, app' = app, tel' = tel, tx' = tx
    PROVE  Stepped
<1>1. BrowserTypeOK' BY BrowserIs DEF BrowserTypeOK
<1>2. ShownTogether' BY BrowserIs DEF ShownTogether
<1>3. OnHttp' = OnHttp /\ OfPoints(tel') = OfPoints(tel) /\ OfSnapshot' = OfSnapshot
  BY DEF OnHttp, OfSnapshot
<1> QED BY <1>1, <1>2, <1>3, CallSteps, ToldHas

LEMMA AcceptSteps == ASSUME TInv, Accept PROVE Stepped
<1>1. /\ UNCHANGED <<owner, published>> /\ sock' = sock /\ requests' = requests /\ http' = http
      /\ app' = app /\ tel' = tel /\ tx' = tx
  BY DEF Accept, transport, store
<1>2. sock.id \in Nat BY BrowserIs
<1>3. pending' \in Nat /\ clients' \subseteq Nat BY <1>2, DeviceIs, BrowserIs DEF Accept
<1> PICK o : o = [type |-> "open"] OBVIOUS
<1> PICK c : c = [type |-> "close"] OBVIOUS
<1>4. o \in Message /\ OfMessage(o) = {} /\ c \in Message /\ OfMessage(c) = {} BY OtherIs
<1>5. wire' = <<o, c>> \/ wire' = <<o>> BY DEF Accept
<1>6. wire' \in Seq(Message) /\ OfMessages(wire') = {}
  <2>1. <<o>> \in Seq(Message) /\ OfMessages(<<o>>) = {} BY <1>4, MessagesOfOne
  <2>2. <<o, c>> \in Seq(Message) /\ OfMessages(<<o, c>>) = {} BY <1>4, MessagesOfTwo
  <2> QED BY <1>5, <2>1, <2>2
<1> QED BY <1>1, <1>3, <1>6, BrowserIs, WireSteps

LEMMA ServerLosesSteps == ASSUME TInv, ServerLoses PROVE Stepped
<1> PICK c \in clients : /\ clients' = clients \ {c} /\ wire' = Sent(<<[type |-> "close"]>>, c)
                         /\ UNCHANGED <<owner, published, pending, transport, store>>
  BY DEF ServerLoses
<1>1. /\ UNCHANGED <<owner, published>> /\ sock' = sock /\ requests' = requests /\ http' = http
      /\ app' = app /\ tel' = tel /\ tx' = tx /\ pending' = pending
  BY DEF transport, store
<1> PICK m : m = [type |-> "close"] OBVIOUS
<1>2. m \in Message /\ OfMessage(m) = {} BY OtherIs
<1>3. <<m>> \in Seq(Message) /\ OfMessages(<<m>>) = {} BY <1>2, MessagesOfOne
<1>4. wire' \in Seq(Message) /\ OfMessages(wire') \subseteq OfMessages(wire)
  BY <1>3, DeviceIs, SentIs
<1>5. clients' \subseteq Nat BY BrowserIs
<1> QED BY <1>1, <1>4, <1>5, BrowserIs, DeviceIs, ToldHas, WireSteps

LEMMA OpenSocketSteps == ASSUME TInv, OpenSocket PROVE Stepped
<1>1. /\ UNCHANGED <<owner, published>> /\ requests' = requests /\ http' = http
      /\ app' = app /\ tel' = tel /\ tx' = tx /\ pending' = pending /\ clients' = clients
      /\ wire' = wire /\ sock' = [id |-> sock.id + 1, st |-> "connecting"]
  BY DEF OpenSocket
<1>2. sock' \in [id : Nat, st : {"closed", "connecting", "open"}] BY <1>1, BrowserIs
<1> QED BY <1>1, <1>2, BrowserIs, DeviceIs, ToldHas, WireSteps

HttpTypeOK ==
    /\ http \in [Requester -> [st : {"none", "info", "hello", "now", "reading"},
                               answer : Answers \cup {None}]]
    /\ \A r \in Requester : http[r].st \in {"hello", "reading"} => http[r].answer \in Answers

(* Requests asked or given up carry no answer. *)
LEMMA AsksIs ==
    ASSUME TInv, NEW r \in Requester, NEW h \in [st : {"none", "info", "now"}, answer : {None}],
           http' = [http EXCEPT ![r] = h]
    PROVE  HttpTypeOK' /\ OnHttp' \subseteq OnHttp
<1>1. h \in [st : {"none", "info", "hello", "now", "reading"}, answer : Answers \cup {None}]
  OBVIOUS
<1>2. \A q \in Requester : http'[q] = IF q = r THEN h ELSE http[q] BY BrowserIs
<1>3. http' \in [Requester -> [st : {"none", "info", "hello", "now", "reading"},
                               answer : Answers \cup {None}]]
  BY <1>1, BrowserIs
<1>4. h.st \notin {"hello", "reading"} OBVIOUS
<1>5. \A q \in Requester : http'[q].st \in {"hello", "reading"} => http'[q].answer \in Answers
  BY <1>2, <1>4, BrowserIs
<1>6. \A q \in Requester : OfAnswer(http'[q]) \subseteq OfAnswer(http[q])
  BY <1>2, <1>4 DEF OfAnswer
<1> QED BY <1>3, <1>5, <1>6 DEF OnHttp, HttpTypeOK

LEMMA AskedIs ==
    ASSUME TInv, NEW r \in Requester, Asked(r)
    PROVE  HttpTypeOK' /\ requests' \in Nat /\ OnHttp' \subseteq OnHttp
<1> PICK h : h = [st |-> "info", answer |-> None] OBVIOUS
<1>1. h \in [st : {"none", "info", "now"}, answer : {None}] OBVIOUS
<1>2. http' = [http EXCEPT ![r] = h] /\ requests' = requests + 1 BY DEF Asked
<1>3. HttpTypeOK' /\ OnHttp' \subseteq OnHttp BY <1>1, <1>2, AsksIs
<1> QED BY <1>2, <1>3, BrowserIs

(* A step that leaves the store as it is and asks at most. *)
LEMMA AskSteps ==
    ASSUME TInv, UNCHANGED <<owner, published>>, pending' = pending, clients' = clients,
           wire' \in Seq(Message), OfMessages(wire') \subseteq Told,
           sock' \in [id : Nat, st : {"closed", "connecting", "open"}],
           HttpTypeOK', requests' \in Nat, OnHttp' \subseteq OnHttp,
           app' = app, tel' = tel, tx' = tx
    PROVE  Stepped
<1>1. BrowserTypeOK' BY BrowserIs DEF BrowserTypeOK, HttpTypeOK
<1>2. ShownTogether' BY BrowserIs DEF ShownTogether
<1>3. OfPoints(tel') = OfPoints(tel) /\ OfSnapshot' = OfSnapshot BY DEF OfSnapshot
<1>4. pending' \in Nat /\ clients' \subseteq Nat BY DeviceIs, BrowserIs
<1> QED BY <1>1, <1>2, <1>3, <1>4, CallSteps, ToldHas

LEMMA ClosedSteps ==
    ASSUME TInv, Closed, UNCHANGED <<owner, published, pending, clients, app, tel, tx>>
    PROVE  Stepped
<1>1. sock' = [sock EXCEPT !.st = "closed"] /\ wire' = <<>> /\ StartPolling BY DEF Closed
<1>2. sock' \in [id : Nat, st : {"closed", "connecting", "open"}] BY <1>1, BrowserIs
<1>3. HttpTypeOK' /\ requests' \in Nat /\ OnHttp' \subseteq OnHttp
  <2>1. CASE UNCHANGED <<http, requests>> BY <2>1, BrowserIs DEF HttpTypeOK, OnHttp
  <2>2. CASE Asked("poll")
    <3>1. "poll" \in Requester BY DEF Requester
    <3> QED BY <2>2, <3>1, AskedIs
  <2> QED BY <1>1, <2>1, <2>2 DEF StartPolling
<1>4. wire' \in Seq(Message) /\ OfMessages(wire') \subseteq Told BY <1>1, NoMessages
<1> QED BY <1>2, <1>3, <1>4, AskSteps

LEMMA AskActSteps == ASSUME TInv, NEW r \in Requester, Ask(r) PROVE Stepped
<1>1. /\ Asked(r) /\ sock' = sock /\ wire' = wire
      /\ UNCHANGED <<owner, published>> /\ pending' = pending /\ clients' = clients
      /\ app' = app /\ tel' = tel /\ tx' = tx
  BY DEF Ask, store
<1>2. HttpTypeOK' /\ requests' \in Nat /\ OnHttp' \subseteq OnHttp BY <1>1, AskedIs
<1> QED BY <1>1, <1>2, AskSteps, BrowserIs, DeviceIs, ToldHas

LEMMA FailSteps == ASSUME TInv, NEW r \in Requester, RequestFails(r) PROVE Stepped
<1>1. /\ http' = [http EXCEPT ![r] = NoRequest] /\ sock' = sock /\ wire' = wire
      /\ UNCHANGED <<owner, published>> /\ pending' = pending /\ clients' = clients
      /\ app' = app /\ tel' = tel /\ tx' = tx /\ requests' = requests
  BY DEF RequestFails, store
<1>2. NoRequest \in [st : {"none", "info", "now"}, answer : {None}] BY DEF NoRequest
<1>3. HttpTypeOK' /\ OnHttp' \subseteq OnHttp BY <1>1, <1>2, AsksIs
<1> QED BY <1>1, <1>3, AskSteps, BrowserIs, DeviceIs, ToldHas

(* An answer tells what is published. *)
LEMMA AnswerSteps == ASSUME TInv, NEW r \in Requester, Answer(r) PROVE Stepped
<1>1. /\ sock' = sock /\ wire' = wire
      /\ UNCHANGED <<owner, published>> /\ pending' = pending /\ clients' = clients
      /\ app' = app /\ tel' = tel /\ tx' = tx /\ requests' = requests
  BY DEF Answer, store
<1>2. Hello \in News /\ [Hello EXCEPT !.type = "state"] \in News
  <2>1. published.id \in Nat /\ published.active \in BOOLEAN
    BY DEF TInv, TypeOK, DeviceTypeOK
  <2> QED BY <2>1 DEF Hello, News
<1>3. ASSUME NEW a \in Answers, OfMessage(a) \subseteq Told, NEW t \in {"hello", "reading"},
             http' = [http EXCEPT ![r] = [st |-> t, answer |-> a]]
      PROVE  Stepped
  <2> PICK h : h = [st |-> t, answer |-> a] OBVIOUS
  <2>1. h \in [st : {"none", "info", "hello", "now", "reading"}, answer : Answers \cup {None}]
    OBVIOUS
  <2>2. http' = [http EXCEPT ![r] = h] BY <1>3
  <2>3. \A q \in Requester : http'[q] = IF q = r THEN h ELSE http[q] BY <2>2, BrowserIs
  <2>4. HttpTypeOK'
    <3>1. http' \in [Requester -> [st : {"none", "info", "hello", "now", "reading"},
                                   answer : Answers \cup {None}]]
      BY <2>1, <2>2, BrowserIs
    <3>2. h.answer \in Answers OBVIOUS
    <3>3. \A q \in Requester : http'[q].st \in {"hello", "reading"} => http'[q].answer \in Answers
      BY <2>3, <3>2, BrowserIs
    <3> QED BY <3>1, <3>3 DEF HttpTypeOK
  <2>5. OfAnswer(h) \subseteq Told BY <1>3 DEF OfAnswer
  <2>6. \A q \in Requester : OfAnswer(http[q]) \subseteq Told BY ToldHas DEF OnHttp
  <2>7. OnHttp' \subseteq Told BY <2>3, <2>5, <2>6 DEF OnHttp
  <2>8. BrowserTypeOK' BY <1>1, <2>4, BrowserIs DEF BrowserTypeOK, HttpTypeOK
  <2>9. ShownTogether' BY <1>1, BrowserIs DEF ShownTogether
  <2>10. OfPoints(tel') = OfPoints(tel) /\ OfSnapshot' = OfSnapshot BY <1>1 DEF OfSnapshot
  <2>11. pending' \in Nat /\ clients' \subseteq Nat /\ wire' \in Seq(Message)
         /\ OfMessages(wire') \subseteq Told
    BY <1>1, DeviceIs, BrowserIs, ToldHas
  <2> QED BY <1>1, <2>7, <2>8, <2>9, <2>10, <2>11, CallSteps, ToldHas
<1>4. CASE http' = [http EXCEPT ![r] = [st |-> "hello", answer |-> Hello]]
  <2>1. Hello \in Answers /\ OfMessage(Hello) \subseteq Told BY <1>2, NewsIs DEF Answers
  <2> QED BY <1>3, <1>4, <2>1
<1>5. CASE http' = [http EXCEPT ![r] =
                [st |-> "reading",
                 answer |-> IF published.reading = None
                            THEN [Hello EXCEPT !.type = "state"]
                            ELSE [type |-> "sample", run |-> published.reading.run,
                                  seq |-> published.reading.seq,
                                  in |-> published.reading.run]]]
  <2>1. CASE published.reading = None
    <3> PICK a : a = [Hello EXCEPT !.type = "state"] OBVIOUS
    <3>1. a \in Answers /\ OfMessage(a) \subseteq Told BY <1>2, NewsIs DEF Answers
    <3>2. http' = [http EXCEPT ![r] = [st |-> "reading", answer |-> a]] BY <1>5, <2>1
    <3> QED BY <1>3, <3>1, <3>2
  <2>2. CASE published.reading # None
    <3> PICK s : s = published.reading OBVIOUS
    <3> PICK a : a = [type |-> "sample", run |-> s.run, seq |-> s.seq, in |-> s.run] OBVIOUS
    <3>1. s.run \in Nat /\ s.seq \in Nat BY <2>2, DeviceIs DEF Physical
    <3>2. a \in Live /\ a.run = s.run /\ a.in = s.run BY <3>1 DEF Live
    <3>3. OfMessage(a) = {<<s.run, s.run>>} BY <3>2, LiveIs
    <3>4. OfReading(s) = {<<s.run, s.run>>} BY <2>2 DEF OfReading
    <3>5. a \in Answers /\ OfMessage(a) \subseteq Told BY <3>2, <3>3, <3>4, ToldHas DEF Answers
    <3>6. http' = [http EXCEPT ![r] = [st |-> "reading", answer |-> a]] BY <1>5, <2>2
    <3> QED BY <1>3, <3>5, <3>6
  <2> QED BY <2>1, <2>2
<1> QED BY <1>4, <1>5 DEF Answer

-----------------------------------------------------------------------------
(* Handling a message: what is shown was told, under the same label. *)
StoreFine ==
    /\ app' \in [id : Nat, active : BOOLEAN]
    /\ tel' \in [run : Nat, raw : SUBSET Point, coarse : SUBSET Summary]
    /\ tx' \in Transaction \cup {None} /\ ShownTogether'
    /\ OfPoints(tel') \subseteq Told /\ OfSnapshot' \subseteq Told

LEMMA MessageIs ==
    \A m \in Message :
        /\ IsNews(m) => m.run \in Nat /\ m.active \in BOOLEAN
        /\ m.type = "begin" => m.run \in Nat /\ m.snap \in Nat
        /\ m.type = "history" => /\ m.raw \in SUBSET Point /\ m.coarse \in SUBSET Summary
                                 /\ m.run \in Nat /\ m.snap \in Nat
        /\ m.type = "sample" => m.run \in Nat /\ m.seq \in Nat /\ m.in \in Nat
        /\ m.type = "end" => m.run \in Nat /\ m.snap \in Nat
        /\ m.type \in {"hello", "state", "begin", "history", "end", "sample", "open", "close"}
BY DEF Message, News, Live, IsNews

LEMMA UpdatedIs ==
    ASSUME TInv, NEW id \in Nat, NEW active \in BOOLEAN, RunUpdated(id, active)
    PROVE  /\ app' \in [id : Nat, active : BOOLEAN] /\ app'.id = id /\ tel'.run = id
           /\ tel' \in [run : Nat, raw : SUBSET Point, coarse : SUBSET Summary]
           /\ OfPoints(tel') \subseteq Told
<1>1. app' = [id |-> id, active |-> active] BY DEF RunUpdated
<1>2. CASE app.id # id
  <2>1. tel' = [run |-> id, raw |-> {}, coarse |-> {}] BY <1>2 DEF RunUpdated
  <2>2. OfPoints(tel') = {} BY <2>1 DEF OfPoints, Marks
  <2> QED BY <1>1, <2>1, <2>2
<1>3. CASE app.id = id
  <2>1. tel' = tel BY <1>3 DEF RunUpdated
  <2> QED BY <1>1, <1>3, <2>1, BrowserIs, ToldHas DEF ShownTogether
<1> QED BY <1>2, <1>3

(* Marks of parts, and of a point put in. *)
LEMMA MarksGrow ==
    ASSUME NEW l, NEW S, NEW R, NEW x, Marks(l, S) \subseteq Told, <<l, x.in>> \in Told,
           R \subseteq S \cup {x}
    PROVE  Marks(l, R) \subseteq Told
BY DEF Marks

LEMMA MarksJoin ==
    ASSUME NEW l, NEW S, NEW T, NEW R, Marks(l, S) \subseteq Told, Marks(l, T) \subseteq Told,
           R \subseteq S \cup T
    PROVE  Marks(l, R) \subseteq Told
BY DEF Marks

LEMMA LiveSampleIs ==
    ASSUME TInv, NEW m \in Message, m.type = "sample", OfMessage(m) \subseteq Told,
           LiveSample(m), app' = app
    PROVE  StoreFine
<1> PICK s : s = [seq |-> m.seq, in |-> m.in] OBVIOUS
<1>1. s \in Point /\ s.in = m.in BY MessageIs DEF Point
<1>2. <<m.run, m.in>> \in Told BY DEF OfMessage
<1>3. CASE ~IsShown(m) /\ UNCHANGED <<tel, tx>>
  <2>1. tel' = tel /\ tx' = tx BY <1>3
  <2>2. ShownTogether' BY <2>1, BrowserIs DEF ShownTogether
  <2> QED BY <2>1, <2>2, BrowserIs, ToldHas DEF StoreFine, OfSnapshot
<1>4. CASE IsShown(m) /\ tx # None /\ tx' = [tx EXCEPT !.raw = PutRaw(@, s)] /\ UNCHANGED tel
  <2>1. tx \in Transaction /\ tx.run = app.id /\ m.run = app.id /\ tel' = tel
    BY <1>4, BrowserIs DEF ShownTogether, IsShown
  <2> PICK R : R = PutRaw(tx.raw, s) OBVIOUS
  <2>2. R \subseteq tx.raw \cup {s} BY DEF PutRaw
  <2>3. tx' = [tx EXCEPT !.raw = R] BY <1>4
  <2>4. /\ tx' \in Transaction /\ tx'.run = tx.run /\ tx'.raw = R /\ tx'.coarse = tx.coarse
    <3>1. R \in SUBSET Point BY <1>1, <2>1, <2>2 DEF Transaction
    <3> QED BY <2>1, <2>3, <3>1 DEF Transaction
  <2>5. OfSnapshot = OfPoints(tx) BY <1>4 DEF OfSnapshot
  <2>6. Marks(tx.run, tx.raw) \subseteq Told /\ Marks(tx.run, tx.coarse) \subseteq Told
    BY <2>5, ToldHas DEF OfPoints
  <2>7. Marks(tx.run, R) \subseteq Told BY <1>1, <1>2, <2>1, <2>2, <2>6, MarksGrow
  <2>8. OfSnapshot' \subseteq Told BY <2>4, <2>6, <2>7 DEF OfSnapshot, OfPoints
  <2>9. ShownTogether' BY <2>1, <2>4, BrowserIs DEF ShownTogether
  <2> QED BY <2>1, <2>4, <2>8, <2>9, BrowserIs, ToldHas DEF StoreFine
<1>5. CASE IsShown(m) /\ tx = None /\ tel' = [tel EXCEPT !.raw = Merged(@, s)] /\ UNCHANGED tx
  <2>1. tel.run = app.id /\ m.run = app.id /\ tx' = tx
    BY <1>5, BrowserIs DEF ShownTogether, IsShown
  <2> PICK R : R = Merged(tel.raw, s) OBVIOUS
  <2>2. R \subseteq tel.raw \cup {s} BY DEF Merged
  <2>3. tel' = [tel EXCEPT !.raw = R] BY <1>5
  <2>4. /\ tel' \in [run : Nat, raw : SUBSET Point, coarse : SUBSET Summary]
        /\ tel'.run = tel.run /\ tel'.raw = R /\ tel'.coarse = tel.coarse
    <3>1. R \in SUBSET Point BY <1>1, <2>2, BrowserIs
    <3> QED BY <2>3, <3>1, BrowserIs
  <2>6. Marks(tel.run, tel.raw) \subseteq Told /\ Marks(tel.run, tel.coarse) \subseteq Told
    BY ToldHas DEF OfPoints
  <2>7. Marks(tel.run, R) \subseteq Told BY <1>1, <1>2, <2>1, <2>2, <2>6, MarksGrow
  <2>8. OfPoints(tel') \subseteq Told BY <2>4, <2>6, <2>7 DEF OfPoints
  <2>9. ShownTogether' BY <2>1, <2>4, BrowserIs DEF ShownTogether
  <2>10. OfSnapshot' = OfSnapshot BY <2>1 DEF OfSnapshot
  <2> QED BY <2>1, <2>4, <2>8, <2>9, <2>10, BrowserIs, ToldHas DEF StoreFine
<1> QED BY <1>3, <1>4, <1>5 DEF LiveSample

LEMMA ChunkHandledIs ==
    ASSUME TInv, NEW m \in Message, m.type = "history", OfMessage(m) \subseteq Told,
           app' = app, tel' = tel,
           tx' = IF ~InTransaction(m) THEN tx
                 ELSE [tx EXCEPT !.raw = AllPut(@, m.raw), !.coarse = @ \cup m.coarse]
    PROVE  StoreFine
<1>1. CASE ~InTransaction(m)
  <2>1. tx' = tx BY <1>1
  <2>2. ShownTogether' BY <2>1, BrowserIs DEF ShownTogether
  <2>3. OfSnapshot' = OfSnapshot BY <2>1 DEF OfSnapshot
  <2> QED BY <2>1, <2>2, <2>3, BrowserIs, ToldHas DEF StoreFine
<1>2. CASE InTransaction(m)
  <2>1. tx # None /\ tx \in Transaction /\ tx.run = m.run /\ tx.run = app.id
    BY <1>2, BrowserIs DEF InTransaction, ShownTogether
  <2> PICK R : R = AllPut(tx.raw, m.raw) OBVIOUS
  <2> PICK C : C = tx.coarse \cup m.coarse OBVIOUS
  <2>2. R \subseteq tx.raw \cup m.raw BY DEF AllPut
  <2>3. R \in SUBSET Point /\ C \in SUBSET Summary BY <2>1, <2>2, MessageIs DEF Transaction
  <2>4. tx' = [tx EXCEPT !.raw = R, !.coarse = C] BY <1>2
  <2>5. tx' \in Transaction /\ tx'.run = tx.run /\ tx'.raw = R /\ tx'.coarse = C
    BY <2>1, <2>3, <2>4 DEF Transaction
  <2>6. Marks(tx.run, tx.raw) \subseteq Told /\ Marks(tx.run, tx.coarse) \subseteq Told
    BY <2>1, ToldHas DEF OfSnapshot, OfPoints
  <2>7. Marks(tx.run, m.raw) \subseteq Told /\ Marks(tx.run, m.coarse) \subseteq Told
    BY <2>1 DEF OfMessage
  <2>8. Marks(tx.run, R) \subseteq Told BY <2>2, <2>6, <2>7, MarksJoin
  <2>9. Marks(tx.run, C) \subseteq Told BY <2>6, <2>7, MarksJoin
  <2>10. OfSnapshot' \subseteq Told BY <2>5, <2>8, <2>9 DEF OfSnapshot, OfPoints
  <2>11. ShownTogether' BY <2>1, <2>5, BrowserIs DEF ShownTogether
  <2> QED BY <2>5, <2>10, <2>11, BrowserIs, ToldHas DEF StoreFine
<1> QED BY <1>1, <1>2

LEMMA HandleIs ==
    ASSUME TInv, NEW m \in Message, OfMessage(m) \subseteq Told,
           m.type \notin {"open", "close"}, Handle(m)
    PROVE  StoreFine
<1>1. CASE m.type = "hello"
  <2>1. RunUpdated(m.run, m.active) /\ tx' = None BY <1>1 DEF Handle
  <2>2. m.run \in Nat /\ m.active \in BOOLEAN BY <1>1, MessageIs DEF IsNews
  <2>3. /\ app' \in [id : Nat, active : BOOLEAN] /\ app'.id = tel'.run
        /\ tel' \in [run : Nat, raw : SUBSET Point, coarse : SUBSET Summary]
        /\ OfPoints(tel') \subseteq Told
    BY <2>1, <2>2, UpdatedIs
  <2>4. OfSnapshot' = {} BY <2>1 DEF OfSnapshot
  <2> QED BY <2>1, <2>3, <2>4 DEF StoreFine, ShownTogether
<1>2. CASE m.type = "state"
  <2>1. RunUpdated(m.run, m.active) /\ tx' = IF app.id # m.run THEN None ELSE tx
    BY <1>2 DEF Handle
  <2>2. m.run \in Nat /\ m.active \in BOOLEAN BY <1>2, MessageIs DEF IsNews
  <2>3. /\ app' \in [id : Nat, active : BOOLEAN] /\ app'.id = tel'.run /\ app'.id = m.run
        /\ tel' \in [run : Nat, raw : SUBSET Point, coarse : SUBSET Summary]
        /\ OfPoints(tel') \subseteq Told
    BY <2>1, <2>2, UpdatedIs
  <2>4. tx' \in Transaction \cup {None} /\ (tx' # None => tx'.run = app'.id)
    BY <2>1, <2>3, BrowserIs DEF ShownTogether
  <2>5. OfSnapshot' \subseteq Told
    <3>1. CASE app.id # m.run BY <2>1, <3>1 DEF OfSnapshot
    <3>2. CASE app.id = m.run BY <2>1, <3>2, ToldHas DEF OfSnapshot
    <3> QED BY <3>1, <3>2
  <2> QED BY <2>3, <2>4, <2>5 DEF StoreFine, ShownTogether
<1>3. CASE m.type = "begin"
  <2>1. /\ app' = app /\ tel' = tel
        /\ tx' = IF m.run # app.id THEN tx
                 ELSE [snap |-> m.snap, run |-> m.run, raw |-> {}, coarse |-> {}]
    BY <1>3 DEF Handle
  <2>2. CASE m.run # app.id
    <3>1. tx' = tx BY <2>1, <2>2
    <3> QED BY <2>1, <3>1, BrowserIs, ToldHas DEF StoreFine, ShownTogether, OfSnapshot
  <2>3. CASE m.run = app.id
    <3>1. tx' = [snap |-> m.snap, run |-> m.run, raw |-> {}, coarse |-> {}] BY <2>1, <2>3
    <3>2. m.run \in Nat /\ m.snap \in Nat BY <1>3, MessageIs
    <3>3. tx' \in Transaction /\ tx'.run = app.id BY <2>3, <3>1, <3>2 DEF Transaction
    <3>4. OfSnapshot' = {} BY <3>1 DEF OfSnapshot, OfPoints, Marks
    <3> QED BY <2>1, <3>3, <3>4, BrowserIs, ToldHas DEF StoreFine, ShownTogether
  <2> QED BY <2>2, <2>3
<1>4. CASE m.type = "history"
  <2>1. /\ app' = app /\ tel' = tel
        /\ tx' = IF ~InTransaction(m) THEN tx
                 ELSE [tx EXCEPT !.raw = AllPut(@, m.raw), !.coarse = @ \cup m.coarse]
    BY <1>4 DEF Handle
  <2> QED BY <1>4, <2>1, ChunkHandledIs
<1>5. CASE m.type = "end"
  <2>1. CASE ~InTransaction(m)
    <3>1. app' = app /\ tel' = tel /\ tx' = tx BY <1>5, <2>1 DEF Handle
    <3> QED BY <3>1, BrowserIs, ToldHas DEF StoreFine, ShownTogether, OfSnapshot
  <2>2. CASE InTransaction(m)
    <3>1. app' = app /\ tx' = None /\ tel' = [run |-> tx.run, raw |-> tx.raw, coarse |-> tx.coarse]
      BY <1>5, <2>2 DEF Handle
    <3>2. tx # None /\ tx \in Transaction /\ tx.run = app.id
      BY <2>2, BrowserIs DEF InTransaction, ShownTogether
    <3>3. /\ tel' \in [run : Nat, raw : SUBSET Point, coarse : SUBSET Summary]
          /\ tel'.run = app.id
      BY <3>1, <3>2 DEF Transaction
    <3>4. OfPoints(tel') = OfSnapshot BY <3>1, <3>2 DEF OfPoints, OfSnapshot
    <3>5. OfSnapshot' = {} BY <3>1 DEF OfSnapshot
    <3> QED BY <3>1, <3>3, <3>4, <3>5, BrowserIs, ToldHas DEF StoreFine, ShownTogether
  <2> QED BY <2>1, <2>2
<1>6. CASE m.type = "sample"
  <2>1. LiveSample(m) /\ app' = app BY <1>6 DEF Handle
  <2> QED BY <1>6, <2>1, LiveSampleIs
<1> QED BY <1>1, <1>2, <1>3, <1>4, <1>5, <1>6, MessageIs

LEMMA ReceiveSteps == ASSUME TInv, Receive PROVE Stepped
<1> PICK m : m = Head(wire) OBVIOUS
<1>1. UNCHANGED <<owner, published>> /\ pending' = pending /\ clients' = clients /\ wire # <<>>
  BY DEF Receive
<1>2. /\ m \in Message /\ OfMessage(m) \subseteq Told
      /\ Tail(wire) \in Seq(Message) /\ OfMessages(Tail(wire)) \subseteq Told
  BY <1>1, DeviceIs, MessagesShrink, ToldHas
<1>3. pending' \in Nat /\ clients' \subseteq Nat BY <1>1, DeviceIs, BrowserIs
<1>4. CASE /\ m.type = "open" /\ wire' = Tail(wire) /\ sock' = [sock EXCEPT !.st = "open"]
           /\ UNCHANGED <<timer, http, requests, app, tel, tx>>
  <2>1. sock' \in [id : Nat, st : {"closed", "connecting", "open"}] BY <1>4, BrowserIs
  <2> QED BY <1>1, <1>2, <1>3, <1>4, <2>1, WireSteps
<1>5. CASE m.type = "close" /\ Closed /\ UNCHANGED <<app, tel, tx>>
  BY <1>1, <1>5, ClosedSteps
<1>6. CASE /\ m.type \notin {"open", "close"} /\ wire' = Tail(wire) /\ Handle(m)
           /\ UNCHANGED transport
  <2>1. StoreFine BY <1>2, <1>6, HandleIs
  <2>2. sock' = sock /\ http' = http /\ requests' = requests BY <1>6 DEF transport
  <2>3. BrowserTypeOK' BY <2>1, <2>2, BrowserIs DEF BrowserTypeOK, StoreFine
  <2>4. OnHttp' = OnHttp BY <2>2 DEF OnHttp
  <2> QED BY <1>1, <1>2, <1>3, <1>6, <2>1, <2>3, <2>4, CallSteps, ToldHas DEF StoreFine
<1> QED BY <1>4, <1>5, <1>6 DEF Receive

LEMMA AnsweredSteps == ASSUME TInv, NEW r \in Requester, Answered(r) PROVE Stepped
<1> PICK a : a = http[r].answer OBVIOUS
<1>1. /\ UNCHANGED <<owner, published>> /\ pending' = pending /\ clients' = clients
      /\ wire' = wire /\ sock' = sock /\ requests' = requests
      /\ http[r].st \in {"hello", "reading"} /\ Handle(a)
  BY DEF Answered
<1>2. a \in Answers /\ OfMessage(a) \subseteq Told
  <2>1. OfAnswer(http[r]) = OfMessage(a) BY <1>1 DEF OfAnswer
  <2> QED BY <1>1, <2>1, BrowserIs, ToldHas DEF OnHttp
<1>3. a \in Message /\ a.type \notin {"open", "close"}
  BY <1>2, NewsIs, LiveIs DEF Answers, News, Live
<1>4. StoreFine BY <1>1, <1>2, <1>3, HandleIs
<1> PICK h : h = IF http[r].st = "hello" THEN [st |-> "now", answer |-> None] ELSE NoRequest
  OBVIOUS
<1>5. h \in [st : {"none", "info", "now"}, answer : {None}] BY DEF NoRequest
<1>6. http' = [http EXCEPT ![r] = h] BY DEF Answered
<1>7. HttpTypeOK' /\ OnHttp' \subseteq OnHttp BY <1>5, <1>6, AsksIs
<1>8. BrowserTypeOK' BY <1>1, <1>4, <1>7, BrowserIs DEF BrowserTypeOK, StoreFine, HttpTypeOK
<1>9. pending' \in Nat /\ clients' \subseteq Nat BY <1>1, DeviceIs, BrowserIs
<1> QED BY <1>1, <1>4, <1>7, <1>8, <1>9, CallSteps, DeviceIs, ToldHas DEF StoreFine

LEMMA StayedSteps == ASSUME TInv, UNCHANGED vars PROVE Stepped
<1>1. /\ UNCHANGED <<owner, published>> /\ pending' = pending /\ clients' = clients
      /\ wire' = wire /\ sock' = sock /\ requests' = requests /\ http' = http
      /\ app' = app /\ tel' = tel /\ tx' = tx
  BY DEF vars, transport, store
<1> QED BY <1>1, WireSteps, DeviceIs, BrowserIs, ToldHas

LEMMA NextSteps == ASSUME TInv, [Next]_vars PROVE Stepped
<1>1. CASE Loop BY <1>1, TickSteps, RoutesSteps, PublishSteps, ReplaySteps DEF Loop
<1>2. CASE Accept \/ ServerLoses \/ OpenSocket
  BY <1>2, AcceptSteps, ServerLosesSteps, OpenSocketSteps
<1>3. CASE SocketLost BY <1>3, ClosedSteps DEF SocketLost
<1>4. CASE Receive BY <1>4, ReceiveSteps
<1>5. CASE \E r \in Requester : Ask(r) \/ Answer(r) \/ Answered(r) \/ RequestFails(r)
  BY <1>5, AskActSteps, AnswerSteps, AnsweredSteps, FailSteps
<1>6. CASE UNCHANGED vars BY <1>6, StayedSteps
<1> QED BY <1>1, <1>2, <1>3, <1>4, <1>5, <1>6 DEF Next

LEMMA InitTInv == ASSUME Init PROVE TInv /\ Told = {}
<1>1. /\ pc = "tick" /\ run = [id |-> 0, active |-> FALSE, seq |-> 0]
      /\ hist = Empty(0) /\ latest = None /\ replay = IdleReplay /\ snapshots = 0 /\ extra = 0
      /\ published = [id |-> 0, active |-> FALSE, reading |-> None]
      /\ pending = 0 /\ clients = {} /\ wire = <<>>
  BY DEF Init
<1>2. /\ sock = [id |-> 0, st |-> "closed"]
      /\ http = [r \in Requester |-> NoRequest] /\ requests = 0
      /\ app = [id |-> 0, active |-> FALSE]
      /\ tel = [run |-> 0, raw |-> {}, coarse |-> {}] /\ tx = None
  BY DEF Init
<1>3. HistoryOf(Empty(0), 0) BY EmptyIs
<1>4. DeviceTypeOK
  <2>1. IdleReplay \in Replay BY DEF IdleReplay, Replay
  <2>2. run \in Run /\ hist \in Windows BY <1>1, <1>3 DEF Run, HistoryOf
  <2>3. latest \in Physical /\ published \in [id : Nat, active : BOOLEAN, reading : Physical]
    BY <1>1 DEF Physical
  <2> QED BY <1>1, <2>1, <2>2, <2>3, NoMessages DEF DeviceTypeOK
<1>5. BrowserTypeOK BY <1>2 DEF BrowserTypeOK, NoRequest
<1>6. HistoryOfRun BY <1>1, <1>3 DEF HistoryOfRun, HistoryOf
<1>7. ShownTogether BY <1>2 DEF ShownTogether
<1>8. Told = {}
  <2>1. OfMessages(wire) = {} BY <1>1, NoMessages
  <2>2. OnHttp = {} BY <1>2 DEF OnHttp, OfAnswer, NoRequest
  <2>3. OfReading(latest) = {} /\ OfReading(published.reading) = {} BY <1>1 DEF OfReading
  <2>4. OfPoints(tel) = {} /\ OfSnapshot = {} BY <1>2 DEF OfPoints, Marks, OfSnapshot
  <2> QED BY <2>1, <2>2, <2>3, <2>4 DEF Told
<1>9. Labelled BY <1>8 DEF Labelled, Agree
<1> QED BY <1>4, <1>5, <1>6, <1>7, <1>8, <1>9 DEF TInv, TypeOK

-----------------------------------------------------------------------------
(* Under a label the browser is only ever given what was measured in one run, and
   under the current one what was measured in the history's: whatever the order in
   which the loop samples, publishes, broadcasts and replays, the sockets are lost
   and opened again and the state requests are answered, also late, and also when
   Starts fail after taking their run id. *)
THEOREM TelemetryInvariant == Spec => []TInv
<1>1. Init => TInv BY InitTInv
<1>2. TInv /\ [Next]_vars => TInv' BY NextSteps, SteppedKeeps
<1> QED BY <1>1, <1>2, PTL DEF Spec

(* What is shown was told under the run it is shown under. *)
LEMMA ShownIsTold ==
    ASSUME TInv, NEW p \in tel.raw \cup tel.coarse
    PROVE  <<tel.run, p.in>> \in Told /\ p.in \in Nat /\ tel.run \in Nat
<1>1. <<tel.run, p.in>> \in Told BY ToldHas DEF OfPoints, Marks
<1>2. p \in Point \/ p \in Summary BY BrowserIs
<1> QED BY <1>1, <1>2, BrowserIs DEF Point, Summary

(* The graph never mixes what was measured in two runs, and it changes together with
   the run shown and the snapshot being assembled: with any number of HTTP answers
   that set the browser back, and with Starts that fail. *)
OneRunShown ==
    /\ tel.run = app.id /\ (tx # None => tx.run = app.id)
    /\ \A p, q \in tel.raw \cup tel.coarse : p.in = q.in

THEOREM GraphIsOfOneRun == Spec => []OneRunShown
<1>1. TInv => OneRunShown
  <2> SUFFICES ASSUME TInv PROVE OneRunShown OBVIOUS
  <2>1. tel.run = app.id /\ (tx # None => tx.run = app.id) BY BrowserIs DEF ShownTogether
  <2>2. ASSUME NEW p \in tel.raw \cup tel.coarse, NEW q \in tel.raw \cup tel.coarse
        PROVE  p.in = q.in
    <3>1. <<tel.run, p.in>> \in Told /\ <<tel.run, q.in>> \in Told BY ShownIsTold
    <3> QED BY <3>1 DEF TInv, Labelled, Agree
  <2> QED BY <2>1, <2>2 DEF OneRunShown
<1> QED BY <1>1, TelemetryInvariant, PTL

(* Where no Start fails the label stays the run. *)
LEMMA LabelStays ==
    ASSUME ~FailedStarts, TInv, LabelIsRun, [Next]_vars
    PROVE  LabelIsRun'
<1>1. Grown BY NextSteps DEF Stepped
<1>2. CASE run'.id = run.id /\ hist'.runId = hist.runId /\ Told' \subseteq Known
  <2>1. \A p \in Known : p[1] = p[2] BY DEF LabelIsRun, Honest, Known
  <2> QED BY <1>2, <2>1 DEF LabelIsRun, Honest
<1>3. CASE /\ run'.id = run.id + 1 /\ Told' \subseteq Told
           /\ hist'.runId = run'.id \/ FailedStarts
  BY <1>3 DEF LabelIsRun, Honest
<1> QED BY <1>1, <1>2, <1>3 DEF Grown

(* Where no Start fails after taking its run id, nothing is ever shown as a run's that
   was measured in another: NetworkManager labels what it sends with the current run
   and not with the sample's, and that is the same run then. *)
THEOREM MeasuredWhereShown ==
    ASSUME ~FailedStarts
    PROVE  Spec => []MeasuredInItsRun
<1>1. Init => LabelIsRun
  <2> SUFFICES ASSUME Init PROVE LabelIsRun OBVIOUS
  <2>1. hist.runId = 0 /\ run.id = 0 BY DEF Init, Empty
  <2> QED BY <2>1, InitTInv DEF LabelIsRun, Honest
<1>2. TInv /\ LabelIsRun /\ [Next]_vars => LabelIsRun' BY LabelStays
<1>3. TInv /\ LabelIsRun => MeasuredInItsRun
  <2> SUFFICES ASSUME TInv, LabelIsRun, NEW p \in tel.raw \cup tel.coarse
               PROVE  p.in = tel.run
    BY DEF MeasuredInItsRun
  <2>1. <<tel.run, p.in>> \in Told BY ShownIsTold
  <2> QED BY <2>1 DEF LabelIsRun, Honest
<1> QED BY <1>1, <1>2, <1>3, TelemetryInvariant, PTL DEF Spec

-----------------------------------------------------------------------------
(* Messages on their way: another behind them, and the first of them handled. *)
Behind(u, w, m) ==
    /\ Len(w) \in Nat /\ Len(u) = Len(w) + 1 /\ u[Len(w) + 1] = m
    /\ \A i \in 1..Len(w) : u[i] = w[i]
Front(v, w, m) ==
    /\ Len(v) \in Nat /\ Len(w) = Len(v) + 1 /\ w[1] = m
    /\ \A i \in 1..Len(v) : v[i] = w[i + 1]

LEMMA BehindIs ==
    ASSUME NEW w \in Seq(Message), NEW m \in Message
    PROVE  Behind(w \o <<m>>, w, m)
<1>1. /\ Len(w) \in Nat /\ Len(w \o <<m>>) = Len(w) + 1
      /\ \A i \in 1..(Len(w) + 1) :
            (w \o <<m>>)[i] = IF i <= Len(w) THEN w[i] ELSE <<m>>[i - Len(w)]
  OBVIOUS
<1>2. \A i \in 1..Len(w) : (w \o <<m>>)[i] = w[i] BY <1>1
<1>3. (w \o <<m>>)[Len(w) + 1] = m BY <1>1
<1> QED BY <1>1, <1>2, <1>3 DEF Behind

LEMMA FrontIs ==
    ASSUME NEW w \in Seq(Message), w # <<>>
    PROVE  Front(Tail(w), w, Head(w))
BY DEF Front

LEMMA TellsGrows ==
    ASSUME NEW u, NEW w, NEW m, Behind(u, w, m), NEW a, NEW r,
           \/ Tells(w, a, r) /\ ~IsNews(m)
           \/ IsNews(m) /\ m.run = r.id /\ m.active = r.active
    PROVE  Tells(u, a, r)
<1> PICK l \in Nat : l = Len(w) BY DEF Behind
<1>1. /\ Len(u) = l + 1 /\ u[l + 1] = m /\ \A i \in 1..l : u[i] = w[i] BY DEF Behind
<1>2. \A i \in 1..(l + 1) : i \in 1..l \/ i = l + 1 OBVIOUS
<1>3. CASE ~IsNews(m) /\ (\A i \in 1..l : ~IsNews(w[i])) /\ a.id = r.id /\ a.active = r.active
  <2>1. \A i \in 1..(l + 1) : ~IsNews(u[i]) BY <1>1, <1>2, <1>3
  <2> QED BY <1>1, <1>3, <2>1 DEF Tells
<1>4. ASSUME ~IsNews(m), NEW i \in 1..l, IsNews(w[i]), w[i].run = r.id, w[i].active = r.active,
             \A j \in (i + 1)..l : ~IsNews(w[j])
      PROVE  Tells(u, a, r)
  <2>1. i \in 1..(l + 1) /\ u[i] = w[i] BY <1>1
  <2>2. ASSUME NEW j \in (i + 1)..(l + 1) PROVE ~IsNews(u[j])
    <3>1. CASE j = l + 1 BY <1>1, <1>4, <3>1
    <3>2. CASE j # l + 1
      <4>1. j \in (i + 1)..l /\ j \in 1..l BY <3>2
      <4> QED BY <1>1, <1>4, <4>1
    <3> QED BY <3>1, <3>2
  <2> QED BY <1>1, <1>4, <2>1, <2>2 DEF Tells
<1>5. CASE IsNews(m) /\ m.run = r.id /\ m.active = r.active
  <2>1. l + 1 \in 1..(l + 1) /\ \A j \in (l + 1 + 1)..(l + 1) : ~IsNews(u[j]) OBVIOUS
  <2> QED BY <1>1, <1>5, <2>1 DEF Tells
<1> QED BY <1>3, <1>4, <1>5 DEF Tells

LEMMA TellsShrinks ==
    ASSUME NEW v, NEW w, NEW m, Front(v, w, m), NEW a, NEW b, NEW r, Tells(w, a, r),
           ~IsNews(m) => b = a, IsNews(m) => b.id = m.run /\ b.active = m.active
    PROVE  Tells(v, b, r)
<1> PICK l \in Nat : l = Len(v) BY DEF Front
<1>1. /\ Len(w) = l + 1 /\ w[1] = m /\ \A i \in 1..l : v[i] = w[i + 1] BY DEF Front
<1>2. CASE (\A i \in 1..(l + 1) : ~IsNews(w[i])) /\ a.id = r.id /\ a.active = r.active
  <2>1. 1 \in 1..(l + 1) /\ \A i \in 1..l : i + 1 \in 1..(l + 1) OBVIOUS
  <2>2. \A i \in 1..l : ~IsNews(v[i]) BY <1>1, <1>2, <2>1
  <2>3. b = a BY <1>1, <1>2, <2>1
  <2> QED BY <1>2, <2>2, <2>3 DEF Tells
<1>3. ASSUME NEW i \in 1..(l + 1), IsNews(w[i]), w[i].run = r.id, w[i].active = r.active,
             \A j \in (i + 1)..(l + 1) : ~IsNews(w[j])
      PROVE  Tells(v, b, r)
  <2>1. \A j \in i..l : j + 1 \in (i + 1)..(l + 1) OBVIOUS
  <2>2. \A j \in i..l : ~IsNews(v[j])
    <3>1. \A j \in i..l : j \in 1..l OBVIOUS
    <3> QED BY <1>1, <1>3, <2>1, <3>1
  <2>3. CASE i = 1
    <3>1. b.id = r.id /\ b.active = r.active BY <1>1, <1>3, <2>3
    <3> QED BY <2>2, <2>3, <3>1 DEF Tells
  <2>4. CASE i # 1
    <3>1. i - 1 \in 1..l /\ (i - 1) + 1 = i BY <2>4
    <3>2. v[i - 1] = w[i] BY <1>1, <3>1
    <3>3. \A j \in ((i - 1) + 1)..l : ~IsNews(v[j]) BY <2>2, <3>1
    <3> QED BY <1>3, <3>1, <3>2, <3>3 DEF Tells
  <2> QED BY <2>3, <2>4
<1> QED BY <1>1, <1>2, <1>3 DEF Tells

LEMMA EnteredBehind ==
    ASSUME NEW u, NEW w, NEW m, Behind(u, w, m), NEW a, NEW t, NEW r, NEW sn,
           NEW n \in 0..Len(w), Entered(w, n, a, t, r, sn)
    PROVE  Entered(u, n, a, t, r, sn)
<1> PICK l \in Nat : l = Len(w) BY DEF Behind
<1>1. \A i \in 1..l : u[i] = w[i] BY DEF Behind
<1> PICK k \in 0..n : /\ k = 0 => IsOpen(t, r, sn)
                      /\ k > 0 => Opens(w, k, a, r, sn)
                      /\ \A j \in (k + 1)..n : Plain(w[j], r)
  BY DEF Entered
<1>2. \A j \in (k + 1)..n : j \in 1..l OBVIOUS
<1>3. k > 0 => k \in 1..l /\ (k > 1 => k - 1 \in 1..l) OBVIOUS
<1>4. k > 0 => Opens(u, k, a, r, sn) BY <1>1, <1>3 DEF Opens
<1>5. \A j \in (k + 1)..n : Plain(u[j], r) BY <1>1, <1>2
<1> QED BY <1>4, <1>5 DEF Entered

LEMMA EnteredGrows ==
    ASSUME NEW u, NEW w, NEW m, Behind(u, w, m), NEW a, NEW t, NEW r, NEW sn,
           Entered(w, Len(w), a, t, r, sn), Plain(m, r)
    PROVE  Entered(u, Len(u), a, t, r, sn)
<1> PICK l \in Nat : l = Len(w) BY DEF Behind
<1>1. Len(u) = l + 1 /\ u[l + 1] = m BY DEF Behind
<1>2. l \in 0..Len(w) /\ Entered(w, l, a, t, r, sn) OBVIOUS
<1>3. Entered(u, l, a, t, r, sn) BY ONLY Behind(u, w, m), <1>2, EnteredBehind
<1> PICK k \in 0..l : /\ k = 0 => IsOpen(t, r, sn)
                      /\ k > 0 => Opens(u, k, a, r, sn)
                      /\ \A j \in (k + 1)..l : Plain(u[j], r)
  BY <1>3 DEF Entered
<1>4. \A j \in (k + 1)..(l + 1) : j \in (k + 1)..l \/ j = l + 1 OBVIOUS
<1>5. \A j \in (k + 1)..(l + 1) : Plain(u[j], r) BY <1>1, <1>4
<1>6. k \in 0..(l + 1) OBVIOUS
<1>7. Entered(u, l + 1, a, t, r, sn) BY <1>5, <1>6 DEF Entered
<1> QED BY <1>1, <1>7

LEMMA EndsGrows ==
    ASSUME NEW u, NEW w, NEW m, Behind(u, w, m), NEW a, NEW t, NEW p, Ends(w, a, t, p), Calm(m)
    PROVE  Ends(u, a, t, p)
<1> PICK l \in Nat : l = Len(w) BY DEF Behind
<1>1. Len(u) = l + 1 /\ u[l + 1] = m /\ \A i \in 1..l : u[i] = w[i] BY DEF Behind
<1>2. CASE p \in LivePhase /\ \A i \in 1..l : Calm(w[i])
  <2>1. \A i \in 1..(l + 1) : i \in 1..l \/ i = l + 1 OBVIOUS
  <2>2. \A i \in 1..(l + 1) : Calm(u[i]) BY <1>1, <1>2, <2>1
  <2> QED BY <1>1, <1>2, <2>2 DEF Ends
<1>3. ASSUME NEW e \in 1..l, NEW r \in Nat, NEW sn \in Nat,
             w[e].type = "end", w[e].run = r, w[e].snap = sn,
             Entered(w, e - 1, a, t, r, sn), \A j \in (e + 1)..l : Calm(w[j])
      PROVE  Ends(u, a, t, p)
  <2>1. e - 1 \in 0..Len(w) OBVIOUS
  <2>2. Entered(u, e - 1, a, t, r, sn) BY <1>3, <2>1, EnteredBehind
  <2>3. ASSUME NEW j \in (e + 1)..(l + 1) PROVE Calm(u[j])
    <3>1. CASE j = l + 1 BY <1>1, <3>1
    <3>2. CASE j # l + 1
      <4>1. j \in (e + 1)..l /\ j \in 1..l BY <3>2
      <4> QED BY <1>1, <1>3, <4>1
    <3> QED BY <3>1, <3>2
  <2>4. e \in 1..(l + 1) /\ u[e] = w[e] BY <1>1
  <2> QED BY <1>1, <1>3, <2>2, <2>3, <2>4 DEF Ends
<1> QED BY <1>2, <1>3 DEF Ends

(* The end of a replay behind its messages. *)
LEMMA EndsAnew ==
    ASSUME NEW u, NEW w, NEW m, Behind(u, w, m), NEW a, NEW t, NEW p,
           NEW r \in Nat, NEW sn \in Nat, Entered(w, Len(w), a, t, r, sn),
           m.type = "end", m.run = r, m.snap = sn
    PROVE  Ends(u, a, t, p)
<1> PICK l \in Nat : l = Len(w) BY DEF Behind
<1>1. Len(u) = l + 1 /\ u[l + 1] = m BY DEF Behind
<1>2. l \in 0..Len(w) /\ Entered(w, l, a, t, r, sn) OBVIOUS
<1>3. Entered(u, l, a, t, r, sn) BY ONLY Behind(u, w, m), <1>2, EnteredBehind
<1>4. (l + 1) - 1 = l /\ l + 1 \in 1..Len(u) BY <1>1
<1>5. \A j \in (l + 1 + 1)..Len(u) : Calm(u[j]) BY <1>1
<1>6. Entered(u, (l + 1) - 1, a, t, r, sn) BY <1>3, <1>4
<1> QED BY <1>1, <1>4, <1>5, <1>6 DEF Ends

(* A replay begun anew behind any messages. *)
LEMMA EnteredAnew ==
    ASSUME NEW u, NEW v, NEW w, NEW h, NEW b, Behind(v, w, h), Behind(u, v, b),
           NEW a, NEW t, NEW r, NEW sn,
           h.type = "hello", h.run = r, b.type = "begin", b.run = r, b.snap = sn
    PROVE  Entered(u, Len(u), a, t, r, sn)
<1> PICK l \in Nat : l = Len(w) BY DEF Behind
<1>1. Len(v) = l + 1 /\ v[l + 1] = h BY DEF Behind
<1>2. Len(u) = l + 2 /\ u[l + 2] = b /\ \A i \in 1..(l + 1) : u[i] = v[i] BY <1>1 DEF Behind
<1>3. u[l + 1] = h BY <1>1, <1>2
<1>4. l + 2 > 1 /\ (l + 2) - 1 = l + 1 /\ l + 2 # 1 /\ l + 2 # 0 /\ l + 2 \in 0..(l + 2) OBVIOUS
<1>5. Opens(u, l + 2, a, r, sn) BY <1>2, <1>3, <1>4 DEF Opens
<1>6. \A j \in (l + 2 + 1)..(l + 2) : Plain(u[j], r) OBVIOUS
<1>7. Entered(u, l + 2, a, t, r, sn) BY <1>4, <1>5, <1>6 DEF Entered
<1> QED BY <1>2, <1>7

(* What handling the message m does to the run shown and the snapshot: one that is
   open stays so after a plain message, and begin opens one of the run shown. *)
Carries(m, a, t, b, s) ==
    \A r, sn \in Nat :
        /\ IsOpen(t, r, sn) /\ Plain(m, r) => IsOpen(s, r, sn)
        /\ m.type = "begin" /\ m.run = r /\ m.snap = sn /\ a.id = r => IsOpen(s, r, sn)
        /\ m.type = "hello" /\ m.run = r => b.id = r

LEMMA EnteredShrinks ==
    ASSUME NEW v, NEW w, NEW m, Front(v, w, m), NEW a, NEW t, NEW b, NEW s,
           Carries(m, a, t, b, s), NEW r \in Nat, NEW sn \in Nat,
           NEW n \in 0..Len(v), Entered(w, n + 1, a, t, r, sn)
    PROVE  Entered(v, n, b, s, r, sn)
<1> PICK l \in Nat : l = Len(v) BY DEF Front
<1>1. w[1] = m /\ \A i \in 1..l : v[i] = w[i + 1] BY DEF Front
<1> PICK k \in 0..(n + 1) : /\ k = 0 => IsOpen(t, r, sn)
                            /\ k > 0 => Opens(w, k, a, r, sn)
                            /\ \A j \in (k + 1)..(n + 1) : Plain(w[j], r)
  BY DEF Entered
<1>2. CASE k = 0
  <2>1. 1 \in (k + 1)..(n + 1) BY <1>2
  <2>2. IsOpen(t, r, sn) /\ Plain(m, r) BY <1>1, <1>2, <2>1
  <2>3. IsOpen(s, r, sn) BY <2>2 DEF Carries
  <2>4. \A j \in 1..n : j + 1 \in (k + 1)..(n + 1) /\ j \in 1..l BY <1>2
  <2>5. \A j \in (0 + 1)..n : Plain(v[j], r) BY <1>1, <2>4
  <2>6. 0 \in 0..n OBVIOUS
  <2> QED BY <2>3, <2>5, <2>6 DEF Entered
<1>3. CASE k = 1
  <2>1. m.type = "begin" /\ m.run = r /\ m.snap = sn /\ a.id = r BY <1>1, <1>3 DEF Opens
  <2>2. IsOpen(s, r, sn) BY <2>1 DEF Carries
  <2>3. \A j \in 1..n : j + 1 \in (k + 1)..(n + 1) /\ j \in 1..l BY <1>3
  <2>4. \A j \in (0 + 1)..n : Plain(v[j], r) BY <1>1, <2>3
  <2>5. 0 \in 0..n OBVIOUS
  <2> QED BY <2>2, <2>4, <2>5 DEF Entered
<1>4. CASE k > 1
  <2>1. /\ w[k].type = "begin" /\ w[k].run = r /\ w[k].snap = sn
        /\ w[k - 1].type = "hello" /\ w[k - 1].run = r
    BY <1>4 DEF Opens
  <2>2. k - 1 \in 0..n /\ k - 1 \in 1..l /\ (k - 1) + 1 = k /\ k - 1 > 0 BY <1>4
  <2>3. v[k - 1] = w[k] BY <1>1, <2>2
  <2>4. k - 1 = 1 => b.id = r
    <3>1. k - 1 = 1 => w[k - 1] = m BY <1>1
    <3> QED BY <2>1, <3>1 DEF Carries
  <2>5. k - 1 > 1 => v[(k - 1) - 1] = w[k - 1]
    <3>1. k - 1 > 1 => (k - 1) - 1 \in 1..l /\ ((k - 1) - 1) + 1 = k - 1 BY <2>2
    <3> QED BY <1>1, <3>1
  <2>6. Opens(v, k - 1, b, r, sn) BY <2>1, <2>3, <2>4, <2>5 DEF Opens
  <2>7. \A j \in ((k - 1) + 1)..n : j + 1 \in (k + 1)..(n + 1) /\ j \in 1..l BY <1>4
  <2>8. \A j \in ((k - 1) + 1)..n : Plain(v[j], r) BY <1>1, <2>7
  <2> QED BY <2>2, <2>6, <2>8 DEF Entered
<1> QED BY <1>2, <1>3, <1>4

LEMMA EndsShrinks ==
    ASSUME NEW v, NEW w, NEW m, Front(v, w, m), NEW a, NEW t, NEW p, NEW b, NEW s, NEW q,
           Ends(w, a, t, p), Carries(m, a, t, b, s), Calm(m) => q = p,
           \A r, sn \in Nat :
               m.type = "end" /\ m.run = r /\ m.snap = sn /\ IsOpen(t, r, sn) => q \in LivePhase
    PROVE  Ends(v, b, s, q)
<1> PICK l \in Nat : l = Len(v) BY DEF Front
<1>1. Len(w) = l + 1 /\ w[1] = m /\ \A i \in 1..l : v[i] = w[i + 1] BY DEF Front
<1>2. CASE p \in LivePhase /\ \A i \in 1..(l + 1) : Calm(w[i])
  <2>1. 1 \in 1..(l + 1) /\ \A i \in 1..l : i + 1 \in 1..(l + 1) OBVIOUS
  <2>2. q \in LivePhase BY <1>1, <1>2, <2>1
  <2>3. \A i \in 1..l : Calm(v[i]) BY <1>1, <1>2, <2>1
  <2> QED BY <2>2, <2>3 DEF Ends
<1>3. ASSUME NEW e \in 1..(l + 1), NEW r \in Nat, NEW sn \in Nat,
             w[e].type = "end", w[e].run = r, w[e].snap = sn,
             Entered(w, e - 1, a, t, r, sn), \A j \in (e + 1)..(l + 1) : Calm(w[j])
      PROVE  Ends(v, b, s, q)
  <2>1. \A j \in e..l : j + 1 \in (e + 1)..(l + 1) /\ j \in 1..l OBVIOUS
  <2>2. \A j \in e..l : Calm(v[j]) BY <1>1, <1>3, <2>1
  <2>3. CASE e = 1
    <3>1. e - 1 = 0 BY <2>3
    <3>2. Entered(w, 0, a, t, r, sn) BY <1>3, <3>1
    <3>3. \A k \in 0..0 : k = 0 OBVIOUS
    <3>4. IsOpen(t, r, sn) BY <3>2, <3>3 DEF Entered
    <3>5. q \in LivePhase BY <1>1, <1>3, <2>3, <3>4
    <3> QED BY <2>2, <2>3, <3>5 DEF Ends
  <2>4. CASE e # 1
    <3>1. e - 1 \in 1..l /\ (e - 1) + 1 = e /\ (e - 1) - 1 \in 0..Len(v)
          /\ ((e - 1) - 1) + 1 = e - 1
      BY <2>4
    <3>2. v[e - 1] = w[e] BY <1>1, <3>1
    <3>3. Entered(w, ((e - 1) - 1) + 1, a, t, r, sn) BY <1>3, <3>1
    <3>4. Entered(v, (e - 1) - 1, b, s, r, sn)
      <4> PICK n \in 0..Len(v) : n = (e - 1) - 1 BY <3>1
      <4>1. Entered(w, n + 1, a, t, r, sn) BY <3>3
      <4> QED BY <4>1, EnteredShrinks
    <3>5. \A j \in ((e - 1) + 1)..l : Calm(v[j]) BY <2>2, <3>1
    <3>6. v[e - 1].type = "end" /\ v[e - 1].run = r /\ v[e - 1].snap = sn BY <1>3, <3>2
    <3> QED BY <3>1, <3>4, <3>5, <3>6 DEF Ends
  <2> QED BY <2>3, <2>4
<1> QED BY <1>1, <1>2, <1>3 DEF Ends

-----------------------------------------------------------------------------
(* Every step keeps the browser told and its replay coming.
   First the steps of the device, which say one thing at most: a sample of the run,
   or the state of the run the step leaves. *)
SaysOne(m) ==
    /\ m \in Message /\ wire' = Sent(<<m>>, sock.id)
    /\ \/ m.type = "sample" /\ run'.id = run.id /\ run'.active = run.active
       \/ m.type = "state" /\ m.run = run'.id /\ m.active = run'.active /\ run'.id >= run.id

LEMMA SentWhenServed ==
    ASSUME Served, NEW u
    PROVE  Sent(u, sock.id) = wire \o u
BY DEF Served, Sent, Hears

LEMMA SaidOnwards ==
    ASSUME CInv, UNCHANGED <<transport, store>>, replay' = replay, pending' = pending,
           clients' = clients, run' \in Run,
           pc' = "replay" => published'.id = run'.id /\ published'.active = run'.active,
           \/ wire' = wire /\ run'.id = run.id /\ run'.active = run.active
           \/ \E m : SaysOne(m)
    PROVE  Onwards'
<1>1. /\ sock' = sock /\ app' = app /\ tx' = tx /\ phase' = phase
  BY DEF transport, store
<1>2. /\ Numbered /\ Followed /\ wire \in Seq(Message) /\ run.id \in Nat
      /\ replay.snap \in Nat /\ replay.run \in Nat /\ run'.id \in Nat
  BY DEF CInv, Onwards, TInv, TypeOK, DeviceTypeOK, Replay, Run
<1>3. run'.id >= run.id
  <2>1. run'.id = run.id \/ run'.id >= run.id BY DEF SaysOne
  <2> QED BY <1>2, <2>1
<1>4. Served' = Served /\ Greeted' = Greeted BY <1>1 DEF Greeted, Served
<1>5. Numbered'
  <2>1. replay'.run <= run'.id BY <1>2, <1>3 DEF Numbered
  <2>2. (\A c \in clients : c \in 1..sock.id) /\ (sock.st # "closed" => sock.id # 0)
    BY <1>2 DEF Numbered
  <2>3. pending \in 0..sock.id BY <1>2 DEF Numbered
  <2>4. Greeted => pending = 0 /\ replay.client = sock.id BY <1>2 DEF Numbered
  <2> QED BY <1>1, <1>4, <2>1, <2>2, <2>3, <2>4 DEF Numbered
<1>6. ASSUME Greeted PROVE RunTold' /\ ReplayOnItsWay'
  <2>1. RunTold /\ ReplayOnItsWay /\ Served BY <1>2, <1>6 DEF Followed, Greeted
  <2>2. CASE wire' = wire /\ run'.id = run.id /\ run'.active = run.active
    <3>1. RunTold' BY <1>1, <2>1, <2>2 DEF RunTold, Tells
    <3>2. ReplayOnItsWay' BY <1>1, <2>1, <2>2 DEF ReplayOnItsWay
    <3> QED BY <3>1, <3>2
  <2>3. CASE \E m : SaysOne(m)
    <3> PICK m : SaysOne(m) BY <2>3
    <3>1. m \in Message /\ wire' = wire \o <<m>> BY <2>1, SentWhenServed DEF SaysOne
    <3> PICK u : u = wire \o <<m>> OBVIOUS
    <3>2. Behind(u, wire, m) BY <1>2, <3>1, BehindIs
    <3>3. RunTold'
      <4>1. CASE m.type = "sample" /\ run'.id = run.id /\ run'.active = run.active
        <5>1. Tells(wire, app, run') BY <2>1, <4>1 DEF RunTold, Tells
        <5>2. ~IsNews(m) BY <4>1 DEF IsNews
        <5>3. Tells(u, app, run') BY <3>2, <5>1, <5>2, TellsGrows
        <5> QED BY <1>1, <3>1, <5>3 DEF RunTold
      <4>2. CASE m.type = "state" /\ m.run = run'.id /\ m.active = run'.active
        <5>1. IsNews(m) BY <4>2 DEF IsNews
        <5>2. Tells(u, app, run') BY <3>2, <4>2, <5>1, TellsGrows
        <5> QED BY <1>1, <3>1, <5>2 DEF RunTold
      <4> QED BY <4>1, <4>2 DEF SaysOne
    <3>4. ReplayOnItsWay'
      <4>1. CASE replay.phase = "idle"
        <5>1. Ends(wire, app, tx, phase) BY <2>1, <4>1 DEF ReplayOnItsWay
        <5>2. Calm(m) BY DEF SaysOne, Calm
        <5>3. Ends(u, app, tx, phase) BY <3>2, <5>1, <5>2, EndsGrows
        <5> QED BY <1>1, <3>1, <4>1, <5>3 DEF ReplayOnItsWay
      <4>2. CASE replay.phase # "idle" /\ replay.run = run'.id
        <5>1. replay.run <= run.id BY <1>2 DEF Numbered
        <5>2. run'.id = run.id BY <1>2, <1>3, <4>2, <5>1
        <5>3. Entered(wire, Len(wire), app, tx, run.id, replay.snap)
          BY <2>1, <4>2, <5>2 DEF ReplayOnItsWay
        <5>4. Plain(m, run.id) BY <5>2 DEF SaysOne, Plain
        <5>5. Entered(u, Len(u), app, tx, run.id, replay.snap)
          BY <3>2, <5>3, <5>4, EnteredGrows
        <5> QED BY <1>1, <3>1, <4>2, <5>2, <5>5 DEF ReplayOnItsWay
      <4>3. CASE replay.phase # "idle" /\ replay.run # run'.id
        BY <4>3 DEF ReplayOnItsWay
      <4> QED BY <4>1, <4>2, <4>3
    <3> QED BY <3>3, <3>4
  <2> QED BY <2>2, <2>3
<1>7. Followed' BY <1>4, <1>6 DEF Followed
<1> QED BY <1>5, <1>7 DEF Onwards

LEMMA BroadcastSaysOne ==
    ASSUME TInv, run' \in Run, run'.id >= run.id, Broadcast
    PROVE  \E m : SaysOne(m)
<1> PICK m : m = [type |-> "state", run |-> run'.id, active |-> run'.active] OBVIOUS
<1>1. run'.id \in Nat /\ run'.active \in BOOLEAN BY DEF Run
<1>2. m \in News BY <1>1 DEF News
<1>3. m \in Message BY <1>2, NewsIs
<1>4. wire' = Sent(<<m>>, sock.id) BY DEF Broadcast, SentToAll
<1> QED BY <1>3, <1>4 DEF SaysOne

LEMMA TickOnwards == ASSUME CInv, LoopTick PROVE Onwards'
<1>1. /\ UNCHANGED <<transport, store>> /\ pc' = "routes" /\ replay' = replay
      /\ pending' = pending /\ clients' = clients
  BY DEF LoopTick, Goes
<1>2. TInv BY DEF CInv
<1> DEFINE Says == \/ wire' = wire /\ run'.id = run.id /\ run'.active = run.active
                   \/ \E m : SaysOne(m)
<1>3. run' \in Run /\ Says
  <2>1. CASE UNCHANGED <<run, hist, latest, extra, overrun, published, wire>>
    BY <1>2, <2>1, DeviceIs
  <2>2. CASE Sampled
    <3>1. run' \in Run /\ run'.id = run.id /\ run'.active = run.active BY <1>2, <2>2, SampledIs
    <3> PICK m : m = [type |-> "sample", run |-> run.id, seq |-> run.seq + 1, in |-> run.id]
      OBVIOUS
    <3>2. run.id \in Nat /\ run.seq + 1 \in Nat BY <1>2, DeviceIs
    <3>3. m \in Live BY <3>2 DEF Live
    <3>4. m \in Message BY <3>3, LiveIs
    <3>5. wire' = Sent(<<m>>, sock.id) BY <2>2 DEF Sampled, SentToAll
    <3>6. SaysOne(m) BY <3>1, <3>4, <3>5 DEF SaysOne
    <3> QED BY <3>1, <3>6
  <2>3. CASE IdleSampled
    <3>1. run' = run /\ run' \in Run BY <1>2, <2>3, IdleSampledIs, DeviceIs
    <3> PICK m : m = [type |-> "sample", run |-> 0, seq |-> 0, in |-> 0] OBVIOUS
    <3>2. m \in Live BY DEF Live
    <3>3. m \in Message BY <3>2, LiveIs
    <3>4. wire' = Sent(<<m>>, sock.id) BY <2>3 DEF IdleSampled, SentToAll
    <3>5. SaysOne(m) BY <3>1, <3>3, <3>4 DEF SaysOne
    <3> QED BY <3>1, <3>5
  <2>4. CASE /\ run.active /\ run' = [run EXCEPT !.active = FALSE]
             /\ hist' \in {hist, Finalize(hist)}
             /\ Broadcast /\ UNCHANGED <<latest, extra, overrun>>
    <3>1. run' \in Run /\ run'.id = run.id BY <1>2, <2>4, EndedIs
    <3>2. run'.id >= run.id BY <1>2, <3>1, DeviceIs
    <3>3. \E m : SaysOne(m) BY <1>2, <2>4, <3>1, <3>2, BroadcastSaysOne
    <3> QED BY <3>1, <3>3
  <2> QED BY <2>1, <2>2, <2>3, <2>4 DEF LoopTick
<1> QED BY <1>1, <1>3, SaidOnwards

LEMMA RoutesOnwards == ASSUME CInv, LoopRoutes PROVE Onwards'
<1>1. /\ UNCHANGED <<transport, store>> /\ pc' = "publish" /\ replay' = replay
      /\ pending' = pending /\ clients' = clients
  BY DEF LoopRoutes, Goes
<1>2. TInv BY DEF CInv
<1> DEFINE Says == \/ wire' = wire /\ run'.id = run.id /\ run'.active = run.active
                   \/ \E m : SaysOne(m)
<1>3. run' \in Run /\ Says
  <2>1. CASE UNCHANGED <<run, hist, published, wire, extra>> BY <1>2, <2>1, DeviceIs
  <2>2. ASSUME run' \in Run, run'.id >= run.id, Broadcast PROVE Says
    BY <1>2, <2>2, BroadcastSaysOne
  <2>3. CASE extra' = extra + 1 /\ extra < MaxExtra /\ UNCHANGED <<run, hist>> /\ Broadcast
    <3>1. run' \in Run /\ run'.id >= run.id BY <1>2, <2>3, DeviceIs
    <3> QED BY <2>2, <2>3, <3>1
  <2>4. CASE /\ run.active /\ run' = [run EXCEPT !.active = FALSE]
             /\ hist' \in {hist, Finalize(hist)} /\ Broadcast /\ UNCHANGED extra
    <3>1. run' \in Run /\ run'.id = run.id BY <1>2, <2>4, EndedIs
    <3>2. run'.id >= run.id BY <1>2, <3>1, DeviceIs
    <3> QED BY <2>2, <2>4, <3>1, <3>2
  <2>5. CASE /\ ~run.active /\ run.id < MaxRun
             /\ run' = [id |-> run.id + 1, active |-> TRUE, seq |-> 0]
             /\ hist' = Empty(run.id + 1) /\ Broadcast /\ UNCHANGED extra
    <3>1. run.id \in Nat BY <1>2, DeviceIs
    <3>2. run' \in Run /\ run'.id >= run.id BY <2>5, <3>1 DEF Run
    <3> QED BY <2>2, <2>5, <3>2
  <2>6. CASE /\ FailedStarts /\ ~run.active /\ run.id < MaxRun
             /\ run' = [run EXCEPT !.id = @ + 1] /\ Broadcast /\ UNCHANGED <<hist, extra>>
    <3>1. run.id \in Nat /\ run \in Run BY <1>2, DeviceIs
    <3>2. run' \in Run /\ run'.id >= run.id BY <2>6, <3>1 DEF Run
    <3> QED BY <2>2, <2>6, <3>2
  <2> HIDE DEF Says
  <2> QED BY <2>1, <2>3, <2>4, <2>5, <2>6 DEF LoopRoutes
<1> QED BY <1>1, <1>3, SaidOnwards

LEMMA PublishOnwards == ASSUME CInv, LoopPublish PROVE Onwards'
<1>1. /\ UNCHANGED <<transport, store>> /\ replay' = replay /\ run' = run
      /\ pending' = pending /\ clients' = clients /\ wire' = wire
  BY DEF LoopPublish, Goes
<1>2. published'.id = run'.id /\ published'.active = run'.active BY <1>1 DEF LoopPublish
<1>3. run' \in Run BY <1>1, DeviceIs DEF CInv
<1> QED BY <1>1, <1>2, <1>3, SaidOnwards

(* A replay that is begun: the client is greeted behind all it was sent before. *)
LEMMA BegunOnwards ==
    ASSUME CInv, NEW c \in Nat, StartReplay(c), UNCHANGED <<transport, store>>,
           pc = "replay", pc' = "tick", pending' = 0, run' = run, clients' = clients,
           Served => c = sock.id
    PROVE  Onwards'
<1>1. /\ sock' = sock /\ app' = app /\ tx' = tx /\ phase' = phase
  BY DEF transport, store
<1>2. /\ Numbered /\ wire \in Seq(Message) /\ run.id \in Nat /\ snapshots \in Nat
      /\ replay.run \in Nat /\ sock.id \in Nat /\ TInv /\ run \in Run
  BY DEF CInv, Onwards, TInv, TypeOK, DeviceTypeOK, BrowserTypeOK, Replay, Run
<1>3. Served' = Served BY <1>1 DEF Served
<1>4. CASE c \notin clients
  <2>1. ~Served BY <1>4 DEF Served
  <2>2. ~Greeted' BY <1>3, <2>1 DEF Greeted
  <2>3. replay' = replay BY <1>4 DEF StartReplay
  <2>4. Numbered' BY <1>1, <1>2, <2>2, <2>3 DEF Numbered
  <2> QED BY <2>2, <2>4 DEF Onwards, Followed
<1>5. CASE c \in clients
  <2> PICK n : n = snapshots + 1 OBVIOUS
  <2> PICK b : b = [type |-> "begin", snap |-> n, run |-> run.id] OBVIOUS
  <2>1. /\ replay'.phase # "idle" /\ replay'.client = c /\ replay'.snap = n
        /\ replay'.run = run.id
    BY <1>5 DEF StartReplay, IdleReplay
  <2>2. wire' = Sent(<<Hello, b>>, c) BY <1>5 DEF StartReplay
  <2>3. Numbered'
    <3>1. replay'.run <= run'.id BY <1>2, <2>1
    <3>2. Greeted' => pending' = 0 /\ replay'.client = sock'.id
      BY <1>1, <1>3, <2>1 DEF Greeted
    <3>3. /\ (\A d \in clients : d \in 1..sock.id) /\ 0 \in 0..sock.id
          /\ sock.st # "closed" => sock.id # 0
      BY <1>2 DEF Numbered
    <3> QED BY <1>1, <3>1, <3>2, <3>3 DEF Numbered
  <2>4. ASSUME Served PROVE RunTold' /\ ReplayOnItsWay'
    <3>1. wire' = wire \o <<Hello, b>> BY <2>2, <2>4, SentWhenServed
    <3> PICK h : h = Hello OBVIOUS
    <3> PICK v : v = wire \o <<h>> OBVIOUS
    <3> PICK u : u = v \o <<b>> OBVIOUS
    <3>2. h \in Message /\ b \in Message
      <4>1. h \in News
        <5>1. published.id \in Nat /\ published.active \in BOOLEAN
          BY <1>2 DEF TInv, TypeOK, DeviceTypeOK
        <5> QED BY <5>1 DEF Hello, News
      <4>2. n \in Nat BY <1>2
      <4> QED BY <1>2, <4>1, <4>2, NewsIs, OtherIs
    <3>3. v \in Seq(Message) BY <1>2, <3>2
    <3>4. Behind(v, wire, h) BY <1>2, <3>2, BehindIs
    <3>5. Behind(u, v, b) BY <3>2, <3>3, BehindIs
    <3>6. wire' = u
      <4>1. wire' = wire \o <<h, b>> BY <3>1
      <4>2. <<h, b>> = <<h>> \o <<b>> OBVIOUS
      <4>3. <<h>> \in Seq(Message) /\ <<b>> \in Seq(Message) BY <3>2
      <4>4. wire \o (<<h>> \o <<b>>) = (wire \o <<h>>) \o <<b>> BY <1>2, <4>3
      <4> QED BY <4>1, <4>2, <4>4
    <3>7. h.type = "hello" /\ h.run = run.id /\ h.active = run.active
      BY <1>2 DEF Hello, Numbered
    <3>8. RunTold'
      <4>1. IsNews(h) /\ ~IsNews(b) BY <3>7 DEF IsNews
      <4>2. Tells(v, app, run) BY <3>4, <3>7, <4>1, TellsGrows
      <4>3. Tells(u, app, run) BY <3>5, <4>1, <4>2, TellsGrows
      <4> QED BY <1>1, <3>6, <4>3 DEF RunTold
    <3>9. Entered(u, Len(u), app, tx, run.id, n)
      <4>1. b.type = "begin" /\ b.run = run.id /\ b.snap = n OBVIOUS
      <4> QED BY <3>4, <3>5, <3>7, <4>1, EnteredAnew
    <3>10. ReplayOnItsWay' BY <1>1, <2>1, <3>6, <3>9 DEF ReplayOnItsWay
    <3> QED BY <3>8, <3>10
  <2>5. Followed' BY <1>3, <2>4 DEF Followed, Greeted
  <2> QED BY <2>3, <2>5 DEF Onwards
<1> QED BY <1>4, <1>5

(* A replay that goes on: its message is behind what was sent before. *)
LEMMA GoesOnOnwards ==
    ASSUME CInv, UNCHANGED <<transport, store>>, Continues,
           replay.run = run.id, replay.phase # "idle",
           pc' = "tick", pending' = pending, run' = run, clients' = clients
    PROVE  Onwards'
<1>1. /\ sock' = sock /\ app' = app /\ tx' = tx /\ phase' = phase
  BY DEF transport, store
<1>2. /\ Numbered /\ Followed /\ wire \in Seq(Message) /\ run.id \in Nat
      /\ replay.snap \in Nat
  BY DEF CInv, Onwards, TInv, TypeOK, DeviceTypeOK, Replay, Run
<1>3. Served' = Served /\ Greeted' = Greeted BY <1>1 DEF Greeted, Served
<1>4. Numbered' BY <1>1, <1>2, <1>3 DEF Numbered, Continues
<1>5. ASSUME Greeted PROVE RunTold' /\ ReplayOnItsWay'
  <2>1. RunTold /\ Served /\ replay.client = sock.id
    BY <1>2, <1>5 DEF Followed, Greeted, Numbered
  <2>2. Entered(wire, Len(wire), app, tx, run.id, replay.snap)
    BY <1>2, <1>5 DEF Followed, ReplayOnItsWay
  <2>3. CASE wire' = wire /\ replay'.phase # "idle"
    BY <1>1, <2>1, <2>2, <2>3 DEF RunTold, ReplayOnItsWay, Continues
  <2>4. ASSUME NEW m \in Message, wire' = Sent(<<m>>, replay.client),
               \/ m.type = "history" /\ replay'.phase # "idle"
               \/ /\ m.type = "end" /\ m.run = replay.run /\ m.snap = replay.snap
                  /\ replay'.phase = "idle"
        PROVE  RunTold' /\ ReplayOnItsWay'
    <3>1. wire' = wire \o <<m>> BY <2>1, <2>4, SentWhenServed
    <3> PICK u : u = wire \o <<m>> OBVIOUS
    <3>2. Behind(u, wire, m) BY <1>2, BehindIs
    <3>3. ~IsNews(m) BY <2>4 DEF IsNews
    <3>4. Tells(u, app, run) BY <2>1, <3>2, <3>3, TellsGrows DEF RunTold
    <3>5. RunTold' BY <1>1, <3>1, <3>4 DEF RunTold
    <3>6. CASE m.type = "history" /\ replay'.phase # "idle"
      <4>1. Plain(m, run.id) BY <3>6 DEF Plain
      <4>2. Entered(u, Len(u), app, tx, run.id, replay.snap)
        BY <2>2, <3>2, <4>1, EnteredGrows
      <4>3. ReplayOnItsWay' BY <1>1, <3>1, <3>6, <4>2 DEF ReplayOnItsWay, Continues
      <4> QED BY <3>5, <4>3
    <3>7. CASE /\ m.type = "end" /\ m.run = replay.run /\ m.snap = replay.snap
               /\ replay'.phase = "idle"
      <4>1. Ends(u, app, tx, phase) BY <1>2, <2>2, <3>2, <3>7, EndsAnew
      <4>2. ReplayOnItsWay' BY <1>1, <3>1, <3>7, <4>1 DEF ReplayOnItsWay
      <4> QED BY <3>5, <4>2
    <3> QED BY <2>4, <3>6, <3>7
  <2> QED BY <2>3, <2>4 DEF Continues
<1>6. Followed' BY <1>3, <1>5 DEF Followed
<1> QED BY <1>4, <1>6 DEF Onwards

(* A step after which the browser's socket is not served, or not yet greeted. *)
LEMMA UngreetedOnwards ==
    ASSUME Numbered', ~Greeted'
    PROVE  Onwards'
BY DEF Onwards, Followed

LEMMA StayedOnwards ==
    ASSUME CInv, UNCHANGED <<sock, store, replay, pending, clients, run, wire, published>>,
           pc' = pc \/ pc' = "tick"
    PROVE  Onwards'
<1>1. /\ sock' = sock /\ app' = app /\ tx' = tx /\ phase' = phase
      /\ replay' = replay /\ pending' = pending /\ clients' = clients /\ run' = run
      /\ wire' = wire /\ published' = published
  BY DEF store
<1>2. Numbered /\ Followed BY DEF CInv, Onwards
<1>3. Greeted' = Greeted BY <1>1 DEF Greeted, Served
<1>4. Numbered' BY <1>1, <1>2, <1>3 DEF Numbered
<1>5. RunTold' = RunTold /\ ReplayOnItsWay' = ReplayOnItsWay
  BY <1>1 DEF RunTold, ReplayOnItsWay
<1>6. Followed' BY <1>2, <1>3, <1>5 DEF Followed
<1> QED BY <1>4, <1>6 DEF Onwards

LEMMA ReplayOnwards == ASSUME CInv, LoopReplay PROVE Onwards'
<1>1. /\ UNCHANGED <<transport, store>> /\ pc = "replay" /\ pc' = "tick" /\ pending' = 0
      /\ run' = run /\ clients' = clients /\ published' = published
  BY DEF LoopReplay, Goes
<1>2. TInv /\ Numbered BY DEF CInv, Onwards
<1>3. pending \in Nat /\ replay.client \in Nat /\ replay \in Replay /\ sock.id \in Nat
  BY <1>2 DEF TInv, TypeOK, DeviceTypeOK, BrowserTypeOK, Replay
<1>4. Served => sock.id # 0 BY <1>3, <1>2 DEF Numbered, Served
<1>5. Served /\ pending = 0 => replay.client = sock.id BY <1>2, <1>4 DEF Numbered, Greeted
<1>6. CASE pending # 0 /\ StartReplay(pending)
  <2>1. Served => pending = sock.id BY <1>2, <1>6 DEF Numbered, Greeted
  <2> QED BY <1>1, <1>3, <1>6, <2>1, BegunOnwards
<1>7. CASE pending = 0 /\ UNCHANGED <<replay, wire>>
  BY <1>1, <1>7, StayedOnwards DEF transport
<1>8. CASE /\ pending = 0 /\ replay.client \notin clients
           /\ replay' = [replay EXCEPT !.phase = "idle"] /\ wire' = wire
  <2>1. ~Served BY <1>5, <1>8 DEF Served
  <2>2. sock' = sock BY <1>1 DEF transport
  <2>3. ~Greeted' BY <1>1, <2>1, <2>2 DEF Greeted, Served
  <2>4. replay'.run = replay.run BY <1>3, <1>8 DEF Replay
  <2>5. Numbered' BY <1>1, <1>2, <1>8, <2>2, <2>3, <2>4 DEF Numbered
  <2> QED BY <2>3, <2>5, UngreetedOnwards
<1>9. CASE pending = 0 /\ StartReplay(replay.client)
  BY <1>1, <1>3, <1>5, <1>9, BegunOnwards
<1>10. CASE /\ pending = 0 /\ replay.phase # "idle" /\ ~Outdated
            /\ \/ SendCoarse \/ SendRaw \/ SendEnd
  <2>1. replay.run = run.id BY <1>10 DEF Outdated
  <2>2. Continues
    <3>1. CASE SendCoarse BY <1>2, <1>10, <2>1, <3>1, SendCoarseIs
    <3>2. CASE SendRaw BY <1>2, <1>10, <2>1, <3>2, SendRawIs
    <3>3. CASE SendEnd BY <1>2, <1>10, <3>3, SendEndIs
    <3> QED BY <1>10, <3>1, <3>2, <3>3
  <2> QED BY <1>1, <1>10, <2>1, <2>2, GoesOnOnwards
<1>11. replay.phase \in {"idle", "coarse", "raw", "end"} BY <1>3 DEF Replay
<1> QED BY <1>6, <1>7, <1>8, <1>9, <1>10, <1>11 DEF LoopReplay

-----------------------------------------------------------------------------
(* The sockets. *)
LEMMA AcceptOnwards == ASSUME CInv, Accept PROVE Onwards'
<1>1. /\ sock' = sock /\ run' = run /\ replay' = replay /\ pc' = pc
      /\ published' = published /\ sock.id \notin clients /\ sock.st = "connecting"
  BY DEF Accept, owner, transport
<1>2. Numbered /\ sock.id \in Nat
  BY DEF CInv, Onwards, TInv, TypeOK, BrowserTypeOK
<1>3. CASE clients # {}
  <2>1. clients' = clients /\ pending' = pending BY <1>3 DEF Accept
  <2>2. ~Greeted' BY <1>1, <2>1 DEF Greeted, Served
  <2>3. Numbered' BY <1>1, <1>2, <2>1, <2>2 DEF Numbered
  <2> QED BY <2>2, <2>3, UngreetedOnwards
<1>4. CASE clients = {}
  <2>1. clients' = {sock.id} /\ pending' = sock.id BY <1>4 DEF Accept
  <2>2. ~Greeted' BY <1>1, <2>1 DEF Greeted
  <2>3. sock.id # 0 /\ sock.id \in 1..sock.id /\ sock.id \in 0..sock.id
    BY <1>1, <1>2 DEF Numbered
  <2>4. Numbered' BY <1>1, <1>2, <2>1, <2>2, <2>3 DEF Numbered
  <2> QED BY <2>2, <2>4, UngreetedOnwards
<1> QED BY <1>3, <1>4

(* Steps that leave the device's loop and the run as they are. *)
LEMMA LoopIs ==
    ASSUME UNCHANGED owner
    PROVE  pc' = pc /\ run' = run /\ replay' = replay
BY DEF owner

LEMMA ServerLosesOnwards == ASSUME CInv, ServerLoses PROVE Onwards'
<1> PICK c \in clients : /\ clients' = clients \ {c} /\ wire' = Sent(<<[type |-> "close"]>>, c)
                         /\ UNCHANGED <<owner, published, pending, transport, store>>
  BY DEF ServerLoses
<1>1. /\ sock' = sock /\ app' = app /\ tx' = tx /\ phase' = phase
      /\ pc' = pc /\ run' = run /\ replay' = replay /\ published' = published
      /\ pending' = pending
  BY LoopIs DEF transport, store
<1>2. Numbered /\ Followed BY DEF CInv, Onwards
<1>3. Greeted' => Greeted BY <1>1 DEF Greeted, Served
<1>4. Numbered' BY <1>1, <1>2, <1>3 DEF Numbered
<1>5. CASE c = sock.id
  <2>1. ~Greeted' BY <1>1, <1>5 DEF Greeted, Served
  <2> QED BY <1>4, <2>1, UngreetedOnwards
<1>6. CASE c # sock.id
  <2>1. wire' = wire BY <1>6 DEF Sent, Hears
  <2>2. RunTold' = RunTold /\ ReplayOnItsWay' = ReplayOnItsWay
    BY <1>1, <2>1 DEF RunTold, ReplayOnItsWay
  <2>3. Followed' BY <1>2, <1>3, <2>2 DEF Followed
  <2> QED BY <1>4, <2>3 DEF Onwards
<1> QED BY <1>5, <1>6

LEMMA OpenSocketOnwards == ASSUME CInv, OpenSocket PROVE Onwards'
<1>1. /\ clients' = clients /\ pending' = pending /\ published' = published
      /\ sock' = [id |-> sock.id + 1, st |-> "connecting"]
      /\ pc' = pc /\ run' = run /\ replay' = replay
  BY LoopIs DEF OpenSocket
<1>2. Numbered /\ sock.id \in Nat
  BY DEF CInv, Onwards, TInv, TypeOK, BrowserTypeOK
<1>3. \A c \in clients : c \in 1..(sock.id + 1) /\ c # sock.id + 1 BY <1>2 DEF Numbered
<1>4. ~Greeted' BY <1>1, <1>3 DEF Greeted, Served
<1>5. pending \in 0..(sock.id + 1) BY <1>2 DEF Numbered
<1>6. Numbered' BY <1>1, <1>2, <1>3, <1>4, <1>5 DEF Numbered
<1> QED BY <1>4, <1>6, UngreetedOnwards

(* A request asked, answered or given up; an answer handled before the greeting. *)
LEMMA AsksOnwards ==
    ASSUME CInv, NEW r \in Requester, Ask(r) \/ Answer(r) \/ RequestFails(r)
    PROVE  Onwards'
<1>1. UNCHANGED <<sock, store, owner, pending, clients, wire, published>>
  BY DEF Ask, Answer, RequestFails
<1>2. UNCHANGED <<sock, store, replay, pending, clients, run, wire, published>> /\ pc' = pc
  BY <1>1, LoopIs
<1> QED BY <1>2, StayedOnwards

LEMMA AnsweredOnwards ==
    ASSUME CInv, ~Greeted, NEW r \in Requester, Answered(r)
    PROVE  Onwards'
<1>1. /\ sock' = sock /\ pending' = pending /\ clients' = clients /\ published' = published
      /\ pc' = pc /\ run' = run /\ replay' = replay
  BY LoopIs DEF Answered
<1>2. Numbered BY DEF CInv, Onwards
<1>3. ~Greeted' BY <1>1 DEF Greeted, Served
<1>4. Numbered' BY <1>1, <1>2, <1>3 DEF Numbered
<1> QED BY <1>3, <1>4, UngreetedOnwards

LEMMA ClosedOnwards ==
    ASSUME CInv, Closed, UNCHANGED <<owner, published, pending, clients>>
    PROVE  Onwards'
<1>1. /\ pc' = pc /\ run' = run /\ replay' = replay /\ clients' = clients
      /\ pending' = pending /\ published' = published
  BY LoopIs
<1>2. Numbered /\ sock \in [id : Nat, st : {"closed", "connecting", "open"}]
  BY DEF CInv, Onwards, TInv, TypeOK, BrowserTypeOK
<1>3. sock' = [sock EXCEPT !.st = "closed"] BY DEF Closed
<1>4. sock'.id = sock.id /\ sock'.st = "closed" BY <1>2, <1>3
<1>5. ~Greeted' BY <1>4 DEF Greeted, Served
<1>6. Numbered' BY <1>1, <1>2, <1>4, <1>5 DEF Numbered
<1> QED BY <1>5, <1>6, UngreetedOnwards

(* What handling the first message changes. *)
Shifts(m) ==
    /\ Carries(m, app, tx, app', tx')
    /\ ~IsNews(m) => app' = app
    /\ IsNews(m) => app'.id = m.run /\ app'.active = m.active
    /\ Calm(m) => phase' = phase
    /\ \A r, sn \in Nat :
          m.type = "end" /\ m.run = r /\ m.snap = sn /\ IsOpen(tx, r, sn) => phase' \in LivePhase

LEMMA FirstHandled ==
    ASSUME CInv, wire # <<>>, wire' = Tail(wire), NEW m, m = Head(wire), Shifts(m),
           UNCHANGED <<owner, published, pending, clients>>,
           sock'.id = sock.id, sock'.st # "closed" <=> sock.st # "closed"
    PROVE  Onwards'
<1>1. /\ pc' = pc /\ run' = run /\ replay' = replay /\ clients' = clients
      /\ pending' = pending /\ published' = published
  BY LoopIs
<1>2. /\ Numbered /\ Followed /\ wire \in Seq(Message) /\ run.id \in Nat
      /\ replay.snap \in Nat
  BY DEF CInv, Onwards, TInv, TypeOK, DeviceTypeOK, Run, Replay
<1>3. Greeted' <=> Greeted BY <1>1 DEF Greeted, Served
<1>4. Numbered' BY <1>1, <1>2, <1>3 DEF Numbered
<1> PICK v : v = wire' OBVIOUS
<1>5. Front(v, wire, m) BY <1>2, FrontIs
<1>6. ASSUME Greeted PROVE RunTold' /\ ReplayOnItsWay'
  <2>1. RunTold /\ ReplayOnItsWay BY <1>2, <1>6 DEF Followed
  <2>2. Tells(v, app', run) BY <1>5, <2>1, TellsShrinks DEF RunTold, Shifts
  <2>3. RunTold' BY <1>1, <2>2 DEF RunTold
  <2>4. CASE replay.phase = "idle"
    <3>1. Ends(wire, app, tx, phase) BY <2>1, <2>4 DEF ReplayOnItsWay
    <3>2. Ends(v, app', tx', phase') BY <1>5, <3>1, EndsShrinks DEF Shifts
    <3> QED BY <1>1, <2>3, <2>4, <3>2 DEF ReplayOnItsWay
  <2>5. CASE replay.phase # "idle" /\ replay.run = run.id
    <3>1. Entered(wire, Len(wire), app, tx, run.id, replay.snap)
      BY <2>1, <2>5 DEF ReplayOnItsWay
    <3> PICK l \in Nat : l = Len(v) BY <1>5 DEF Front
    <3>2. l \in 0..Len(v) /\ Len(wire) = l + 1 BY <1>5 DEF Front
    <3>3. Entered(wire, l + 1, app, tx, run.id, replay.snap) BY <3>1, <3>2
    <3>4. Entered(v, l, app', tx', run.id, replay.snap)
      BY <1>2, <1>5, <3>2, <3>3, EnteredShrinks DEF Shifts
    <3> QED BY <1>1, <2>3, <2>5, <3>4 DEF ReplayOnItsWay
  <2>6. CASE replay.phase # "idle" /\ replay.run # run.id
    BY <1>1, <2>3, <2>6 DEF ReplayOnItsWay
  <2> QED BY <2>4, <2>5, <2>6
<1>7. Followed' BY <1>3, <1>6 DEF Followed
<1> QED BY <1>4, <1>7 DEF Onwards

LEMMA SnapshotIsSome == \A t \in Transaction : t # None
BY TelemetryAssumption DEF Transaction, Point, Summary

(* Every message the browser handles does no more than that. *)
LEMMA HandleShifts ==
    ASSUME TInv, NEW m \in Message, m.type \notin {"open", "close"}, Handle(m)
    PROVE  Shifts(m)
<1>1. tx \in Transaction \cup {None} /\ (tx # None => tx.run = app.id)
  BY BrowserIs DEF ShownTogether
<1>2. CASE m.type = "hello"
  <2>1. /\ app' = [id |-> m.run, active |-> m.active] /\ phase' = phase
    BY <1>2 DEF Handle, RunUpdated
  <2>2. IsNews(m) /\ ~Plain(m, app.id) /\ \A r : ~Plain(m, r) BY <1>2 DEF IsNews, Plain
  <2> QED BY <1>2, <2>1, <2>2 DEF Shifts, Carries
<1>3. CASE m.type = "state"
  <2>1. /\ app' = [id |-> m.run, active |-> m.active] /\ phase' = phase
        /\ tx' = IF app.id # m.run THEN None ELSE tx
    BY <1>3 DEF Handle, RunUpdated
  <2>2. IsNews(m) BY <1>3 DEF IsNews
  <2>3. ASSUME NEW r, NEW sn, IsOpen(tx, r, sn), Plain(m, r) PROVE IsOpen(tx', r, sn)
    <3>1. m.run = r /\ tx # None /\ tx.run = r BY <1>3, <2>3 DEF Plain, IsOpen
    <3>2. tx' = tx BY <1>1, <2>1, <3>1
    <3> QED BY <2>3, <3>2
  <2> QED BY <1>3, <2>1, <2>2, <2>3 DEF Shifts, Carries
<1>4. CASE m.type = "begin"
  <2>1. app' = app BY <1>4 DEF Handle
  <2>2. ~IsNews(m) /\ ~Calm(m) /\ \A r : ~Plain(m, r) BY <1>4 DEF IsNews, Calm, Plain
  <2>3. ASSUME NEW r \in Nat, NEW sn \in Nat, m.run = r, m.snap = sn, app.id = r
        PROVE  IsOpen(tx', r, sn)
    <3>1. tx' = [snap |-> m.snap, run |-> m.run, raw |-> {}, coarse |-> {}]
      BY <1>4, <2>3 DEF Handle
    <3>2. tx'.run = r /\ tx'.snap = sn BY <2>3, <3>1
    <3>3. tx' \in Transaction
      <4>1. m.run \in Nat /\ m.snap \in Nat BY <1>4, MessageIs
      <4> QED BY <3>1, <4>1 DEF Transaction
    <3> QED BY <3>2, <3>3, SnapshotIsSome DEF IsOpen
  <2> QED BY <1>4, <2>1, <2>2, <2>3 DEF Shifts, Carries
<1>5. CASE m.type = "history"
  <2>1. app' = app /\ phase' = phase BY <1>5 DEF Handle
  <2>2. tx' = IF ~InTransaction(m) THEN tx
              ELSE [tx EXCEPT !.raw = AllPut(@, m.raw), !.coarse = @ \cup m.coarse]
    BY <1>5 DEF Handle
  <2>3. ASSUME NEW r, NEW sn, IsOpen(tx, r, sn) PROVE IsOpen(tx', r, sn)
    <3>1. tx \in Transaction /\ tx.run = r /\ tx.snap = sn BY <1>1, <2>3 DEF IsOpen
    <3>2. CASE ~InTransaction(m) BY <2>2, <2>3, <3>2
    <3>3. CASE InTransaction(m)
      <4> PICK R : R = AllPut(tx.raw, m.raw) OBVIOUS
      <4> PICK C : C = tx.coarse \cup m.coarse OBVIOUS
      <4>1. R \in SUBSET Point /\ C \in SUBSET Summary
        BY <1>5, <3>1, MessageIs DEF Transaction, AllPut
      <4>2. tx' = [tx EXCEPT !.raw = R, !.coarse = C] BY <2>2, <3>3
      <4>3. tx' \in Transaction /\ tx'.run = r /\ tx'.snap = sn
        BY <3>1, <4>1, <4>2 DEF Transaction
      <4> QED BY <4>3, SnapshotIsSome DEF IsOpen
    <3> QED BY <3>2, <3>3
  <2> QED BY <1>5, <2>1, <2>3 DEF Shifts, Carries, IsNews
<1>6. CASE m.type = "end"
  <2>1. app' = app BY <1>6 DEF Handle
  <2>2. ~IsNews(m) /\ ~Calm(m) /\ \A r : ~Plain(m, r) BY <1>6 DEF IsNews, Calm, Plain
  <2>3. ASSUME NEW r \in Nat, NEW sn \in Nat, m.run = r, m.snap = sn, IsOpen(tx, r, sn)
        PROVE  phase' \in LivePhase
    <3>1. InTransaction(m) BY <2>3 DEF InTransaction, IsOpen
    <3> QED BY <1>6, <3>1 DEF Handle, LivePhase
  <2> QED BY <1>6, <2>1, <2>2, <2>3 DEF Shifts, Carries
<1>7. CASE m.type = "sample"
  <2>1. app' = app /\ phase' = phase /\ LiveSample(m) BY <1>7 DEF Handle
  <2>2. ASSUME NEW r, NEW sn, IsOpen(tx, r, sn) PROVE IsOpen(tx', r, sn)
    <3>1. tx \in Transaction /\ tx.run = r /\ tx.snap = sn BY <1>1, <2>2 DEF IsOpen
    <3>2. CASE tx' = tx BY <2>2, <3>2
    <3>3. CASE tx' # tx
      <4> PICK s : s = [seq |-> m.seq, in |-> m.in] OBVIOUS
      <4> PICK R : R = PutRaw(tx.raw, s) OBVIOUS
      <4>1. tx' = [tx EXCEPT !.raw = R] BY <2>1, <3>3 DEF LiveSample
      <4>2. s \in Point BY <1>7, MessageIs DEF Point
      <4>3. R \in SUBSET Point BY <3>1, <4>2 DEF PutRaw, Transaction
      <4>4. tx' \in Transaction /\ tx'.run = r /\ tx'.snap = sn
        BY <3>1, <4>1, <4>3 DEF Transaction
      <4> QED BY <4>4, SnapshotIsSome DEF IsOpen
    <3> QED BY <3>2, <3>3
  <2> QED BY <1>7, <2>1, <2>2 DEF Shifts, Carries, IsNews
<1> QED BY <1>2, <1>3, <1>4, <1>5, <1>6, <1>7, MessageIs

LEMMA ReceiveOnwards == ASSUME CInv, Receive PROVE Onwards'
<1> PICK m : m = Head(wire) OBVIOUS
<1>1. UNCHANGED <<owner, published, pending, clients>> /\ wire # <<>> BY DEF Receive
<1>2. TInv BY DEF CInv
<1>3. m \in Message BY <1>1, <1>2, DeviceIs, MessagesShrink
<1>4. sock \in [id : Nat, st : {"closed", "connecting", "open"}] BY <1>2, BrowserIs
<1>5. CASE /\ m.type = "open" /\ wire' = Tail(wire) /\ sock' = [sock EXCEPT !.st = "open"]
           /\ UNCHANGED <<timer, http, requests, app, tel, tx>>
  <2>1. app' = app /\ tx' = tx BY <1>5
  <2>2. ~IsNews(m) /\ ~Calm(m) /\ \A r : ~Plain(m, r) BY <1>5 DEF IsNews, Calm, Plain
  <2>3. Shifts(m) BY <1>5, <2>1, <2>2 DEF Shifts, Carries
  <2>4. sock'.id = sock.id /\ sock'.st = "open" BY <1>4, <1>5
  <2>5. sock.st # "closed" BY <1>1 DEF CInv, Silent
  <2> QED BY <1>1, <1>5, <2>1, <2>3, <2>4, <2>5, FirstHandled
<1>6. CASE m.type = "close" /\ Closed BY <1>1, <1>6, ClosedOnwards
<1>7. CASE /\ m.type \notin {"open", "close"} /\ wire' = Tail(wire) /\ Handle(m)
           /\ UNCHANGED transport
  <2>1. Shifts(m) BY <1>2, <1>3, <1>7, HandleShifts
  <2>2. sock' = sock BY <1>7 DEF transport
  <2> QED BY <1>1, <1>7, <2>1, <2>2, FirstHandled
<1> QED BY <1>5, <1>6, <1>7 DEF Receive

(* Nothing is on its way to a socket that is closed. *)
LEMMA SilentStays == ASSUME CInv, [Next]_vars PROVE Silent'
<1>1. TInv /\ Silent BY DEF CInv
<1>2. ASSUME sock' = sock, wire' = wire \/ \E u, c : wire' = Sent(u, c)
      PROVE  Silent'
  <2>1. sock.st = "closed" => wire' = wire BY <1>2 DEF Sent, Hears
  <2> QED BY <1>1, <1>2, <2>1 DEF Silent
<1>3. ASSUME Broadcast PROVE \E u, c : wire' = Sent(u, c) BY <1>3 DEF Broadcast, SentToAll
<1>4. CASE LoopTick
  <2>1. sock' = sock BY <1>4 DEF LoopTick, transport
  <2>2. CASE Sampled BY <1>2, <2>1, <2>2 DEF Sampled, SentToAll
  <2>3. CASE IdleSampled BY <1>2, <2>1, <2>3 DEF IdleSampled, SentToAll
  <2> QED BY <1>2, <1>3, <1>4, <2>1, <2>2, <2>3 DEF LoopTick
<1>5. CASE LoopRoutes
  <2>1. sock' = sock BY <1>5 DEF LoopRoutes, transport
  <2>2. wire' = wire \/ Broadcast BY <1>5 DEF LoopRoutes
  <2> QED BY <1>2, <1>3, <2>1, <2>2
<1>6. CASE LoopPublish BY <1>2, <1>6 DEF LoopPublish, transport
<1>7. CASE LoopReplay
  <2>1. sock' = sock BY <1>7 DEF LoopReplay, transport
  <2>2. ASSUME NEW c, StartReplay(c) PROVE wire' = wire \/ \E u, d : wire' = Sent(u, d)
    BY <2>2 DEF StartReplay
  <2>3. wire' = wire \/ \E u, c : wire' = Sent(u, c)
    <3>1. replay.phase \in {"idle", "coarse", "raw", "end"}
      BY <1>1 DEF TInv, TypeOK, DeviceTypeOK, Replay
    <3>2. CASE SendCoarse BY <3>2 DEF SendCoarse
    <3>3. CASE SendRaw BY <3>3 DEF SendRaw
    <3>4. CASE SendEnd BY <3>4 DEF SendEnd
    <3> QED BY <1>7, <2>2, <3>1, <3>2, <3>3, <3>4 DEF LoopReplay
  <2> QED BY <1>2, <2>1, <2>3
<1>8. CASE Accept BY <1>8 DEF Accept, transport, Silent
<1>9. CASE ServerLoses BY <1>2, <1>9 DEF ServerLoses, transport
<1>10. CASE OpenSocket BY <1>10 DEF OpenSocket, Silent
<1>11. CASE Closed BY <1>11 DEF Closed, Silent
<1>12. CASE Receive
  <2>1. sock.st # "closed" BY <1>1, <1>12 DEF Receive, Silent
  <2>2. sock \in [id : Nat, st : {"closed", "connecting", "open"}] BY <1>1, BrowserIs
  <2>3. CASE sock' = [sock EXCEPT !.st = "open"] BY <2>2, <2>3 DEF Silent
  <2>4. CASE UNCHANGED transport BY <2>1, <2>4 DEF transport, Silent
  <2> QED BY <1>11, <1>12, <2>3, <2>4 DEF Receive
<1>13. CASE \E r \in Requester : Ask(r) \/ Answer(r) \/ Answered(r) \/ RequestFails(r)
  BY <1>2, <1>13 DEF Ask, Answer, Answered, RequestFails
<1>14. CASE UNCHANGED vars BY <1>2, <1>14 DEF vars, transport
<1> QED BY <1>4, <1>5, <1>6, <1>7, <1>8, <1>9, <1>10, <1>11, <1>12, <1>13, <1>14
     DEF Next, Loop, SocketLost

LEMMA NextOnwards == ASSUME CInv, ~LateAnswer, [Next]_vars PROVE Onwards'
<1>1. CASE Loop
  BY <1>1, TickOnwards, RoutesOnwards, PublishOnwards, ReplayOnwards DEF Loop
<1>2. CASE Accept \/ ServerLoses \/ OpenSocket
  BY <1>2, AcceptOnwards, ServerLosesOnwards, OpenSocketOnwards
<1>3. CASE SocketLost BY <1>3, ClosedOnwards DEF SocketLost
<1>4. CASE Receive BY <1>4, ReceiveOnwards
<1>5. CASE \E r \in Requester : Ask(r) \/ Answer(r) \/ Answered(r) \/ RequestFails(r)
  BY <1>5, AsksOnwards, AnsweredOnwards DEF LateAnswer
<1>6. CASE UNCHANGED vars BY <1>6, StayedOnwards DEF vars, owner, transport
<1> QED BY <1>1, <1>2, <1>3, <1>4, <1>5, <1>6 DEF Next

LEMMA CInvInit == ASSUME Init PROVE CInv
<1>1. /\ pc = "tick" /\ run = [id |-> 0, active |-> FALSE, seq |-> 0] /\ replay = IdleReplay
      /\ pending = 0 /\ clients = {} /\ wire = <<>>
      /\ sock = [id |-> 0, st |-> "closed"]
  BY DEF Init
<1>2. ~Greeted BY <1>1 DEF Greeted, Served
<1>3. Numbered
  <2>1. replay.run = 0 /\ run.id = 0 /\ sock.id = 0 BY <1>1 DEF IdleReplay
  <2> QED BY <1>1, <1>2, <2>1 DEF Numbered
<1>4. Silent BY <1>1 DEF Silent
<1> QED BY <1>2, <1>3, <1>4, InitTInv DEF CInv, Onwards, Followed

(* A browser that has been greeted is told the device's run, and a replay once begun
   reaches it whole or is begun again, whatever runs begin and end, sockets are lost and
   chunks wait meanwhile; as long as no answer to a state request is handled after the
   greeting. *)
THEOREM ReplayInvariant == Spec /\ [][~LateAnswer]_vars => []CInv
<1>1. Init => CInv BY CInvInit
<1>2. CInv /\ [Next]_vars /\ [~LateAnswer]_vars => CInv'
  <2> SUFFICES ASSUME CInv, [Next]_vars, [~LateAnswer]_vars PROVE CInv' OBVIOUS
  <2>1. TInv' BY NextSteps, SteppedKeeps DEF CInv
  <2>2. Silent' BY SilentStays
  <2>3. Onwards'
    <3>1. CASE ~LateAnswer BY <3>1, NextOnwards
    <3>2. CASE UNCHANGED vars
      <4>1. UNCHANGED <<sock, store, replay, pending, clients, run, wire, published>>
            /\ pc' = pc
        BY <3>2 DEF vars, owner, transport
      <4> QED BY <4>1, StayedOnwards
    <3> QED BY <3>1, <3>2
  <2> QED BY <2>1, <2>2, <2>3 DEF CInv
<1> QED BY <1>1, <1>2, PTL DEF Spec

LEMMA QuietIs ==
    ASSUME CInv, Quiet
    PROVE  app = [id |-> run.id, active |-> run.active] /\ phase \in LivePhase
<1>1. Greeted
  <2>1. sock.id \in clients /\ sock.st = "open" /\ pending = 0 BY DEF Quiet
  <2>2. sock.id # 0 BY <2>1 DEF CInv, Onwards, Numbered
  <2> QED BY <2>1, <2>2 DEF Greeted, Served
<1>2. RunTold /\ ReplayOnItsWay BY <1>1 DEF CInv, Onwards, Followed
<1>3. wire = <<>> /\ Len(wire) = 0 /\ replay.phase = "idle" BY DEF Quiet
<1>4. app.id = run.id /\ app.active = run.active
  <2>1. ~\E i \in 1..0 : TRUE OBVIOUS
  <2> QED BY <1>2, <1>3, <2>1 DEF RunTold, Tells
<1>5. app = [id |-> run.id, active |-> run.active]
  <2>1. app \in [id : Nat, active : BOOLEAN] BY BrowserIs DEF CInv
  <2> QED BY <1>4, <2>1
<1>6. Ends(wire, app, tx, phase) BY <1>2, <1>3 DEF ReplayOnItsWay
<1>7. phase \in LivePhase
  <2>1. ~\E e \in 1..0 : TRUE OBVIOUS
  <2> QED BY <1>3, <1>6, <2>1 DEF Ends
<1> QED BY <1>5, <1>7

(* When nothing is on its way to the browser it shows the device's run, and no longer
   waits for the snapshot.  (An answer handled after the
   greeting sets it back.) *)
THEOREM BrowserCatchesUp == Spec /\ [][~LateAnswer]_vars => []CaughtUp
<1>1. CInv => CaughtUp
  BY QuietIs DEF CaughtUp, RunAgreed, SnapshotOver, LivePhase
<1> QED BY <1>1, ReplayInvariant, PTL

(* And what it shows then was measured in the run it names, unless a Start failed
   after taking its run id. *)
THEOREM ShownIsOfItsRun == Spec /\ [][~LateAnswer]_vars => []ShownUnderItsRun
<1>1. CInv => ShownUnderItsRun
  <2> SUFFICES ASSUME CInv PROVE ShownUnderItsRun OBVIOUS
  <2>1. TInv BY DEF CInv
  <2>2. tel.run = app.id /\ (tx # None => tx.run = app.id)
    BY <2>1, BrowserIs DEF ShownTogether
  <2>3. ASSUME NEW p \in tel.raw \cup tel.coarse, NEW q \in tel.raw \cup tel.coarse
        PROVE  p.in = q.in
    <3>1. <<tel.run, p.in>> \in Told /\ <<tel.run, q.in>> \in Told BY <2>1, ShownIsTold
    <3> QED BY <2>1, <3>1 DEF TInv, Labelled, Agree
  <2>4. ASSUME Quiet, hist.runId = run.id, NEW p \in tel.raw \cup tel.coarse
        PROVE  p.in = tel.run
    <3>1. app = [id |-> run.id, active |-> run.active] BY <2>4, QuietIs
    <3>2. tel.run = run.id BY <2>2, <3>1
    <3>3. <<tel.run, p.in>> \in Told BY <2>1, ShownIsTold
    <3>4. p.in = hist.runId BY <2>1, <3>2, <3>3 DEF TInv, Labelled, Agree
    <3> QED BY <2>4, <3>2, <3>4
  <2> QED BY <2>2, <2>3, <2>4 DEF ShownUnderItsRun
<1> QED BY <1>1, ReplayInvariant, PTL

-----------------------------------------------------------------------------
(* What the browser's graph will hold.
   Of the run's n samples the ring holds the newest, oldest first, and the buckets
   follow each other up to the newest sample. *)
InRing(w, n) ==
    /\ Len(w.raw) <= n /\ Len(w.raw) <= RawCap /\ (Len(w.raw) < n => Len(w.raw) = RawCap)
    /\ \A i \in 1..Len(w.raw) : w.raw[i].seq = n - Len(w.raw) + i
Samples(ms, n) == {s \in 1..n : ms <= s /\ s < ms + Resolution}
Reaches(ms, n) == ms <= n /\ n < ms + Resolution
InBuckets(w, n, active) ==
    LET l == Len(w.coarse)
    IN  /\ l <= CoarseCap
        /\ \A i \in 1..l : w.coarse[i].of = Samples(w.coarse[i].ms, n)
        /\ \A i \in 1..l : w.coarse[i].ms = w.coarse[1].ms + (i - 1) * Resolution
        /\ w.bucket.open => /\ n > 0 /\ w.bucket.ms = Slot([ms |-> n])
                            /\ w.bucket.of = Samples(w.bucket.ms, n)
                            /\ l > 0 => w.bucket.ms = w.coarse[l].ms + Resolution
        /\ ~w.bucket.open => \/ n = 0 /\ l = 0
                             \/ n > 0 /\ l > 0 /\ ~active /\ Reaches(w.coarse[l].ms, n)
Held(w, n) == (n - Len(w.raw) + 1)..n
Kept ==
    /\ run.id = 0 => run.seq = 0
    /\ hist.runId = run.id => InRing(hist, run.seq) /\ InBuckets(hist, run.seq, run.active)

(* A graph of these samples holds what the ring h holds, and has no hole. *)
Whole(S, h, n) ==
    /\ Held(h, n) \subseteq S
    /\ \A i \in 1..n : (\E k \in S : k <= i) => i \in S

(* What the messages of a run bring. *)
Points(t) == {s.seq : s \in t.raw} \cup UNION {c.of : c \in t.coarse}
Brings(m, r) ==
    IF m.type = "sample" /\ m.run = r THEN {m.seq}
    ELSE IF m.type = "history" THEN Points(m) ELSE {}
Sum(w, k, n, r) == UNION {Brings(w[j], r) : j \in (k + 1)..n}

(* Before the i-th message of w the browser, which shows a, has been told run r. *)
Saw(w, i, a, r, active) ==
    \/ /\ \A j \in 1..(i - 1) : ~IsNews(w[j])
       /\ a.id = r /\ a.active = active
    \/ \E j \in 1..(i - 1) :
          /\ IsNews(w[j]) /\ w[j].run = r /\ w[j].active = active
          /\ \A k \in (j + 1)..(i - 1) : ~IsNews(w[k])

(* Messages that at most add to what the browser has of run r: samples it will show,
   the state of that run, chunks of the snapshots H. *)
Fits(w, i, a, r, H) ==
    \/ w[i].type = "sample" /\ (w[i].run = r => Saw(w, i, a, r, TRUE))
    \/ w[i].type = "state" /\ w[i].run = r
    \/ w[i].type = "history" /\ w[i].run = r /\ w[i].snap \in H
Trail(w, k, n, a, r, H) == \A j \in (k + 1)..n : Fits(w, j, a, r, H)

(* The snapshot sn is open from the k-th message on, and holds this after the n-th. *)
Gathers(w, k, n, a, t, r, sn) ==
    /\ k = 0 => IsOpen(t, r, sn)
    /\ k > 0 => Opens(w, k, a, r, sn)
    /\ Trail(w, k, n, a, r, {sn})
Coll(w, k, n, t, r) == (IF k = 0 THEN Points(t) ELSE {}) \cup Sum(w, k, n, r)

(* The graph is of run r from the p-th message on, and holds this then: what it shows
   before any message, nothing once the run is new, or what a snapshot gathered. *)
Settled(w, p, k, a, t, r) ==
    \/ p = 0 /\ a.id = r /\ t = None
    \/ /\ p > 0 /\ w[p].type = "state" /\ w[p].run = r
       /\ ~Saw(w, p, a, r, TRUE) /\ ~Saw(w, p, a, r, FALSE)
    \/ /\ p > 0 /\ w[p].type = "end" /\ w[p].run = r
       /\ k < p /\ Gathers(w, k, p - 1, a, t, r, w[p].snap)
Base(w, p, k, t, g, r) ==
    IF p = 0 THEN Points(g) ELSE IF w[p].type = "state" THEN {} ELSE Coll(w, k, p - 1, t, r)
Results(w, a, t, g, r, h, n) ==
    \E p \in 0..Len(w), k \in 0..Len(w) :
       /\ Settled(w, p, k, a, t, r)
       /\ Trail(w, p, Len(w), a, r, {})
       /\ Whole(Base(w, p, k, t, g, r) \cup Sum(w, p, Len(w), r), h, n)

(* What a replay has still to send; with what is gathered it makes a whole graph. *)
RawLeft(p, h, n) ==
    IF p.phase \in {"coarse", "raw"} THEN {i \in Held(h, n) : i > p.after /\ i <= p.through}
    ELSE {}
Left(p, h) == {i \in 1..Len(h.coarse) : h.coarse[i].ms >= p.from /\ h.coarse[i].ms <= p.throughMs}
CoarseLeft(p, h) == IF p.phase = "coarse" THEN UNION {h.coarse[i].of : i \in Left(p, h)} ELSE {}
InTime(C, p, h, n) ==
    /\ p.after = 0 /\ p.through > 0
    /\ Len(h.raw) = n \/ p.through = n
    /\ Len(h.coarse) > 0 /\ h.coarse[Len(h.coarse)].ms >= p.throughMs
    /\ \/ Len(h.raw) = n \/ ~h.bucket.open \/ h.coarse[1].ms < p.from
       \/ C \subseteq (p.through + 1)..n
Sends(C, p, h, n) ==
    /\ p.through <= n
    /\ (p.through + 1)..n \subseteq C
    /\ Whole(C \cup RawLeft(p, h, n) \cup CoarseLeft(p, h), h, n)
    /\ p.phase = "coarse" => InTime(C, p, h, n)
Replays(w, a, t, r, p, h, n) ==
    \E k \in 0..Len(w) : /\ Gathers(w, k, Len(w), a, t, r, p.snap)
                         /\ Sends(Coll(w, k, Len(w), t, r), p, h, n)

(* The graph of a browser that has been greeted is, or will be, whole. *)
Delivers ==
    Greeted /\ hist.runId = run.id /\ run.id # 0 /\ ~overrun =>
       /\ replay.phase = "idle" => Results(wire, app, tx, tel, run.id, hist, run.seq)
       /\ replay.phase # "idle" /\ replay.run = run.id =>
             Replays(wire, app, tx, run.id, replay, hist, run.seq)

-----------------------------------------------------------------------------
LEMMA SlotReaches ==
    ASSUME NEW n \in Nat
    PROVE  \E t \in Nat :
              /\ Slot([ms |-> n]) = t /\ t <= n /\ n < t + Resolution
              /\ Slot([ms |-> n + 1]) = IF n + 1 < t + Resolution THEN t ELSE t + Resolution
<1>1. PICK R \in Nat \ {0} : R = Resolution BY WindowAssumption
<1>2. PICK a \in Nat, b \in Nat : a = n \div R /\ b = (n + 1) \div R BY <1>1
<1>3. /\ a * R \in Nat /\ b * R \in Nat /\ a * R <= n /\ n < a * R + R
      /\ b * R <= n + 1 /\ n + 1 < b * R + R
  BY <1>2
<1>4. Slot([ms |-> n]) = a * R /\ Slot([ms |-> n + 1]) = b * R BY <1>1, <1>2 DEF Slot
<1>5. CASE n + 1 < a * R + R
  <2>1. a <= b
    <3> SUFFICES ASSUME b + 1 <= a PROVE FALSE OBVIOUS
    <3>1. (b + 1) * R <= a * R OBVIOUS
    <3>2. (b + 1) * R = b * R + R OBVIOUS
    <3> QED BY <1>3, <3>1, <3>2
  <2>2. b <= a
    <3> SUFFICES ASSUME a + 1 <= b PROVE FALSE OBVIOUS
    <3>1. (a + 1) * R <= b * R OBVIOUS
    <3>2. (a + 1) * R = a * R + R OBVIOUS
    <3> QED BY <1>3, <1>5, <3>1, <3>2
  <2>3. a = b BY <2>1, <2>2
  <2> QED BY <1>1, <1>3, <1>4, <1>5, <2>3
<1>6. CASE ~(n + 1 < a * R + R)
  <2>1. n + 1 = a * R + R BY <1>3, <1>6
  <2>2. (a + 1) * R = a * R + R OBVIOUS
  <2>3. a + 1 <= b
    <3> SUFFICES ASSUME b + 1 <= a + 1 PROVE FALSE OBVIOUS
    <3>1. (b + 1) * R <= (a + 1) * R OBVIOUS
    <3>2. (b + 1) * R = b * R + R OBVIOUS
    <3> QED BY <1>3, <2>1, <2>2, <3>1, <3>2
  <2>4. b <= a + 1
    <3> SUFFICES ASSUME a + 2 <= b PROVE FALSE OBVIOUS
    <3>1. (a + 2) * R <= b * R OBVIOUS
    <3>2. (a + 2) * R = a * R + R + R OBVIOUS
    <3> QED BY <1>3, <2>1, <3>1, <3>2
  <2>5. b = a + 1 BY <2>3, <2>4
  <2>6. b * R = a * R + R BY <2>2, <2>5
  <2> QED BY <1>1, <1>3, <1>4, <1>6, <2>6
<1> QED BY <1>5, <1>6

LEMMA SlotIs ==
    ASSUME NEW n \in Nat
    PROVE  Slot([ms |-> n]) \in Nat /\ Slot([ms |-> n]) <= n /\ n < Slot([ms |-> n]) + Resolution
<1>1. PICK t \in Nat : Slot([ms |-> n]) = t /\ t <= n /\ n < t + Resolution BY SlotReaches
<1> QED BY <1>1

(* A list cut to its newest entries loses its first one at most. *)
Cut(u, d, s, x, cap) ==
    /\ u = Newest(cap, Append(s, x)) /\ (d = 1 <=> Len(s) = cap)
    /\ Len(u) \in Nat /\ Len(s) \in Nat
    /\ Len(u) = Len(s) + 1 - d /\ Len(u) > 0 /\ Len(u) <= cap /\ u[Len(u)] = x
    /\ \A i \in 1..(Len(u) - 1) : i + d \in 1..Len(s) /\ u[i] = s[i + d]
LEMMA NewestDrops ==
    ASSUME NEW S, NEW s \in Seq(S), NEW x \in S, NEW cap \in Nat \ {0}, Len(s) <= cap
    PROVE  \E u \in Seq(S), d \in 0..1 : Cut(u, d, s, x, cap)
<1> PICK l \in Nat : l = Len(s) OBVIOUS
<1> PICK a : a = Append(s, x) OBVIOUS
<1>1. /\ a \in Seq(S) /\ Len(a) = l + 1 /\ a[l + 1] = x /\ \A i \in 1..l : a[i] = s[i]
  OBVIOUS
<1> PICK d \in 0..1 : (d = 1 <=> l = cap) 
  <2>1. CASE l = cap
    <3>1. 1 \in 0..1 /\ (1 = 1 <=> l = cap) BY <2>1
    <3> QED BY <3>1
  <2>2. CASE l # cap
    <3>1. 0 \in 0..1 /\ (0 = 1 <=> l = cap) BY <2>2
    <3> QED BY <3>1
  <2> QED BY <2>1, <2>2
<1>2. Newest(cap, a) = SubSeq(a, d + 1, l + 1)
  <2>1. Len(a) > cap <=> d = 1 BY <1>1
  <2>2. d = 1 => Len(a) - cap + 1 = d + 1 BY <1>1
  <2>3. d # 1 => 1 = d + 1 OBVIOUS
  <2>4. (IF Len(a) > cap THEN Len(a) - cap + 1 ELSE 1) = d + 1 BY <2>1, <2>2, <2>3
  <2> QED BY <1>1, <2>4 DEF Newest
<1> PICK u : u = SubSeq(a, d + 1, l + 1) OBVIOUS
<1>3. /\ u \in Seq(S) /\ Len(u) = l + 1 - d
      /\ \A i \in 1..(l + 1 - d) : u[i] = a[d + i]
  <2>1. d + 1 <= l + 1 /\ d + 1 \in 1..(l + 1) OBVIOUS
  <2>2. \A i \in (d + 1)..(l + 1) : a[i] \in S BY <1>1
  <2>3. SubSeq(a, d + 1, l + 1) \in Seq(S) BY <1>1, <2>1
  <2>4. Len(u) = (l + 1) - (d + 1) + 1 BY <1>1, <2>1
  <2>5. \A i \in 1..((l + 1) - (d + 1) + 1) : u[i] = a[(d + 1) + i - 1] BY <1>1, <2>1
  <2>6. (l + 1) - (d + 1) + 1 = l + 1 - d /\ \A i \in Nat : (d + 1) + i - 1 = d + i OBVIOUS
  <2>7. \A i \in 1..(l + 1 - d) : i \in Nat /\ u[i] = a[(d + 1) + i - 1] BY <2>5, <2>6
  <2> QED BY <2>3, <2>4, <2>6, <2>7
<1>4. l + 1 - d > 0 /\ l + 1 - d <= cap /\ l + 1 - d \in 1..(l + 1 - d)
      /\ d + (l + 1 - d) = l + 1
  OBVIOUS
<1>5. u[l + 1 - d] = x BY <1>1, <1>3, <1>4
<1>6. \A i \in 1..((l + 1 - d) - 1) :
         i + d \in 1..l /\ i \in 1..(l + 1 - d) /\ d + i = i + d
  OBVIOUS
<1>7. \A i \in 1..((l + 1 - d) - 1) : i + d \in 1..l /\ u[i] = s[i + d] BY <1>1, <1>3, <1>6
<1>8. Cut(u, d, s, x, cap)  BY <1>2, <1>3, <1>4, <1>5, <1>7 DEF Cut
<1> QED BY <1>3, <1>8

LEMMA RawFollows ==
    ASSUME NEW w \in Windows, NEW n \in Nat, InRing(w, n), NEW s \in Reading, s.seq = n + 1
    PROVE  LET u == [w EXCEPT !.raw = Newest(RawCap, Append(@, s))]
           IN  u \in Windows /\ InRing(u, n + 1) /\ u.coarse = w.coarse /\ u.bucket = w.bucket
               /\ Len(u.raw) >= Len(w.raw) /\ (Len(w.raw) # RawCap => Len(u.raw) = Len(w.raw) + 1)
               /\ u.runId = w.runId
<1>1. w.raw \in Seq(Reading) /\ RawCap \in Nat \ {0} BY WindowAssumption DEF Windows
<1> PICK l \in Nat : l = Len(w.raw) BY <1>1
<1>2. /\ l <= n /\ l <= RawCap /\ (l < n => l = RawCap)
      /\ \A i \in 1..l : w.raw[i].seq = n - l + i
  BY DEF InRing
<1>0. Len(w.raw) <= RawCap BY <1>2
<1>9. PICK v, d : v \in Seq(Reading) /\ d \in 0..1 /\ Cut(v, d, w.raw, s, RawCap)
  BY ONLY <1>0, <1>1, s \in Reading, NewestDrops
<1> PICK m \in Nat : m = Len(v) BY <1>9 DEF Cut
<1>3. d \in 0..1 /\ m = l + 1 - d /\ m <= RawCap /\ m > 0 /\ (d = 1 <=> l = RawCap)
  BY <1>9 DEF Cut
<1>4. m <= n + 1 /\ (m < n + 1 => m = RawCap) BY <1>1, <1>2, <1>3
<1>5. ASSUME NEW i \in 1..m PROVE v[i].seq = n + 1 - m + i
  <2>1. CASE i = m
    <3>1. v[i] = s BY <1>9, <2>1 DEF Cut
    <3> QED BY <2>1, <3>1
  <2>2. CASE i # m
    <3>1. i \in 1..(m - 1) BY <2>2
    <3>2. i + d \in 1..l /\ v[i] = w.raw[i + d] BY <1>9, <3>1 DEF Cut
    <3>3. v[i].seq = n - l + (i + d) BY <1>2, <3>2
    <3> QED BY <1>3, <3>3
  <2> QED BY <2>1, <2>2
<1> PICK u : u = [w EXCEPT !.raw = v] OBVIOUS
<1>6. v = Newest(RawCap, Append(w.raw, s)) BY <1>9 DEF Cut
<1>7. u \in Windows /\ u.raw = v /\ u.coarse = w.coarse /\ u.bucket = w.bucket
      /\ u.runId = w.runId
  BY <1>9 DEF Windows
<1>8. InRing(u, n + 1)
  <2>1. Len(u.raw) = m /\ \A i \in 1..m : u.raw[i].seq = n + 1 - m + i BY <1>5, <1>7
  <2> QED BY <1>3, <1>4, <2>1 DEF InRing
<1>10. m >= l /\ (l # RawCap => m = l + 1) BY <1>3
<1> QED BY <1>6, <1>7, <1>8, <1>10

-----------------------------------------------------------------------------
(* Finished buckets stand a bucket's time apart and leave no time out. *)
Steady(ms, l) == ms \in [1..l -> Nat] /\ \A i \in 1..l : ms[i] = ms[1] + (i - 1) * Resolution
Times(w) == [i \in 1..Len(w.coarse) |-> w.coarse[i].ms]

LEMMA SteadyIs ==
    ASSUME NEW l \in Nat, NEW ms, Steady(ms, l)
    PROVE  /\ \A i, j \in 1..l : i < j => ms[i] + Resolution <= ms[j]
           /\ \A i \in 1..(l - 1) : ms[i + 1] = ms[i] + Resolution
           /\ \A t \in Nat : l > 0 /\ ms[1] <= t /\ t < ms[l] + Resolution =>
                 \E j \in 1..l : ms[j] <= t /\ t < ms[j] + Resolution
<1>1. PICK R \in Nat \ {0} : R = Resolution BY WindowAssumption
<1>2. ms \in [1..l -> Nat] /\ \A i \in 1..l : ms[i] = ms[1] + (i - 1) * R
  BY <1>1 DEF Steady
<1>3. \A i \in 1..l : ms[i] \in Nat BY <1>2
<1>4. ASSUME NEW i \in 1..l, NEW j \in 1..l, i < j PROVE ms[i] + R <= ms[j]
  <2>1. PICK k \in Nat, e \in Nat : k = i - 1 /\ j - 1 = k + 1 + e
    <3>1. i - 1 \in Nat /\ j - i - 1 \in Nat /\ j - 1 = (i - 1) + 1 + (j - i - 1) BY <1>4
    <3> QED BY <3>1
  <2>2. (k + 1 + e) * R = k * R + R + e * R /\ e * R \in Nat /\ k * R \in Nat BY <2>1
  <2>3. 1 \in 1..l OBVIOUS
  <2>4. ms[i] = ms[1] + k * R /\ ms[j] = ms[1] + (k + 1 + e) * R BY <1>2, <2>1
  <2>5. ms[1] \in Nat BY <1>3, <2>3
  <2> QED BY <1>1, <2>2, <2>4, <2>5
<1>5. ASSUME NEW i \in 1..(l - 1) PROVE ms[i + 1] = ms[i] + R
  <2>1. i \in 1..l /\ i + 1 \in 1..l /\ (i + 1) - 1 = (i - 1) + 1 /\ 1 \in 1..l OBVIOUS
  <2>2. PICK k \in Nat : k = i - 1 OBVIOUS
  <2>3. (k + 1) * R = k * R + R /\ k * R \in Nat BY <2>2, <1>1
  <2>4. ms[i] = ms[1] + k * R /\ ms[i + 1] = ms[1] + (k + 1) * R BY <1>2, <2>1, <2>2
  <2>5. ms[1] \in Nat BY <1>3, <2>1
  <2> QED BY <1>1, <2>3, <2>4, <2>5
<1>6. ASSUME NEW t \in Nat, l > 0, ms[1] <= t, t < ms[l] + R
      PROVE  \E j \in 1..l : ms[j] <= t /\ t < ms[j] + R
  <2>1. 1 \in 1..l /\ l \in 1..l BY <1>6
  <2>2. ms[1] \in Nat /\ ms[l] = ms[1] + (l - 1) * R BY <1>2, <1>3, <2>1
  <2>3. PICK a \in Nat, k \in Nat : a = ms[1] /\ k = l - 1 BY <1>6, <2>2
  <2>4. PICK x \in Nat : t = a + x
    <3>1. t - a \in Nat /\ t = a + (t - a) BY <1>6, <2>3
    <3> QED BY <3>1
  <2>5. PICK q \in Nat : q = x \div R BY <1>1
  <2>6. q * R \in Nat /\ q * R <= x /\ x < q * R + R BY <1>1, <2>5
  <2>7. x < k * R + R /\ k * R \in Nat BY <1>1, <1>6, <2>2, <2>3, <2>4
  <2>8. q <= k
    <3> SUFFICES ASSUME k + 1 <= q PROVE FALSE BY <2>3, <2>5
    <3>1. (k + 1) * R <= q * R BY <1>1
    <3>2. (k + 1) * R = k * R + R BY <1>1
    <3> QED BY <2>6, <2>7, <3>1, <3>2
  <2>9. PICK j \in 1..l : j - 1 = q
    <3>1. q + 1 \in 1..l /\ (q + 1) - 1 = q BY <2>3, <2>8
    <3> QED BY <3>1
  <2>10. ms[j] = a + q * R BY <1>2, <2>3, <2>9
  <2> QED BY <1>1, <2>4, <2>6, <2>10
<1> QED BY <1>1, <1>4, <1>5, <1>6

LEMMA TimesAre ==
    ASSUME NEW w \in Windows, NEW n, NEW active, InBuckets(w, n, active)
    PROVE  /\ Steady(Times(w), Len(w.coarse)) /\ Len(w.coarse) \in Nat
           /\ \A i \in 1..Len(w.coarse) : Times(w)[i] = w.coarse[i].ms /\ w.coarse[i].ms \in Nat
<1>1. w.coarse \in Seq(CoarseSample) BY DEF Windows
<1>2. \A c \in CoarseSample : c.ms \in Nat BY DEF CoarseSample
<1>3. \A i \in 1..Len(w.coarse) : w.coarse[i].ms \in Nat BY <1>1, <1>2
<1>4. \A i \in 1..Len(w.coarse) : w.coarse[i].ms = w.coarse[1].ms + (i - 1) * Resolution
  BY DEF InBuckets
<1>5. PICK l \in Nat : l = Len(w.coarse) BY <1>1
<1>6. Times(w) = [i \in 1..l |-> w.coarse[i].ms] BY <1>5 DEF Times
<1>7. Times(w) \in [1..l -> Nat] /\ \A i \in 1..l : Times(w)[i] = w.coarse[i].ms
  BY <1>3, <1>5, <1>6
<1>8. \A i \in 1..l : 1 \in 1..l OBVIOUS
<1>9. Steady(Times(w), l) BY <1>4, <1>5, <1>7, <1>8 DEF Steady
<1> QED BY <1>3, <1>5, <1>7, <1>9

-----------------------------------------------------------------------------
(* The open bucket finished. *)
LEMMA FinalizedIs ==
    ASSUME NEW w \in Windows, w.bucket.open, Len(w.coarse) <= CoarseCap
    PROVE  \E c, d :
              /\ c \in CoarseSample /\ c.ms = w.bucket.ms /\ c.of = w.bucket.of
              /\ d \in 0..1 /\ Cut(Finalize(w).coarse, d, w.coarse, c, CoarseCap)
              /\ Finalize(w) \in Windows /\ Finalize(w).raw = w.raw
              /\ Finalize(w).runId = w.runId /\ Finalize(w).bucket = NoBucket
<1>1. /\ w.coarse \in Seq(CoarseSample) /\ CoarseCap \in Nat \ {0}
      /\ w.runId \in Nat /\ w.bucket \in BucketRecord
  BY WindowAssumption DEF Windows
<1> PICK c : c = [runId |-> w.runId, ms |-> w.bucket.ms, of |-> w.bucket.of,
                  fault |-> w.bucket.fault]
  OBVIOUS
<1>2. c \in CoarseSample /\ c.ms = w.bucket.ms /\ c.of = w.bucket.of
  BY <1>1 DEF BucketRecord, CoarseSample
<1>3. PICK u, d : u \in Seq(CoarseSample) /\ d \in 0..1 /\ Cut(u, d, w.coarse, c, CoarseCap)
  BY ONLY <1>1, <1>2, Len(w.coarse) <= CoarseCap, NewestDrops
<1>4. Finalize(w) = [w EXCEPT !.coarse = u, !.bucket = NoBucket] BY <1>3 DEF Finalize, Cut
<1>5. NoBucket \in BucketRecord BY DEF NoBucket, BucketRecord
<1>6. /\ Finalize(w) \in Windows /\ Finalize(w).raw = w.raw /\ Finalize(w).coarse = u
      /\ Finalize(w).runId = w.runId /\ Finalize(w).bucket = NoBucket
  BY <1>3, <1>4, <1>5 DEF Windows
<1> QED BY <1>2, <1>3, <1>6

(* The list's last bucket is no earlier than that of the list before. *)
Later(u, w) ==
    Len(w.coarse) > 0 =>
       Len(u.coarse) > 0 /\ u.coarse[Len(u.coarse)].ms >= w.coarse[Len(w.coarse)].ms

LEMMA FinalizeFollows ==
    ASSUME NEW w \in Windows, NEW n \in Nat, NEW active, InBuckets(w, n, active), w.bucket.open
    PROVE  /\ InBuckets(Finalize(w), n, FALSE) /\ Later(Finalize(w), w)
           /\ Len(Finalize(w).coarse) > 0 
           /\ Finalize(w).coarse[Len(Finalize(w).coarse)].ms = w.bucket.ms
<1>1. PICK l \in Nat, R \in Nat \ {0} : l = Len(w.coarse) /\ R = Resolution
  BY WindowAssumption DEF Windows
<1>2. /\ l <= CoarseCap
      /\ \A i \in 1..l : w.coarse[i].of = Samples(w.coarse[i].ms, n)
      /\ \A i \in 1..l : w.coarse[i].ms = w.coarse[1].ms + (i - 1) * R
      /\ n > 0 /\ w.bucket.ms = Slot([ms |-> n]) /\ w.bucket.of = Samples(w.bucket.ms, n)
      /\ l > 0 => w.bucket.ms = w.coarse[l].ms + R
  BY <1>1 DEF InBuckets
<1>3. PICK c, d :
        /\ c \in CoarseSample /\ c.ms = w.bucket.ms /\ c.of = w.bucket.of
        /\ d \in 0..1 /\ Cut(Finalize(w).coarse, d, w.coarse, c, CoarseCap)
        /\ Finalize(w) \in Windows /\ Finalize(w).raw = w.raw
        /\ Finalize(w).runId = w.runId /\ Finalize(w).bucket = NoBucket
  BY <1>1, <1>2, FinalizedIs
<1>4. PICK u : u = Finalize(w).coarse OBVIOUS
<1>5. PICK m \in Nat : m = Len(u) BY <1>3, <1>4 DEF Cut
<1>6. /\ m = l + 1 - d /\ m > 0 /\ m <= CoarseCap /\ u[m] = c /\ (d = 1 => l > 0)
      /\ \A i \in 1..(m - 1) : i + d \in 1..l /\ u[i] = w.coarse[i + d]
  <2>1. CoarseCap \in Nat \ {0} BY WindowAssumption
  <2> QED BY <1>1, <1>3, <1>4, <1>5, <2>1 DEF Cut
<1>7. \A i \in 1..l : w.coarse[i].ms \in Nat BY <1>1, TimesAre
<1>8. ASSUME NEW i \in 1..m PROVE u[i].of = Samples(u[i].ms, n)
  <2>1. CASE i = m BY <1>2, <1>3, <1>6, <2>1
  <2>2. CASE i # m
    <3>1. i \in 1..(m - 1) BY <2>2
    <3> QED BY <1>2, <1>6, <3>1
  <2> QED BY <2>1, <2>2
<1>9. ASSUME NEW i \in 1..m PROVE u[i].ms = u[1].ms + (i - 1) * R
  <2>1. CASE m = 1
    <3>1. i = 1 /\ (i - 1) * R = 0 BY <1>1, <2>1
    <3>2. u[1].ms \in Nat BY <1>3, <1>6, <2>1 DEF CoarseSample
    <3> QED BY <3>1, <3>2
  <2>2. CASE m # 1
    <3>1. d \in 0..1 BY <1>3
    <3>2. 1 \in 1..(m - 1) /\ l > 0 BY <1>6, <2>2, <3>1
    <3>3. 1 + d \in 1..l /\ u[1] = w.coarse[1 + d] BY <1>6, <3>2
    <3>4. PICK a \in Nat : a = w.coarse[1].ms BY <1>7, <3>2
    <3>5. u[1].ms = a + d * R
      <4>1. w.coarse[1 + d].ms = a + ((1 + d) - 1) * R BY <1>2, <3>3, <3>4
      <4>2. (1 + d) - 1 = d BY <3>1
      <4> QED BY <3>3, <4>1, <4>2
    <3>6. u[i].ms = a + (i - 1 + d) * R
      <4>1. CASE i = m
        <5>1. u[i].ms = w.coarse[l].ms + R BY <1>2, <1>3, <1>6, <3>2, <4>1
        <5>2. w.coarse[l].ms = a + (l - 1) * R BY <1>2, <3>2, <3>4
        <5>3. PICK k \in Nat : k = l - 1 BY <3>2
        <5>4. (k + 1) * R = k * R + R /\ k * R \in Nat BY <1>1, <5>3
        <5>5. k + 1 = i - 1 + d BY <1>6, <3>1, <4>1, <5>3
        <5> QED BY <1>1, <5>1, <5>2, <5>3, <5>4, <5>5
      <4>2. CASE i # m
        <5>1. i \in 1..(m - 1) BY <4>2
        <5>2. i + d \in 1..l /\ u[i] = w.coarse[i + d] BY <1>6, <5>1
        <5>3. w.coarse[i + d].ms = a + ((i + d) - 1) * R BY <1>2, <3>4, <5>2
        <5>4. (i + d) - 1 = i - 1 + d BY <3>1
        <5> QED BY <5>2, <5>3, <5>4
      <4> QED BY <4>1, <4>2
    <3>7. PICK k \in Nat : k = i - 1 OBVIOUS
    <3>8. (k + d) * R = k * R + d * R /\ k * R \in Nat /\ d * R \in Nat BY <1>1, <3>1
    <3> QED BY <3>5, <3>6, <3>7, <3>8
  <2> QED BY <2>1, <2>2
<1>10. Reaches(u[m].ms, n)
  <2>1. u[m].ms = Slot([ms |-> n]) BY <1>2, <1>3, <1>6
  <2> QED BY <2>1, SlotReaches DEF Reaches
<1>11. InBuckets(Finalize(w), n, FALSE)
  <2>1. ~Finalize(w).bucket.open BY <1>3 DEF NoBucket
  <2> QED BY <1>1, <1>2, <1>4, <1>5, <1>6, <1>8, <1>9, <1>10, <2>1 DEF InBuckets
<1>12. u[m].ms = w.bucket.ms BY <1>3, <1>6
<1>13. Later(Finalize(w), w)
  <2>1. ASSUME l > 0 PROVE u[m].ms >= w.coarse[l].ms
    <3>1. w.coarse[l].ms \in Nat BY <1>7, <2>1
    <3> QED BY <1>1, <1>2, <1>12, <2>1, <3>1
  <2> QED BY <1>1, <1>4, <1>5, <1>6, <2>1 DEF Later
<1> QED BY <1>4, <1>5, <1>6, <1>11, <1>12, <1>13

(* A sample of the run joins the bucket of its time. *)
LEMMA Reaching ==
    ASSUME NEW ms \in Nat, NEW n \in Nat
    PROVE  /\ Reaches(ms, n + 1) => Samples(ms, n + 1) = Samples(ms, n) \cup {n + 1}
           /\ ms + Resolution <= n + 1 => Samples(ms, n + 1) = Samples(ms, n)
           /\ Reaches(ms, n + 1) /\ n < ms => Samples(ms, n + 1) = {n + 1}
<1>1. PICK R \in Nat \ {0} : R = Resolution BY WindowAssumption
<1> USE <1>1 DEF Samples, Reaches
<1>2. ASSUME Reaches(ms, n + 1) PROVE Samples(ms, n + 1) = Samples(ms, n) \cup {n + 1}
  BY <1>2
<1>3. ASSUME ms + Resolution <= n + 1 PROVE Samples(ms, n + 1) = Samples(ms, n)
  BY <1>3
<1>4. ASSUME Reaches(ms, n + 1), n < ms PROVE Samples(ms, n + 1) = {n + 1}
  BY <1>4
<1> QED BY <1>2, <1>3, <1>4

LEMMA AccumulatedOnto ==
    ASSUME NEW w \in Windows, NEW s \in Reading, s.finite
    PROVE  LET v == Accumulated(w, s)
           IN  /\ v.runId = w.runId /\ v.raw = w.raw /\ v.coarse = w.coarse
               /\ v.bucket.open = w.bucket.open /\ v.bucket.ms = w.bucket.ms
               /\ v.bucket.of = w.bucket.of \cup {s.seq}
<1>1. w.bucket \in BucketRecord BY DEF Windows
<1>2. PICK o, f : o = w.bucket.of \cup {s.seq} /\ f = (w.bucket.fault \/ s.fault \/ ~s.finite)
  OBVIOUS
<1>3. PICK b : b = [w.bucket EXCEPT !.of = o, !.fault = f] OBVIOUS
<1>4. b.open = w.bucket.open /\ b.ms = w.bucket.ms /\ b.of = o BY <1>1, <1>3 DEF BucketRecord
<1>5. Accumulated(w, s) = [w EXCEPT !.bucket = b]
  BY <1>1, <1>2, <1>3 DEF Accumulated, Windows, BucketRecord
<1>6. /\ Accumulated(w, s).runId = w.runId /\ Accumulated(w, s).raw = w.raw
      /\ Accumulated(w, s).coarse = w.coarse /\ Accumulated(w, s).bucket = b
  BY <1>5 DEF Windows
<1> QED BY <1>2, <1>4, <1>6

LEMMA OpenedAnew ==
    ASSUME NEW w \in Windows, NEW s \in Reading, s.finite
    PROVE  LET v == Accumulated(Opened(w, s), s)
           IN  /\ v.runId = w.runId /\ v.raw = w.raw /\ v.coarse = w.coarse
               /\ v.bucket.open /\ v.bucket.ms = Slot(s) /\ v.bucket.of = {s.seq}
<1>1. PICK o : o = Opened(w, s) OBVIOUS
<1>2. PICK b : b = [NoBucket EXCEPT !.open = TRUE, !.ms = Slot(s)] OBVIOUS
<1>3. b \in BucketRecord /\ b.open = TRUE /\ b.ms = Slot(s) /\ b.of = {}
  BY <1>2, SlotIsTime DEF NoBucket, BucketRecord
<1>4. o = [w EXCEPT !.bucket = b] BY <1>1, <1>2 DEF Opened
<1>5. /\ o \in Windows /\ o.runId = w.runId /\ o.raw = w.raw /\ o.coarse = w.coarse
      /\ o.bucket = b
  BY <1>3, <1>4 DEF Windows
<1>6. PICK v : v = Accumulated(o, s) OBVIOUS
<1>7. /\ v.runId = o.runId /\ v.raw = o.raw /\ v.coarse = o.coarse
      /\ v.bucket.open = o.bucket.open /\ v.bucket.ms = o.bucket.ms
      /\ v.bucket.of = o.bucket.of \cup {s.seq}
  BY <1>5, <1>6, AccumulatedOnto
<1> QED BY <1>1, <1>3, <1>5, <1>6, <1>7

LEMMA SummarisedFollows ==
    ASSUME NEW w \in Windows, NEW n \in Nat, InBuckets(w, n, TRUE),
           NEW s \in Reading, s.finite, s.seq = n + 1, s.ms = n + 1
    PROVE  /\ InBuckets(Summarised(w, s), n + 1, TRUE) /\ Later(Summarised(w, s), w)
           /\ Summarised(w, s).raw = w.raw
<1>1. PICK R \in Nat \ {0} : R = Resolution BY WindowAssumption
<1>2. PICK v : v = Summarised(w, s) OBVIOUS
<1>3. PICK t \in Nat :
         /\ Slot([ms |-> n]) = t /\ t <= n /\ n < t + R
         /\ Slot([ms |-> n + 1]) = IF n + 1 < t + R THEN t ELSE t + R
  BY <1>1, SlotReaches
<1>4. Slot(s) = Slot([ms |-> n + 1]) BY DEF Slot
<1>5. CASE ~w.bucket.open
  <2>1. n = 0 /\ Len(w.coarse) = 0 BY <1>5 DEF InBuckets
  <2>2. v = Accumulated(Opened(w, s), s) BY <1>2, <1>5 DEF Summarised
  <2>3. v.raw = w.raw /\ v.coarse = w.coarse /\ v.bucket.open /\ v.bucket.ms = Slot(s)
        /\ v.bucket.of = {n + 1}
    BY <2>2, OpenedAnew
  <2>4. Slot(s) \in Nat /\ Slot(s) <= n + 1 /\ n + 1 < Slot(s) + R
    <3>1. n + 1 \in Nat OBVIOUS
    <3> QED BY <1>1, <1>4, <3>1, SlotIs
  <2>5. Samples(Slot(s), n + 1) = {n + 1}
    BY <1>1, <2>1, <2>4 DEF Samples
  <2>6. InBuckets(v, n + 1, TRUE)
    <3>1. Len(v.coarse) = 0 /\ Len(v.coarse) <= CoarseCap BY <2>1, <2>3 DEF InBuckets
    <3> QED BY <1>4, <2>3, <2>5, <3>1 DEF InBuckets
  <2>7. Later(v, w) BY <2>1 DEF Later
  <2> QED BY <1>2, <2>3, <2>6, <2>7
<1>6. CASE w.bucket.open
  <2>1. PICK l \in Nat : l = Len(w.coarse) BY TimesAre
  <2>0. /\ Steady(Times(w), l)
        /\ \A i \in 1..l : Times(w)[i] = w.coarse[i].ms /\ w.coarse[i].ms \in Nat
    BY <2>1, TimesAre
  <2>2. /\ l <= CoarseCap /\ n > 0 /\ w.bucket.ms = t /\ w.bucket.of = Samples(t, n)
        /\ \A i \in 1..l : w.coarse[i].of = Samples(w.coarse[i].ms, n)
        /\ \A i \in 1..l : w.coarse[i].ms = w.coarse[1].ms + (i - 1) * R
        /\ l > 0 => t = w.coarse[l].ms + R
    BY <1>1, <1>3, <1>6, <2>1 DEF InBuckets
  <2>3. \A i \in 1..l : w.coarse[i].ms \in Nat /\ w.coarse[i].ms + R <= t
    <3> SUFFICES ASSUME NEW i \in 1..l
                 PROVE  w.coarse[i].ms \in Nat /\ w.coarse[i].ms + R <= t
      OBVIOUS
    <3>1. l \in 1..l OBVIOUS
    <3>2. w.coarse[i].ms \in Nat /\ w.coarse[l].ms \in Nat BY <2>0, <3>1
    <3>3. \A j, k \in 1..l : j < k => Times(w)[j] + R <= Times(w)[k] BY <1>1, <2>0, SteadyIs
    <3>4. i < l => w.coarse[i].ms + R <= w.coarse[l].ms BY <2>0, <3>1, <3>3
    <3> QED BY <1>1, <2>2, <3>1, <3>2, <3>4
  <2>4. CASE n + 1 < t + R
    <3>1. Slot(s) = t BY <1>3, <1>4, <2>4
    <3>2. v = Accumulated(w, s) BY <1>2, <1>3, <1>6, <2>2, <3>1 DEF Summarised
    <3>3. v.raw = w.raw /\ v.coarse = w.coarse /\ v.bucket.open /\ v.bucket.ms = t
          /\ v.bucket.of = Samples(t, n) \cup {n + 1}
      BY <1>6, <2>2, <3>2, AccumulatedOnto
    <3>4. Samples(t, n + 1) = Samples(t, n) \cup {n + 1}
      BY <1>1, <1>3, <2>4, Reaching DEF Reaches
    <3>5. \A i \in 1..l : w.coarse[i].of = Samples(w.coarse[i].ms, n + 1)
      <4> SUFFICES ASSUME NEW i \in 1..l
                   PROVE  w.coarse[i].of = Samples(w.coarse[i].ms, n + 1)
        OBVIOUS
      <4>1. w.coarse[i].ms \in Nat /\ w.coarse[i].ms + R <= n + 1 BY <1>3, <2>3
      <4> QED BY <1>1, <2>2, <4>1, Reaching
    <3>6. InBuckets(v, n + 1, TRUE)
      BY <1>1, <1>4, <2>1, <2>2, <3>1, <3>3, <3>4, <3>5 DEF InBuckets
    <3>7. Later(v, w)
      <4>1. l > 0 => w.coarse[l].ms \in Nat BY <2>3
      <4> QED BY <2>1, <3>3, <4>1 DEF Later
    <3> QED BY <1>2, <3>3, <3>6, <3>7
  <2>5. CASE ~(n + 1 < t + R)
    <3>1. Slot(s) = t + R /\ n + 1 = t + R BY <1>3, <1>4, <2>5
    <3>2. PICK f : f = Finalize(w) OBVIOUS
    <3>3. v = Accumulated(Opened(f, s), s)
      <4>1. ~(Slot(s) < w.bucket.ms) /\ Slot(s) # w.bucket.ms BY <1>3, <2>2, <3>1
      <4> QED BY <1>2, <1>6, <3>2, <4>1 DEF Summarised
    <3>4. f \in Windows /\ f.raw = w.raw BY <1>6, <2>1, <2>2, <3>2, FinalizedIs
    <3>5. v.raw = w.raw /\ v.coarse = f.coarse /\ v.bucket.open /\ v.bucket.ms = t + R
          /\ v.bucket.of = {n + 1}
      BY <3>1, <3>3, <3>4, OpenedAnew
    <3>6. /\ InBuckets(f, n, FALSE) /\ Later(f, w) /\ Len(f.coarse) > 0
          /\ f.coarse[Len(f.coarse)].ms = t
      BY <1>6, <2>2, <3>2, FinalizeFollows
    <3>7. PICK m \in Nat : m = Len(f.coarse) BY <3>4, <3>6, TimesAre
    <3>8. /\ m <= CoarseCap
          /\ \A i \in 1..m : f.coarse[i].of = Samples(f.coarse[i].ms, n)
          /\ \A i \in 1..m : f.coarse[i].ms = f.coarse[1].ms + (i - 1) * R
      BY <1>1, <3>6, <3>7 DEF InBuckets
    <3>9. \A i \in 1..m : f.coarse[i].of = Samples(f.coarse[i].ms, n + 1)
      <4> SUFFICES ASSUME NEW i \in 1..m
                   PROVE  f.coarse[i].of = Samples(f.coarse[i].ms, n + 1)
        OBVIOUS
      <4>1. f.coarse[i].ms \in Nat BY <3>4, <3>6, <3>7, TimesAre
      <4>2. i < m => f.coarse[i].ms + R <= t
        <5>1. Steady(Times(f), m) /\ \A j \in 1..m : Times(f)[j] = f.coarse[j].ms
          BY <3>4, <3>6, <3>7, TimesAre
        <5>2. \A j, k \in 1..m : j < k => Times(f)[j] + R <= Times(f)[k] BY <1>1, <5>1, SteadyIs
        <5>3. m \in 1..m OBVIOUS
        <5> QED BY <3>6, <3>7, <5>1, <5>2, <5>3
      <4>3. f.coarse[i].ms + R <= n + 1 BY <1>3, <3>1, <3>6, <3>7, <4>1, <4>2
      <4> QED BY <1>1, <3>8, <4>1, <4>3, Reaching
    <3>10. Samples(t + R, n + 1) = {n + 1}
      BY <1>1, <1>3, <3>1, Reaching DEF Reaches
    <3>11. InBuckets(v, n + 1, TRUE)
      BY <1>1, <1>4, <3>1, <3>5, <3>6, <3>7, <3>8, <3>9, <3>10 DEF InBuckets
    <3>12. Later(v, w) BY <3>5, <3>6 DEF Later
    <3> QED BY <1>2, <3>5, <3>11, <3>12
  <2> QED BY <2>4, <2>5
<1> QED BY <1>5, <1>6

LEMMA PushedFollows ==
    ASSUME NEW w \in Windows, NEW n \in Nat, InRing(w, n), InBuckets(w, n, TRUE),
           NEW s \in Reading, s.runId # 0, s.runId = w.runId, s.finite,
           s.seq = n + 1, s.ms = n + 1
    PROVE  LET u == Pushed(w, s)
           IN  /\ InRing(u, n + 1) /\ InBuckets(u, n + 1, TRUE) /\ Later(u, w)
               /\ Len(u.raw) >= Len(w.raw)
               /\ Len(w.raw) # RawCap => Len(u.raw) = Len(w.raw) + 1
<1>1. PICK u : u = [w EXCEPT !.raw = Newest(RawCap, Append(@, s))] OBVIOUS
<1>2. /\ u \in Windows /\ InRing(u, n + 1) /\ u.coarse = w.coarse /\ u.bucket = w.bucket
      /\ Len(u.raw) >= Len(w.raw) /\ (Len(w.raw) # RawCap => Len(u.raw) = Len(w.raw) + 1)
  BY <1>1, RawFollows
<1>3. InBuckets(u, n, TRUE) BY <1>2 DEF InBuckets
<1>4. /\ InBuckets(Summarised(u, s), n + 1, TRUE) /\ Later(Summarised(u, s), u)
      /\ Summarised(u, s).raw = u.raw
  BY <1>2, <1>3, SummarisedFollows
<1>5. Pushed(w, s) = Summarised(u, s) BY <1>1 DEF Pushed
<1>6. InRing(Summarised(u, s), n + 1) BY <1>2, <1>4 DEF InRing
<1>7. Later(Summarised(u, s), w) BY <1>2, <1>4 DEF Later
<1> QED BY <1>2, <1>4, <1>5, <1>6, <1>7

LEMMA EmptyFollows ==
    ASSUME NEW r
    PROVE  InRing(Empty(r), 0) /\ InBuckets(Empty(r), 0, TRUE)
<1>1. RawCap \in Nat \ {0} /\ CoarseCap \in Nat \ {0} BY WindowAssumption
<1>2. /\ Empty(r).raw = <<>> /\ Empty(r).coarse = <<>> /\ Empty(r).bucket = NoBucket
      /\ NoBucket.open = FALSE
  BY DEF Empty, NoBucket
<1>3. Len(Empty(r).raw) = 0 /\ Len(Empty(r).coarse) = 0 BY <1>2
<1> QED BY <1>1, <1>2, <1>3 DEF InRing, InBuckets

(* The ring and the buckets leave nothing out between the first sample they hold and the
   newest: what is younger than the last finished bucket is still in the ring. *)
LEMMA HistoryIsWhole ==
    ASSUME NEW w \in Windows, NEW n \in Nat, NEW active,
           InRing(w, n), InBuckets(w, n, active)
    PROVE  /\ Whole(Held(w, n) \cup UNION {w.coarse[i].of : i \in 1..Len(w.coarse)}, w, n)
           /\ Len(w.coarse) > 0 => n > 0
<1>1. PICK R \in Nat \ {0} : R = Resolution /\ R <= RawCap
  BY WindowAssumption, TelemetryAssumption
<1>2. PICK l \in Nat, q \in Nat : l = Len(w.coarse) /\ q = Len(w.raw) BY DEF Windows
<1>3. /\ q <= n /\ q <= RawCap /\ (q < n => q = RawCap) /\ RawCap \in Nat
  BY <1>2, WindowAssumption DEF InRing
<1>4. /\ \A i \in 1..l : w.coarse[i].of = Samples(w.coarse[i].ms, n)
      /\ \A i \in 1..l : w.coarse[i].ms \in Nat
  BY <1>2, TimesAre DEF InBuckets
<1>5. l > 0 => n > 0 BY <1>2 DEF InBuckets
<1>6. ASSUME l > 0 PROVE n < w.coarse[l].ms + R + R
                         /\ (q < n => n - q < w.coarse[l].ms + R)
  <2>1. w.coarse[l].ms \in Nat BY <1>4, <1>6
  <2>2. CASE w.bucket.open
    <3>1. w.bucket.ms = Slot([ms |-> n]) /\ w.bucket.ms = w.coarse[l].ms + R
      BY <1>1, <1>2, <1>6, <2>2 DEF InBuckets
    <3>2. n < w.coarse[l].ms + R + R BY <1>1, <3>1, SlotIs
    <3> QED BY <1>1, <1>3, <2>1, <3>2
  <2>3. CASE ~w.bucket.open
    <3>1. n < w.coarse[l].ms + R BY <1>1, <1>2, <1>6, <2>3 DEF InBuckets, Reaches
    <3> QED BY <1>1, <1>3, <2>1, <3>1
  <2> QED BY <2>2, <2>3
<1>7. PICK T : T = UNION {w.coarse[i].of : i \in 1..l} OBVIOUS
<1>8. ASSUME NEW i \in 1..n, NEW k \in Held(w, n) \cup T, k <= i
      PROVE  i \in Held(w, n) \cup T
  <2>1. CASE k \in Held(w, n) BY <1>2, <1>8, <2>1 DEF Held
  <2>2. CASE k \in T /\ i \notin Held(w, n)
    <3>1. i <= n - q BY <1>2, <1>3, <2>2 DEF Held
    <3>2. PICK j \in 1..l : k \in w.coarse[j].of BY <1>7, <2>2
    <3>3. w.coarse[j].ms <= k /\ k \in Nat BY <1>4, <3>2 DEF Samples
    <3>4. w.coarse[1].ms <= w.coarse[j].ms
      <4>1. 1 \in 1..l OBVIOUS
      <4>2. 1 < j => w.coarse[1].ms + R <= w.coarse[j].ms
        <5>1. Steady(Times(w), l) /\ \A x \in 1..l : Times(w)[x] = w.coarse[x].ms
          BY <1>2, TimesAre
        <5>2. \A x, y \in 1..l : x < y => Times(w)[x] + R <= Times(w)[y] BY <1>1, <5>1, SteadyIs
        <5> QED BY <4>1, <5>1, <5>2
      <4> QED BY <1>1, <1>4, <4>1, <4>2
    <3>5. w.coarse[1].ms <= i BY <1>4, <1>8, <3>3, <3>4
    <3>6. i < w.coarse[l].ms + R BY <1>3, <1>4, <1>6, <3>1
    <3>7. PICK e \in 1..l : w.coarse[e].ms <= i /\ i < w.coarse[e].ms + R
      <4>1. PICK ms : ms = Times(w) OBVIOUS
      <4>2. Steady(ms, l) /\ \A x \in 1..l : ms[x] = w.coarse[x].ms
        BY <1>2, <4>1, TimesAre
      <4>3. l > 0 /\ 1 \in 1..l /\ l \in 1..l /\ i \in Nat OBVIOUS
      <4>4. ms[1] <= i /\ i < ms[l] + R BY <3>5, <3>6, <4>2, <4>3
      <4>5. \E x \in 1..l : ms[x] <= i /\ i < ms[x] + R
        BY <1>1, <4>2, <4>3, <4>4, SteadyIs
      <4> QED BY <4>2, <4>5
    <3>8. i \in w.coarse[e].of BY <1>1, <1>4, <3>7 DEF Samples
    <3> QED BY <1>7, <3>8
  <2> QED BY <1>8, <2>1, <2>2
<1>9. Whole(Held(w, n) \cup T, w, n) BY <1>8 DEF Whole
<1> QED BY <1>2, <1>5, <1>7, <1>9

-----------------------------------------------------------------------------
(* Pages.  Of keys that grow those below a bound come first. *)
LEMMA LeastNumber ==
    ASSUME NEW T, T \subseteq Nat, T # {}
    PROVE  \E x \in T : \A y \in T : x <= y
<1> DEFINE R == OpToRel(<, Nat)
<1>1. IsWellFoundedOn(R, Nat) BY NatLessThanWellFounded
<1>2. \A x, y \in Nat : <<y, x>> \in R <=> y < x BY DEF OpToRel
<1> HIDE DEF R
<1>3. PICK x \in T : \A y \in T : ~ (<<y, x>> \in R) BY <1>1, WFMin
<1>4. \A y \in T : y \in Nat /\ x \in Nat /\ ~(y < x) BY <1>2, <1>3
<1>5. QED BY <1>4

LEMMA BoundIs ==
    ASSUME NEW n \in Nat, NEW key \in [1..n -> Nat], NEW x \in Nat,
           \A i, j \in 1..n : i < j => key[i] < key[j]
    PROVE  \E b \in 0..n : /\ \A i \in 1..n : key[i] < x <=> i <= b
                          /\ Cardinality({i \in 1..n : key[i] < x}) = b
<1> DEFINE T == {b \in 0..n : b = n \/ ~(key[b + 1] < x)}
<1>1. PICK b \in T : \A c \in T : b <= c
  <2>1. n \in T /\ T \subseteq Nat OBVIOUS
  <2>2. QED BY <2>1, LeastNumber
<1>2. b \in 0..n /\ (b = n \/ ~(key[b + 1] < x)) OBVIOUS
<1>3. \A c \in 0..n : c < b => c # n /\ key[c + 1] < x BY <1>1
<1> HIDE DEF T
<1>4. ASSUME NEW i \in 1..n PROVE key[i] < x <=> i <= b
  <2>1. CASE i <= b
    <3>1. i - 1 \in 0..n /\ i - 1 < b /\ (i - 1) + 1 = i BY <1>2, <2>1
    <3>2. QED BY <1>3, <2>1, <3>1
  <2>2. CASE i > b
    <3>1. b + 1 \in 1..n /\ b # n BY <1>2, <2>2
    <3>2. i = b + 1 \/ b + 1 < i BY <1>2, <2>2
    <3>3. key[b + 1] \in Nat /\ key[i] \in Nat BY <3>1
    <3>4. QED BY <1>2, <2>2, <3>1, <3>2, <3>3
  <2>3. QED BY <1>2, <2>1, <2>2
<1>5. {i \in 1..n : key[i] < x} = 1..b BY <1>2, <1>4
<1>6. Cardinality(1..b) = b BY <1>2, FS_Interval
<1>7. QED BY <1>2, <1>4, <1>5, <1>6


Grows(key, l) == key \in [1..l -> Nat] /\ \A i, j \in 1..l : i < j => key[i] < key[j]
Taken(page, s, key, l, from, upto, size, b, t, m) ==
    /\ b \in 0..l /\ t \in 0..l /\ m \in Nat
    /\ \A i \in 1..l : (key[i] < from <=> i <= b) /\ (key[i] <= upto <=> i <= t)
    /\ Len(page) = m /\ (t <= b => m = 0)
    /\ b < t => m = (IF t - b < size THEN t - b ELSE size)
    /\ m > 0 => b < t
    /\ \A i \in 1..m : b + i \in 1..l /\ page[i] = s[b + i]

Sought(S, s, key, l, from, upto, size) ==
    /\ s \in Seq(S) /\ l \in Nat /\ Len(s) = l /\ Grows(key, l)
    /\ from \in Nat /\ upto \in Nat /\ size \in Nat \ {0}

LEMMA PageTakes ==
    ASSUME NEW S, NEW s, NEW key, NEW l, NEW from, NEW upto, NEW size,
           Sought(S, s, key, l, from, upto, size)
    PROVE  \E b, t, m :
              Taken(FirstN(size, SubSeq(s, Cardinality({i \in 1..l : key[i] < from}) + 1,
                                           Cardinality({i \in 1..l : key[i] <= upto}))),
                    s, key, l, from, upto, size, b, t, m)
<1> USE DEF Sought
<1>1. PICK y : y \in Nat /\ y = upto + 1 OBVIOUS
<1>2. key \in [1..l -> Nat] /\ \A i, j \in 1..l : i < j => key[i] < key[j] BY DEF Grows
<1>0. l \in Nat /\ key \in [1..l -> Nat] /\ from \in Nat /\ y \in Nat
      /\ \A i, j \in 1..l : i < j => key[i] < key[j]
  BY <1>1, <1>2
<1>3. PICK b \in 0..l : /\ \A i \in 1..l : key[i] < from <=> i <= b
                        /\ Cardinality({i \in 1..l : key[i] < from}) = b
  BY ONLY <1>0, BoundIs, ZenonT(30)
<1>4. PICK t \in 0..l : /\ \A i \in 1..l : key[i] < y <=> i <= t
                        /\ Cardinality({i \in 1..l : key[i] < y}) = t
  BY ONLY <1>0, BoundIs, ZenonT(30)
<1>5. \A i \in 1..l : key[i] < y <=> key[i] <= upto BY <1>1, <1>2
<1>6. {i \in 1..l : key[i] <= upto} = {i \in 1..l : key[i] < y} BY <1>5
<1>7. PICK p : p = SubSeq(s, b + 1, t) OBVIOUS
<1>8. PICK page : page = FirstN(size, p) OBVIOUS
<1>9. CASE t <= b
  <2>1. p = <<>> BY <1>7, <1>9
  <2>2. Len(p) = 0 BY <2>1
  <2>3. page = SubSeq(p, 1, 0) BY <1>8, <2>2 DEF FirstN
  <2>4. Len(page) = 0 BY <2>1, <2>3
  <2>5. Taken(page, s, key, l, from, upto, size, b, t, 0)
    BY <1>3, <1>4, <1>5, <1>9, <2>4 DEF Taken
  <2> QED BY <1>3, <1>4, <1>6, <1>7, <1>8, <2>5
<1>10. CASE b < t
  <2>1. PICK n \in Nat : n = t - b /\ n > 0
    <3>1. t - b \in Nat /\ t - b > 0 BY <1>10
    <3> QED BY <3>1
  <2>2. /\ p \in Seq(S) /\ Len(p) = n /\ \A i \in 1..n : p[i] = s[b + i]
    <3>1. b + 1 \in 1..l /\ t \in 1..l /\ b + 1 <= t /\ t - (b + 1) + 1 = n BY <1>10, <2>1
    <3>2. p \in Seq(S) /\ Len(p) = t - (b + 1) + 1 BY <1>7, <3>1
    <3>3. \A i \in 1..(t - (b + 1) + 1) : p[i] = s[(b + 1) + i - 1] BY <1>7, <3>1
    <3>4. \A i \in 1..n : (b + 1) + i - 1 = b + i OBVIOUS
    <3> QED BY <3>1, <3>2, <3>3, <3>4
  <2>3. PICK m \in Nat \ {0} : m = (IF n < size THEN n ELSE size)
    <3>1. CASE n < size BY <2>1, <3>1
    <3>2. CASE ~(n < size) BY <3>2
    <3> QED BY <3>1, <3>2
  <2>4. page = SubSeq(p, 1, m) BY <1>8, <2>2, <2>3 DEF FirstN
  <2>5. m <= n BY <2>1, <2>3
  <2>6. Len(page) = m /\ \A i \in 1..m : page[i] = p[i]
    BY <2>2, <2>4, <2>5
  <2>7. \A i \in 1..m : i \in 1..n /\ b + i \in 1..l BY <2>1, <2>5
  <2>8. \A i \in 1..m : b + i \in 1..l /\ page[i] = s[b + i] BY <2>2, <2>6, <2>7
  <2>9. m = (IF t - b < size THEN t - b ELSE size) BY <2>1, <2>3
  <2>10. /\ m \in Nat /\ ~(t <= b) /\ b \in 0..l /\ t \in 0..l
         /\ \A i \in 1..l : (key[i] < from <=> i <= b) /\ (key[i] <= upto <=> i <= t)
    BY <1>3, <1>4, <1>5, <1>10
  <2>11. Taken(page, s, key, l, from, upto, size, b, t, m)
    BY ONLY <1>10, <2>6, <2>8, <2>9, <2>10 DEF Taken
  <2> QED BY <1>3, <1>4, <1>6, <1>7, <1>8, <2>11
<1>11. t <= b \/ b < t BY <1>3, <1>4
<1> QED BY <1>9, <1>10, <1>11, Zenon

(* The pages a replay copies. *)
LEMMA CoarseTakes ==
    ASSUME NEW w \in Windows, NEW n, NEW active, InBuckets(w, n, active),
           NEW from \in Nat, NEW upto \in Nat, NEW size \in Nat \ {0}
    PROVE  \E b, t, m : Taken(CoarsePage(w, from, upto, size), w.coarse, Times(w),
                              Len(w.coarse), from, upto, size, b, t, m)
<1>1. PICK l : l = Len(w.coarse) OBVIOUS
<1>2. PICK key : key = Times(w) OBVIOUS
<1>3. w.coarse \in Seq(CoarseSample) /\ l \in Nat BY <1>1 DEF Windows
<1>4. Steady(key, l) /\ \A i \in 1..l : key[i] = w.coarse[i].ms BY <1>1, <1>2, TimesAre
<1>5. Grows(key, l)
  <2>1. Resolution \in Nat \ {0} BY WindowAssumption
  <2>2. \A i, j \in 1..l : i < j => key[i] + Resolution <= key[j] BY <1>3, <1>4, SteadyIs
  <2>3. key \in [1..l -> Nat] BY <1>4 DEF Steady
  <2>4. \A i \in 1..l : key[i] \in Nat BY <2>3
  <2> QED BY <2>1, <2>2, <2>3, <2>4 DEF Grows
<1>6. Sought(CoarseSample, w.coarse, key, l, from, upto, size) BY <1>1, <1>3, <1>5 DEF Sought
<1>7. \E b, t, m :
         Taken(FirstN(size, SubSeq(w.coarse, Cardinality({i \in 1..l : key[i] < from}) + 1,
                                             Cardinality({i \in 1..l : key[i] <= upto}))),
               w.coarse, key, l, from, upto, size, b, t, m)
  BY ONLY <1>6, PageTakes
<1>8. /\ {i \in 1..l : key[i] < from} = {i \in 1..Len(w.coarse) : w.coarse[i].ms < from}
      /\ {i \in 1..l : key[i] <= upto} = {i \in 1..Len(w.coarse) : w.coarse[i].ms <= upto}
  BY <1>1, <1>4
<1>9. CoarsePage(w, from, upto, size)
        = FirstN(size, SubSeq(w.coarse, Cardinality({i \in 1..l : key[i] < from}) + 1,
                                        Cardinality({i \in 1..l : key[i] <= upto})))
  BY <1>8 DEF CoarsePage
<1> QED BY <1>1, <1>2, <1>7, <1>9

Seqs(w) == [i \in 1..Len(w.raw) |-> w.raw[i].seq]
LEMMA RawTakes ==
    ASSUME NEW w \in Windows, NEW n \in Nat, InRing(w, n),
           NEW after \in Nat, NEW upto \in Nat, NEW size \in Nat \ {0}
    PROVE  \E b, t, m : Taken(RawPage(w, after, upto, size), w.raw, Seqs(w),
                              Len(w.raw), after + 1, upto, size, b, t, m)
<1>1. PICK l : l = Len(w.raw) OBVIOUS
<1>2. PICK key : key = Seqs(w) OBVIOUS
<1>3. w.raw \in Seq(Reading) /\ l \in Nat BY <1>1 DEF Windows
<1>4. l <= n /\ \A i \in 1..l : w.raw[i].seq = n - l + i BY <1>1 DEF InRing
<1>5. key = [i \in 1..l |-> w.raw[i].seq] BY <1>1, <1>2 DEF Seqs
<1>6. \A i \in 1..l : key[i] = w.raw[i].seq /\ key[i] = n - l + i BY <1>4, <1>5
<1>7. Grows(key, l)
  <2>1. \A i \in 1..l : n - l + i \in Nat BY <1>3, <1>4
  <2>2. key \in [1..l -> Nat] BY <1>4, <1>5, <2>1
  <2>3. \A i, j \in 1..l : i < j => key[i] < key[j] BY <1>3, <1>4, <1>6
  <2> QED BY <2>2, <2>3 DEF Grows
<1>8. Sought(Reading, w.raw, key, l, after + 1, upto, size) BY <1>1, <1>3, <1>7 DEF Sought
<1>9. \E b, t, m :
         Taken(FirstN(size, SubSeq(w.raw, Cardinality({i \in 1..l : key[i] < after + 1}) + 1,
                                          Cardinality({i \in 1..l : key[i] <= upto}))),
               w.raw, key, l, after + 1, upto, size, b, t, m)
  BY ONLY <1>8, PageTakes
<1>10. \A i \in 1..l : key[i] \in Nat /\ (key[i] < after + 1 <=> key[i] <= after)
  BY <1>7 DEF Grows
<1>11. /\ {i \in 1..l : key[i] < after + 1} = {i \in 1..Len(w.raw) : w.raw[i].seq <= after}
       /\ {i \in 1..l : key[i] <= upto} = {i \in 1..Len(w.raw) : w.raw[i].seq <= upto}
  BY <1>1, <1>6, <1>10
<1>12. RawPage(w, after, upto, size)
        = FirstN(size, SubSeq(w.raw, Cardinality({i \in 1..l : key[i] < after + 1}) + 1,
                                     Cardinality({i \in 1..l : key[i] <= upto})))
  BY <1>11 DEF RawPage
<1> QED BY <1>1, <1>2, <1>9, <1>12

-----------------------------------------------------------------------------
(* What a replay sends.  A sample of the run is behind what it has still to send. *)
Follows(u, h, n) ==
    /\ h \in Windows /\ u \in Windows /\ InRing(h, n) /\ InRing(u, n + 1) /\ Later(u, h)
    /\ Len(u.raw) >= Len(h.raw) /\ (Len(h.raw) # RawCap => Len(u.raw) = Len(h.raw) + 1)

LEMMA HeldFollows ==
    ASSUME NEW n \in Nat, NEW h, NEW u, Follows(u, h, n)
    PROVE  /\ Held(u, n + 1) \subseteq Held(h, n) \cup {n + 1}
           /\ \A i \in Held(h, n) : i \in Held(u, n + 1)
                                    \/ (Len(h.raw) = RawCap /\ i = h.raw[1].seq)
           /\ Len(h.raw) = n => Len(u.raw) = n + 1 \/ Len(h.raw) = RawCap
<1>1. PICK l \in Nat, m \in Nat, c \in Nat \ {0} : l = Len(h.raw) /\ m = Len(u.raw) /\ c = RawCap
  BY WindowAssumption DEF Follows, Windows
<1>2. /\ m >= l /\ (l # c => m = l + 1) /\ m <= c /\ l <= c /\ l <= n
      /\ \A i \in 1..l : h.raw[i].seq = n - l + i
  BY <1>1 DEF Follows, InRing
<1>3. Held(h, n) = (n - l + 1)..n /\ Held(u, n + 1) = (n + 1 - m + 1)..(n + 1)
  BY <1>1 DEF Held
<1>4. Held(u, n + 1) \subseteq Held(h, n) \cup {n + 1}
  <2>1. ASSUME NEW i \in (n + 1 - m + 1)..(n + 1), i # n + 1
        PROVE  i \in (n - l + 1)..n
    <3>1. m <= l + 1 BY <1>1, <1>2
    <3> QED BY <1>1, <2>1, <3>1
  <2> QED BY <1>3, <2>1
<1>5. ASSUME NEW i \in (n - l + 1)..n, i \notin (n + 1 - m + 1)..(n + 1)
      PROVE  l = c /\ i = h.raw[1].seq
  <2>1. l = c /\ i = n - l + 1 BY <1>1, <1>2, <1>5
  <2>2. 1 \in 1..l BY <1>1, <2>1
  <2> QED BY <1>1, <1>2, <2>1, <2>2
<1> QED BY <1>1, <1>2, <1>3, <1>4, <1>5

LEMMA WholeGrows ==
    ASSUME NEW n \in Nat, NEW h, NEW u, Follows(u, h, n), NEW S, Whole(S, h, n)
    PROVE  Whole(S \cup {n + 1}, u, n + 1)
<1>1. Held(u, n + 1) \subseteq Held(h, n) \cup {n + 1} BY HeldFollows
<1>2. ASSUME NEW i \in 1..(n + 1), NEW k \in S \cup {n + 1}, k <= i
      PROVE  i \in S \cup {n + 1}
  <2>1. CASE i = n + 1 BY <2>1
  <2>2. CASE i # n + 1
    <3>1. i \in 1..n /\ k # n + 1 BY <1>2, <2>2
    <3>2. k \in S BY <1>2, <3>1
    <3> QED BY <1>2, <3>1, <3>2 DEF Whole
  <2> QED BY <2>1, <2>2
<1>3. Held(u, n + 1) \subseteq S \cup {n + 1} BY <1>1 DEF Whole
<1> QED BY <1>2, <1>3 DEF Whole

LEMMA AllIsWhole ==
    ASSUME NEW n \in Nat, NEW h \in Windows, InRing(h, n), NEW S, \A i \in 1..n : i \in S
    PROVE  Whole(S, h, n)
<1>1. PICK l \in Nat : l = Len(h.raw) BY DEF Windows
<1>2. l <= n BY <1>1 DEF InRing
<1>3. Held(h, n) \subseteq 1..n
  <2>1. Held(h, n) = (n - l + 1)..n BY <1>1 DEF Held
  <2>2. \A i \in (n - l + 1)..n : i \in 1..n BY <1>1, <1>2
  <2> QED BY <2>1, <2>2
<1> QED BY <1>3 DEF Whole

(* The ring drops nothing the replay has still to send. *)
Overtakes(p, h) ==
    /\ p.phase \in {"coarse", "raw"} /\ Len(h.raw) = RawCap
    /\ h.raw[1].seq > p.after /\ h.raw[1].seq <= p.through

LEMMA SendsSampled ==
    ASSUME NEW n \in Nat, NEW h, NEW u, Follows(u, h, n), NEW p \in Replay,
           p.phase # "idle", ~Overtakes(p, h), NEW C, Sends(C, p, h, n)
    PROVE  Sends(C \cup {n + 1}, p, u, n + 1)
<1>1. p.through \in Nat /\ p.after \in Nat /\ p.phase \in {"coarse", "raw", "end"}
  BY DEF Replay
<1>2. PICK t \in Nat : t = p.through BY <1>1
<1>3. t <= n /\ (t + 1)..n \subseteq C /\ Whole(C \cup RawLeft(p, h, n) \cup CoarseLeft(p, h), h, n)
  BY <1>2 DEF Sends
<1>4. t <= n + 1 /\ (t + 1)..(n + 1) \subseteq C \cup {n + 1}
  <2>1. \A i \in (t + 1)..(n + 1) : i = n + 1 \/ i \in (t + 1)..n OBVIOUS
  <2> QED BY <1>3, <2>1
<1>5. CASE p.phase # "coarse"
  <2>1. CoarseLeft(p, h) = {} /\ CoarseLeft(p, u) = {} BY <1>5 DEF CoarseLeft
  <2>2. RawLeft(p, h, n) \subseteq RawLeft(p, u, n + 1)
    <3> SUFFICES ASSUME NEW i \in RawLeft(p, h, n) PROVE i \in RawLeft(p, u, n + 1) OBVIOUS
    <3>1. /\ p.phase \in {"coarse", "raw"} /\ i \in Held(h, n) /\ i > p.after /\ i <= p.through
      BY <1>1, <1>5 DEF RawLeft
    <3>2. i \in Held(u, n + 1) BY <3>1, HeldFollows DEF Overtakes
    <3> QED BY <3>1, <3>2 DEF RawLeft
  <2>3. RawLeft(p, u, n + 1) \subseteq RawLeft(p, h, n)
    <3> SUFFICES ASSUME NEW i \in RawLeft(p, u, n + 1) PROVE i \in RawLeft(p, h, n) OBVIOUS
    <3>1. /\ p.phase \in {"coarse", "raw"} /\ i \in Held(u, n + 1) /\ i > p.after /\ i <= p.through
      BY <1>1, <1>5 DEF RawLeft
    <3>2. i \in Held(h, n) \cup {n + 1} BY <3>1, HeldFollows
    <3>3. i # n + 1 BY <1>2, <1>3, <3>1
    <3> QED BY <3>1, <3>2, <3>3 DEF RawLeft
  <2>4. RawLeft(p, u, n + 1) = RawLeft(p, h, n) BY <2>2, <2>3
  <2>5. Whole((C \cup RawLeft(p, h, n)) \cup {n + 1}, u, n + 1)
    <3>1. Whole(C \cup RawLeft(p, h, n), h, n) BY <1>3, <2>1
    <3> QED BY <3>1, WholeGrows
  <2>6. (C \cup {n + 1}) \cup RawLeft(p, u, n + 1) \cup CoarseLeft(p, u)
          = (C \cup RawLeft(p, h, n)) \cup {n + 1}
    BY <2>1, <2>4
  <2> QED BY <1>2, <1>4, <1>5, <2>5, <2>6 DEF Sends
<1>6. CASE p.phase = "coarse"
  <2>1. /\ p.after = 0 /\ t > 0 /\ (Len(h.raw) = n \/ t = n)
        /\ Len(h.coarse) > 0 /\ h.coarse[Len(h.coarse)].ms >= p.throughMs
    BY <1>2, <1>6 DEF Sends, InTime
  <2>2. PICK l \in Nat, m \in Nat, c \in Nat \ {0} :
           l = Len(h.raw) /\ m = Len(u.raw) /\ c = RawCap
    BY WindowAssumption DEF Follows, Windows
  <2>3. /\ l <= n /\ l <= c /\ (l < n => l = c) /\ (l # c => m = l + 1)
        /\ \A i \in 1..l : h.raw[i].seq = n - l + i
    BY <2>2 DEF Follows, InRing
  <2>4. l # c
    <3> SUFFICES ASSUME l = c PROVE FALSE OBVIOUS
    <3>1. h.raw[1].seq = n - l + 1
      <4>1. 1 \in 1..l BY <2>2
      <4> QED BY <2>3, <4>1
    <3>2. n - l + 1 > 0 /\ n - l + 1 <= t
      <4>1. t > 0 /\ (l = n \/ t = n) BY <2>1, <2>2
      <4>2. l <= n /\ l > 0 BY <2>2, <2>3
      <4>3. CASE l = n
        <5>1. n - l + 1 = 1 BY <4>3
        <5> QED BY <4>1, <5>1
      <4>4. CASE t = n
        <5>1. n - l + 1 > 0 /\ n - l + 1 <= n BY <4>2
        <5> QED BY <4>4, <5>1
      <4> QED BY <4>1, <4>3, <4>4
    <3> QED BY <1>2, <1>6, <2>1, <2>2, <3>1, <3>2 DEF Overtakes
  <2>5. l = n /\ m = n + 1 BY <2>2, <2>3, <2>4
  <2>6. \A i \in 1..(n + 1) : i \in (C \cup {n + 1}) \cup RawLeft(p, u, n + 1) \cup CoarseLeft(p, u)
    <3> SUFFICES ASSUME NEW i \in 1..(n + 1), i \notin C \cup {n + 1}
                 PROVE  i \in RawLeft(p, u, n + 1)
      OBVIOUS
    <3>1. i \in 1..t
      <4>1. i \notin (t + 1)..(n + 1) BY <1>4
      <4> QED BY <4>1
    <3>2. i \in Held(u, n + 1) BY <2>2, <2>5 DEF Held
    <3> QED BY <1>2, <1>6, <2>1, <3>1, <3>2 DEF RawLeft
  <2>7. Whole((C \cup {n + 1}) \cup RawLeft(p, u, n + 1) \cup CoarseLeft(p, u), u, n + 1)
    BY <2>6, AllIsWhole DEF Follows
  <2>8. InTime(C \cup {n + 1}, p, u, n + 1)
    <3>1. Len(u.coarse) > 0 /\ u.coarse[Len(u.coarse)].ms >= h.coarse[Len(h.coarse)].ms
      BY <2>1 DEF Follows, Later
    <3>2. u.coarse[Len(u.coarse)].ms \in Nat /\ h.coarse[Len(h.coarse)].ms \in Nat
      <4>1. u.coarse \in Seq(CoarseSample) /\ h.coarse \in Seq(CoarseSample) BY DEF Follows, Windows
      <4>2. \A x \in CoarseSample : x.ms \in Nat BY DEF CoarseSample
      <4>3. u.coarse[Len(u.coarse)] \in CoarseSample /\ h.coarse[Len(h.coarse)] \in CoarseSample
        BY <2>1, <3>1, <4>1
      <4> QED BY <4>2, <4>3
    <3>3. p.throughMs \in Nat BY DEF Replay
    <3>4. u.coarse[Len(u.coarse)].ms >= p.throughMs BY <2>1, <3>1, <3>2, <3>3
    <3> QED BY <1>2, <2>1, <2>2, <2>5, <3>1, <3>4 DEF InTime
  <2> QED BY <1>2, <1>4, <1>6, <2>7, <2>8 DEF Sends
<1> QED BY <1>5, <1>6

(* The open bucket finished: it is later than those the replay sends, and if the list
   loses its first one, that one is sent or all it holds is. *)
LEMMA SendsFinalized ==
    ASSUME NEW n \in Nat, NEW h \in Windows, NEW active, InRing(h, n), InBuckets(h, n, active),
           NEW p \in Replay, NEW C, Sends(C, p, h, n)
    PROVE  Sends(C, p, Finalize(h), n)
<1>1. CASE ~h.bucket.open BY <1>1 DEF Finalize
<1>2. CASE h.bucket.open
  <2>1. PICK l \in Nat, R \in Nat \ {0} : l = Len(h.coarse) /\ R = Resolution
    BY WindowAssumption DEF Windows
  <2>2. PICK f : f = Finalize(h) OBVIOUS
  <2>3. PICK c, d :
          /\ c.ms = h.bucket.ms /\ d \in 0..1 /\ Cut(f.coarse, d, h.coarse, c, CoarseCap)
          /\ f.raw = h.raw /\ f.bucket = NoBucket
    BY <1>2, <2>2, FinalizedIs DEF InBuckets
  <2>4. PICK m \in Nat : m = Len(f.coarse) BY <2>3 DEF Cut
  <2>5. /\ m = l + 1 - d /\ m > 0 /\ f.coarse[m].ms = h.bucket.ms
        /\ \A i \in 1..(m - 1) : i + d \in 1..l /\ f.coarse[i] = h.coarse[i + d]
    BY <2>1, <2>3, <2>4 DEF Cut
  <2>6. /\ Steady(Times(h), l)
        /\ \A i \in 1..l : Times(h)[i] = h.coarse[i].ms /\ h.coarse[i].ms \in Nat
    BY <2>1, TimesAre
  <2>7. /\ \A i \in 1..l : h.coarse[i].of = Samples(h.coarse[i].ms, n)
        /\ l > 0 => h.bucket.ms = h.coarse[l].ms + R
    BY <1>2, <2>1 DEF InBuckets
  <2>8. Held(f, n) = Held(h, n) BY <2>3 DEF Held
  <2>9. RawLeft(p, f, n) = RawLeft(p, h, n) BY <2>8 DEF RawLeft
  <2>10. PICK t \in Nat : t = p.through /\ p.throughMs \in Nat /\ p.from \in Nat BY DEF Replay
  <2>11. /\ t <= n /\ (t + 1)..n \subseteq C
         /\ Whole(C \cup RawLeft(p, h, n) \cup CoarseLeft(p, h), h, n)
    BY <2>10 DEF Sends
  <2>12. CASE p.phase # "coarse"
    <3>1. CoarseLeft(p, h) = {} /\ CoarseLeft(p, f) = {} BY <2>12 DEF CoarseLeft
    <3>2. Whole(C \cup RawLeft(p, f, n) \cup CoarseLeft(p, f), f, n)
      BY <2>8, <2>9, <2>11, <3>1 DEF Whole
    <3> QED BY <2>2, <2>10, <2>11, <2>12, <3>2 DEF Sends
  <2>13. CASE p.phase = "coarse"
    <3>1. /\ p.after = 0 /\ t > 0 /\ (Len(h.raw) = n \/ t = n)
          /\ l > 0 /\ h.coarse[l].ms >= p.throughMs
          /\ \/ Len(h.raw) = n \/ h.coarse[1].ms < p.from
             \/ C \subseteq (t + 1)..n
      BY <1>2, <2>1, <2>10, <2>13 DEF Sends, InTime
    <3>2. f.coarse[m].ms > p.throughMs
      <4>1. h.coarse[l].ms \in Nat BY <2>6, <3>1
      <4> QED BY <2>1, <2>5, <2>7, <2>10, <3>1, <4>1
    <3>3. InTime(C, p, f, n)
      <4>1. ~f.bucket.open BY <2>3 DEF NoBucket
      <4>2. f.coarse[m].ms >= p.throughMs
        <5>1. h.coarse[l].ms \in Nat BY <2>6, <3>1
        <5> QED BY <2>1, <2>5, <2>7, <2>10, <3>1, <5>1
      <4> QED BY <2>3, <2>4, <2>5, <2>10, <3>1, <4>1, <4>2 DEF InTime
    <3>4. CoarseLeft(p, f) \subseteq CoarseLeft(p, h)
      <4> SUFFICES ASSUME NEW x \in CoarseLeft(p, f) PROVE x \in CoarseLeft(p, h) OBVIOUS
      <4>1. PICK i \in Left(p, f) : x \in f.coarse[i].of BY <2>13 DEF CoarseLeft
      <4>2. i \in 1..m /\ f.coarse[i].ms >= p.from /\ f.coarse[i].ms <= p.throughMs
        BY <2>4, <4>1 DEF Left
      <4>3. i # m
        <5>1. h.coarse[l].ms \in Nat BY <2>6, <3>1
        <5> QED BY <2>1, <2>5, <2>7, <2>10, <3>1, <3>2, <4>2, <5>1
      <4>4. i + d \in 1..l /\ f.coarse[i] = h.coarse[i + d] BY <2>5, <4>2, <4>3
      <4>5. i + d \in Left(p, h) /\ x \in h.coarse[i + d].of BY <2>1, <4>1, <4>2, <4>4 DEF Left
      <4> QED BY <2>13, <4>5 DEF CoarseLeft
    <3>5. \A x \in CoarseLeft(p, h) :
             x \in CoarseLeft(p, f) \/ (1 \in Left(p, h) /\ x \in h.coarse[1].of)
      <4> SUFFICES ASSUME NEW x \in CoarseLeft(p, h), ~(1 \in Left(p, h) /\ x \in h.coarse[1].of)
                   PROVE  x \in CoarseLeft(p, f)
        OBVIOUS
      <4>1. PICK i \in Left(p, h) : x \in h.coarse[i].of BY <2>13 DEF CoarseLeft
      <4>2. i \in 1..l /\ i # 1 /\ h.coarse[i].ms >= p.from /\ h.coarse[i].ms <= p.throughMs
        BY <2>1, <4>1 DEF Left
      <4>3. PICK j \in Nat : j = i - d BY <2>3, <4>2
      <4>4. j \in 1..(m - 1) /\ j + d = i BY <2>3, <2>5, <4>2, <4>3
      <4>5. f.coarse[j] = h.coarse[i] /\ j \in 1..m BY <2>5, <4>4
      <4>6. j \in Left(p, f) BY <2>4, <4>2, <4>5 DEF Left
      <4> QED BY <2>13, <4>1, <4>5, <4>6 DEF CoarseLeft
    <3>6. \A x \in Held(h, n) : x \in C \cup RawLeft(p, h, n)
      <4>1. PICK q \in Nat : q = Len(h.raw) BY DEF Windows
      <4>2. q <= n BY <4>1 DEF InRing
      <4> SUFFICES ASSUME NEW x \in Held(h, n), x \notin C PROVE x \in RawLeft(p, h, n)
        OBVIOUS
      <4>3. x \in (n - q + 1)..n BY <4>1 DEF Held
      <4>4. x > 0 /\ x \notin (t + 1)..n BY <2>11, <4>1, <4>2, <4>3
      <4>5. x <= t BY <4>1, <4>2, <4>3, <4>4
      <4> QED BY <2>10, <2>13, <3>1, <4>4, <4>5 DEF RawLeft
    <3>7. ASSUME NEW i \in 1..n,
                 NEW k \in C \cup RawLeft(p, h, n) \cup CoarseLeft(p, f), k <= i
          PROVE  i \in C \cup RawLeft(p, h, n) \cup CoarseLeft(p, f)
      <4>1. i \in C \cup RawLeft(p, h, n) \cup CoarseLeft(p, h)
        <5>1. k \in C \cup RawLeft(p, h, n) \cup CoarseLeft(p, h) BY <3>4, <3>7
        <5> QED BY <2>11, <3>7, <5>1 DEF Whole
      <4>2. CASE 1 \in Left(p, h) /\ i \in h.coarse[1].of
        <5>1. CASE Len(h.raw) = n
          <6>1. i \in Held(h, n) BY <5>1 DEF Held
          <6> QED BY <3>6, <6>1
        <5>2. CASE Len(h.raw) # n
          <6>1. C \subseteq (t + 1)..n
            <7>1. ~(h.coarse[1].ms < p.from) BY <2>6, <2>10, <4>2, <2>1 DEF Left
            <7> QED BY <3>1, <5>2, <7>1
          <6>2. CASE k \in C
            <7>1. k \in (t + 1)..n BY <6>1, <6>2
            <7>2. i \in (t + 1)..n BY <3>7, <7>1
            <7> QED BY <2>11, <7>2
          <6>3. CASE k \in RawLeft(p, h, n)
            <7>1. k \in Held(h, n) BY <6>3 DEF RawLeft
            <7>2. i \in Held(h, n)
              <8>1. PICK q \in Nat : q = Len(h.raw) BY DEF Windows
              <8>2. k \in (n - q + 1)..n BY <7>1, <8>1 DEF Held
              <8>3. i \in (n - q + 1)..n BY <3>7, <8>1, <8>2
              <8> QED BY <8>1, <8>3 DEF Held
            <7> QED BY <3>6, <7>2
          <6>4. CASE k \in CoarseLeft(p, f)
            <7>1. PICK j \in Left(p, f) : k \in f.coarse[j].of BY <2>13, <6>4 DEF CoarseLeft
            <7>2. j \in 1..m /\ f.coarse[j].ms <= p.throughMs BY <2>4, <7>1 DEF Left
            <7>3. j # m
              <8>1. h.coarse[l].ms \in Nat BY <2>6, <3>1
              <8> QED BY <2>1, <2>5, <2>7, <2>10, <3>1, <3>2, <7>2, <8>1
            <7>4. j + d \in 1..l /\ f.coarse[j] = h.coarse[j + d] BY <2>5, <7>2, <7>3
            <7>5. CASE j + d = 1
              <8>1. j \in Left(p, f) /\ f.coarse[j] = h.coarse[1] BY <7>1, <7>4, <7>5
              <8> QED BY <2>13, <4>2, <8>1 DEF CoarseLeft
            <7>6. CASE j + d # 1
              <8>1. h.coarse[j + d].ms <= k /\ k \in Nat BY <2>7, <7>1, <7>4 DEF Samples
              <8>2. 1 \in 1..l /\ 1 < j + d BY <2>3, <7>2, <7>4, <7>6
              <8>3. h.coarse[1].ms + R <= h.coarse[j + d].ms
                <9>1. \A x, y \in 1..l : x < y => Times(h)[x] + R <= Times(h)[y]
                  BY <2>1, <2>6, SteadyIs
                <9> QED BY <2>6, <7>4, <8>2, <9>1
              <8>4. i < h.coarse[1].ms + R BY <2>1, <2>7, <4>2, <8>2 DEF Samples
              <8>5. h.coarse[1].ms \in Nat /\ h.coarse[j + d].ms \in Nat BY <2>6, <7>4, <8>2
              <8> QED BY <2>1, <3>7, <8>1, <8>3, <8>4, <8>5
            <7> QED BY <7>5, <7>6
          <6> QED BY <3>7, <6>2, <6>3, <6>4
        <5> QED BY <5>1, <5>2
      <4> QED BY <3>5, <4>1, <4>2
    <3>8. Whole(C \cup RawLeft(p, f, n) \cup CoarseLeft(p, f), f, n)
      <4>1. Held(f, n) \subseteq C \cup RawLeft(p, f, n) \cup CoarseLeft(p, f)
        BY <2>8, <2>9, <3>6
      <4> QED BY <2>9, <3>7, <4>1 DEF Whole
    <3> QED BY <2>2, <2>10, <2>11, <3>3, <3>8 DEF Sends
  <2> QED BY <2>12, <2>13
<1> QED BY <1>1, <1>2

-----------------------------------------------------------------------------
(* A replay begins with all the ring and the buckets hold. *)
LEMMA LatestIs ==
    ASSUME NEW n \in Nat, NEW h \in Windows, InRing(h, n)
    PROVE  LatestRawSeq(h) = n
<1>1. PICK l \in Nat : l = Len(h.raw) BY DEF Windows
<1>2. /\ l <= n /\ (l < n => l = RawCap) /\ RawCap \in Nat \ {0}
      /\ \A i \in 1..l : h.raw[i].seq = n - l + i
  BY <1>1, WindowAssumption DEF InRing
<1>3. CASE l = 0
  <2>1. n = 0 BY <1>2, <1>3
  <2>2. h.raw = <<>>
    <3>1. PICK s \in Seq(Reading) : s = h.raw BY DEF Windows
    <3>2. Len(s) = 0 BY <1>1, <1>3, <3>1
    <3>3. s = <<>> BY <3>2, EmptySeq
    <3> QED BY <3>1, <3>3
  <2> QED BY <2>1, <2>2 DEF LatestRawSeq
<1>4. CASE l # 0
  <2>1. h.raw # <<>> /\ l \in 1..l BY <1>1, <1>4
  <2>2. h.raw[l].seq = n - l + l BY <1>2, <2>1
  <2>3. n - l + l = n BY <1>1
  <2> QED BY <1>1, <2>1, <2>2, <2>3 DEF LatestRawSeq
<1> QED BY <1>3, <1>4

LEMMA SendsStart ==
    ASSUME NEW n \in Nat, NEW h \in Windows, NEW active, InRing(h, n), InBuckets(h, n, active),
           NEW p \in Replay, p.phase = (IF Len(h.coarse) = 0 THEN "raw" ELSE "coarse"),
           p.from = 0, p.after = 0, p.through = LatestRawSeq(h),
           p.throughMs = (IF Len(h.coarse) = 0 THEN 0 ELSE h.coarse[Len(h.coarse)].ms)
    PROVE  Sends({}, p, h, n)
<1>1. PICK l \in Nat, q \in Nat, R \in Nat \ {0} :
         l = Len(h.coarse) /\ q = Len(h.raw) /\ R = Resolution
  BY WindowAssumption DEF Windows
<1>2. p.through = n BY LatestIs
<1>3. q <= n BY <1>1 DEF InRing
<1>4. RawLeft(p, h, n) = Held(h, n)
  <2>1. \A i \in (n - q + 1)..n : i > 0 /\ i <= n BY <1>1, <1>3
  <2>2. Held(h, n) = (n - q + 1)..n BY <1>1 DEF Held
  <2>3. p.phase \in {"coarse", "raw"} OBVIOUS
  <2> QED BY <1>2, <2>1, <2>2, <2>3 DEF RawLeft
<1>5. PICK T : T = UNION {h.coarse[i].of : i \in 1..l} OBVIOUS
<1>6. CoarseLeft(p, h) = T
  <2>1. CASE l = 0
    <3>1. T = {} BY <1>5, <2>1
    <3>2. p.phase = "raw" BY <1>1, <2>1
    <3> QED BY <3>1, <3>2 DEF CoarseLeft
  <2>2. CASE l # 0
    <3>1. /\ Steady(Times(h), l)
          /\ \A i \in 1..l : Times(h)[i] = h.coarse[i].ms /\ h.coarse[i].ms \in Nat
      BY <1>1, TimesAre
    <3>2. \A i, j \in 1..l : i < j => Times(h)[i] + R <= Times(h)[j] BY <1>1, <3>1, SteadyIs
    <3>3. l \in 1..l BY <2>2
    <3>4. ASSUME NEW i \in 1..l PROVE h.coarse[i].ms >= 0 /\ h.coarse[i].ms <= h.coarse[l].ms
      <4>1. h.coarse[i].ms \in Nat /\ h.coarse[l].ms \in Nat BY <3>1, <3>3
      <4>2. i < l => h.coarse[i].ms + R <= h.coarse[l].ms BY <3>1, <3>2, <3>3
      <4> QED BY <1>1, <3>4, <4>1, <4>2
    <3>5. p.phase = "coarse" /\ p.throughMs = h.coarse[l].ms BY <1>1, <2>2
    <3>6. Left(p, h) = 1..l BY <1>1, <3>4, <3>5 DEF Left
    <3> QED BY <1>5, <3>5, <3>6 DEF CoarseLeft
  <2> QED BY <2>1, <2>2
<1>7. Whole(Held(h, n) \cup T, h, n) /\ (l > 0 => n > 0) BY <1>1, <1>5, HistoryIsWhole
<1>8. Whole({} \cup RawLeft(p, h, n) \cup CoarseLeft(p, h), h, n)
  <2>1. {} \cup RawLeft(p, h, n) \cup CoarseLeft(p, h) = Held(h, n) \cup T BY <1>4, <1>6
  <2> QED BY <1>7, <2>1
<1>9. (n + 1)..n = {} OBVIOUS
<1>10. p.phase = "coarse" => InTime({}, p, h, n)
  <2>1. p.phase = "coarse" => l > 0 /\ n > 0 /\ p.throughMs = h.coarse[l].ms
    BY <1>1, <1>7
  <2>2. l > 0 => h.coarse[l].ms \in Nat
    <3>1. \A i \in 1..l : h.coarse[i].ms \in Nat BY <1>1, TimesAre
    <3> QED BY <3>1
  <2> QED BY <1>1, <1>2, <2>1, <2>2 DEF InTime
<1> QED BY <1>2, <1>8, <1>9, <1>10 DEF Sends

(* It goes on with a page of buckets. *)
LEMMA SendsCoarse ==
    ASSUME NEW n \in Nat, NEW h \in Windows, NEW active, InBuckets(h, n, active),
           NEW p \in Replay, p.phase = "coarse", NEW C, Sends(C, p, h, n),
           NEW page, page = CoarsePage(h, p.from, p.throughMs, CoarsePageSize),
           NEW q \in Replay, q.through = p.through, q.throughMs = p.throughMs,
           q.after = p.after, q.phase \in {"coarse", "raw"},
           Len(page) = 0 => q.phase = "raw",
           Len(page) # 0 =>
              /\ q.from = page[Len(page)].ms + Resolution
              /\ q.phase = "raw" <=>
                    Len(page) < CoarsePageSize \/ page[Len(page)].ms >= p.throughMs
    PROVE  /\ Len(page) \in Nat
           /\ Sends(C \cup UNION {page[i].of : i \in 1..Len(page)}, q, h, n)
<1>1. PICK l \in Nat, R \in Nat \ {0}, N \in Nat \ {0} :
         l = Len(h.coarse) /\ R = Resolution /\ N = CoarsePageSize
  BY WindowAssumption, TelemetryAssumption DEF Windows
<1>2. PICK from \in Nat, upto \in Nat, u \in Nat :
         from = p.from /\ upto = p.throughMs /\ u = p.through
  BY DEF Replay
<1>3. PICK ms : ms = Times(h) OBVIOUS
<1>4. Steady(ms, l) /\ \A i \in 1..l : ms[i] = h.coarse[i].ms /\ ms[i] \in Nat
  BY <1>1, <1>3, TimesAre
<1>5. \A i, j \in 1..l : i < j => ms[i] + R <= ms[j] BY <1>1, <1>4, SteadyIs
<1>6. PICK b, t, m : Taken(page, h.coarse, ms, l, from, upto, N, b, t, m)
  BY <1>1, <1>2, <1>3, CoarseTakes
<1>7. /\ b \in 0..l /\ t \in 0..l /\ m \in Nat /\ Len(page) = m
      /\ \A i \in 1..l : (ms[i] < from <=> i <= b) /\ (ms[i] <= upto <=> i <= t)
      /\ (t <= b => m = 0)
      /\ b < t => m = (IF t - b < N THEN t - b ELSE N)
      /\ m > 0 => b < t
      /\ \A i \in 1..m : b + i \in 1..l /\ page[i] = h.coarse[b + i]
  BY <1>6 DEF Taken
<1>8. PICK B : B = UNION {page[i].of : i \in 1..m} OBVIOUS
<1>9. Left(p, h) = {i \in 1..l : b < i /\ i <= t}
  <2>1. \A i \in 1..l : ms[i] >= from <=> b < i BY <1>2, <1>4, <1>7
  <2> QED BY <1>1, <1>2, <1>4, <1>7, <2>1 DEF Left
<1>10. CoarseLeft(p, h) = B \cup CoarseLeft(q, h)
  <2>1. CASE m = 0
    <3>1. ~(b < t) BY <1>1, <1>7, <2>1
    <3>2. Left(p, h) = {} BY <1>7, <1>9, <3>1
    <3>3. q.phase = "raw" /\ B = {} BY <1>7, <1>8, <2>1
    <3> QED BY <3>2, <3>3 DEF CoarseLeft
  <2>2. CASE m # 0
    <3>1. b < t /\ m \in 1..m /\ b + m \in 1..l /\ page[m] = h.coarse[b + m] /\ b + m <= t
      BY <1>1, <1>7, <2>2
    <3>2. q.from = ms[b + m] + R /\ ms[b + m] \in Nat BY <1>1, <1>4, <1>7, <2>2, <3>1
    <3>3. ASSUME NEW i \in 1..l PROVE ms[i] >= q.from <=> b + m < i
      <4>1. i < b + m => ms[i] + R <= ms[b + m] BY <1>5, <3>1
      <4>2. b + m < i => ms[b + m] + R <= ms[i] BY <1>5, <3>1
      <4>3. ms[i] \in Nat BY <1>4
      <4>4. PICK w \in 1..l : w = b + m BY <3>1
      <4>5. i = w => ms[i] < ms[w] + R BY <1>1, <3>2, <4>4
      <4>6. i < w => ms[i] < ms[w] + R BY <1>1, <3>2, <4>1, <4>3, <4>4
      <4>7. w < i => ms[i] >= ms[w] + R BY <1>1, <3>2, <4>2, <4>3, <4>4
      <4>8. ms[w] + R \in Nat /\ q.from = ms[w] + R BY <1>1, <3>2, <4>4
      <4> QED BY <4>3, <4>4, <4>5, <4>6, <4>7, <4>8
    <3>4. Left(q, h) = {i \in 1..l : b + m < i /\ i <= t}
      BY <1>1, <1>2, <1>4, <1>7, <3>3 DEF Left
    <3>5. B = UNION {h.coarse[i].of : i \in {j \in 1..l : b < j /\ j <= b + m}}
      <4>1. ASSUME NEW i \in 1..m
            PROVE  b + i \in {j \in 1..l : b < j /\ j <= b + m} /\ page[i] = h.coarse[b + i]
        BY <1>7
      <4>2. ASSUME NEW j \in 1..l, b < j, j <= b + m
            PROVE  j - b \in 1..m /\ page[j - b] = h.coarse[j]
        <5>1. j - b \in 1..m /\ b + (j - b) = j BY <1>7, <4>2
        <5> QED BY <1>7, <5>1
      <4> QED BY <1>8, <4>1, <4>2
    <3>6. q.phase = "raw" => Left(q, h) = {}
      <4> SUFFICES ASSUME q.phase = "raw", NEW i \in 1..l, b + m < i, i <= t PROVE FALSE
        BY <3>4
      <4>1. m < N \/ ms[b + m] >= upto
        <5>1. page[m].ms = ms[b + m] BY <1>4, <3>1
        <5> QED BY <1>1, <1>2, <1>7, <2>2, <5>1
      <4>2. ~(m < N) BY <1>1, <1>7, <3>1
      <4>3. ms[i] <= upto /\ ms[i] \in Nat BY <1>4, <1>7
      <4>4. ms[b + m] + R <= ms[i] BY <1>5, <3>1
      <4> QED BY <1>1, <1>2, <3>2, <4>1, <4>2, <4>3, <4>4
    <3>7. CoarseLeft(q, h) = UNION {h.coarse[i].of : i \in Left(q, h)}
      BY <3>6 DEF CoarseLeft
    <3>8. Left(p, h) = {j \in 1..l : b < j /\ j <= b + m} \cup Left(q, h)
      <4>1. \A j \in 1..l : b < j /\ j <= t <=> (b < j /\ j <= b + m) \/ (b + m < j /\ j <= t)
        BY <1>7, <3>1
      <4> QED BY <1>9, <3>4, <4>1
    <3>9. CoarseLeft(p, h) = UNION {h.coarse[i].of : i \in Left(p, h)} BY DEF CoarseLeft
    <3> QED BY <3>5, <3>7, <3>8, <3>9
  <2> QED BY <2>1, <2>2
<1>11. RawLeft(q, h, n) = RawLeft(p, h, n) BY DEF RawLeft
<1>12. /\ u <= n /\ (u + 1)..n \subseteq C /\ InTime(C, p, h, n)
       /\ Whole(C \cup RawLeft(p, h, n) \cup CoarseLeft(p, h), h, n)
  BY <1>2 DEF Sends
<1>13. (C \cup B) \cup RawLeft(q, h, n) \cup CoarseLeft(q, h)
         = C \cup RawLeft(p, h, n) \cup CoarseLeft(p, h)
  BY <1>10, <1>11
<1>14. q.phase = "coarse" => InTime(C \cup B, q, h, n)
  <2> SUFFICES ASSUME q.phase = "coarse" PROVE InTime(C \cup B, q, h, n) OBVIOUS
  <2>1. m # 0 /\ b + m \in 1..l /\ page[m] = h.coarse[b + m] BY <1>7
  <2>2. q.from = ms[b + m] + R /\ ms[b + m] \in Nat BY <1>1, <1>4, <1>7, <2>1
  <2>3. 1 \in 1..l /\ (1 < b + m => ms[1] + R <= ms[b + m]) BY <1>5, <2>1
  <2>4. h.coarse[1].ms < q.from
    <3>1. ms[1] \in Nat /\ h.coarse[1].ms = ms[1] BY <1>4, <2>3
    <3> QED BY <1>1, <1>7, <2>1, <2>2, <2>3, <3>1
  <2> QED BY <1>12, <2>4 DEF InTime
<1>15. Sends(C \cup B, q, h, n) BY <1>2, <1>12, <1>13, <1>14 DEF Sends
<1> QED BY <1>7, <1>8, <1>15

(* And with a page of samples, until it is at its end. *)
LEMMA SendsRaw ==
    ASSUME NEW n \in Nat, NEW h \in Windows, InRing(h, n),
           NEW p \in Replay, p.phase = "raw", NEW C, Sends(C, p, h, n),
           NEW page, page = RawPage(h, p.after, p.through, RawPageSize),
           NEW q \in Replay, q.through = p.through, q.phase \in {"raw", "end"},
           Len(page) = 0 => q.phase = "end",
           Len(page) # 0 =>
              /\ q.after = page[Len(page)].seq
              /\ q.phase = "end" <=>
                    Len(page) < RawPageSize \/ page[Len(page)].seq >= p.through
    PROVE  /\ Len(page) \in Nat
           /\ Sends(C \cup {page[i].seq : i \in 1..Len(page)}, q, h, n)
<1>1. PICK l \in Nat, N \in Nat \ {0} : l = Len(h.raw) /\ N = RawPageSize
  BY TelemetryAssumption DEF Windows
<1>2. PICK after \in Nat, upto \in Nat : after = p.after /\ upto = p.through BY DEF Replay
<1>3. PICK key : key = Seqs(h) OBVIOUS
<1>4. l <= n /\ \A i \in 1..l : key[i] = h.raw[i].seq /\ key[i] = n - l + i
  BY <1>1, <1>3 DEF InRing, Seqs
<1>6. PICK b, t, m : Taken(page, h.raw, key, l, after + 1, upto, N, b, t, m)
  BY <1>1, <1>2, <1>3, RawTakes
<1>7. /\ b \in 0..l /\ t \in 0..l /\ m \in Nat /\ Len(page) = m
      /\ \A i \in 1..l : (key[i] < after + 1 <=> i <= b) /\ (key[i] <= upto <=> i <= t)
      /\ (t <= b => m = 0)
      /\ b < t => m = (IF t - b < N THEN t - b ELSE N)
      /\ m > 0 => b < t
      /\ \A i \in 1..m : b + i \in 1..l /\ page[i] = h.raw[b + i]
  BY <1>6 DEF Taken
<1>8. PICK B : B = {page[i].seq : i \in 1..m} OBVIOUS
<1>9. PICK d \in Nat : d = n - l BY <1>1, <1>4
<1>10. Held(h, n) = (d + 1)..(d + l) BY <1>1, <1>9 DEF Held
<1>11. RawLeft(p, h, n) = (d + b + 1)..(d + t)
  <2>1. RawLeft(p, h, n) = {x \in (d + 1)..(d + l) : x > after /\ x <= upto}
    BY <1>2, <1>10 DEF RawLeft
  <2>2. ASSUME NEW x \in (d + 1)..(d + l)
        PROVE  x > after /\ x <= upto <=> x \in (d + b + 1)..(d + t)
    <3>1. PICK i \in 1..l : i = x - d BY <2>2
    <3>2. key[i] = x
      <4>1. key[i] = n - l + i BY <1>4
      <4>2. d + i = x BY <3>1
      <4> QED BY <1>9, <4>1, <4>2
    <3>3. (x < after + 1 <=> i <= b) /\ (x <= upto <=> i <= t) BY <1>7, <3>2
    <3> QED BY <1>7, <3>1, <3>3
  <2>3. \A x \in (d + b + 1)..(d + t) : x \in (d + 1)..(d + l) BY <1>7
  <2> QED BY <2>1, <2>2, <2>3
<1>12. B = (d + b + 1)..(d + b + m)
  <2>1. ASSUME NEW i \in 1..m PROVE page[i].seq = d + b + i
    <3>1. b + i \in 1..l /\ page[i] = h.raw[b + i] BY <1>7
    <3>2. page[i].seq = n - l + (b + i) BY <1>4, <3>1
    <3> QED BY <1>7, <1>9, <3>2
  <2>2. \A x \in (d + b + 1)..(d + b + m) : x - (d + b) \in 1..m /\ d + b + (x - (d + b)) = x
    BY <1>7
  <2>3. \A i \in 1..m : d + b + i \in (d + b + 1)..(d + b + m) BY <1>7
  <2> QED BY <1>8, <2>1, <2>2, <2>3
<1>13. RawLeft(p, h, n) = B \cup RawLeft(q, h, n)
  <2>1. CASE m = 0
    <3>1. ~(b < t) BY <1>1, <1>7, <2>1
    <3>2. (d + b + 1)..(d + t) = {} BY <1>7, <3>1
    <3>3. B = {} /\ RawLeft(q, h, n) = {} BY <1>7, <1>8, <2>1 DEF RawLeft
    <3> QED BY <1>11, <3>2, <3>3
  <2>2. CASE m # 0
    <3>1. b < t /\ m \in 1..m /\ b + m <= t /\ b + m \in 1..l BY <1>1, <1>7, <2>2
    <3>2. q.after = d + b + m
      <4>1. page[m] = h.raw[b + m] BY <1>7, <3>1
      <4>2. page[m].seq = n - l + (b + m) BY <1>4, <3>1, <4>1
      <4> QED BY <1>7, <1>9, <2>2, <4>2
    <3>3. ASSUME q.phase = "raw" PROVE RawLeft(q, h, n) = (d + b + m + 1)..(d + t)
      <4>1. RawLeft(q, h, n) = {x \in (d + 1)..(d + l) : x > d + b + m /\ x <= upto}
        BY <1>2, <1>10, <3>2, <3>3 DEF RawLeft
      <4>2. ASSUME NEW x \in (d + 1)..(d + l) PROVE x <= upto <=> x <= d + t
        <5>1. PICK i \in 1..l : i = x - d BY <4>2
        <5>2. key[i] = x
          <6>1. key[i] = n - l + i BY <1>4
          <6>2. d + i = x BY <5>1
          <6> QED BY <1>9, <6>1, <6>2
        <5>3. x <= upto <=> i <= t BY <1>7, <5>2
        <5> QED BY <1>7, <5>1, <5>3
      <4>3. \A x \in (d + b + m + 1)..(d + t) : x \in (d + 1)..(d + l) BY <1>7
      <4>4. \A x \in (d + 1)..(d + l) :
               x > d + b + m /\ x <= d + t <=> x \in (d + b + m + 1)..(d + t)
        BY <1>7
      <4> QED BY <4>1, <4>2, <4>3, <4>4
    <3>4. ASSUME q.phase = "end" PROVE RawLeft(q, h, n) = {} /\ b + m = t
      <4>1. m < N \/ d + b + m >= upto BY <1>1, <1>2, <1>7, <2>2, <3>2, <3>4
      <4>2. m < N => b + m = t BY <1>1, <1>7, <3>1
      <4>3. ASSUME d + b + m >= upto PROVE b + m = t
        <5>1. t \in 1..l BY <1>7, <3>1
        <5>2. key[t] = d + t /\ key[t] <= upto BY <1>4, <1>7, <1>9, <5>1
        <5> QED BY <1>2, <1>7, <3>1, <4>3, <5>2
      <4> QED BY <3>4, <4>1, <4>2, <4>3 DEF RawLeft
    <3>5. CASE q.phase = "raw"
      <4>1. (d + b + 1)..(d + t) = (d + b + 1)..(d + b + m) \cup (d + b + m + 1)..(d + t)
        BY <1>7, <3>1
      <4> QED BY <1>11, <1>12, <3>3, <3>5, <4>1
    <3>6. CASE q.phase = "end"
      <4>1. RawLeft(q, h, n) = {} /\ b + m = t BY <3>4, <3>6
      <4>2. d + b + m = d + t BY <1>7, <4>1
      <4> QED BY <1>11, <1>12, <4>1, <4>2
    <3> QED BY <3>5, <3>6
  <2> QED BY <2>1, <2>2
<1>14. CoarseLeft(p, h) = {} /\ CoarseLeft(q, h) = {} BY DEF CoarseLeft
<1>15. /\ upto <= n /\ (upto + 1)..n \subseteq C
       /\ Whole(C \cup RawLeft(p, h, n) \cup CoarseLeft(p, h), h, n)
  BY <1>2 DEF Sends
<1>16. (C \cup B) \cup RawLeft(q, h, n) \cup CoarseLeft(q, h)
         = C \cup RawLeft(p, h, n) \cup CoarseLeft(p, h)
  BY <1>13, <1>14
<1>17. Sends(C \cup B, q, h, n) BY <1>2, <1>15, <1>16 DEF Sends
<1> QED BY <1>7, <1>8, <1>17

LEMMA SendsAll ==
    ASSUME NEW n, NEW h, NEW p, p.phase = "end", NEW C, Sends(C, p, h, n)
    PROVE  Whole(C, h, n)
<1>1. RawLeft(p, h, n) = {} /\ CoarseLeft(p, h) = {} BY DEF RawLeft, CoarseLeft
<1>2. C \cup RawLeft(p, h, n) \cup CoarseLeft(p, h) = C BY <1>1
<1> QED BY <1>2 DEF Sends

-----------------------------------------------------------------------------
(* What is on its way, with another message behind. *)
LEMMA SawBehind ==
    ASSUME NEW u, NEW w, NEW m, Behind(u, w, m), NEW i \in 1..(Len(w) + 1),
           NEW a, NEW r, NEW x
    PROVE  Saw(u, i, a, r, x) <=> Saw(w, i, a, r, x)
<1>1. PICK l \in Nat : l = Len(w) BY DEF Behind
<1>2. \A j \in 1..l : u[j] = w[j] BY <1>1 DEF Behind
<1>3. \A j \in 1..(i - 1) : j \in 1..l /\ \A k \in (j + 1)..(i - 1) : k \in 1..l BY <1>1
<1>4. \A j \in 1..(i - 1) : u[j] = w[j] BY <1>2, <1>3
<1>5. \A j \in 1..(i - 1) : \A k \in (j + 1)..(i - 1) : u[k] = w[k] BY <1>2, <1>3
<1> QED BY <1>4, <1>5 DEF Saw

LEMMA FitsBehind ==
    ASSUME NEW u, NEW w, NEW m, Behind(u, w, m), NEW i \in 1..Len(w),
           NEW a, NEW r, NEW H
    PROVE  u[i] = w[i] /\ (Fits(u, i, a, r, H) <=> Fits(w, i, a, r, H))
<1>1. PICK l \in Nat : l = Len(w) BY DEF Behind
<1>2. u[i] = w[i] BY <1>1 DEF Behind
<1>3. i \in 1..(Len(w) + 1) BY <1>1
<1>4. Saw(u, i, a, r, TRUE) <=> Saw(w, i, a, r, TRUE) BY <1>3, SawBehind
<1> QED BY <1>2, <1>4 DEF Fits

LEMMA TrailBehind ==
    ASSUME NEW u, NEW w, NEW m, Behind(u, w, m), NEW n \in 0..Len(w), NEW k \in Nat,
           NEW a, NEW r, NEW H
    PROVE  /\ Trail(u, k, n, a, r, H) <=> Trail(w, k, n, a, r, H)
           /\ Sum(u, k, n, r) = Sum(w, k, n, r)
<1>1. PICK l \in Nat : l = Len(w) BY DEF Behind
<1>2. \A j \in (k + 1)..n : j \in 1..Len(w) BY <1>1
<1>3. \A j \in (k + 1)..n : u[j] = w[j] /\ (Fits(u, j, a, r, H) <=> Fits(w, j, a, r, H))
  BY <1>2, FitsBehind
<1>4. Trail(u, k, n, a, r, H) <=> Trail(w, k, n, a, r, H) BY <1>3 DEF Trail
<1>5. Sum(u, k, n, r) = Sum(w, k, n, r)
  <2>1. \A j \in (k + 1)..n : Brings(u[j], r) = Brings(w[j], r) BY <1>3
  <2> QED BY <2>1 DEF Sum
<1> QED BY <1>4, <1>5

LEMMA TrailGrows ==
    ASSUME NEW u, NEW w, NEW m, Behind(u, w, m), NEW k \in 0..Len(w), NEW a, NEW r, NEW H
    PROVE  /\ Trail(w, k, Len(w), a, r, H) /\ Fits(u, Len(u), a, r, H)
                => Trail(u, k, Len(u), a, r, H)
           /\ Sum(u, k, Len(u), r) = Sum(w, k, Len(w), r) \cup Brings(m, r)
<1>1. PICK l \in Nat : l = Len(w) BY DEF Behind
<1>2. Len(u) = l + 1 /\ u[l + 1] = m BY <1>1 DEF Behind
<1>3. k \in Nat /\ l \in 0..Len(w) BY <1>1
<1>4. /\ Trail(u, k, l, a, r, H) <=> Trail(w, k, l, a, r, H)
      /\ Sum(u, k, l, r) = Sum(w, k, l, r)
  BY <1>3, TrailBehind
<1>5. (k + 1)..(l + 1) = (k + 1)..l \cup {l + 1} BY <1>1
<1>6. Sum(u, k, l + 1, r) = Sum(u, k, l, r) \cup Brings(u[l + 1], r) BY <1>5 DEF Sum
<1>7. Trail(u, k, l, a, r, H) /\ Fits(u, l + 1, a, r, H) => Trail(u, k, l + 1, a, r, H)
  BY <1>5 DEF Trail
<1> QED BY <1>1, <1>2, <1>4, <1>6, <1>7

LEMMA GathersBehind ==
    ASSUME NEW u, NEW w, NEW m, Behind(u, w, m), NEW n \in 0..Len(w), NEW k \in 0..n,
           NEW a, NEW t, NEW r, NEW sn, Gathers(w, k, n, a, t, r, sn)
    PROVE  Gathers(u, k, n, a, t, r, sn) /\ Coll(u, k, n, t, r) = Coll(w, k, n, t, r)
<1>1. PICK l \in Nat : l = Len(w) BY DEF Behind
<1>2. \A i \in 1..l : u[i] = w[i] BY <1>1 DEF Behind
<1>3. k \in Nat BY <1>1
<1>4. /\ Trail(u, k, n, a, r, {sn}) <=> Trail(w, k, n, a, r, {sn})
      /\ Sum(u, k, n, r) = Sum(w, k, n, r)
  BY <1>3, TrailBehind
<1>5. k > 0 => k \in 1..l /\ (k > 1 => k - 1 \in 1..l) BY <1>1
<1>6. k > 0 => Opens(u, k, a, r, sn) BY <1>2, <1>5 DEF Gathers, Opens
<1> QED BY <1>4, <1>6 DEF Gathers, Coll

(* A message that fits adds what it brings. *)
LEMMA GathersGrows ==
    ASSUME NEW u, NEW w, NEW m, Behind(u, w, m), NEW k \in 0..Len(w),
           NEW a, NEW t, NEW r, NEW sn, Gathers(w, k, Len(w), a, t, r, sn),
           Fits(u, Len(u), a, r, {sn})
    PROVE  /\ Gathers(u, k, Len(u), a, t, r, sn)
           /\ Coll(u, k, Len(u), t, r) = Coll(w, k, Len(w), t, r) \cup Brings(m, r)
<1>1. PICK l \in Nat : l = Len(w) BY DEF Behind
<1>2. l \in 0..Len(w) /\ k \in 0..l BY <1>1
<1>3. Gathers(w, k, l, a, t, r, sn) BY <1>1
<1>4. Gathers(u, k, l, a, t, r, sn) BY ONLY Behind(u, w, m), <1>2, <1>3, GathersBehind
<1>5. /\ Trail(w, k, Len(w), a, r, {sn})
      /\ Trail(u, k, Len(u), a, r, {sn})
      /\ Sum(u, k, Len(u), r) = Sum(w, k, Len(w), r) \cup Brings(m, r)
  BY TrailGrows DEF Gathers
<1>6. Gathers(u, k, Len(u), a, t, r, sn) BY <1>4, <1>5 DEF Gathers
<1> QED BY <1>5, <1>6 DEF Coll

LEMMA GathersAnew ==
    ASSUME NEW u, NEW v, NEW w, NEW h, NEW b, Behind(v, w, h), Behind(u, v, b),
           NEW a, NEW t, NEW r, NEW sn,
           h.type = "hello", h.run = r, b.type = "begin", b.run = r, b.snap = sn
    PROVE  /\ Len(u) \in 0..Len(u) /\ Gathers(u, Len(u), Len(u), a, t, r, sn)
           /\ Coll(u, Len(u), Len(u), t, r) = {}
<1> PICK l \in Nat : l = Len(w) BY DEF Behind
<1>1. Len(v) = l + 1 /\ v[l + 1] = h BY DEF Behind
<1>2. Len(u) = l + 2 /\ u[l + 2] = b /\ \A i \in 1..(l + 1) : u[i] = v[i] BY <1>1 DEF Behind
<1>3. u[l + 1] = h BY <1>1, <1>2
<1>4. l + 2 > 1 /\ (l + 2) - 1 = l + 1 /\ l + 2 # 1 /\ l + 2 # 0 /\ l + 2 \in 0..(l + 2) OBVIOUS
<1>5. Opens(u, l + 2, a, r, sn) BY <1>2, <1>3, <1>4 DEF Opens
<1>6. ((l + 2) + 1)..(l + 2) = {} OBVIOUS
<1>7. Trail(u, l + 2, l + 2, a, r, {sn}) /\ Sum(u, l + 2, l + 2, r) = {}
  BY <1>6 DEF Trail, Sum
<1>8. Gathers(u, l + 2, l + 2, a, t, r, sn) BY <1>4, <1>5, <1>7 DEF Gathers
<1>9. Coll(u, l + 2, l + 2, t, r) = {} BY <1>4, <1>7 DEF Coll
<1> QED BY <1>2, <1>4, <1>8, <1>9

(* The same for what the graph will be of. *)
LEMMA ResultsGrows ==
    ASSUME NEW u, NEW w, NEW m, Behind(u, w, m), NEW a, NEW t, NEW g, NEW r,
           NEW h, NEW n, NEW f, NEW e, Results(w, a, t, g, r, h, n),
           Fits(u, Len(u), a, r, {}),
           \A S : Whole(S, h, n) => Whole(S \cup Brings(m, r), f, e)
    PROVE  Results(u, a, t, g, r, f, e)
<1>1. PICK l \in Nat : l = Len(w) BY DEF Behind
<1>2. Len(u) = l + 1 /\ \A i \in 1..l : u[i] = w[i] BY <1>1 DEF Behind
<1>3. PICK p \in 0..l, k \in 0..l :
         /\ Settled(w, p, k, a, t, r) /\ Trail(w, p, l, a, r, {})
         /\ Whole(Base(w, p, k, t, g, r) \cup Sum(w, p, l, r), h, n)
  BY <1>1 DEF Results
<1>4. Settled(u, p, k, a, t, r) /\ Base(u, p, k, t, g, r) = Base(w, p, k, t, g, r)
  <2>1. p > 0 => p \in 1..l /\ u[p] = w[p] BY <1>2
  <2>2. CASE p = 0 BY <1>3, <2>2 DEF Settled, Base
  <2>3. CASE /\ p > 0 /\ w[p].type = "state" /\ w[p].run = r
             /\ ~Saw(w, p, a, r, TRUE) /\ ~Saw(w, p, a, r, FALSE)
    <3>1. p \in 1..(Len(w) + 1) BY <1>1, <2>3
    <3>2. ~Saw(u, p, a, r, TRUE) /\ ~Saw(u, p, a, r, FALSE) BY <2>3, <3>1, SawBehind
    <3>3. p # 0 BY <2>3
    <3> QED BY <2>1, <2>3, <3>2, <3>3 DEF Settled, Base
  <2>4. CASE /\ p > 0 /\ w[p].type = "end" /\ w[p].run = r
             /\ k < p /\ Gathers(w, k, p - 1, a, t, r, w[p].snap)
    <3>1. PICK o : o = p - 1 OBVIOUS
    <3>2. o \in 0..Len(w) /\ k \in 0..o BY <1>1, <2>4, <3>1
    <3>3. Gathers(w, k, o, a, t, r, w[p].snap) BY <2>4, <3>1
    <3>4. Gathers(u, k, o, a, t, r, w[p].snap) /\ Coll(u, k, o, t, r) = Coll(w, k, o, t, r)
      BY ONLY Behind(u, w, m), <3>2, <3>3, GathersBehind
    <3>5. p # 0 BY <2>4
    <3> QED BY <2>1, <2>4, <3>1, <3>4, <3>5 DEF Settled, Base
  <2> QED BY <1>3, <2>2, <2>3, <2>4 DEF Settled
<1>5. p \in 0..Len(w) BY <1>1
<1>6. /\ Trail(u, p, Len(u), a, r, {})
      /\ Sum(u, p, Len(u), r) = Sum(w, p, Len(w), r) \cup Brings(m, r)
  <2>1. Trail(w, p, Len(w), a, r, {}) BY <1>1, <1>3
  <2> QED BY ONLY Behind(u, w, m), Fits(u, Len(u), a, r, {}), <1>5, <2>1, TrailGrows
<1>7. Whole((Base(w, p, k, t, g, r) \cup Sum(w, p, l, r)) \cup Brings(m, r), f, e) BY <1>3
<1>8. (Base(w, p, k, t, g, r) \cup Sum(w, p, l, r)) \cup Brings(m, r)
        = Base(u, p, k, t, g, r) \cup Sum(u, p, Len(u), r)
  BY <1>1, <1>4, <1>6
<1>9. p \in 0..Len(u) /\ k \in 0..Len(u) BY <1>2
<1> QED BY <1>4, <1>6, <1>7, <1>8, <1>9 DEF Results

LEMMA ResultsSame ==
    ASSUME NEW w, NEW a, NEW t, NEW g, NEW r, NEW h, NEW n, NEW f, NEW e,
           Results(w, a, t, g, r, h, n), \A S : Whole(S, h, n) => Whole(S, f, e)
    PROVE  Results(w, a, t, g, r, f, e)
BY DEF Results

(* The end of a replay, or the state of a new run, behind any messages. *)
LEMMA ResultsOfReplay ==
    ASSUME NEW u, NEW w, NEW m, Behind(u, w, m), NEW a, NEW t, NEW g, NEW r, NEW sn,
           NEW h, NEW n, NEW k \in 0..Len(w), Gathers(w, k, Len(w), a, t, r, sn),
           Whole(Coll(w, k, Len(w), t, r), h, n),
           m.type = "end", m.run = r, m.snap = sn
    PROVE  Results(u, a, t, g, r, h, n)
<1>1. PICK l \in Nat : l = Len(w) BY DEF Behind
<1>2. Len(u) = l + 1 /\ u[l + 1] = m BY <1>1 DEF Behind
<1>3. l \in 0..Len(w) /\ k \in 0..l /\ Gathers(w, k, l, a, t, r, sn) BY <1>1
<1>4. Gathers(u, k, l, a, t, r, sn) /\ Coll(u, k, l, t, r) = Coll(w, k, l, t, r)
  BY ONLY Behind(u, w, m), <1>3, GathersBehind
<1>5. (l + 1) - 1 = l /\ l + 1 > 0 /\ k < l + 1 /\ l + 1 # 0 BY <1>1
<1>6. Settled(u, l + 1, k, a, t, r) BY <1>2, <1>4, <1>5 DEF Settled
<1>7. Base(u, l + 1, k, t, g, r) = Coll(w, k, l, t, r) BY <1>2, <1>4, <1>5 DEF Base
<1>8. ((l + 1) + 1)..(l + 1) = {} OBVIOUS
<1>9. Trail(u, l + 1, l + 1, a, r, {}) /\ Sum(u, l + 1, l + 1, r) = {}
  BY <1>8 DEF Trail, Sum
<1>10. Whole(Base(u, l + 1, k, t, g, r) \cup Sum(u, l + 1, l + 1, r), h, n)
  <2>1. Base(u, l + 1, k, t, g, r) \cup Sum(u, l + 1, l + 1, r) = Coll(w, k, Len(w), t, r)
    BY <1>1, <1>7, <1>9
  <2> QED BY <2>1
<1>11. l + 1 \in 0..Len(u) /\ k \in 0..Len(u) BY <1>1, <1>2
<1> QED BY <1>2, <1>6, <1>9, <1>10, <1>11 DEF Results

LEMMA ResultsOfNew ==
    ASSUME NEW u, NEW w, NEW m, Behind(u, w, m), NEW a, NEW t, NEW g, NEW r,
           NEW h, NEW n, Whole({}, h, n), m.type = "state", m.run = r,
           ~Saw(w, Len(w) + 1, a, r, TRUE), ~Saw(w, Len(w) + 1, a, r, FALSE)
    PROVE  Results(u, a, t, g, r, h, n)
<1>1. PICK l \in Nat : l = Len(w) BY DEF Behind
<1>2. Len(u) = l + 1 /\ u[l + 1] = m BY <1>1 DEF Behind
<1>3. l + 1 \in 1..(Len(w) + 1) BY <1>1
<1>4. ~Saw(u, l + 1, a, r, TRUE) /\ ~Saw(u, l + 1, a, r, FALSE)
  BY <1>1, <1>3, SawBehind
<1>5. l + 1 > 0 /\ l + 1 # 0 OBVIOUS
<1>6. Settled(u, l + 1, 0, a, t, r) BY <1>2, <1>4, <1>5 DEF Settled
<1>7. Base(u, l + 1, 0, t, g, r) = {} BY <1>2, <1>5 DEF Base
<1>8. ((l + 1) + 1)..(l + 1) = {} OBVIOUS
<1>9. Trail(u, l + 1, l + 1, a, r, {}) /\ Sum(u, l + 1, l + 1, r) = {}
  BY <1>8 DEF Trail, Sum
<1>10. Whole(Base(u, l + 1, 0, t, g, r) \cup Sum(u, l + 1, l + 1, r), h, n)
  <2>1. Base(u, l + 1, 0, t, g, r) \cup Sum(u, l + 1, l + 1, r) = {} BY <1>7, <1>9
  <2> QED BY <2>1
<1>11. l + 1 \in 0..Len(u) /\ 0 \in 0..Len(u) BY <1>2
<1> QED BY <1>2, <1>6, <1>9, <1>10, <1>11 DEF Results

LEMMA ReplaysGrows ==
    ASSUME NEW u, NEW w, NEW m, Behind(u, w, m), NEW a, NEW t, NEW r, NEW p, NEW q,
           NEW h, NEW n, NEW f, NEW e, Replays(w, a, t, r, p, h, n),
           q.snap = p.snap, Fits(u, Len(u), a, r, {p.snap}),
           \A C : Sends(C, p, h, n) => Sends(C \cup Brings(m, r), q, f, e)
    PROVE  Replays(u, a, t, r, q, f, e)
<1>1. PICK l \in Nat : l = Len(w) BY DEF Behind
<1>2. Len(u) = l + 1 BY <1>1 DEF Behind
<1>3. PICK k \in 0..Len(w) : /\ Gathers(w, k, Len(w), a, t, r, p.snap)
                             /\ Sends(Coll(w, k, Len(w), t, r), p, h, n)
  BY DEF Replays
<1>4. PICK sn : sn = p.snap OBVIOUS
<1>5. Gathers(w, k, Len(w), a, t, r, sn) /\ Fits(u, Len(u), a, r, {sn}) BY <1>3, <1>4
<1>6. /\ Gathers(u, k, Len(u), a, t, r, sn)
      /\ Coll(u, k, Len(u), t, r) = Coll(w, k, Len(w), t, r) \cup Brings(m, r)
  BY ONLY Behind(u, w, m), k \in 0..Len(w), <1>5, GathersGrows
<1>7. Sends(Coll(w, k, Len(w), t, r) \cup Brings(m, r), q, f, e) BY <1>3
<1>8. k \in 0..Len(u) BY <1>1, <1>2
<1> QED BY <1>4, <1>6, <1>7, <1>8 DEF Replays

LEMMA ReplaysSame ==
    ASSUME NEW w, NEW a, NEW t, NEW r, NEW p, NEW q, NEW h, NEW n, NEW f, NEW e,
           Replays(w, a, t, r, p, h, n), q.snap = p.snap,
           \A C : Sends(C, p, h, n) => Sends(C, q, f, e)
    PROVE  Replays(w, a, t, r, q, f, e)
BY DEF Replays

LEMMA ReplaysAnew ==
    ASSUME NEW u, NEW v, NEW w, NEW h, NEW b, Behind(v, w, h), Behind(u, v, b),
           NEW a, NEW t, NEW r, NEW p, NEW f, NEW n,
           h.type = "hello", h.run = r, b.type = "begin", b.run = r, b.snap = p.snap,
           Sends({}, p, f, n)
    PROVE  Replays(u, a, t, r, p, f, n)
<1>1. PICK sn : sn = p.snap OBVIOUS
<1>2. PICK l : l = Len(u) OBVIOUS
<1>3. l \in 0..Len(u) /\ Gathers(u, l, Len(u), a, t, r, sn) /\ Coll(u, l, Len(u), t, r) = {}
  BY <1>1, <1>2, GathersAnew
<1> QED BY <1>1, <1>3 DEF Replays

-----------------------------------------------------------------------------
(* What is on its way, with the first message handled. *)
Shown(m, a, b) ==
    /\ ~IsNews(m) => b = a
    /\ IsNews(m) => b.id = m.run /\ b.active = m.active

LEMMA SawShift ==
    ASSUME NEW v, NEW w, NEW m, Front(v, w, m), NEW a, NEW b, Shown(m, a, b),
           NEW i \in 1..(Len(v) + 1), NEW r, NEW x
    PROVE  Saw(v, i, b, r, x) <=> Saw(w, i + 1, a, r, x)
<1>1. PICK l \in Nat : l = Len(v) BY DEF Front
<1>2. w[1] = m /\ \A j \in 1..l : v[j] = w[j + 1] BY <1>1 DEF Front
<1>3. \A j \in 1..(i - 1) : j \in 1..l /\ v[j] = w[j + 1] BY <1>1, <1>2
<1>4. (i + 1) - 1 = i /\ 1 \in 1..i BY <1>1
<1>5. ASSUME Saw(w, i + 1, a, r, x) PROVE Saw(v, i, b, r, x)
  <2>1. CASE (\A j \in 1..i : ~IsNews(w[j])) /\ a.id = r /\ a.active = x
    <3>1. \A j \in 1..(i - 1) : j + 1 \in 1..i BY <1>1
    <3>2. \A j \in 1..(i - 1) : ~IsNews(v[j]) BY <1>3, <2>1, <3>1
    <3>3. b = a BY <1>2, <1>4, <2>1 DEF Shown
    <3> QED BY <2>1, <3>2, <3>3 DEF Saw
  <2>2. ASSUME NEW j \in 1..i, IsNews(w[j]), w[j].run = r, w[j].active = x,
               \A k \in (j + 1)..i : ~IsNews(w[k])
        PROVE  Saw(v, i, b, r, x)
    <3>1. \A k \in j..(i - 1) : k \in 1..(i - 1) /\ k + 1 \in (j + 1)..i BY <1>1
    <3>2. \A k \in j..(i - 1) : ~IsNews(v[k]) BY <1>3, <2>2, <3>1
    <3>3. CASE j = 1
      <4>1. b.id = r /\ b.active = x BY <1>2, <2>2, <3>3 DEF Shown
      <4> QED BY <3>2, <3>3, <4>1 DEF Saw
    <3>4. CASE j # 1
      <4>1. j - 1 \in 1..(i - 1) /\ (j - 1) + 1 = j BY <1>1, <3>4
      <4>2. v[j - 1] = w[j] BY <1>3, <4>1
      <4>3. \A k \in ((j - 1) + 1)..(i - 1) : ~IsNews(v[k]) BY <3>2, <4>1
      <4> QED BY <2>2, <4>1, <4>2, <4>3 DEF Saw
    <3> QED BY <3>3, <3>4
  <2> QED BY <1>4, <1>5, <2>1, <2>2 DEF Saw
<1>6. ASSUME Saw(v, i, b, r, x) PROVE Saw(w, i + 1, a, r, x)
  <2>1. CASE (\A j \in 1..(i - 1) : ~IsNews(v[j])) /\ b.id = r /\ b.active = x
    <3>1. \A k \in 2..i : k - 1 \in 1..(i - 1) /\ (k - 1) + 1 = k BY <1>1
    <3>2. \A k \in 2..i : ~IsNews(w[k]) BY <1>3, <2>1, <3>1
    <3>3. CASE IsNews(m)
      <4>1. w[1].run = r /\ w[1].active = x BY <1>2, <2>1, <3>3 DEF Shown
      <4>2. \A k \in (1 + 1)..i : ~IsNews(w[k]) BY <3>2
      <4> QED BY <1>2, <1>4, <3>3, <4>1, <4>2 DEF Saw
    <3>4. CASE ~IsNews(m)
      <4>1. \A k \in 1..i : k = 1 \/ k \in 2..i BY <1>1
      <4>2. \A k \in 1..i : ~IsNews(w[k]) BY <1>2, <3>2, <3>4, <4>1
      <4>3. a = b BY <3>4 DEF Shown
      <4> QED BY <1>4, <2>1, <4>2, <4>3 DEF Saw
    <3> QED BY <3>3, <3>4
  <2>2. ASSUME NEW j \in 1..(i - 1), IsNews(v[j]), v[j].run = r, v[j].active = x,
               \A k \in (j + 1)..(i - 1) : ~IsNews(v[k])
        PROVE  Saw(w, i + 1, a, r, x)
    <3>1. j + 1 \in 1..i /\ v[j] = w[j + 1] BY <1>1, <1>3
    <3>2. \A k \in ((j + 1) + 1)..i :
             k - 1 \in (j + 1)..(i - 1) /\ k - 1 \in 1..(i - 1) /\ (k - 1) + 1 = k
      BY <1>1
    <3>3. \A k \in ((j + 1) + 1)..i : ~IsNews(w[k]) BY <1>3, <2>2, <3>2
    <3> QED BY <1>4, <2>2, <3>1, <3>3 DEF Saw
  <2> QED BY <1>6, <2>1, <2>2 DEF Saw
<1> QED BY <1>5, <1>6

LEMMA FitsShift ==
    ASSUME NEW v, NEW w, NEW m, Front(v, w, m), NEW a, NEW b, Shown(m, a, b),
           NEW i \in 1..Len(v), NEW r, NEW H
    PROVE  v[i] = w[i + 1] /\ (Fits(v, i, b, r, H) <=> Fits(w, i + 1, a, r, H))
<1>1. PICK l \in Nat : l = Len(v) BY DEF Front
<1>2. v[i] = w[i + 1] BY <1>1 DEF Front
<1>3. i \in 1..(Len(v) + 1) BY <1>1
<1>4. Saw(v, i, b, r, TRUE) <=> Saw(w, i + 1, a, r, TRUE) BY <1>3, SawShift
<1> QED BY <1>2, <1>4 DEF Fits

LEMMA TrailShift ==
    ASSUME NEW v, NEW w, NEW m, Front(v, w, m), NEW a, NEW b, Shown(m, a, b),
           NEW n \in 0..Len(v), NEW k \in Nat, NEW r, NEW H
    PROVE  /\ Trail(w, k + 1, n + 1, a, r, H) => Trail(v, k, n, b, r, H)
           /\ Sum(w, k + 1, n + 1, r) = Sum(v, k, n, r)
<1>1. PICK l \in Nat : l = Len(v) BY DEF Front
<1>2. \A j \in (k + 1)..n : j \in 1..Len(v) /\ j + 1 \in ((k + 1) + 1)..(n + 1) BY <1>1
<1>3. \A j \in (k + 1)..n : v[j] = w[j + 1] /\ (Fits(v, j, b, r, H) <=> Fits(w, j + 1, a, r, H))
  BY <1>2, FitsShift
<1>4. Trail(w, k + 1, n + 1, a, r, H) => Trail(v, k, n, b, r, H) BY <1>2, <1>3 DEF Trail
<1>5. \A j \in ((k + 1) + 1)..(n + 1) : j - 1 \in (k + 1)..n /\ (j - 1) + 1 = j BY <1>1
<1>6. Sum(w, k + 1, n + 1, r) = Sum(v, k, n, r)
  <2>1. \A j \in (k + 1)..n : Brings(v[j], r) = Brings(w[j + 1], r) BY <1>3
  <2>2. \A x : x \in Sum(v, k, n, r) => x \in Sum(w, k + 1, n + 1, r) BY <1>2, <2>1 DEF Sum
  <2>3. \A x : x \in Sum(w, k + 1, n + 1, r) => x \in Sum(v, k, n, r) BY <1>5, <2>1 DEF Sum
  <2> QED BY <2>2, <2>3
<1> QED BY <1>4, <1>6

(* The first of the messages, of which none was before it. *)
FitsFirst(m, a, r, H) ==
    \/ m.type = "sample" /\ (m.run = r => a.id = r /\ a.active = TRUE)
    \/ m.type = "state" /\ m.run = r
    \/ m.type = "history" /\ m.run = r /\ m.snap \in H

LEMMA TrailFirst ==
    ASSUME NEW v, NEW w, NEW m, Front(v, w, m), NEW a, NEW b, Shown(m, a, b),
           NEW n \in 0..Len(v), NEW r, NEW H
    PROVE  /\ Trail(w, 0, n + 1, a, r, H) => FitsFirst(m, a, r, H) /\ Trail(v, 0, n, b, r, H)
           /\ Sum(w, 0, n + 1, r) = Brings(m, r) \cup Sum(v, 0, n, r)
<1>1. PICK l \in Nat : l = Len(v) BY DEF Front
<1>2. w[1] = m BY DEF Front
<1>3. /\ Trail(w, 0 + 1, n + 1, a, r, H) => Trail(v, 0, n, b, r, H)
      /\ Sum(w, 0 + 1, n + 1, r) = Sum(v, 0, n, r)
  <2>1. 0 \in Nat OBVIOUS
  <2> QED BY <2>1, TrailShift
<1>4. (0 + 1)..(n + 1) = {1} \cup ((0 + 1) + 1)..(n + 1) BY <1>1
<1>5. ASSUME Trail(w, 0, n + 1, a, r, H) PROVE FitsFirst(m, a, r, H) /\ Trail(v, 0, n, b, r, H)
  <2>1. Trail(w, 0 + 1, n + 1, a, r, H) BY <1>4, <1>5 DEF Trail
  <2>2. Fits(w, 1, a, r, H) BY <1>4, <1>5 DEF Trail
  <2>3. ~\E j \in 1..(1 - 1) : TRUE OBVIOUS
  <2>4. Saw(w, 1, a, r, TRUE) => a.id = r /\ a.active = TRUE BY <2>3 DEF Saw
  <2>5. FitsFirst(m, a, r, H) BY <1>2, <2>2, <2>4 DEF Fits, FitsFirst
  <2> QED BY <1>3, <2>1, <2>5
<1>6. Sum(w, 0, n + 1, r) = Brings(w[1], r) \cup Sum(w, 0 + 1, n + 1, r) BY <1>4 DEF Sum
<1> QED BY <1>2, <1>3, <1>5, <1>6

-----------------------------------------------------------------------------
(* What handling the message m does to the run r as shown, to its snapshot and to its
   graph: what fits adds what it brings, begin and a new run start from nothing, and
   the end puts the snapshot in the graph's place. *)
Takes(m, a, t, g, b, s, f, r) ==
    /\ Shown(m, a, b)
    /\ \A sn : IsOpen(t, r, sn) /\ FitsFirst(m, a, r, {sn}) =>
                  IsOpen(s, r, sn) /\ Points(s) = Points(t) \cup Brings(m, r)
    /\ m.type = "begin" /\ m.run = r /\ a.id = r =>
          IsOpen(s, r, m.snap) /\ Points(s) = {}
    /\ a.id = r /\ t = None /\ FitsFirst(m, a, r, {}) =>
          b.id = r /\ s = None /\ Points(f) = Points(g) \cup Brings(m, r)
    /\ m.type = "state" /\ m.run = r /\ a.id # r => b.id = r /\ s = None /\ Points(f) = {}
    /\ m.type = "end" /\ m.run = r /\ IsOpen(t, r, m.snap) =>
          b.id = r /\ s = None /\ Points(f) = Points(t)

LEMMA GathersShrinks ==
    ASSUME NEW v, NEW w, NEW m, Front(v, w, m), NEW a, NEW t, NEW g, NEW b, NEW s, NEW f,
           NEW r, Takes(m, a, t, g, b, s, f, r), NEW sn,
           NEW n \in 0..Len(v), NEW k \in 0..(n + 1), Gathers(w, k, n + 1, a, t, r, sn)
    PROVE  \E j \in 0..n : /\ Gathers(v, j, n, b, s, r, sn)
                           /\ Coll(v, j, n, s, r) = Coll(w, k, n + 1, t, r)
<1>1. PICK l \in Nat : l = Len(v) BY DEF Front
<1>2. w[1] = m /\ \A i \in 1..l : v[i] = w[i + 1] BY <1>1 DEF Front
<1>3. Shown(m, a, b) BY DEF Takes
<1>4. Trail(w, k, n + 1, a, r, {sn}) BY DEF Gathers
<1>5. 0 \in 0..n BY <1>1
<1>6. CASE k = 0
  <2>1. IsOpen(t, r, sn) BY <1>6 DEF Gathers
  <2>2. /\ FitsFirst(m, a, r, {sn}) /\ Trail(v, 0, n, b, r, {sn})
        /\ Sum(w, 0, n + 1, r) = Brings(m, r) \cup Sum(v, 0, n, r)
    BY <1>3, <1>4, <1>6, TrailFirst
  <2>3. IsOpen(s, r, sn) /\ Points(s) = Points(t) \cup Brings(m, r) BY <2>1, <2>2 DEF Takes
  <2>4. Gathers(v, 0, n, b, s, r, sn) BY <2>2, <2>3 DEF Gathers
  <2>5. Coll(v, 0, n, s, r) = Coll(w, 0, n + 1, t, r) BY <2>2, <2>3 DEF Coll
  <2> QED BY <1>5, <1>6, <2>4, <2>5
<1>7. CASE k = 1
  <2>1. m.type = "begin" /\ m.run = r /\ m.snap = sn /\ a.id = r
    BY <1>2, <1>7 DEF Gathers, Opens
  <2>2. IsOpen(s, r, sn) /\ Points(s) = {} BY <2>1 DEF Takes
  <2>3. Trail(w, 0 + 1, n + 1, a, r, {sn}) BY <1>4, <1>7
  <2>4. 0 \in Nat OBVIOUS
  <2>5. Trail(v, 0, n, b, r, {sn}) /\ Sum(w, 0 + 1, n + 1, r) = Sum(v, 0, n, r)
    BY <1>3, <2>3, <2>4, TrailShift
  <2>6. Gathers(v, 0, n, b, s, r, sn) BY <2>2, <2>5 DEF Gathers
  <2>7. Coll(v, 0, n, s, r) = Coll(w, 1, n + 1, t, r) BY <2>2, <2>5 DEF Coll
  <2> QED BY <1>5, <1>7, <2>6, <2>7
<1>8. CASE k > 1
  <2>1. PICK j \in 0..n : j = k - 1 BY <1>1, <1>8
  <2>2. j \in Nat /\ j + 1 = k /\ j > 0 /\ j \in 1..l BY <1>1, <1>8, <2>1
  <2>3. /\ w[k].type = "begin" /\ w[k].run = r /\ w[k].snap = sn
        /\ w[j].type = "hello" /\ w[j].run = r
    BY <1>8, <2>1 DEF Gathers, Opens
  <2>4. v[j] = w[k] BY <1>2, <2>2
  <2>5. j = 1 => b.id = r
    <3>1. j = 1 => w[j] = m BY <1>2
    <3> QED BY <1>3, <2>3, <3>1 DEF Shown, IsNews
  <2>6. j > 1 => v[j - 1] = w[j]
    <3>1. j > 1 => j - 1 \in 1..l /\ (j - 1) + 1 = j BY <2>2
    <3> QED BY <1>2, <3>1
  <2>7. Opens(v, j, b, r, sn) BY <2>3, <2>4, <2>5, <2>6 DEF Opens
  <2>8. Trail(w, j + 1, n + 1, a, r, {sn}) BY <1>4, <2>2
  <2>9. Trail(v, j, n, b, r, {sn}) /\ Sum(w, j + 1, n + 1, r) = Sum(v, j, n, r)
    BY <1>3, <2>2, <2>8, TrailShift
  <2>10. Gathers(v, j, n, b, s, r, sn) BY <2>2, <2>7, <2>9 DEF Gathers
  <2>11. j # 0 /\ k # 0 BY <2>2, <1>8
  <2>12. Coll(v, j, n, s, r) = Coll(w, k, n + 1, t, r) BY <2>2, <2>9, <2>11 DEF Coll
  <2> QED BY <2>10, <2>12
<1> QED BY <1>6, <1>7, <1>8

LEMMA ReplaysShrinks ==
    ASSUME NEW v, NEW w, NEW m, Front(v, w, m), NEW a, NEW t, NEW g, NEW b, NEW s, NEW f,
           NEW r, Takes(m, a, t, g, b, s, f, r), NEW p, NEW h, NEW n,
           Replays(w, a, t, r, p, h, n)
    PROVE  Replays(v, b, s, r, p, h, n)
<1>1. PICK l \in Nat : l = Len(v) BY DEF Front
<1>2. Len(w) = l + 1 /\ l \in 0..Len(v) BY <1>1 DEF Front
<1>3. PICK sn : sn = p.snap OBVIOUS
<1>4. PICK k \in 0..(l + 1) : /\ Gathers(w, k, l + 1, a, t, r, sn)
                              /\ Sends(Coll(w, k, l + 1, t, r), p, h, n)
  BY <1>2, <1>3 DEF Replays
<1>5. PICK j \in 0..l : /\ Gathers(v, j, l, b, s, r, sn)
                        /\ Coll(v, j, l, s, r) = Coll(w, k, l + 1, t, r)
  BY ONLY Front(v, w, m), Takes(m, a, t, g, b, s, f, r), <1>2, <1>4, GathersShrinks
<1> QED BY <1>1, <1>3, <1>4, <1>5 DEF Replays

LEMMA ResultsShrinks ==
    ASSUME NEW v, NEW w, NEW m, Front(v, w, m), NEW a, NEW t, NEW g, NEW b, NEW s, NEW f,
           NEW r, Takes(m, a, t, g, b, s, f, r), a.active \in BOOLEAN, NEW h, NEW n,
           Results(w, a, t, g, r, h, n)
    PROVE  Results(v, b, s, f, r, h, n)
<1>1. PICK l \in Nat : l = Len(v) BY DEF Front
<1>2. /\ Len(w) = l + 1 /\ l \in 0..Len(v) /\ w[1] = m
      /\ \A i \in 1..l : v[i] = w[i + 1]
  BY <1>1 DEF Front
<1>3. Shown(m, a, b) BY DEF Takes
<1>4. PICK p \in 0..(l + 1), k \in 0..(l + 1) :
         /\ Settled(w, p, k, a, t, r) /\ Trail(w, p, l + 1, a, r, {})
         /\ Whole(Base(w, p, k, t, g, r) \cup Sum(w, p, l + 1, r), h, n)
  BY <1>2 DEF Results
<1>5. ASSUME NEW q \in 0..l, NEW j \in 0..l,
             Settled(v, q, j, b, s, r), Trail(v, q, l, b, r, {}),
             Base(v, q, j, s, f, r) \cup Sum(v, q, l, r)
                = Base(w, p, k, t, g, r) \cup Sum(w, p, l + 1, r)
      PROVE  Results(v, b, s, f, r, h, n)
  <2>1. Whole(Base(v, q, j, s, f, r) \cup Sum(v, q, l, r), h, n) BY <1>4, <1>5
  <2> QED BY <1>1, <1>5, <2>1 DEF Results
<1>6. 0 \in 0..l BY <1>1
<1>7. CASE p = 0
  <2>1. a.id = r /\ t = None BY <1>4, <1>7 DEF Settled
  <2>2. /\ FitsFirst(m, a, r, {}) /\ Trail(v, 0, l, b, r, {})
        /\ Sum(w, 0, l + 1, r) = Brings(m, r) \cup Sum(v, 0, l, r)
    <3>1. PICK H : H = {} OBVIOUS
    <3>2. Trail(w, 0, l + 1, a, r, H) BY <1>4, <1>7, <3>1
    <3>3. /\ FitsFirst(m, a, r, H) /\ Trail(v, 0, l, b, r, H)
          /\ Sum(w, 0, l + 1, r) = Brings(m, r) \cup Sum(v, 0, l, r)
      BY ONLY Front(v, w, m), <1>2, <1>3, <3>2, TrailFirst
    <3> QED BY <3>1, <3>3
  <2>3. b.id = r /\ s = None /\ Points(f) = Points(g) \cup Brings(m, r)
    BY <2>1, <2>2 DEF Takes
  <2>4. Settled(v, 0, 0, b, s, r) BY <2>3 DEF Settled
  <2>5. Base(v, 0, 0, s, f, r) \cup Sum(v, 0, l, r)
          = Base(w, p, k, t, g, r) \cup Sum(w, p, l + 1, r)
    BY <1>7, <2>2, <2>3 DEF Base
  <2> QED BY <1>5, <1>6, <2>2, <2>4, <2>5
<1>8. CASE p = 1
  <2>1. Trail(w, 0 + 1, l + 1, a, r, {}) /\ 0 \in Nat BY <1>4, <1>8
  <2>2. Trail(v, 0, l, b, r, {}) /\ Sum(w, 0 + 1, l + 1, r) = Sum(v, 0, l, r)
    BY <1>2, <1>3, <2>1, TrailShift
  <2>3. b.id = r /\ s = None /\ Points(f) = Base(w, p, k, t, g, r)
    <3>1. CASE m.type = "state" /\ m.run = r /\ ~Saw(w, 1, a, r, TRUE) /\ ~Saw(w, 1, a, r, FALSE)
      <4>1. a.id # r
        <5>1. \A j \in 1..(1 - 1) : FALSE OBVIOUS
        <5> QED BY <3>1, <5>1 DEF Saw
      <4>2. b.id = r /\ s = None /\ Points(f) = {} BY <3>1, <4>1 DEF Takes
      <4> QED BY <1>2, <1>8, <3>1, <4>2 DEF Base
    <3>2. CASE /\ m.type = "end" /\ m.run = r /\ k < 1
               /\ Gathers(w, k, 1 - 1, a, t, r, m.snap)
      <4>1. k = 0 BY <3>2
      <4>2. IsOpen(t, r, m.snap) BY <3>2, <4>1 DEF Gathers
      <4>3. b.id = r /\ s = None /\ Points(f) = Points(t) BY <3>2, <4>2 DEF Takes
      <4>4. Base(w, p, k, t, g, r) = Coll(w, 0, 1 - 1, t, r)
        BY <1>2, <1>8, <3>2, <4>1 DEF Base
      <4>5. Sum(w, 0, 1 - 1, r) = {}
        <5>1. (0 + 1)..(1 - 1) = {} OBVIOUS
        <5> QED BY <5>1 DEF Sum
      <4>6. Coll(w, 0, 1 - 1, t, r) = Points(t) BY <4>5 DEF Coll
      <4> QED BY <4>3, <4>4, <4>6
    <3>3. Settled(w, p, k, a, t, r) /\ p # 0 /\ w[p] = m BY <1>2, <1>4, <1>8
    <3>4. \/ m.type = "state" /\ m.run = r /\ ~Saw(w, 1, a, r, TRUE) /\ ~Saw(w, 1, a, r, FALSE)
          \/ /\ m.type = "end" /\ m.run = r /\ k < 1
             /\ Gathers(w, k, 1 - 1, a, t, r, m.snap)
      <4>1. \/ m.type = "state" /\ m.run = r /\ ~Saw(w, p, a, r, TRUE) /\ ~Saw(w, p, a, r, FALSE)
            \/ /\ m.type = "end" /\ m.run = r /\ k < p
               /\ Gathers(w, k, p - 1, a, t, r, m.snap)
        BY <3>3 DEF Settled
      <4> QED BY <1>8, <4>1
    <3> QED BY <3>1, <3>2, <3>4
  <2>4. Settled(v, 0, 0, b, s, r) BY <2>3 DEF Settled
  <2>5. Base(v, 0, 0, s, f, r) \cup Sum(v, 0, l, r)
          = Base(w, p, k, t, g, r) \cup Sum(w, p, l + 1, r)
    <3>1. Base(v, 0, 0, s, f, r) = Points(f) BY DEF Base
    <3>2. Sum(w, p, l + 1, r) = Sum(v, 0, l, r) BY <1>8, <2>2
    <3> QED BY <2>3, <3>1, <3>2
  <2> QED BY <1>5, <1>6, <2>2, <2>4, <2>5
<1>9. CASE p > 1
  <2>1. PICK q \in 1..l : q = p - 1 BY <1>1, <1>9
  <2>2. q \in Nat /\ q + 1 = p /\ q \in 0..l /\ q > 0 /\ q # 0 /\ p # 0 /\ p > 0
    BY <1>1, <1>9, <2>1
  <2>3. v[q] = w[p] BY <1>2, <2>2
  <2>4. Trail(w, q + 1, l + 1, a, r, {}) BY <1>4, <2>2
  <2>5. Trail(v, q, l, b, r, {}) /\ Sum(w, q + 1, l + 1, r) = Sum(v, q, l, r)
    BY <1>2, <1>3, <2>2, <2>4, TrailShift
  <2>6. CASE /\ w[p].type = "state" /\ w[p].run = r
             /\ ~Saw(w, p, a, r, TRUE) /\ ~Saw(w, p, a, r, FALSE)
    <3>1. q \in 1..(Len(v) + 1) BY <1>1, <2>1
    <3>2. /\ Saw(v, q, b, r, TRUE) <=> Saw(w, q + 1, a, r, TRUE)
          /\ Saw(v, q, b, r, FALSE) <=> Saw(w, q + 1, a, r, FALSE)
      BY <1>3, <3>1, SawShift
    <3>3. Settled(v, q, 0, b, s, r) BY <2>2, <2>3, <2>6, <3>2 DEF Settled
    <3>4. Base(v, q, 0, s, f, r) = {} /\ Base(w, p, k, t, g, r) = {}
      BY <2>2, <2>3, <2>6 DEF Base
    <3>5. Base(v, q, 0, s, f, r) \cup Sum(v, q, l, r)
            = Base(w, p, k, t, g, r) \cup Sum(w, p, l + 1, r)
      BY <2>2, <2>5, <3>4
    <3> QED BY <1>5, <1>6, <2>2, <2>5, <3>3, <3>5
  <2>7. CASE /\ w[p].type = "end" /\ w[p].run = r
             /\ k < p /\ Gathers(w, k, p - 1, a, t, r, w[p].snap)
    <3>1. PICK o : o = q - 1 OBVIOUS
    <3>2. o \in 0..Len(v) /\ k \in 0..(o + 1) /\ o + 1 = p - 1 /\ o = q - 1
      BY <1>1, <2>1, <2>2, <2>7, <3>1
    <3>3. PICK sn : sn = w[p].snap OBVIOUS
    <3>4. Gathers(w, k, o + 1, a, t, r, sn) BY <2>7, <3>2, <3>3
    <3>5. PICK j \in 0..o : /\ Gathers(v, j, o, b, s, r, sn)
                            /\ Coll(v, j, o, s, r) = Coll(w, k, o + 1, t, r)
      <4>1. o \in 0..Len(v) /\ k \in 0..(o + 1) BY <3>2
      <4> QED BY ONLY Front(v, w, m), Takes(m, a, t, g, b, s, f, r), <4>1, <3>4, GathersShrinks
    <3>6. j < q /\ j \in 0..l BY <1>1, <2>1, <3>2, <3>5
    <3>7. Settled(v, q, j, b, s, r)
      BY <2>2, <2>3, <2>7, <3>2, <3>3, <3>5, <3>6 DEF Settled
    <3>8. Base(v, q, j, s, f, r) = Base(w, p, k, t, g, r)
      BY <2>2, <2>3, <2>7, <3>2, <3>5 DEF Base
    <3>9. Base(v, q, j, s, f, r) \cup Sum(v, q, l, r)
            = Base(w, p, k, t, g, r) \cup Sum(w, p, l + 1, r)
      BY <2>2, <2>5, <3>8
    <3> QED BY <1>5, <2>2, <2>5, <3>6, <3>7, <3>9
  <2>8. Settled(w, p, k, a, t, r) BY <1>4
  <2>9. \/ /\ w[p].type = "state" /\ w[p].run = r
           /\ ~Saw(w, p, a, r, TRUE) /\ ~Saw(w, p, a, r, FALSE)
        \/ /\ w[p].type = "end" /\ w[p].run = r
           /\ k < p /\ Gathers(w, k, p - 1, a, t, r, w[p].snap)
    BY <2>2, <2>8 DEF Settled
  <2> QED BY <2>6, <2>7, <2>9
<1> QED BY <1>7, <1>8, <1>9

-----------------------------------------------------------------------------
(* A point put among others, and a chunk of them. *)
LEMMA PutPoints ==
    ASSUME NEW raw, NEW s
    PROVE  /\ {x.seq : x \in PutRaw(raw, s)} = {x.seq : x \in raw} \cup {s.seq}
           /\ {x.seq : x \in Merged(raw, s)} = {x.seq : x \in raw} \cup {s.seq}
<1>1. {x.seq : x \in PutRaw(raw, s)} = {x.seq : x \in raw} \cup {s.seq} BY DEF PutRaw
<1>2. {x.seq : x \in Merged(raw, s)} = {x.seq : x \in raw} \cup {s.seq} BY DEF Merged
<1> QED BY <1>1, <1>2

LEMMA ChunkPoints ==
    ASSUME NEW raw, NEW C
    PROVE  {x.seq : x \in AllPut(raw, C)} = {x.seq : x \in raw} \cup {x.seq : x \in C}
BY DEF AllPut

LEMMA NoPoints ==
    ASSUME NEW t, t.raw = {}, t.coarse = {}
    PROVE  Points(t) = {}
BY DEF Points

(* What a message of each type brings, which fits. *)
LEMMA BringsIs ==
    ASSUME NEW m, NEW r
    PROVE  /\ m.type = "sample" /\ m.run = r => Brings(m, r) = {m.seq}
           /\ m.type = "sample" /\ m.run # r => Brings(m, r) = {}
           /\ m.type = "history" => Brings(m, r) = Points(m)
           /\ m.type \notin {"sample", "history"} => Brings(m, r) = {}
BY DEF Brings

LEMMA UpdateTakes ==
    ASSUME TInv, NEW m \in Message, m.type \in {"hello", "state"}, Handle(m), NEW r \in Nat
    PROVE  Takes(m, app, tx, tel, app', tx', tel', r)
<1>1. /\ app' = [id |-> m.run, active |-> m.active]
      /\ tel' = IF app.id # m.run THEN [run |-> m.run, raw |-> {}, coarse |-> {}] ELSE tel
      /\ m.type = "state" => tx' = IF app.id # m.run THEN None ELSE tx
  BY DEF Handle, RunUpdated
<1>2. app'.id = m.run /\ app'.active = m.active BY <1>1
<1>3. IsNews(m) /\ Brings(m, r) = {} BY DEF IsNews, Brings
<1>4. Shown(m, app, app') BY <1>2, <1>3 DEF Shown
<1>5. ASSUME NEW sn, IsOpen(tx, r, sn), FitsFirst(m, app, r, {sn})
      PROVE  IsOpen(tx', r, sn) /\ Points(tx') = Points(tx) \cup Brings(m, r)
  <2>1. m.type = "state" /\ m.run = r BY <1>5 DEF FitsFirst
  <2>2. app.id = r BY <1>5, BrowserIs DEF IsOpen, ShownTogether
  <2>3. tx' = tx BY <1>1, <2>1, <2>2
  <2> QED BY <1>3, <1>5, <2>3
<1>6. ASSUME app.id = r, tx = None, FitsFirst(m, app, r, {})
      PROVE  app'.id = r /\ tx' = None /\ Points(tel') = Points(tel) \cup Brings(m, r)
  <2>1. m.type = "state" /\ m.run = r BY <1>6 DEF FitsFirst
  <2>2. tx' = tx /\ tel' = tel BY <1>1, <1>6, <2>1
  <2> QED BY <1>2, <1>3, <1>6, <2>1, <2>2
<1>7. ASSUME m.type = "state", m.run = r, app.id # r
      PROVE  app'.id = r /\ tx' = None /\ Points(tel') = {}
  <2>1. tx' = None /\ tel' = [run |-> m.run, raw |-> {}, coarse |-> {}] BY <1>1, <1>7
  <2>2. tel'.raw = {} /\ tel'.coarse = {} BY <2>1
  <2> QED BY <1>2, <1>7, <2>1, <2>2, NoPoints
<1> QED BY <1>4, <1>5, <1>6, <1>7 DEF Takes

LEMMA BeginTakes ==
    ASSUME TInv, NEW m \in Message, m.type = "begin", Handle(m), NEW r \in Nat
    PROVE  Takes(m, app, tx, tel, app', tx', tel', r)
<1>1. app' = app /\ tel' = tel BY DEF Handle
<1>2. Shown(m, app, app') BY <1>1 DEF Shown, IsNews
<1>3. \A H : ~FitsFirst(m, app, r, H) BY DEF FitsFirst
<1>4. ASSUME m.run = r, app.id = r PROVE IsOpen(tx', r, m.snap) /\ Points(tx') = {}
  <2>1. tx' = [snap |-> m.snap, run |-> m.run, raw |-> {}, coarse |-> {}]
    BY <1>4 DEF Handle
  <2>2. tx' \in Transaction
    <3>1. m.run \in Nat /\ m.snap \in Nat BY MessageIs
    <3> QED BY <2>1, <3>1 DEF Transaction
  <2>3. tx'.raw = {} /\ tx'.coarse = {} /\ tx'.run = r /\ tx'.snap = m.snap BY <1>4, <2>1
  <2>4. Points(tx') = {} BY <2>3, NoPoints
  <2> QED BY <2>2, <2>3, <2>4, SnapshotIsSome DEF IsOpen
<1> QED BY <1>2, <1>3, <1>4 DEF Takes

LEMMA ChunkTakes ==
    ASSUME TInv, NEW m \in Message, m.type = "history", Handle(m), NEW r \in Nat
    PROVE  Takes(m, app, tx, tel, app', tx', tel', r)
<1>1. app' = app /\ tel' = tel BY DEF Handle
<1>2. Shown(m, app, app') BY <1>1 DEF Shown, IsNews
<1>3. ~FitsFirst(m, app, r, {}) BY DEF FitsFirst
<1>4. ASSUME NEW sn, IsOpen(tx, r, sn), FitsFirst(m, app, r, {sn})
      PROVE  IsOpen(tx', r, sn) /\ Points(tx') = Points(tx) \cup Brings(m, r)
  <2>1. m.run = r /\ m.snap = sn BY <1>4 DEF FitsFirst
  <2>2. InTransaction(m) BY <1>4, <2>1 DEF IsOpen, InTransaction
  <2>3. tx \in Transaction /\ tx.run = r /\ tx.snap = sn BY <1>4, BrowserIs DEF IsOpen
  <2>4. PICK R : R = AllPut(tx.raw, m.raw) OBVIOUS
  <2>5. PICK C : C = tx.coarse \cup m.coarse OBVIOUS
  <2>6. R \in SUBSET Point /\ C \in SUBSET Summary
    BY <2>3, <2>4, <2>5, MessageIs DEF Transaction, AllPut
  <2>7. tx' = [tx EXCEPT !.raw = R, !.coarse = C] BY <2>2, <2>4, <2>5 DEF Handle
  <2>8. tx' \in Transaction /\ tx'.run = r /\ tx'.snap = sn /\ tx'.raw = R /\ tx'.coarse = C
    BY <2>3, <2>6, <2>7 DEF Transaction
  <2>9. IsOpen(tx', r, sn) BY <2>8, SnapshotIsSome DEF IsOpen
  <2>10. {x.seq : x \in R} = {x.seq : x \in tx.raw} \cup {x.seq : x \in m.raw}
    BY <2>4, ChunkPoints
  <2>11. PICK q : q = tx' OBVIOUS
  <2>12. {x.seq : x \in q.raw} = {x.seq : x \in tx.raw} \cup {x.seq : x \in m.raw}
         /\ q.coarse = tx.coarse \cup m.coarse
    BY <2>5, <2>8, <2>10, <2>11
  <2>13. Points(q) = Points(tx) \cup {x.seq : x \in m.raw} \cup UNION {c.of : c \in m.coarse}
    BY <2>12 DEF Points
  <2>14. Brings(m, r) = {x.seq : x \in m.raw} \cup UNION {c.of : c \in m.coarse}
    BY BringsIs DEF Points
  <2> QED BY <2>9, <2>11, <2>13, <2>14
<1> QED BY <1>2, <1>3, <1>4 DEF Takes

LEMMA EndTakes ==
    ASSUME TInv, NEW m \in Message, m.type = "end", Handle(m), NEW r \in Nat
    PROVE  Takes(m, app, tx, tel, app', tx', tel', r)
<1>1. app' = app BY DEF Handle
<1>2. Shown(m, app, app') BY <1>1 DEF Shown, IsNews
<1>3. \A H : ~FitsFirst(m, app, r, H) BY DEF FitsFirst
<1>4. ASSUME m.run = r, IsOpen(tx, r, m.snap)
      PROVE  app'.id = r /\ tx' = None /\ Points(tel') = Points(tx)
  <2>1. InTransaction(m) BY <1>4 DEF IsOpen, InTransaction
  <2>2. tel' = [run |-> tx.run, raw |-> tx.raw, coarse |-> tx.coarse] /\ tx' = None
    BY <2>1 DEF Handle
  <2>3. tel'.raw = tx.raw /\ tel'.coarse = tx.coarse BY <2>2
  <2>4. Points(tel') = Points(tx) BY <2>3 DEF Points
  <2>5. app.id = r BY <1>4, BrowserIs DEF IsOpen, ShownTogether
  <2> QED BY <1>1, <2>2, <2>4, <2>5
<1> QED BY <1>2, <1>3, <1>4 DEF Takes

LEMMA SampleTakes ==
    ASSUME TInv, NEW m \in Message, m.type = "sample", Handle(m), NEW r \in Nat, r # 0
    PROVE  Takes(m, app, tx, tel, app', tx', tel', r)
<1>1. app' = app /\ LiveSample(m) BY DEF Handle
<1>2. Shown(m, app, app') BY <1>1 DEF Shown, IsNews
<1>3. PICK s : s = [seq |-> m.seq, in |-> m.in] OBVIOUS
<1>4. s.seq = m.seq /\ s \in Point BY <1>3, MessageIs DEF Point
<1>5. ASSUME NEW sn, IsOpen(tx, r, sn), FitsFirst(m, app, r, {sn})
      PROVE  IsOpen(tx', r, sn) /\ Points(tx') = Points(tx) \cup Brings(m, r)
  <2>1. /\ tx \in Transaction /\ tx.run = r /\ tx.snap = sn /\ tx # None /\ app.id = r
    BY <1>5, BrowserIs DEF IsOpen, ShownTogether
  <2>2. CASE m.run # r
    <3>1. tx' = tx BY <1>1, <2>1, <2>2 DEF LiveSample, IsShown
    <3>2. Brings(m, r) = {} BY <2>2, BringsIs
    <3> QED BY <1>5, <3>1, <3>2
  <2>3. CASE m.run = r
    <3>1. IsShown(m) BY <1>5, <2>1, <2>3 DEF FitsFirst, IsShown
    <3>2. PICK R : R = PutRaw(tx.raw, s) OBVIOUS
    <3>3. tx' = [tx EXCEPT !.raw = R] BY <1>1, <1>3, <2>1, <3>1, <3>2 DEF LiveSample
    <3>4. R \in SUBSET Point BY <1>4, <2>1, <3>2 DEF PutRaw, Transaction
    <3>5. tx' \in Transaction /\ tx'.run = r /\ tx'.snap = sn /\ tx'.raw = R
          /\ tx'.coarse = tx.coarse
      BY <2>1, <3>3, <3>4 DEF Transaction
    <3>6. IsOpen(tx', r, sn) BY <3>5, SnapshotIsSome DEF IsOpen
    <3>7. {x.seq : x \in R} = {x.seq : x \in tx.raw} \cup {m.seq}
      <4>1. {x.seq : x \in R} = {x.seq : x \in tx.raw} \cup {s.seq} BY <3>2, PutPoints
      <4> QED BY <1>4, <4>1
    <3>8. PICK q : q = tx' OBVIOUS
    <3>9. {x.seq : x \in q.raw} = {x.seq : x \in tx.raw} \cup {m.seq}
          /\ q.coarse = tx.coarse \cup {}
      BY <3>5, <3>7, <3>8
    <3>10. Points(q) = Points(tx) \cup {m.seq} \cup UNION {c.of : c \in {}}
      BY <3>9 DEF Points
    <3>11. Brings(m, r) = {m.seq} BY <2>3, BringsIs
    <3> QED BY <3>6, <3>8, <3>10, <3>11
  <2> QED BY <2>2, <2>3
<1>6. ASSUME app.id = r, tx = None, FitsFirst(m, app, r, {})
      PROVE  app'.id = r /\ tx' = None /\ Points(tel') = Points(tel) \cup Brings(m, r)
  <2>1. tel \in [run : Nat, raw : SUBSET Point, coarse : SUBSET Summary] BY BrowserIs
  <2>2. CASE m.run # r
    <3>1. tx' = tx /\ tel' = tel BY <1>1, <1>6, <2>2 DEF LiveSample, IsShown
    <3>2. Brings(m, r) = {} BY <2>2, BringsIs
    <3> QED BY <1>1, <1>6, <3>1, <3>2
  <2>3. CASE m.run = r
    <3>1. IsShown(m) BY <1>6, <2>3 DEF FitsFirst, IsShown
    <3>2. PICK R : R = Merged(tel.raw, s) OBVIOUS
    <3>3. tel' = [tel EXCEPT !.raw = R] /\ tx' = tx
      BY <1>1, <1>3, <1>6, <3>1, <3>2 DEF LiveSample
    <3>4. tel'.raw = R /\ tel'.coarse = tel.coarse BY <2>1, <3>3
    <3>7. {x.seq : x \in R} = {x.seq : x \in tel.raw} \cup {m.seq}
      <4>1. {x.seq : x \in R} = {x.seq : x \in tel.raw} \cup {s.seq} BY <3>2, PutPoints
      <4> QED BY <1>4, <4>1
    <3>8. PICK q : q = tel' OBVIOUS
    <3>9. {x.seq : x \in q.raw} = {x.seq : x \in tel.raw} \cup {m.seq}
          /\ q.coarse = tel.coarse \cup {}
      BY <3>4, <3>7, <3>8
    <3>10. Points(q) = Points(tel) \cup {m.seq} \cup UNION {c.of : c \in {}}
      BY <3>9 DEF Points
    <3>11. Brings(m, r) = {m.seq} BY <2>3, BringsIs
    <3> QED BY <1>1, <1>6, <3>3, <3>8, <3>10, <3>11
  <2> QED BY <2>2, <2>3
<1> QED BY <1>2, <1>5, <1>6 DEF Takes

LEMMA HandleTakes ==
    ASSUME TInv, NEW m \in Message, m.type \notin {"open", "close"}, Handle(m),
           NEW r \in Nat, r # 0
    PROVE  Takes(m, app, tx, tel, app', tx', tel', r)
BY UpdateTakes, BeginTakes, ChunkTakes, EndTakes, SampleTakes, MessageIs

-----------------------------------------------------------------------------
(* The ring and the buckets hold the run's newest samples after every step. *)
LEMMA EndedBuckets ==
    ASSUME NEW w, NEW n, NEW active \in BOOLEAN, InBuckets(w, n, active)
    PROVE  InBuckets(w, n, FALSE)
BY DEF InBuckets

LEMMA KeptIs ==
    ASSUME TInv, Kept, hist.runId = run.id
    PROVE  /\ hist \in Windows /\ run.seq \in Nat /\ run.active \in BOOLEAN
           /\ InRing(hist, run.seq) /\ InBuckets(hist, run.seq, run.active)
BY DeviceIs DEF Kept, HistoryOf, Run

(* A sample of the run: the history follows. *)
LEMMA SampledFollows ==
    ASSUME TInv, Kept, Sampled
    PROVE  /\ hist.runId = run.id /\ run.id # 0 /\ run'.seq = run.seq + 1
           /\ run'.id = run.id /\ run'.active = TRUE /\ hist'.runId = hist.runId
           /\ Follows(hist', hist, run.seq) /\ InBuckets(hist', run.seq + 1, TRUE)
<1>1. PICK id, n \in Nat : id = run.id /\ n = run.seq BY DeviceIs
<1>2. run.active /\ id # 0 /\ hist.runId = id BY <1>1 DEF TInv, HistoryOfRun, Sampled
<1>3. run.active = TRUE
  <2>1. run.active \in BOOLEAN BY DeviceIs DEF Run
  <2> QED BY <1>2, <2>1
<1>4. hist \in Windows /\ InRing(hist, n) /\ InBuckets(hist, n, TRUE)
  <2>1. InBuckets(hist, n, run.active) /\ hist \in Windows /\ InRing(hist, n)
    BY <1>1, <1>2, KeptIs
  <2> QED BY <1>3, <2>1
<1>5. PICK s : s = [runId |-> id, seq |-> n + 1, ms |-> n + 1, finite |-> TRUE, fault |-> FALSE]
  OBVIOUS
<1>6. /\ s \in Reading /\ s.runId = id /\ s.finite /\ s.seq = n + 1 /\ s.ms = n + 1
  BY <1>1, <1>5 DEF Reading
<1>7. hist' = Pushed(hist, s) /\ run' = [run EXCEPT !.seq = n + 1]
  BY <1>1, <1>5 DEF Sampled
<1>8. PICK u : u = Pushed(hist, s) OBVIOUS
<1>9. /\ InRing(u, n + 1) /\ InBuckets(u, n + 1, TRUE) /\ Later(u, hist)
      /\ Len(u.raw) >= Len(hist.raw)
      /\ Len(hist.raw) # RawCap => Len(u.raw) = Len(hist.raw) + 1
  BY <1>2, <1>4, <1>6, <1>8, PushedFollows
<1>10. HistoryOf(hist', hist.runId) /\ run'.id = run.id /\ run'.active = run.active
  BY SampledIs
<1>11. Follows(u, hist, n) BY <1>4, <1>7, <1>8, <1>9, <1>10 DEF Follows, HistoryOf
<1>12. run'.seq = n + 1 BY <1>7, DeviceIs DEF Run
<1> QED BY <1>1, <1>2, <1>3, <1>7, <1>8, <1>9, <1>10, <1>11, <1>12 DEF HistoryOf

LEMMA EndedKept ==
    ASSUME TInv, Kept, run' = [run EXCEPT !.active = FALSE], hist' \in {hist, Finalize(hist)}
    PROVE  Kept'
<1>1. run'.id = run.id /\ run'.seq = run.seq /\ run'.active = FALSE
  <2>1. run \in Run BY DeviceIs
  <2> QED BY <2>1 DEF Run
<1>2. hist'.runId = hist.runId BY EndedIs DEF HistoryOf
<1>3. ASSUME hist.runId = run.id
      PROVE  InRing(hist', run.seq) /\ InBuckets(hist', run.seq, FALSE)
  <2>1. /\ hist \in Windows /\ run.seq \in Nat /\ run.active \in BOOLEAN
        /\ InRing(hist, run.seq) /\ InBuckets(hist, run.seq, run.active)
    BY <1>3, KeptIs
  <2>2. InBuckets(hist, run.seq, FALSE) BY <2>1, EndedBuckets
  <2>3. CASE hist' = hist BY <2>1, <2>2, <2>3
  <2>4. CASE hist' = Finalize(hist) /\ ~hist.bucket.open
    <3>1. hist' = hist BY <2>4 DEF Finalize
    <3> QED BY <2>1, <2>2, <3>1
  <2>5. CASE hist' = Finalize(hist) /\ hist.bucket.open
    <3>1. InBuckets(Finalize(hist), run.seq, FALSE) BY <2>1, <2>5, FinalizeFollows
    <3>2. Finalize(hist).raw = hist.raw
      <4>1. Len(hist.coarse) <= CoarseCap BY <2>1 DEF InBuckets
      <4> QED BY <2>1, <2>5, <4>1, FinalizedIs
    <3>3. InRing(Finalize(hist), run.seq) BY <2>1, <3>2 DEF InRing
    <3> QED BY <2>5, <3>1, <3>3
  <2> QED BY <2>3, <2>4, <2>5
<1>4. run.id = 0 => run.seq = 0 BY DEF Kept
<1> QED BY <1>1, <1>2, <1>3, <1>4 DEF Kept

LEMMA KeptNext == ASSUME TInv, Kept, [Next]_vars PROVE Kept'
<1>1. CASE UNCHANGED <<run, hist>>
  <2>1. run' = run /\ hist' = hist BY <1>1
  <2> QED BY <2>1 DEF Kept
<1>2. CASE Sampled
  <2>1. /\ run'.id = run.id /\ run.id # 0 /\ run'.seq = run.seq + 1 /\ run'.active = TRUE
        /\ InRing(hist', run.seq + 1) /\ InBuckets(hist', run.seq + 1, TRUE)
    BY <1>2, SampledFollows DEF Follows
  <2> QED BY <2>1 DEF Kept
<1>3. CASE run' = [run EXCEPT !.active = FALSE] /\ hist' \in {hist, Finalize(hist)}
  BY <1>3, EndedKept
<1>4. CASE run' = [id |-> run.id + 1, active |-> TRUE, seq |-> 0] /\ hist' = Empty(run.id + 1)
  <2>1. run'.seq = 0 /\ run'.active = TRUE BY <1>4
  <2>2. InRing(hist', 0) /\ InBuckets(hist', 0, TRUE) BY <1>4, EmptyFollows
  <2> QED BY <2>1, <2>2 DEF Kept
<1>5. CASE run' = [run EXCEPT !.id = @ + 1] /\ hist' = hist
  <2>1. run \in Run /\ run.id \in Nat /\ hist.runId \in Nat /\ hist.runId <= run.id BY DeviceIs
  <2>2. run'.id = run.id + 1 BY <1>5, <2>1 DEF Run
  <2>3. run'.id # 0 /\ hist'.runId # run'.id BY <1>5, <2>1, <2>2
  <2> QED BY <2>3 DEF Kept
<1>6. CASE LoopTick
  BY <1>1, <1>2, <1>3, <1>6 DEF LoopTick, IdleSampled
<1>7. CASE LoopRoutes BY <1>1, <1>3, <1>4, <1>5, <1>7 DEF LoopRoutes
<1>8. CASE LoopPublish BY <1>1, <1>8 DEF LoopPublish
<1>9. CASE LoopReplay BY <1>1, <1>9 DEF LoopReplay
<1>10. CASE UNCHANGED owner BY <1>1, <1>10 DEF owner
<1>11. CASE \/ Accept \/ ServerLoses \/ OpenSocket \/ SocketLost \/ Receive
            \/ \E r \in Requester : Ask(r) \/ Answer(r) \/ Answered(r) \/ RequestFails(r)
            \/ UNCHANGED vars
  BY <1>10, <1>11 DEF Accept, ServerLoses, OpenSocket, SocketLost, Receive, Ask, Answer,
                      Answered, RequestFails, vars
<1> QED BY <1>6, <1>7, <1>8, <1>9, <1>11 DEF Next, Loop

-----------------------------------------------------------------------------
(* Every step keeps the graph whole, or on its way to be.
   First the steps that change nothing of it, and those after which the browser is
   not greeted. *)
LEMMA UngreetedDelivers ==
    ASSUME ~Greeted'
    PROVE  Delivers'
BY DEF Delivers

LEMMA StayedDelivers ==
    ASSUME Delivers, UNCHANGED <<wire, app, tx, tel, run, hist, replay, overrun>>,
           Greeted' => Greeted
    PROVE  Delivers'
<1>1. /\ wire' = wire /\ app' = app /\ tx' = tx /\ tel' = tel /\ run' = run /\ hist' = hist
      /\ replay' = replay /\ overrun' = overrun
  OBVIOUS
<1> QED BY <1>1 DEF Delivers

(* What the wire tells, and told once. *)
LEMMA TellsIsSaw ==
    ASSUME NEW w, Len(w) \in Nat, NEW a, NEW r
    PROVE  Tells(w, a, r) <=> Saw(w, Len(w) + 1, a, r.id, r.active)
<1>1. (Len(w) + 1) - 1 = Len(w) OBVIOUS
<1> QED BY <1>1 DEF Tells, Saw

LEMMA SawOne ==
    ASSUME NEW w, NEW i \in Nat, NEW a, NEW r, NEW x, NEW s, NEW y,
           Saw(w, i, a, r, x), Saw(w, i, a, s, y)
    PROVE  r = s
<1>1. \A j, k \in 1..(i - 1) : j = k \/ k \in (j + 1)..(i - 1) \/ j \in (k + 1)..(i - 1) OBVIOUS
<1> QED BY <1>1 DEF Saw

(* A message of the device behind the others: a sample or the state of the run. *)
Says(m) ==
    /\ m \in Message /\ wire' = Sent(<<m>>, sock.id)
    /\ \/ m.type = "sample" /\ (m.run = run.id => run.active = TRUE)
       \/ m.type = "state" /\ m.run = run.id

LEMMA SaidDelivers ==
    ASSUME CInv, Delivers, UNCHANGED <<transport, store>>, replay' = replay,
           pending' = pending, clients' = clients,
           run'.id = run.id, hist'.runId = hist.runId, ~overrun' => ~overrun,
           NEW m, Says(m),
           hist.runId = run.id /\ run.id # 0 /\ ~overrun' =>
              /\ \A S : Whole(S, hist, run.seq) =>
                           Whole(S \cup Brings(m, run.id), hist', run'.seq)
              /\ replay.phase # "idle" /\ replay.run = run.id =>
                    \A C : Sends(C, replay, hist, run.seq) =>
                              Sends(C \cup Brings(m, run.id), replay, hist', run'.seq)
    PROVE  Delivers'
<1>1. /\ sock' = sock /\ app' = app /\ tx' = tx /\ tel' = tel
  BY DEF transport, store
<1>2. Greeted' = Greeted BY <1>1 DEF Greeted, Served
<1>3. wire \in Seq(Message) /\ m \in Message BY DeviceIs DEF CInv, Says
<1> SUFFICES ASSUME Greeted, hist.runId = run.id, run.id # 0, ~overrun'
             PROVE  /\ replay.phase = "idle" =>
                          Results(wire', app, tx, tel, run.id, hist', run'.seq)
                    /\ replay.phase # "idle" /\ replay.run = run.id =>
                          Replays(wire', app, tx, run.id, replay, hist', run'.seq)
  BY <1>1, <1>2 DEF Delivers
<1>4. Served /\ RunTold BY DEF CInv, Onwards, Followed, Greeted
<1>5. PICK u : u = wire \o <<m>> OBVIOUS
<1>6. wire' = u BY <1>4, <1>5, SentWhenServed DEF Says
<1>7. Behind(u, wire, m) BY <1>3, <1>5, BehindIs
<1>8. PICK l \in Nat : l = Len(wire) BY <1>3
<1>9. Len(u) = l + 1 /\ u[l + 1] = m BY <1>7, <1>8 DEF Behind
<1>10. \A H : Fits(u, Len(u), app, run.id, H)
  <2>1. CASE m.type = "sample" /\ (m.run = run.id => run.active = TRUE)
    <3>1. Saw(wire, l + 1, app, run.id, run.active) BY <1>4, <1>8, TellsIsSaw DEF RunTold
    <3>2. l + 1 \in 1..(Len(wire) + 1) BY <1>8
    <3>3. PICK x : x = run.active OBVIOUS
    <3>4. Saw(u, l + 1, app, run.id, x) BY <1>7, <3>1, <3>2, <3>3, SawBehind
    <3>5. m.run = run.id => Saw(u, l + 1, app, run.id, TRUE) BY <2>1, <3>3, <3>4
    <3> QED BY <1>9, <2>1, <3>5 DEF Fits
  <2>2. CASE m.type = "state" /\ m.run = run.id BY <1>9, <2>2 DEF Fits
  <2> QED BY <2>1, <2>2 DEF Says
<1>11. CASE replay.phase = "idle"
  <2>1. Results(wire, app, tx, tel, run.id, hist, run.seq) BY <1>11 DEF Delivers
  <2>2. \A S : Whole(S, hist, run.seq) => Whole(S \cup Brings(m, run.id), hist', run'.seq)
    OBVIOUS
  <2>3. PICK g, f, n, o : g = hist /\ f = hist' /\ n = run.seq /\ o = run'.seq OBVIOUS
  <2>4. /\ Results(wire, app, tx, tel, run.id, g, n)
        /\ \A S : Whole(S, g, n) => Whole(S \cup Brings(m, run.id), f, o)
    BY <2>1, <2>2, <2>3
  <2>5. Fits(u, Len(u), app, run.id, {}) BY <1>10
  <2>6. Results(u, app, tx, tel, run.id, f, o) BY ONLY <1>7, <2>4, <2>5, ResultsGrows
  <2> QED BY <1>6, <1>11, <2>3, <2>6
<1>12. CASE replay.phase # "idle" /\ replay.run = run.id
  <2>1. Replays(wire, app, tx, run.id, replay, hist, run.seq) BY <1>12 DEF Delivers
  <2>2. \A C : Sends(C, replay, hist, run.seq) =>
                  Sends(C \cup Brings(m, run.id), replay, hist', run'.seq)
    BY <1>12
  <2>3. PICK g, f, n, o : g = hist /\ f = hist' /\ n = run.seq /\ o = run'.seq OBVIOUS
  <2>4. /\ Replays(wire, app, tx, run.id, replay, g, n)
        /\ \A C : Sends(C, replay, g, n) => Sends(C \cup Brings(m, run.id), replay, f, o)
    BY <2>1, <2>2, <2>3
  <2>5. Fits(u, Len(u), app, run.id, {replay.snap}) BY <1>10
  <2>6. Replays(u, app, tx, run.id, replay, f, o) BY ONLY <1>7, <2>4, <2>5, ReplaysGrows
  <2> QED BY <1>6, <1>12, <2>3, <2>6
<1> QED BY <1>11, <1>12

-----------------------------------------------------------------------------
(* The state of the run, broadcast by a step that leaves its samples alone. *)
LEMMA BroadcastSays ==
    ASSUME TInv, run' \in Run, run'.id = run.id, Broadcast
    PROVE  \E m : Says(m) /\ Brings(m, run.id) = {}
<1>1. PICK m : m = [type |-> "state", run |-> run'.id, active |-> run'.active] OBVIOUS
<1>2. run'.id \in Nat /\ run'.active \in BOOLEAN BY DEF Run
<1>3. m \in News BY <1>1, <1>2 DEF News
<1>4. m \in Message BY <1>3, NewsIs
<1>5. wire' = Sent(<<m>>, sock.id) BY <1>1 DEF Broadcast, SentToAll
<1>6. m.type = "state" /\ m.run = run.id BY <1>1
<1>7. Brings(m, run.id) = {} BY <1>6 DEF Brings
<1> QED BY <1>4, <1>5, <1>6, <1>7 DEF Says

LEMMA BroadcastDelivers ==
    ASSUME CInv, Kept, Delivers, UNCHANGED <<transport, store>>, replay' = replay,
           pending' = pending, clients' = clients, overrun' = overrun,
           run' \in Run, run'.id = run.id, run'.seq = run.seq,
           hist' \in {hist, Finalize(hist)}, hist'.runId = hist.runId, Broadcast
    PROVE  Delivers'
<1>1. TInv BY DEF CInv
<1>2. PICK m : Says(m) /\ Brings(m, run.id) = {} BY <1>1, BroadcastSays
<1>3. ASSUME hist.runId = run.id
      PROVE  /\ \A S : Whole(S, hist, run.seq) => Whole(S \cup {}, hist', run'.seq)
             /\ \A C : Sends(C, replay, hist, run.seq)
                          => Sends(C \cup {}, replay, hist', run'.seq)
  <2>1. /\ hist \in Windows /\ run.seq \in Nat
        /\ InRing(hist, run.seq) /\ InBuckets(hist, run.seq, run.active)
    BY <1>1, <1>3, KeptIs
  <2>2. replay \in Replay BY <1>1 DEF TInv, TypeOK, DeviceTypeOK
  <2>3. PICK h, n : h = hist' /\ n = run'.seq OBVIOUS
  <2>4. h.raw = hist.raw
    <3>1. CASE h = hist BY <3>1
    <3>2. CASE h = Finalize(hist) /\ ~hist.bucket.open BY <3>2 DEF Finalize
    <3>3. CASE h = Finalize(hist) /\ hist.bucket.open
      <4>1. Len(hist.coarse) <= CoarseCap BY <2>1 DEF InBuckets
      <4> QED BY <2>1, <3>3, <4>1, FinalizedIs
    <3> QED BY <2>3, <3>1, <3>2, <3>3
  <2>5. \A S : Whole(S, hist, run.seq) => Whole(S, h, n)
    BY <2>3, <2>4 DEF Whole, Held
  <2>6. ASSUME NEW C, Sends(C, replay, hist, run.seq) PROVE Sends(C, replay, h, n)
    <3>1. CASE h = hist BY <2>3, <2>6, <3>1
    <3>2. CASE h = Finalize(hist)
      <4>1. Sends(C, replay, Finalize(hist), run.seq) BY <2>1, <2>2, <2>6, SendsFinalized
      <4> QED BY <2>3, <3>2, <4>1
    <3> QED BY <2>3, <3>1, <3>2
  <2>7. \A S : S \cup {} = S OBVIOUS
  <2>8. \A S : Whole(S, hist, run.seq) => Whole(S \cup {}, h, n) BY <2>5, <2>7
  <2>9. \A C : Sends(C, replay, hist, run.seq) => Sends(C \cup {}, replay, h, n)
    BY <2>6, <2>7
  <2> QED BY <2>3, <2>8, <2>9
<1>4. ~overrun' => ~overrun OBVIOUS
<1> QED BY <1>2, <1>3, <1>4, SaidDelivers

LEMMA TickDelivers == ASSUME CInv, Kept, Delivers, LoopTick PROVE Delivers'
<1>1. /\ UNCHANGED <<transport, store>> /\ replay' = replay
      /\ pending' = pending /\ clients' = clients
  BY DEF LoopTick
<1>2. TInv /\ replay \in Replay BY DEF CInv, TInv, TypeOK, DeviceTypeOK
<1>3. CASE UNCHANGED <<run, hist, latest, extra, overrun, published, wire>>
  <2>1. UNCHANGED <<wire, app, tx, tel, run, hist, replay, overrun>> BY <1>1, <1>3 DEF store
  <2>2. Greeted' => Greeted BY <1>1 DEF Greeted, Served, transport
  <2> QED BY <2>1, <2>2, StayedDelivers
<1>4. CASE Sampled
  <2>1. /\ hist.runId = run.id /\ run.id # 0 /\ run'.seq = run.seq + 1
        /\ run'.id = run.id /\ run'.active = TRUE /\ hist'.runId = hist.runId
        /\ Follows(hist', hist, run.seq)
    BY <1>2, <1>4, SampledFollows
  <2>2. run.id \in Nat /\ run.seq \in Nat /\ run.active = TRUE
    BY <1>2, <1>4, <2>1, SampledIs, DeviceIs
  <2>3. PICK n : n = run.seq + 1 OBVIOUS
  <2>4. PICK m : m = [type |-> "sample", run |-> run.id, seq |-> n, in |-> run.id] OBVIOUS
  <2>5. n \in Nat BY <2>2, <2>3
  <2>6. m \in Live BY <2>2, <2>4, <2>5 DEF Live
  <2>7. m \in Message BY <2>6, LiveIs
  <2>8. wire' = Sent(<<m>>, sock.id) BY <1>4, <2>3, <2>4 DEF Sampled, SentToAll
  <2>9. Says(m) BY <2>2, <2>4, <2>7, <2>8 DEF Says
  <2>10. Brings(m, run.id) = {run.seq + 1} BY <2>3, <2>4 DEF Brings
  <2>11. ~overrun' => ~overrun /\ ~Overtakes(replay, hist) BY <1>4 DEF Sampled, Overtakes
  <2>12. PICK u, h, k : u = hist' /\ h = hist /\ k = run.seq OBVIOUS
  <2>13. k \in Nat /\ Follows(u, h, k) BY <2>1, <2>2, <2>12
  <2>14. \A S : Whole(S, h, k) => Whole(S \cup {k + 1}, u, k + 1)
    BY <2>13, WholeGrows
  <2>15. ASSUME ~overrun', replay.phase # "idle"
         PROVE  \A C : Sends(C, replay, h, k) => Sends(C \cup {k + 1}, replay, u, k + 1)
    <3>1. ~Overtakes(replay, h) BY <2>11, <2>12, <2>15
    <3>2. PICK p : p = replay OBVIOUS
    <3>3. p \in Replay /\ p.phase # "idle" /\ ~Overtakes(p, h) BY <1>2, <2>15, <3>1, <3>2
    <3>4. \A C : Sends(C, p, h, k) => Sends(C \cup {k + 1}, p, u, k + 1)
      BY ONLY <2>13, <3>3, SendsSampled
    <3> QED BY <3>2, <3>4
  <2>16. /\ \A S : Whole(S, hist, run.seq) => Whole(S \cup Brings(m, run.id), hist', run'.seq)
         /\ ~overrun' /\ replay.phase # "idle" =>
              \A C : Sends(C, replay, hist, run.seq)
                       => Sends(C \cup Brings(m, run.id), replay, hist', run'.seq)
    BY <2>1, <2>10, <2>12, <2>14, <2>15
  <2> QED BY <1>1, <2>1, <2>9, <2>11, <2>16, SaidDelivers
<1>5. CASE IdleSampled
  <2>1. run' = run /\ hist' = hist /\ overrun' = overrun /\ ~run.active BY <1>5 DEF IdleSampled
  <2>2. CASE run.id = 0
    <3>1. run'.id = 0 BY <2>1, <2>2
    <3> QED BY <3>1 DEF Delivers
  <2>3. CASE run.id # 0
    <3>1. PICK m : m = [type |-> "sample", run |-> 0, seq |-> 0, in |-> 0] OBVIOUS
    <3>2. m \in Live BY <3>1 DEF Live
    <3>3. m \in Message BY <3>2, LiveIs
    <3>4. wire' = Sent(<<m>>, sock.id) BY <1>5, <3>1 DEF IdleSampled, SentToAll
    <3>5. m.type = "sample" /\ m.run = 0 BY <3>1
    <3>6. Says(m) BY <2>3, <3>3, <3>4, <3>5 DEF Says
    <3>7. Brings(m, run.id) = {} BY <2>3, <3>5 DEF Brings
    <3>8. \A S : S \cup {} = S OBVIOUS
    <3>9. /\ \A S : Whole(S, hist, run.seq) => Whole(S \cup Brings(m, run.id), hist', run'.seq)
          /\ \A C : Sends(C, replay, hist, run.seq)
                       => Sends(C \cup Brings(m, run.id), replay, hist', run'.seq)
      BY <2>1, <3>7, <3>8
    <3>10. run'.id = run.id /\ hist'.runId = hist.runId /\ (~overrun' => ~overrun) BY <2>1
    <3> QED BY <1>1, <3>6, <3>9, <3>10, SaidDelivers
  <2> QED BY <2>2, <2>3
<1>6. CASE /\ run.active /\ run' = [run EXCEPT !.active = FALSE]
           /\ hist' \in {hist, Finalize(hist)}
           /\ Broadcast /\ UNCHANGED <<latest, extra, overrun>>
  <2>1. run' \in Run /\ run'.id = run.id /\ hist'.runId = hist.runId
    BY <1>2, <1>6, EndedIs DEF HistoryOf
  <2>2. run'.seq = run.seq BY <1>2, <1>6, DeviceIs DEF Run
  <2> QED BY <1>1, <1>6, <2>1, <2>2, BroadcastDelivers
<1> QED BY <1>3, <1>4, <1>5, <1>6 DEF LoopTick

(* A run that begins: the browser has not been told it, and drops what it shows. *)
LEMMA BeganDelivers ==
    ASSUME CInv, UNCHANGED <<transport, store>>, replay' = replay,
           pending' = pending, clients' = clients,
           run' = [id |-> run.id + 1, active |-> TRUE, seq |-> 0],
           hist' = Empty(run.id + 1), Broadcast
    PROVE  Delivers'
<1>1. /\ sock' = sock /\ app' = app /\ tx' = tx /\ tel' = tel
  BY DEF transport, store
<1>2. Greeted' = Greeted BY <1>1 DEF Greeted, Served
<1>3. TInv /\ wire \in Seq(Message) /\ run.id \in Nat BY DeviceIs DEF CInv
<1>4. PICK r \in Nat : r = run.id + 1 /\ r # run.id BY <1>3
<1>5. run'.id = r /\ run'.active = TRUE /\ run'.seq = 0 BY <1>4
<1> SUFFICES ASSUME Greeted
             PROVE  /\ replay.phase = "idle" => Results(wire', app, tx, tel, r, hist', 0)
                    /\ replay.run # r
  BY <1>1, <1>2, <1>5 DEF Delivers
<1>6. Served /\ RunTold /\ Numbered BY DEF CInv, Onwards, Followed, Greeted
<1>7. replay.run # r
  <2>1. replay.run \in Nat /\ replay.run <= run.id
    BY <1>3, <1>6 DEF Numbered, TInv, TypeOK, DeviceTypeOK, Replay
  <2> QED BY <1>3, <1>4, <2>1
<1>8. PICK m : m = [type |-> "state", run |-> r, active |-> TRUE] OBVIOUS
<1>9. m \in News BY <1>8 DEF News
<1>10. m \in Message /\ m.type = "state" /\ m.run = r BY <1>8, <1>9, NewsIs
<1>11. PICK u : u = wire \o <<m>> OBVIOUS
<1>12. wire' = u
  <2>1. wire' = Sent(<<m>>, sock.id) BY <1>5, <1>8 DEF Broadcast, SentToAll
  <2> QED BY <1>6, <1>11, <2>1, SentWhenServed
<1>13. Behind(u, wire, m) BY <1>3, <1>10, <1>11, BehindIs
<1>14. PICK l \in Nat : l = Len(wire) BY <1>3
<1>15. ~Saw(wire, Len(wire) + 1, app, r, TRUE) /\ ~Saw(wire, Len(wire) + 1, app, r, FALSE)
  <2>1. Saw(wire, l + 1, app, run.id, run.active) BY <1>6, <1>14, TellsIsSaw DEF RunTold
  <2>2. l + 1 \in Nat OBVIOUS
  <2>3. \A x : ~Saw(wire, l + 1, app, r, x) BY <1>4, <2>1, <2>2, SawOne
  <2> QED BY <1>14, <2>3
<1>16. Whole({}, hist', 0)
  <2>1. hist' \in Windows BY <1>4, EmptyIs DEF HistoryOf
  <2>2. InRing(hist', 0) BY EmptyFollows
  <2>3. PICK h : h = hist' OBVIOUS
  <2>4. \A i \in 1..0 : i \in {} OBVIOUS
  <2>5. Whole({}, h, 0) BY <2>1, <2>2, <2>3, <2>4, AllIsWhole
  <2> QED BY <2>3, <2>5
<1>17. Results(u, app, tx, tel, r, hist', 0)
  <2>1. PICK h, n : h = hist' /\ n = 0 OBVIOUS
  <2>2. Whole({}, h, n) BY <1>16, <2>1
  <2>3. Results(u, app, tx, tel, r, h, n) BY ONLY <1>10, <1>13, <1>15, <2>2, ResultsOfNew
  <2> QED BY <2>1, <2>3
<1> QED BY <1>7, <1>12, <1>17

LEMMA RoutesDelivers == ASSUME CInv, Kept, Delivers, LoopRoutes PROVE Delivers'
<1>1. /\ UNCHANGED <<transport, store>> /\ replay' = replay
      /\ pending' = pending /\ clients' = clients /\ overrun' = overrun
  BY DEF LoopRoutes
<1>2. TInv /\ run \in Run /\ run.id \in Nat BY DeviceIs DEF CInv
<1>3. CASE UNCHANGED <<run, hist, published, wire, extra>>
  <2>1. UNCHANGED <<wire, app, tx, tel, run, hist, replay, overrun>> BY <1>1, <1>3 DEF store
  <2>2. Greeted' => Greeted BY <1>1 DEF Greeted, Served, transport
  <2> QED BY <2>1, <2>2, StayedDelivers
<1>4. CASE extra' = extra + 1 /\ extra < MaxExtra /\ UNCHANGED <<run, hist>> /\ Broadcast
  <2>1. run' \in Run /\ run'.id = run.id /\ run'.seq = run.seq /\ hist'.runId = hist.runId
        /\ hist' \in {hist, Finalize(hist)}
    BY <1>2, <1>4
  <2> QED BY <1>1, <1>4, <2>1, BroadcastDelivers
<1>5. CASE /\ run.active /\ run' = [run EXCEPT !.active = FALSE]
           /\ hist' \in {hist, Finalize(hist)} /\ Broadcast /\ UNCHANGED extra
  <2>1. run' \in Run /\ run'.id = run.id /\ hist'.runId = hist.runId
    BY <1>2, <1>5, EndedIs DEF HistoryOf
  <2>2. run'.seq = run.seq BY <1>2, <1>5 DEF Run
  <2> QED BY <1>1, <1>5, <2>1, <2>2, BroadcastDelivers
<1>6. CASE /\ ~run.active /\ run.id < MaxRun
           /\ run' = [id |-> run.id + 1, active |-> TRUE, seq |-> 0]
           /\ hist' = Empty(run.id + 1) /\ Broadcast /\ UNCHANGED extra
  BY <1>1, <1>6, BeganDelivers
<1>7. CASE /\ FailedStarts /\ ~run.active /\ run.id < MaxRun
           /\ run' = [run EXCEPT !.id = @ + 1] /\ Broadcast /\ UNCHANGED <<hist, extra>>
  <2>1. run'.id = run.id + 1 BY <1>2, <1>7 DEF Run
  <2>2. hist.runId \in Nat /\ hist.runId <= run.id /\ hist' = hist BY <1>2, <1>7, DeviceIs
  <2>3. hist'.runId # run'.id BY <1>2, <2>1, <2>2
  <2> QED BY <2>3 DEF Delivers
<1> QED BY <1>3, <1>4, <1>5, <1>6, <1>7 DEF LoopRoutes

-----------------------------------------------------------------------------
(* A replay that is begun: all of it is still to be sent. *)
LEMMA StartDelivers ==
    ASSUME CInv, Kept, NEW c \in Nat, StartReplay(c), UNCHANGED <<transport, store>>,
           pc = "replay", run' = run, hist' = hist, clients' = clients,
           Served => c = sock.id
    PROVE  Delivers'
<1>1. /\ sock' = sock /\ app' = app /\ tx' = tx BY DEF transport, store
<1>2. /\ TInv /\ wire \in Seq(Message) /\ run.id \in Nat /\ snapshots \in Nat /\ Numbered
  BY DeviceIs DEF CInv, Onwards
<1>3. Greeted' => Served BY <1>1 DEF Greeted, Served
<1> SUFFICES ASSUME Served, hist.runId = run.id
             PROVE  /\ replay'.phase # "idle"
                    /\ Replays(wire', app, tx, run.id, replay', hist, run.seq)
  BY <1>1, <1>3 DEF Delivers
<1>4. c \in clients /\ c = sock.id BY DEF Served
<1>5. PICK l : l = Len(hist.coarse) OBVIOUS
<1>6. PICK last : last = IF l = 0 THEN 0 ELSE hist.coarse[l].ms OBVIOUS
<1>7. PICK b : b = [type |-> "begin", snap |-> snapshots + 1, run |-> run.id] OBVIOUS
<1>8. /\ replay' = [IdleReplay EXCEPT !.phase = IF l = 0 THEN "raw" ELSE "coarse",
                                      !.client = c, !.snap = snapshots + 1, !.run = run.id,
                                      !.through = LatestRawSeq(hist), !.throughMs = last]
      /\ wire' = Sent(<<Hello, b>>, c)
  BY <1>4, <1>5, <1>6, <1>7 DEF StartReplay
<1>9. PICK q : q = replay' OBVIOUS
<1>10. /\ q.phase = (IF l = 0 THEN "raw" ELSE "coarse") /\ q.snap = snapshots + 1
       /\ q.from = 0 /\ q.after = 0 /\ q.through = LatestRawSeq(hist) /\ q.throughMs = last
  BY <1>8, <1>9 DEF IdleReplay
<1>11. q \in Replay BY <1>2, <1>9, BegunIs
<1>12. PICK h, n, x : h = hist /\ n = run.seq /\ x = run.active OBVIOUS
<1>13. n \in Nat /\ h \in Windows /\ InRing(h, n) /\ InBuckets(h, n, x)
  BY <1>2, <1>12, KeptIs
<1>14. Sends({}, q, h, n)
  <2>1. /\ q.phase = (IF Len(h.coarse) = 0 THEN "raw" ELSE "coarse")
        /\ q.from = 0 /\ q.after = 0 /\ q.through = LatestRawSeq(h)
        /\ q.throughMs = (IF Len(h.coarse) = 0 THEN 0 ELSE h.coarse[Len(h.coarse)].ms)
    BY <1>5, <1>6, <1>10, <1>12
  <2> QED BY <1>11, <1>13, <2>1, SendsStart
<1>15. wire' = wire \o <<Hello, b>> BY <1>4, <1>8, SentWhenServed
<1>16. PICK g : g = Hello OBVIOUS
<1>17. PICK v : v = wire \o <<g>> OBVIOUS
<1>18. PICK u : u = v \o <<b>> OBVIOUS
<1>19. g \in Message /\ b \in Message
  <2>1. published.id \in Nat /\ published.active \in BOOLEAN
    BY <1>2 DEF TInv, TypeOK, DeviceTypeOK
  <2>2. g \in News BY <1>16, <2>1 DEF Hello, News
  <2>3. snapshots + 1 \in Nat BY <1>2
  <2> QED BY <1>2, <1>7, <2>2, <2>3, NewsIs, OtherIs
<1>20. v \in Seq(Message) BY <1>2, <1>17, <1>19
<1>21. Behind(v, wire, g) BY <1>2, <1>17, <1>19, BehindIs
<1>22. Behind(u, v, b) BY <1>18, <1>19, <1>20, BehindIs
<1>23. wire' = u
  <2>1. wire' = wire \o <<g, b>> BY <1>15, <1>16
  <2>2. <<g, b>> = <<g>> \o <<b>> OBVIOUS
  <2>3. <<g>> \in Seq(Message) /\ <<b>> \in Seq(Message) BY <1>19
  <2>4. wire \o (<<g>> \o <<b>>) = (wire \o <<g>>) \o <<b>> BY <1>2, <2>3
  <2> QED BY <1>17, <1>18, <2>1, <2>2, <2>4
<1>24. PICK r : r = run.id OBVIOUS
<1>25. g.type = "hello" /\ g.run = r BY <1>2, <1>16, <1>24 DEF Hello, Numbered
<1>26. b.type = "begin" /\ b.run = r /\ b.snap = q.snap BY <1>7, <1>10, <1>24
<1>27. Replays(u, app, tx, r, q, h, n)
  BY ONLY <1>14, <1>21, <1>22, <1>25, <1>26, ReplaysAnew
<1> QED BY <1>9, <1>10, <1>12, <1>23, <1>24, <1>27

(* A message of the replay behind the others, or none: what it brings is sent. *)
LEMMA GoesOnDelivers ==
    ASSUME CInv, Delivers, UNCHANGED <<transport, store>>, run' = run, hist' = hist,
           overrun' = overrun, pending' = pending, clients' = clients,
           replay.run = run.id, replay.phase # "idle",
           replay'.phase # "idle", replay'.snap = replay.snap,
           NEW B, \/ wire' = wire /\ B = {}
                  \/ \E m \in Message :
                        /\ wire' = Sent(<<m>>, replay.client) /\ m.type = "history"
                        /\ m.run = replay.run /\ m.snap = replay.snap
                        /\ Brings(m, run.id) = B,
           hist.runId = run.id => \A C : Sends(C, replay, hist, run.seq)
                                            => Sends(C \cup B, replay', hist, run.seq)
    PROVE  Delivers'
<1>1. sock' = sock /\ app' = app /\ tx' = tx BY DEF transport, store
<1>2. Greeted' = Greeted BY <1>1 DEF Greeted, Served
<1>3. wire \in Seq(Message) /\ Numbered BY DeviceIs DEF CInv, Onwards
<1> SUFFICES ASSUME Greeted, hist.runId = run.id, run.id # 0, ~overrun
             PROVE  Replays(wire', app, tx, run.id, replay', hist, run.seq)
  BY <1>1, <1>2 DEF Delivers
<1>4. Served /\ replay.client = sock.id BY <1>3 DEF Greeted, Numbered
<1>5. PICK p, q, h, n, r : p = replay /\ q = replay' /\ h = hist /\ n = run.seq /\ r = run.id
  OBVIOUS
<1>6. Replays(wire, app, tx, r, p, h, n) BY <1>5 DEF Delivers
<1>7. q.snap = p.snap /\ \A C : Sends(C, p, h, n) => Sends(C \cup B, q, h, n) BY <1>5
<1>8. CASE wire' = wire /\ B = {}
  <2>1. \A C : C \cup B = C BY <1>8
  <2>2. \A C : Sends(C, p, h, n) => Sends(C, q, h, n) BY <1>7, <2>1
  <2>3. Replays(wire, app, tx, r, q, h, n) BY ONLY <1>6, <1>7, <2>2, ReplaysSame
  <2> QED BY <1>5, <1>8, <2>3
<1>9. ASSUME NEW m \in Message, wire' = Sent(<<m>>, replay.client), m.type = "history",
             m.run = replay.run, m.snap = replay.snap, Brings(m, run.id) = B
      PROVE  Replays(wire', app, tx, run.id, replay', hist, run.seq)
  <2>1. PICK u : u = wire \o <<m>> OBVIOUS
  <2>2. wire' = u BY <1>4, <1>9, <2>1, SentWhenServed
  <2>3. Behind(u, wire, m) BY <1>3, <2>1, BehindIs
  <2>4. Fits(u, Len(u), app, r, {p.snap})
    <3>1. u[Len(u)] = m BY <1>3, <2>3 DEF Behind
    <3>2. m.run = r /\ m.snap \in {p.snap} BY <1>5, <1>9
    <3> QED BY <1>9, <3>1, <3>2 DEF Fits
  <2>5. \A C : Sends(C, p, h, n) => Sends(C \cup Brings(m, r), q, h, n)
    BY <1>5, <1>7, <1>9
  <2>6. Replays(u, app, tx, r, q, h, n)
    BY ONLY <1>6, <1>7, <2>3, <2>4, <2>5, ReplaysGrows
  <2> QED BY <1>5, <2>2, <2>6
<1> QED BY <1>8, <1>9

LEMMA CoarseDelivers ==
    ASSUME CInv, Kept, Delivers, SendCoarse, UNCHANGED <<transport, store>>, run' = run,
           hist' = hist, overrun' = overrun, pending' = pending, clients' = clients,
           replay.run = run.id, replay.phase = "coarse"
    PROVE  Delivers'
<1>1. TInv /\ replay \in Replay /\ replay.from \in Nat /\ replay.throughMs \in Nat
  BY DEF CInv, TInv, TypeOK, DeviceTypeOK, Replay
<1>2. CoarsePageSize \in Nat \ {0} /\ Resolution \in Nat \ {0}
  BY TelemetryAssumption, WindowAssumption
<1>3. PICK page : page = CoarsePage(hist, replay.from, replay.throughMs, CoarsePageSize) OBVIOUS
<1>4. page \in Seq(CoarseSample) /\ \A i \in 1..Len(page) : page[i].runId = hist.runId
  BY <1>1, <1>2, <1>3, DeviceIs, PagesAre DEF ListOf
<1>5. PICK n \in Nat : n = Len(page) BY <1>4
<1>6. replay' \in Replay BY <1>1, SendCoarseIs
<1>7. PICK B : B = UNION {page[i].of : i \in 1..Len(page)} OBVIOUS
<1>8. PICK q : q = replay' OBVIOUS
<1>9. /\ q.phase \in {"coarse", "raw"} /\ q.snap = replay.snap
      /\ q.through = replay.through /\ q.throughMs = replay.throughMs
      /\ q.after = replay.after
      /\ n = 0 => q.phase = "raw"
      /\ n # 0 => /\ q.from = page[n].ms + Resolution
                  /\ q.phase = "raw" <=> n < CoarsePageSize \/ page[n].ms >= replay.throughMs
  <2>1. CASE n = 0
    <3>1. q = [replay EXCEPT !.phase = "raw"] BY <1>3, <1>5, <1>8, <2>1 DEF SendCoarse
    <3> QED BY <1>1, <2>1, <3>1 DEF Replay
  <2>2. CASE n # 0
    <3>1. PICK done : done = (n < CoarsePageSize \/ page[n].ms >= replay.throughMs) OBVIOUS
    <3>2. PICK f, x : f = page[n].ms + Resolution /\ x = IF done THEN "raw" ELSE replay.phase
      OBVIOUS
    <3>3. q = [replay EXCEPT !.from = f, !.phase = x]
      BY <1>3, <1>5, <1>8, <2>2, <3>1, <3>2 DEF SendCoarse
    <3>4. /\ q.from = f /\ q.phase = x /\ q.snap = replay.snap
          /\ q.through = replay.through /\ q.throughMs = replay.throughMs
          /\ q.after = replay.after
      BY <1>1, <3>3 DEF Replay
    <3> QED BY <2>2, <3>1, <3>2, <3>4
  <2> QED BY <2>1, <2>2
<1>10. hist.runId = run.id => \A C : Sends(C, replay, hist, run.seq)
                                        => Sends(C \cup B, replay', hist, run.seq)
  <2> SUFFICES ASSUME hist.runId = run.id, NEW C, Sends(C, replay, hist, run.seq)
               PROVE  Sends(C \cup B, replay', hist, run.seq)
    OBVIOUS
  <2>1. PICK h, k, x, p : h = hist /\ k = run.seq /\ x = run.active /\ p = replay OBVIOUS
  <2>2. k \in Nat /\ h \in Windows /\ InBuckets(h, k, x) BY <1>1, <2>1, KeptIs
  <2>3. p \in Replay /\ p.phase = "coarse" /\ Sends(C, p, h, k) BY <1>1, <2>1
  <2>4. page = CoarsePage(h, p.from, p.throughMs, CoarsePageSize) BY <1>3, <2>1
  <2>5. /\ q \in Replay /\ q.through = p.through /\ q.throughMs = p.throughMs
        /\ q.after = p.after /\ q.phase \in {"coarse", "raw"}
        /\ Len(page) = 0 => q.phase = "raw"
        /\ Len(page) # 0 =>
              /\ q.from = page[Len(page)].ms + Resolution
              /\ q.phase = "raw" <=>
                    Len(page) < CoarsePageSize \/ page[Len(page)].ms >= p.throughMs
    BY <1>5, <1>6, <1>8, <1>9, <2>1
  <2>6. Sends(C \cup UNION {page[i].of : i \in 1..Len(page)}, q, h, k)
    BY ONLY <2>2, <2>3, <2>4, <2>5, SendsCoarse
  <2> QED BY <1>7, <1>8, <2>1, <2>6
<1>11. \/ wire' = wire /\ B = {}
       \/ \E m \in Message :
             /\ wire' = Sent(<<m>>, replay.client) /\ m.type = "history"
             /\ m.run = replay.run /\ m.snap = replay.snap /\ Brings(m, run.id) = B
  <2>1. CASE n = 0
    <3>1. wire' = wire BY <1>3, <1>5, <2>1 DEF SendCoarse
    <3>2. 1..Len(page) = {} BY <1>5, <2>1
    <3>3. B = {} BY <1>7, <3>2
    <3> QED BY <3>1, <3>3
  <2>2. CASE n # 0
    <3>1. PICK C : C = {[ms |-> page[i].ms, of |-> page[i].of, in |-> page[i].runId] : i \in 1..n}
      OBVIOUS
    <3>2. PICK m : m = Chunk(C, {}) OBVIOUS
    <3>3. wire' = Sent(<<m>>, replay.client) BY <1>3, <1>5, <2>2, <3>1, <3>2 DEF SendCoarse
    <3>4. C \in SUBSET Summary /\ \A x \in C : x.in = hist.runId
      <4>1. ASSUME NEW x \in C PROVE x \in Summary /\ x.in = hist.runId
        <5>1. PICK i \in 1..n : x = [ms |-> page[i].ms, of |-> page[i].of, in |-> page[i].runId]
          BY <3>1
        <5>2. page[i] \in CoarseSample BY <1>4, <1>5
        <5>3. page[i].ms \in Nat /\ page[i].of \in SUBSET Nat BY <5>2 DEF CoarseSample
        <5>4. page[i].runId = hist.runId /\ hist.runId \in Nat BY <1>1, <1>4, <1>5, DeviceIs
        <5> QED BY <5>1, <5>3, <5>4 DEF Summary
      <4> QED BY <4>1
    <3>5. {} \in SUBSET Point /\ \A x \in {} : x.in = hist.runId OBVIOUS
    <3>6. m \in Message BY <1>1, <3>2, <3>4, <3>5, ChunkIs
    <3>7. /\ m.type = "history" /\ m.run = replay.run /\ m.snap = replay.snap
          /\ m.coarse = C /\ m.raw = {}
      BY <3>2 DEF Chunk
    <3>8. Brings(m, run.id) = UNION {c.of : c \in C}
      <4>1. Brings(m, run.id) = Points(m) BY <3>7, BringsIs
      <4> QED BY <3>7, <4>1 DEF Points
    <3>9. {c.of : c \in C} = {page[i].of : i \in 1..Len(page)}
      <4>1. \A i \in 1..n :
               [ms |-> page[i].ms, of |-> page[i].of, in |-> page[i].runId].of = page[i].of
        OBVIOUS
      <4>2. \A c \in C : \E i \in 1..n : c.of = page[i].of BY <3>1
      <4>3. \A i \in 1..n : \E c \in C : c.of = page[i].of BY <3>1, <4>1
      <4>4. {c.of : c \in C} \subseteq {page[i].of : i \in 1..n} BY <4>2
      <4>5. {page[i].of : i \in 1..n} \subseteq {c.of : c \in C} BY <4>3
      <4>6. {c.of : c \in C} = {page[i].of : i \in 1..n} BY <4>4, <4>5
      <4> QED BY <1>5, <4>6
    <3>10. Brings(m, run.id) = B BY <1>7, <3>8, <3>9
    <3> QED BY <3>3, <3>6, <3>7, <3>10
  <2> QED BY <2>1, <2>2
<1>12. replay'.phase # "idle" /\ replay'.snap = replay.snap /\ replay.phase # "idle"
  BY <1>8, <1>9
<1> QED BY <1>10, <1>11, <1>12, GoesOnDelivers

-----------------------------------------------------------------------------
LEMMA RawDelivers ==
    ASSUME CInv, Kept, Delivers, SendRaw, UNCHANGED <<transport, store>>, run' = run,
           hist' = hist, overrun' = overrun, pending' = pending, clients' = clients,
           replay.run = run.id, replay.phase = "raw"
    PROVE  Delivers'
<1>1. TInv /\ replay \in Replay /\ replay.after \in Nat /\ replay.through \in Nat
  BY DEF CInv, TInv, TypeOK, DeviceTypeOK, Replay
<1>2. RawPageSize \in Nat \ {0} BY TelemetryAssumption
<1>3. PICK page : page = RawPage(hist, replay.after, replay.through, RawPageSize) OBVIOUS
<1>4. page \in Seq(Reading) /\ \A i \in 1..Len(page) : page[i].runId = hist.runId
  BY <1>1, <1>2, <1>3, DeviceIs, PagesAre DEF ListOf
<1>5. PICK n \in Nat : n = Len(page) BY <1>4
<1>6. replay' \in Replay BY <1>1, SendRawIs
<1>7. PICK B : B = {page[i].seq : i \in 1..Len(page)} OBVIOUS
<1>8. PICK q : q = replay' OBVIOUS
<1>9. /\ q.phase \in {"raw", "end"} /\ q.snap = replay.snap /\ q.through = replay.through
      /\ n = 0 => q.phase = "end"
      /\ n # 0 => /\ q.after = page[n].seq
                  /\ q.phase = "end" <=> n < RawPageSize \/ page[n].seq >= replay.through
  <2>1. CASE n = 0
    <3>1. q = [replay EXCEPT !.phase = "end"] BY <1>3, <1>5, <1>8, <2>1 DEF SendRaw
    <3> QED BY <1>1, <2>1, <3>1 DEF Replay
  <2>2. CASE n # 0
    <3>1. PICK done : done = (n < RawPageSize \/ page[n].seq >= replay.through) OBVIOUS
    <3>2. PICK f, x : f = page[n].seq /\ x = IF done THEN "end" ELSE replay.phase OBVIOUS
    <3>3. q = [replay EXCEPT !.after = f, !.phase = x]
      BY <1>3, <1>5, <1>8, <2>2, <3>1, <3>2 DEF SendRaw
    <3>4. /\ q.after = f /\ q.phase = x /\ q.snap = replay.snap
          /\ q.through = replay.through
      BY <1>1, <3>3 DEF Replay
    <3> QED BY <2>2, <3>1, <3>2, <3>4
  <2> QED BY <2>1, <2>2
<1>10. hist.runId = run.id => \A C : Sends(C, replay, hist, run.seq)
                                        => Sends(C \cup B, replay', hist, run.seq)
  <2> SUFFICES ASSUME hist.runId = run.id, NEW C, Sends(C, replay, hist, run.seq)
               PROVE  Sends(C \cup B, replay', hist, run.seq)
    OBVIOUS
  <2>1. PICK h, k, p : h = hist /\ k = run.seq /\ p = replay OBVIOUS
  <2>2. k \in Nat /\ h \in Windows /\ InRing(h, k) BY <1>1, <2>1, KeptIs
  <2>3. p \in Replay /\ p.phase = "raw" /\ Sends(C, p, h, k) BY <1>1, <2>1
  <2>4. page = RawPage(h, p.after, p.through, RawPageSize) BY <1>3, <2>1
  <2>5. /\ q \in Replay /\ q.through = p.through /\ q.phase \in {"raw", "end"}
        /\ Len(page) = 0 => q.phase = "end"
        /\ Len(page) # 0 =>
              /\ q.after = page[Len(page)].seq
              /\ q.phase = "end" <=>
                    Len(page) < RawPageSize \/ page[Len(page)].seq >= p.through
    BY <1>5, <1>6, <1>8, <1>9, <2>1
  <2>6. Sends(C \cup {page[i].seq : i \in 1..Len(page)}, q, h, k)
    BY ONLY <2>2, <2>3, <2>4, <2>5, SendsRaw
  <2> QED BY <1>7, <1>8, <2>1, <2>6
<1>11. \/ wire' = wire /\ B = {}
       \/ \E m \in Message :
             /\ wire' = Sent(<<m>>, replay.client) /\ m.type = "history"
             /\ m.run = replay.run /\ m.snap = replay.snap /\ Brings(m, run.id) = B
  <2>1. CASE n = 0
    <3>1. wire' = wire BY <1>3, <1>5, <2>1 DEF SendRaw
    <3>2. 1..Len(page) = {} BY <1>5, <2>1
    <3>3. B = {} BY <1>7, <3>2
    <3> QED BY <3>1, <3>3
  <2>2. CASE n # 0
    <3>1. PICK R : R = {[seq |-> page[i].seq, in |-> page[i].runId] : i \in 1..n} OBVIOUS
    <3>2. PICK m : m = Chunk({}, R) OBVIOUS
    <3>3. wire' = Sent(<<m>>, replay.client) BY <1>3, <1>5, <2>2, <3>1, <3>2 DEF SendRaw
    <3>4. R \in SUBSET Point /\ \A x \in R : x.in = hist.runId
      <4>1. ASSUME NEW x \in R PROVE x \in Point /\ x.in = hist.runId
        <5>1. PICK i \in 1..n : x = [seq |-> page[i].seq, in |-> page[i].runId] BY <3>1
        <5>2. page[i] \in Reading BY <1>4, <1>5
        <5>3. page[i].seq \in Nat BY <5>2 DEF Reading
        <5>4. page[i].runId = hist.runId /\ hist.runId \in Nat BY <1>1, <1>4, <1>5, DeviceIs
        <5> QED BY <5>1, <5>3, <5>4 DEF Point
      <4> QED BY <4>1
    <3>5. {} \in SUBSET Summary /\ \A x \in {} : x.in = hist.runId OBVIOUS
    <3>6. m \in Message BY <1>1, <3>2, <3>4, <3>5, ChunkIs
    <3>7. /\ m.type = "history" /\ m.run = replay.run /\ m.snap = replay.snap
          /\ m.coarse = {} /\ m.raw = R
      BY <3>2 DEF Chunk
    <3>8. Brings(m, run.id) = {x.seq : x \in R}
      <4>1. Brings(m, run.id) = Points(m) BY <3>7, BringsIs
      <4> QED BY <3>7, <4>1 DEF Points
    <3>9. {x.seq : x \in R} = {page[i].seq : i \in 1..Len(page)}
      <4>1. \A i \in 1..n : [seq |-> page[i].seq, in |-> page[i].runId].seq = page[i].seq
        OBVIOUS
      <4>2. \A c \in R : \E i \in 1..n : c.seq = page[i].seq BY <3>1
      <4>3. \A i \in 1..n : \E c \in R : c.seq = page[i].seq BY <3>1, <4>1
      <4>4. {x.seq : x \in R} \subseteq {page[i].seq : i \in 1..n} BY <4>2
      <4>5. {page[i].seq : i \in 1..n} \subseteq {x.seq : x \in R} BY <4>3
      <4> QED BY <1>5, <4>4, <4>5
    <3>10. Brings(m, run.id) = B BY <1>7, <3>8, <3>9
    <3> QED BY <3>3, <3>6, <3>7, <3>10
  <2> QED BY <2>1, <2>2
<1>12. replay'.phase # "idle" /\ replay'.snap = replay.snap /\ replay.phase # "idle"
  BY <1>8, <1>9
<1> QED BY <1>10, <1>11, <1>12, GoesOnDelivers

(* The end of the replay: all has been sent, and is what the graph will be. *)
LEMMA EndDelivers ==
    ASSUME CInv, Delivers, SendEnd, UNCHANGED <<transport, store>>, run' = run,
           hist' = hist, overrun' = overrun, pending' = pending, clients' = clients,
           replay.run = run.id, replay.phase = "end"
    PROVE  Delivers'
<1>1. sock' = sock /\ app' = app /\ tx' = tx /\ tel' = tel BY DEF transport, store
<1>2. Greeted' = Greeted BY <1>1 DEF Greeted, Served
<1>3. /\ wire \in Seq(Message) /\ Numbered /\ replay \in Replay /\ run.id \in Nat
      /\ replay.snap \in Nat
  BY DeviceIs DEF CInv, Onwards, TInv, TypeOK, DeviceTypeOK, Replay
<1>4. replay'.phase = "idle" BY <1>3 DEF SendEnd, Replay
<1> SUFFICES ASSUME Greeted, hist.runId = run.id, run.id # 0, ~overrun
             PROVE  Results(wire', app, tx, tel, run.id, hist, run.seq)
  BY <1>1, <1>2, <1>4 DEF Delivers
<1>5. Served /\ replay.client = sock.id BY <1>3 DEF Greeted, Numbered
<1>6. PICK p, h, n, r, sn : /\ p = replay /\ h = hist /\ n = run.seq /\ r = run.id
                            /\ sn = replay.snap
  OBVIOUS
<1>7. Replays(wire, app, tx, r, p, h, n) BY <1>6 DEF Delivers
<1>8. PICK k \in 0..Len(wire) : /\ Gathers(wire, k, Len(wire), app, tx, r, sn)
                                /\ Sends(Coll(wire, k, Len(wire), tx, r), p, h, n)
  BY <1>6, <1>7 DEF Replays
<1>9. Whole(Coll(wire, k, Len(wire), tx, r), h, n)
  <2>1. p.phase = "end" BY <1>6
  <2> QED BY <1>8, <2>1, SendsAll
<1>10. PICK m : m = [type |-> "end", snap |-> sn, run |-> r] OBVIOUS
<1>11. m.type = "end" /\ m.run = r /\ m.snap = sn BY <1>10
<1>12. wire' = Sent(<<m>>, replay.client) BY <1>6, <1>10 DEF SendEnd
<1>13. m \in Message BY <1>3, <1>6, <1>10, OtherIs
<1>14. PICK u : u = wire \o <<m>> OBVIOUS
<1>15. wire' = u BY <1>5, <1>12, <1>14, SentWhenServed
<1>16. Behind(u, wire, m) BY <1>3, <1>13, <1>14, BehindIs
<1>17. Results(u, app, tx, tel, r, h, n)
  BY ONLY <1>8, <1>9, <1>11, <1>16, k \in 0..Len(wire), ResultsOfReplay
<1> QED BY <1>6, <1>15, <1>17

LEMMA ReplayDelivers == ASSUME CInv, Kept, Delivers, LoopReplay PROVE Delivers'
<1>1. /\ UNCHANGED <<transport, store>> /\ pc = "replay" /\ pending' = 0
      /\ run' = run /\ hist' = hist /\ clients' = clients
  BY DEF LoopReplay, Goes
<1>2. TInv /\ Numbered /\ sock' = sock /\ app' = app /\ tx' = tx /\ tel' = tel
  BY <1>1 DEF CInv, Onwards, transport, store
<1>3. pending \in Nat /\ replay.client \in Nat /\ replay \in Replay /\ sock.id \in Nat
  BY <1>2 DEF TInv, TypeOK, DeviceTypeOK, BrowserTypeOK, Replay
<1>4. Served => sock.id # 0 BY <1>3, <1>2 DEF Numbered, Served
<1>5. Served /\ pending = 0 => replay.client = sock.id BY <1>2, <1>4 DEF Numbered, Greeted
<1>6. CASE pending # 0 /\ StartReplay(pending)
  <2>1. Served => pending = sock.id BY <1>2, <1>6 DEF Numbered, Greeted
  <2> QED BY <1>1, <1>3, <1>6, <2>1, StartDelivers
<1>7. CASE pending = 0 /\ UNCHANGED <<replay, wire, overrun>>
  <2>1. UNCHANGED <<wire, app, tx, tel, run, hist, replay, overrun>> BY <1>1, <1>2, <1>7
  <2>2. Greeted' => Greeted BY <1>1, <1>2, <1>7 DEF Greeted, Served
  <2> QED BY <2>1, <2>2, StayedDelivers
<1>8. CASE pending = 0 /\ replay.client \notin clients
  <2>1. ~Served BY <1>5, <1>8 DEF Served
  <2>2. ~Greeted' BY <1>1, <1>2, <2>1 DEF Greeted, Served
  <2> QED BY <2>2, UngreetedDelivers
<1>9. CASE pending = 0 /\ StartReplay(replay.client)
  BY <1>1, <1>3, <1>5, <1>9, StartDelivers
<1>10. CASE /\ pending = 0 /\ replay.phase # "idle" /\ ~Outdated
            /\ UNCHANGED <<snapshots, overrun>>
            /\ \/ replay.phase = "coarse" /\ SendCoarse
               \/ replay.phase = "raw" /\ SendRaw
               \/ replay.phase = "end" /\ SendEnd
  <2>1. replay.run = run.id /\ pending' = pending /\ overrun' = overrun
    BY <1>1, <1>10 DEF Outdated
  <2> QED BY <1>1, <1>10, <2>1, CoarseDelivers, RawDelivers, EndDelivers
<1>11. replay.phase \in {"idle", "coarse", "raw", "end"} BY <1>3 DEF Replay
<1> QED BY <1>6, <1>7, <1>8, <1>9, <1>10, <1>11 DEF LoopReplay

-----------------------------------------------------------------------------
(* The sockets and the browser. *)
LEMMA OwnerIs ==
    ASSUME UNCHANGED owner
    PROVE  pc' = pc /\ run' = run /\ hist' = hist /\ replay' = replay /\ overrun' = overrun
BY DEF owner

LEMMA SocketsDeliver ==
    ASSUME CInv, Delivers, Accept \/ ServerLoses \/ OpenSocket \/ SocketLost
    PROVE  Delivers'
<1>1. Numbered /\ sock.id \in Nat /\ sock \in [id : Nat, st : {"closed", "connecting", "open"}]
  BY BrowserIs DEF CInv, Onwards
<1>2. CASE Accept
  <2>1. ~Greeted' BY <1>2 DEF Accept, transport, Greeted, Served
  <2> QED BY <2>1, UngreetedDelivers
<1>3. CASE ServerLoses
  <2>1. PICK c \in clients : /\ clients' = clients \ {c} /\ wire' = Sent(<<[type |-> "close"]>>, c)
                             /\ UNCHANGED <<owner, published, pending, transport, store>>
    BY <1>3 DEF ServerLoses
  <2>2. sock' = sock /\ app' = app /\ tx' = tx /\ tel' = tel BY <2>1 DEF transport, store
  <2>3. CASE c = sock.id
    <3>1. ~Greeted' BY <2>1, <2>2, <2>3 DEF Greeted, Served
    <3> QED BY <3>1, UngreetedDelivers
  <2>4. CASE c # sock.id
    <3>1. wire' = wire BY <2>1, <2>4 DEF Sent, Hears
    <3>2. Greeted' => Greeted BY <2>1, <2>2 DEF Greeted, Served
    <3>3. UNCHANGED <<wire, app, tx, tel, run, hist, replay, overrun>>
      BY <2>1, <2>2, <3>1, OwnerIs
    <3> QED BY <3>2, <3>3, StayedDelivers
  <2> QED BY <2>3, <2>4
<1>4. CASE OpenSocket
  <2>1. sock'.id = sock.id + 1 /\ clients' = clients BY <1>4 DEF OpenSocket
  <2>2. \A c \in clients : c \in 1..sock.id BY <1>1 DEF Numbered
  <2>3. ~Greeted' BY <1>1, <2>1, <2>2 DEF Greeted, Served
  <2> QED BY <2>3, UngreetedDelivers
<1>5. CASE SocketLost
  <2>1. sock' = [sock EXCEPT !.st = "closed"] BY <1>5 DEF SocketLost, Closed
  <2>2. ~Greeted' BY <1>1, <2>1 DEF Greeted, Served
  <2> QED BY <2>2, UngreetedDelivers
<1> QED BY <1>2, <1>3, <1>4, <1>5

LEMMA AsksDeliver ==
    ASSUME CInv, Delivers, NEW r \in Requester,
           Ask(r) \/ Answer(r) \/ RequestFails(r) \/ (Answered(r) /\ ~Greeted)
    PROVE  Delivers'
<1>1. UNCHANGED <<sock, owner, pending, clients, wire>>
  BY DEF Ask, Answer, RequestFails, Answered
<1>2. Greeted' = Greeted BY <1>1 DEF Greeted, Served
<1>3. CASE Ask(r) \/ Answer(r) \/ RequestFails(r)
  <2>1. app' = app /\ tx' = tx /\ tel' = tel BY <1>3 DEF Ask, Answer, RequestFails, store
  <2>2. UNCHANGED <<wire, app, tx, tel, run, hist, replay, overrun>> BY <1>1, <2>1, OwnerIs
  <2> QED BY <1>2, <2>2, StayedDelivers
<1>4. CASE Answered(r) /\ ~Greeted BY <1>2, <1>4, UngreetedDelivers
<1> QED BY <1>3, <1>4

(* The first message handled: what it brings is now in the snapshot or the graph. *)
LEMMA HandledDelivers ==
    ASSUME CInv, Delivers, wire # <<>>, wire' = Tail(wire), NEW m, m = Head(wire),
           UNCHANGED <<owner, published, pending, clients>>,
           sock'.id = sock.id, sock'.st # "closed" <=> sock.st # "closed",
           run.id # 0 => Takes(m, app, tx, tel, app', tx', tel', run.id)
    PROVE  Delivers'
<1>1. /\ run' = run /\ hist' = hist /\ replay' = replay /\ overrun' = overrun
      /\ clients' = clients /\ pending' = pending
  BY OwnerIs
<1>2. Greeted' <=> Greeted BY <1>1 DEF Greeted, Served
<1>3. wire \in Seq(Message) /\ app.active \in BOOLEAN
  BY DeviceIs, BrowserIs DEF CInv
<1>4. PICK v : v = wire' OBVIOUS
<1>5. Front(v, wire, m) BY <1>3, <1>4, FrontIs
<1> SUFFICES ASSUME Greeted, hist.runId = run.id, run.id # 0, ~overrun
             PROVE  /\ replay.phase = "idle" =>
                          Results(v, app', tx', tel', run.id, hist, run.seq)
                    /\ replay.phase # "idle" /\ replay.run = run.id =>
                          Replays(v, app', tx', run.id, replay, hist, run.seq)
  BY <1>1, <1>2, <1>4 DEF Delivers
<1>6. PICK b, s, f, a, t, g, r, p, h, n :
         /\ b = app' /\ s = tx' /\ f = tel' /\ a = app /\ t = tx /\ g = tel
         /\ r = run.id /\ p = replay /\ h = hist /\ n = run.seq
  OBVIOUS
<1>7. Takes(m, a, t, g, b, s, f, r) /\ a.active \in BOOLEAN BY <1>3, <1>6
<1>8. ASSUME replay.phase = "idle" PROVE Results(v, b, s, f, r, h, n)
  <2>1. Results(wire, a, t, g, r, h, n) BY <1>6, <1>8 DEF Delivers
  <2> QED BY ONLY <1>5, <1>7, <2>1, ResultsShrinks
<1>9. ASSUME replay.phase # "idle", replay.run = run.id PROVE Replays(v, b, s, r, p, h, n)
  <2>1. Replays(wire, a, t, r, p, h, n) BY <1>6, <1>9 DEF Delivers
  <2> QED BY ONLY <1>5, <1>7, <2>1, ReplaysShrinks
<1> QED BY <1>6, <1>8, <1>9

LEMMA ReceiveDelivers == ASSUME CInv, Delivers, Receive PROVE Delivers'
<1>1. PICK m : m = Head(wire) OBVIOUS
<1>2. UNCHANGED <<owner, published, pending, clients>> /\ wire # <<>> BY DEF Receive
<1>3. TInv BY DEF CInv
<1>4. m \in Message BY <1>1, <1>2, <1>3, DeviceIs, MessagesShrink
<1>5. sock \in [id : Nat, st : {"closed", "connecting", "open"}] BY <1>3, BrowserIs
<1>6. CASE /\ m.type = "open" /\ wire' = Tail(wire) /\ sock' = [sock EXCEPT !.st = "open"]
           /\ UNCHANGED <<timer, http, requests, app, tel, tx>>
  <2>1. app' = app /\ tx' = tx /\ tel' = tel BY <1>6
  <2>2. \A r, H : ~FitsFirst(m, app, r, H) BY <1>6 DEF FitsFirst
  <2>3. Shown(m, app, app') BY <1>6, <2>1 DEF Shown, IsNews
  <2>4. Takes(m, app, tx, tel, app', tx', tel', run.id) BY <1>6, <2>2, <2>3 DEF Takes
  <2>5. sock'.id = sock.id /\ sock'.st = "open" BY <1>5, <1>6
  <2>6. sock.st # "closed" BY <1>2 DEF CInv, Silent
  <2> QED BY <1>1, <1>2, <1>6, <2>4, <2>5, <2>6, HandledDelivers
<1>7. CASE m.type = "close" /\ Closed
  <2>1. sock' = [sock EXCEPT !.st = "closed"] BY <1>7 DEF Closed
  <2>2. ~Greeted' BY <1>5, <2>1 DEF Greeted, Served
  <2> QED BY <2>2, UngreetedDelivers
<1>8. CASE /\ m.type \notin {"open", "close"} /\ wire' = Tail(wire) /\ Handle(m)
           /\ UNCHANGED transport
  <2>1. run.id \in Nat BY <1>3, DeviceIs
  <2>2. run.id # 0 => Takes(m, app, tx, tel, app', tx', tel', run.id)
    BY <1>3, <1>4, <1>8, <2>1, HandleTakes
  <2>3. sock' = sock BY <1>8 DEF transport
  <2> QED BY <1>1, <1>2, <1>8, <2>2, <2>3, HandledDelivers
<1> QED BY <1>1, <1>6, <1>7, <1>8 DEF Receive

LEMMA NextDelivers == ASSUME CInv, Kept, Delivers, ~LateAnswer, [Next]_vars PROVE Delivers'
<1>1. CASE Loop
  <2>1. CASE LoopPublish
    <3>1. UNCHANGED <<wire, app, tx, tel, run, hist, replay, overrun>>
      BY <2>1 DEF LoopPublish, store
    <3>2. Greeted' => Greeted BY <2>1 DEF LoopPublish, transport, Greeted, Served
    <3> QED BY <3>1, <3>2, StayedDelivers
  <2> QED BY <1>1, <2>1, TickDelivers, RoutesDelivers, ReplayDelivers DEF Loop
<1>2. CASE Accept \/ ServerLoses \/ OpenSocket \/ SocketLost BY <1>2, SocketsDeliver
<1>3. CASE Receive BY <1>3, ReceiveDelivers
<1>4. CASE \E r \in Requester : Ask(r) \/ Answer(r) \/ Answered(r) \/ RequestFails(r)
  BY <1>4, AsksDeliver DEF LateAnswer
<1>5. CASE UNCHANGED vars
  <2>1. UNCHANGED <<wire, app, tx, tel, run, hist, replay, overrun>>
    BY <1>5 DEF vars, owner, store
  <2>2. Greeted' => Greeted BY <1>5 DEF vars, transport, Greeted, Served
  <2> QED BY <2>1, <2>2, StayedDelivers
<1> QED BY <1>1, <1>2, <1>3, <1>4, <1>5 DEF Next

LEMMA WholeInit == ASSUME Init PROVE Kept /\ Delivers
<1>1. /\ run = [id |-> 0, active |-> FALSE, seq |-> 0] /\ hist = Empty(0)
  BY DEF Init
<1>2. run.id = 0 /\ run.seq = 0 /\ run.active = FALSE BY <1>1
<1>3. InRing(hist, 0) /\ InBuckets(hist, 0, FALSE)
  <2>1. InRing(hist, 0) /\ InBuckets(hist, 0, TRUE) BY <1>1, EmptyFollows
  <2> QED BY <2>1, EndedBuckets
<1> QED BY <1>2, <1>3 DEF Kept, Delivers

(* When nothing is on its way to the browser, what is on its way is what it has. *)
LEMMA QuietIsWhole ==
    ASSUME CInv, Kept, Delivers
    PROVE  NoHole
<1> SUFFICES ASSUME Quiet, ~overrun, hist.runId = run.id
             PROVE  /\ {hist.raw[i].seq : i \in 1..Len(hist.raw)} \subseteq Points(tel)
                    /\ \A n \in 1..run.seq : (\E k \in Points(tel) : k <= n) => n \in Points(tel)
  BY DEF NoHole, Points
<1>1. Greeted
  <2>1. sock.id \in clients /\ sock.st = "open" /\ pending = 0 BY DEF Quiet
  <2>2. sock.id # 0 BY <2>1 DEF CInv, Onwards, Numbered
  <2> QED BY <2>1, <2>2 DEF Greeted, Served
<1>2. TInv BY DEF CInv
<1>3. hist \in Windows /\ run.seq \in Nat /\ InRing(hist, run.seq) BY <1>2, KeptIs
<1>4. PICK l, n \in Nat : l = Len(hist.raw) /\ n = run.seq BY <1>3 DEF Windows
<1>5. l <= n /\ \A i \in 1..l : hist.raw[i].seq = n - l + i BY <1>3, <1>4 DEF InRing
<1>6. CASE run.id = 0
  <2>1. n = 0 BY <1>4, <1>6 DEF Kept
  <2>2. l = 0 BY <1>5, <2>1
  <2> QED BY <1>4, <2>1, <2>2
<1>7. CASE run.id # 0
  <2>1. Results(wire, app, tx, tel, run.id, hist, run.seq)
    BY <1>1, <1>7 DEF Delivers, Quiet
  <2>2. Len(wire) = 0 BY DEF Quiet
  <2>3. PICK p \in 0..0, k \in 0..0 :
           Whole(Base(wire, p, k, tx, tel, run.id) \cup Sum(wire, p, 0, run.id), hist, n)
    BY <1>4, <2>1, <2>2 DEF Results
  <2>4. p = 0 BY <2>3
  <2>5. Base(wire, p, k, tx, tel, run.id) = Points(tel) BY <2>4 DEF Base
  <2>6. Sum(wire, p, 0, run.id) = {}
    <3>1. (p + 1)..0 = {} BY <2>4
    <3> QED BY <3>1 DEF Sum
  <2>7. Whole(Points(tel), hist, n)
    <3>1. Base(wire, p, k, tx, tel, run.id) \cup Sum(wire, p, 0, run.id) = Points(tel)
      BY <2>5, <2>6
    <3> QED BY <2>3, <3>1
  <2>8. \A i \in 1..l : hist.raw[i].seq \in Held(hist, n)
    <3>1. \A i \in 1..l : n - l + i \in (n - l + 1)..n BY <1>5
    <3> QED BY <1>4, <1>5, <3>1 DEF Held
  <2> QED BY <1>4, <2>7, <2>8 DEF Whole
<1> QED BY <1>6, <1>7

(* When nothing is on its way to the browser its graph has no hole, however samples,
   chunks, the ends of buckets, begins of runs, lost sockets and new replays fell between
   each other, as long as no answer to a state request is handled after the greeting:
   samples that come while a replay is sent are not lost between the buckets, the raw
   chunks and the live stream, unless the ring dropped them before they were sent. *)
THEOREM NothingMissing == Spec /\ [][~LateAnswer]_vars => []NoHole
<1>1. Init => Kept /\ Delivers BY WholeInit
<1>2. CInv /\ Kept /\ Delivers /\ [Next]_vars /\ [~LateAnswer]_vars => (Kept /\ Delivers)'
  <2> SUFFICES ASSUME CInv, Kept, Delivers, [Next]_vars, [~LateAnswer]_vars
               PROVE  Kept' /\ Delivers'
    OBVIOUS
  <2>1. Kept' BY KeptNext DEF CInv
  <2>2. Delivers'
    <3>1. CASE ~LateAnswer BY <3>1, NextDelivers
    <3>2. CASE UNCHANGED vars
      <4>1. UNCHANGED <<wire, app, tx, tel, run, hist, replay, overrun>>
        BY <3>2 DEF vars, owner, store
      <4>2. Greeted' => Greeted BY <3>2 DEF vars, transport, Greeted, Served
      <4> QED BY <4>1, <4>2, StayedDelivers
    <3> QED BY <3>1, <3>2
  <2> QED BY <2>1, <2>2
<1>3. CInv /\ Kept /\ Delivers => NoHole BY QuietIsWhole
<1> QED BY <1>1, <1>2, <1>3, ReplayInvariant, PTL DEF Spec
=============================================================================
