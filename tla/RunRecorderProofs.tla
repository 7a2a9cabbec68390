------------------------- MODULE RunRecorderProofs -------------------------
(***************************************************************************)
(* Proofs about RunRecorder: what the logged stream tells of the           *)
(* acquisition stream, for every stream of samples, every fault byte and   *)
(* every choice of the intervals and the window.                           *)
(***************************************************************************)
EXTENDS RunRecorder, TLAPS

Runs0 == RunId \cup {0}
Selector == [runId : Runs0, active : BOOLEAN, acq : Sample, latest : Sample,
             gapPending : BOOLEAN, lastLoggedMs : Nat, nextLogSeq : Nat \ {0},
             intervalFault : SUBSET FaultBit]

TypeOK == /\ rec \in Selector /\ log \in Seq(Record) /\ accepted \in Seq(Sample)
          /\ mark \in Seq(Nat) /\ finished \in BOOLEAN

(* How many acquisitions the log answers for, and the ones after them. *)
Taken == IF log = <<>> THEN 0 ELSE mark[Len(log)]
Open == (Taken + 1)..Len(accepted)

Fault(i) == accepted[i].fault
Hole(i) == i # 1 /\ accepted[i].ms - accepted[i - 1].ms > GapThreshold
Start(k) == IF k = 1 THEN 0 ELSE mark[k - 1]

(* Every record ends a window of its own. *)
Marks ==
    /\ Len(mark) = Len(log)
    /\ \A k \in 1..Len(log) : mark[k] \in 1..Len(accepted) /\ Start(k) < mark[k]

(* A record tells of its window what it should. *)
Tells(k) ==
    /\ log[k].logSeq = k
    /\ log[k].acqSeq = accepted[mark[k]].seq
    /\ log[k].ms = accepted[mark[k]].ms /\ log[k].fault = accepted[mark[k]].fault
    /\ log[k].intervalFault = UNION {Fault(i) : i \in (Start(k) + 1)..mark[k]}
    /\ log[k].gap <=> \E i \in (Start(k) + 1)..mark[k] : Hole(i)
    /\ k > 1 /\ ~log[k].terminal => log[k].ms - log[k - 1].ms >= LogInterval
    /\ \A i \in (Start(k) + 1)..(mark[k] - 1) :
           k > 1 /\ accepted[i].ms - log[k - 1].ms < LogInterval

(* The selector remembers the acquisitions no record answers for yet. *)
Remembers ==
    /\ rec.nextLogSeq = Len(log) + 1
    /\ accepted = <<>> => rec.acq = NoSample
    /\ accepted # <<>> => rec.acq = accepted[Len(accepted)]
    /\ log # <<>> => rec.lastLoggedMs = log[Len(log)].ms
    /\ Taken = Len(accepted) => rec.latest = NoSample
    /\ Taken # Len(accepted) => rec.latest = accepted[Len(accepted)]
    /\ rec.intervalFault = UNION {Fault(i) : i \in Open}
    /\ rec.gapPending <=> \E i \in Open : Hole(i)
    /\ \A i \in Open : log # <<>> /\ accepted[i].ms - rec.lastLoggedMs < LogInterval

(* Every acquisition is numbered and lies in the window of the run. *)
InWindow == \A i \in 1..Len(accepted) : accepted[i].seq # 0 /\ accepted[i].ms <= MaxDuration

(* A closed selector holds nothing back, and only finish() writes the last record. *)
Closed ==
    /\ finished => ~rec.active
    /\ ~rec.active => Taken = Len(accepted)
    /\ \A k \in 1..Len(log) : log[k].terminal => finished /\ k = Len(log)

RInv == /\ TypeOK /\ Marks /\ (\A k \in 1..Len(log) : Tells(k)) /\ Remembers /\ InWindow /\ Closed

-----------------------------------------------------------------------------
(* reset() gives a selector of the right shape that remembers nothing. *)
LEMMA ResetIs ==
    ASSUME NEW r \in Runs0
    PROVE  /\ Reset(r) \in Selector /\ NoSample \in Sample /\ NoSample.seq = 0
           /\ Reset(r).acq = NoSample /\ Reset(r).latest = NoSample /\ Reset(r).nextLogSeq = 1
           /\ Reset(r).intervalFault = {} /\ ~Reset(r).gapPending
<1>1. NoSample \in Sample /\ NoSample.seq = 0 BY DEF NoSample, Sample
<1>2. (r # 0) \in BOOLEAN /\ {} \in SUBSET FaultBit /\ 1 \in Nat \ {0} /\ FALSE \in BOOLEAN OBVIOUS
<1>3. /\ Reset(r).nextLogSeq = 1 /\ Reset(r).acq = NoSample /\ Reset(r).latest = NoSample
      /\ Reset(r).intervalFault = {} /\ ~Reset(r).gapPending
  BY DEF Reset
<1>4. Reset(r) \in Selector BY <1>1, <1>2 DEF Reset, Selector
<1>5. QED BY <1>1, <1>3, <1>4

(* The first half of select(): the acquisition is noted, its fault bits and a
   hole before it are kept for the next record. *)
LEMMA ConsumeIs ==
    ASSUME NEW c \in Selector, NEW s \in Sample, NEW e, e = Consume(c, s)
    PROVE  /\ e \in Selector /\ e.acq = s /\ e.active = c.active /\ e.latest = c.latest
           /\ e.lastLoggedMs = c.lastLoggedMs /\ e.nextLogSeq = c.nextLogSeq
           /\ e.intervalFault = c.intervalFault \cup s.fault
           /\ e.gapPending <=> c.gapPending \/ IsGap(c, s)
<1>1. s.fault \in SUBSET FaultBit /\ c.intervalFault \in SUBSET FaultBit BY DEF Sample, Selector
<1>2. (c.gapPending \/ IsGap(c, s)) \in BOOLEAN BY Zenon DEF IsGap
<1>3. (c.intervalFault \cup s.fault) \in SUBSET FaultBit BY <1>1
<1>4. e.gapPending = (c.gapPending \/ IsGap(c, s)) BY DEF Consume, Selector
<1>5. /\ e \in Selector /\ e.acq = s /\ e.active = c.active /\ e.latest = c.latest
      /\ e.lastLoggedMs = c.lastLoggedMs /\ e.nextLogSeq = c.nextLogSeq
      /\ e.intervalFault = c.intervalFault \cup s.fault
  BY <1>2, <1>3 DEF Consume, Selector
<1>6. QED BY <1>4, <1>5

(* emit() numbers the record and forgets what it told. *)
LEMMA EmitIs ==
    ASSUME NEW c \in Selector, NEW s \in Sample, NEW b \in BOOLEAN
    PROVE  \A r, d : r = Emitted(c, s, b) /\ d = AfterEmit(c, s) =>
               /\ r \in Record /\ r.logSeq = c.nextLogSeq /\ r.acqSeq = s.seq /\ r.ms = s.ms
               /\ r.fault = s.fault /\ r.intervalFault = c.intervalFault
               /\ r.gap = c.gapPending /\ (r.terminal => b)
               /\ d \in Selector /\ d.acq = c.acq /\ d.active = c.active /\ d.latest = NoSample
               /\ d.nextLogSeq = c.nextLogSeq + 1 /\ d.lastLoggedMs = s.ms
               /\ d.intervalFault = {} /\ ~d.gapPending
<1> SUFFICES ASSUME NEW r, NEW d, r = Emitted(c, s, b), d = AfterEmit(c, s)
    PROVE  /\ r \in Record /\ r.logSeq = c.nextLogSeq /\ r.acqSeq = s.seq /\ r.ms = s.ms
           /\ r.fault = s.fault /\ r.intervalFault = c.intervalFault
           /\ r.gap = c.gapPending /\ (r.terminal => b)
           /\ d \in Selector /\ d.acq = c.acq /\ d.active = c.active /\ d.latest = NoSample
           /\ d.nextLogSeq = c.nextLogSeq + 1 /\ d.lastLoggedMs = s.ms
           /\ d.intervalFault = {} /\ ~d.gapPending
  BY ZenonT(60)
<1>1. /\ s.seq \in Nat /\ s.ms \in Nat /\ s.fault \in SUBSET FaultBit /\ c.nextLogSeq \in Nat \ {0}
      /\ c.intervalFault \in SUBSET FaultBit /\ c.gapPending \in BOOLEAN
  BY DEF Sample, Selector
<1>2. /\ NoSample \in Sample /\ c.nextLogSeq + 1 \in Nat \ {0} /\ {} \in SUBSET FaultBit
      /\ FALSE \in BOOLEAN
  BY <1>1 DEF NoSample, Sample
<1>3. r \in Record BY <1>1 DEF Emitted, Record
<1>4. /\ r.logSeq = c.nextLogSeq /\ r.acqSeq = s.seq /\ r.ms = s.ms
      /\ r.fault = s.fault /\ r.intervalFault = c.intervalFault
      /\ r.gap = c.gapPending
  BY DEF Emitted
<1>5. d \in Selector BY <1>1, <1>2 DEF AfterEmit, Selector
<1>6. /\ d.acq = c.acq /\ d.active = c.active /\ d.latest = NoSample
      /\ d.nextLogSeq = c.nextLogSeq + 1 /\ d.lastLoggedMs = s.ms
      /\ d.intervalFault = {} /\ ~d.gapPending
  BY DEF AfterEmit, Selector
<1>7. r.terminal => b BY Zenon DEF Emitted
<1>8. QED BY <1>3, <1>4, <1>5, <1>6, <1>7

(* Returning no record leaves the log alone, returning one appends it. *)
LEMMA AppendIs ==
    ASSUME NEW S, NEW f \in Seq(S), NEW x
    PROVE  /\ f \o <<>> = f
           /\ x \in S => f \o <<x>> = Append(f, x) /\ Append(f, x) \in Seq(S)
           /\ Len(Append(f, x)) = Len(f) + 1 /\ Append(f, x)[Len(f) + 1] = x
           /\ \A i \in 1..Len(f) : Append(f, x)[i] = f[i]
  OBVIOUS

(* The mark of a returned record is the number of acquisitions so far. *)
LEMMA MarksReturned ==
    ASSUME NEW n
    PROVE  /\ [i \in 1..Len(<<>>) |-> n] = <<>>
           /\ \A r : [i \in 1..Len(<<r>>) |-> n] = <<n>>
<1>1. [i \in 1..Len(<<>>) |-> n] = <<>>
  <2>1. 1..Len(<<>>) = {} OBVIOUS
  <2>2. QED BY <2>1
<1>2. ASSUME NEW r PROVE [i \in 1..Len(<<r>>) |-> n] = <<n>>
  <2>1. Len(<<r>>) = 1 OBVIOUS
  <2>2. [i \in 1..Len(<<r>>) |-> n] = [i \in 1..1 |-> n] BY <2>1
  <2>3. QED BY <2>2
<1>3. QED BY <1>1, <1>2

-----------------------------------------------------------------------------
(* What holds of the fields taken one by one. *)
LEMMA TypeFacts ==
    ASSUME RInv
    PROVE  /\ rec \in Selector /\ log \in Seq(Record) /\ accepted \in Seq(Sample)
           /\ mark \in Seq(Nat) /\ Len(mark) = Len(log)
           /\ Len(accepted) \in Nat /\ Len(log) \in Nat /\ Taken \in 0..Len(accepted)
           /\ log = <<>> => Taken = 0
           /\ log # <<>> => Taken = mark[Len(log)] /\ Len(log) \in 1..Len(log)
           /\ GapThreshold \in Nat
<1>1. /\ rec \in Selector /\ log \in Seq(Record) /\ accepted \in Seq(Sample)
      /\ mark \in Seq(Nat) /\ Len(mark) = Len(log)
      /\ \A k \in 1..Len(log) : mark[k] \in 1..Len(accepted)
  BY DEF RInv, TypeOK, Marks
<1>2. Len(accepted) \in Nat /\ Len(log) \in Nat BY <1>1
<1>3. log # <<>> => Len(log) \in 1..Len(log) BY <1>1
<1>4. /\ log = <<>> => Taken = 0 
      /\ log # <<>> => Taken = mark[Len(log)]
  BY DEF Taken
<1>5. Taken \in 0..Len(accepted) BY <1>1, <1>2, <1>3, <1>4
<1>6. GapThreshold \in Nat
  <2>1. AcquireInterval \in Nat /\ AcquireInterval \div 2 \in Nat BY RecorderAssumption
  <2>2. QED BY <2>1 DEF GapThreshold
<1>7. QED BY <1>1, <1>2, <1>3, <1>4, <1>5, <1>6

(* Acquisitions already consumed stay as they were: what a step may do to the
   acquired stream. *)
Grows ==
    /\ accepted' \in Seq(Sample) /\ Len(accepted) <= Len(accepted')
    /\ \A i \in 1..Len(accepted) : accepted'[i] = accepted[i]

LEMMA GrowsKeeps ==
    ASSUME RInv, Grows, NEW i \in 1..Len(accepted)
    PROVE  /\ accepted'[i] = accepted[i]
           /\ Fault(i)' = Fault(i) /\ (Hole(i)' <=> Hole(i))
<1>1. accepted'[i] = accepted[i] BY DEF Grows
<1>2. Fault(i)' = Fault(i) BY <1>1 DEF Fault
<1>3. CASE i = 1 BY <1>1, <1>2, <1>3 DEF Hole
<1>4. CASE i # 1
  <2>1. i - 1 \in 1..Len(accepted) BY <1>4, TypeFacts
  <2>2. accepted'[i - 1] = accepted[i - 1] BY <2>1 DEF Grows
  <2>3. QED BY <1>1, <1>2, <2>2 DEF Hole
<1>5. QED BY <1>3, <1>4

(* A record keeps telling of its window what it told when it was returned. *)
LEMMA OldRecordsTell ==
    ASSUME RInv, Grows, NEW k \in 1..Len(log),
           \A j \in 1..Len(log) : log'[j] = log[j] /\ mark'[j] = mark[j]
    PROVE  Tells(k)' /\ Start(k)' = Start(k)
<1>1. /\ Tells(k) /\ mark[k] \in 1..Len(accepted) /\ Start(k) < mark[k]
      /\ log'[k] = log[k] /\ mark'[k] = mark[k]
  BY DEF RInv, Marks
<1>2. Len(log) \in Nat /\ Len(accepted) \in Nat BY TypeFacts
<1>3. Start(k)' = Start(k) /\ Start(k) \in Nat
  <2>1. CASE k = 1 BY <2>1 DEF Start
  <2>2. CASE k # 1
    <3>1. k - 1 \in 1..Len(log) BY <1>2, <2>2
    <3>2. QED BY <2>2, <3>1, TypeFacts DEF Start
  <2>3. QED BY <2>1, <2>2
<1>4. k > 1 => log'[k - 1] = log[k - 1]
  <2>1. k > 1 => k - 1 \in 1..Len(log) BY <1>2
  <2>2. QED BY <2>1
<1>5. \A i \in (Start(k) + 1)..mark[k] :
         i \in 1..Len(accepted) /\ Fault(i)' = Fault(i) /\ (Hole(i)' <=> Hole(i))
               /\ accepted'[i] = accepted[i]
  <2>1. \A i \in (Start(k) + 1)..mark[k] : i \in 1..Len(accepted) BY <1>1, <1>2, <1>3
  <2>2. QED BY <2>1, GrowsKeeps
<1>6. /\ (UNION {Fault(i) : i \in (Start(k) + 1)..mark[k]})'
            = UNION {Fault(i) : i \in (Start(k) + 1)..mark[k]}
      /\ (\E i \in (Start(k) + 1)..mark[k] : Hole(i))'
            <=> \E i \in (Start(k) + 1)..mark[k] : Hole(i)
  BY <1>1, <1>3, <1>5, Zenon
<1>7. accepted'[mark[k]] = accepted[mark[k]] BY <1>1, GrowsKeeps
<1>8. \A i \in (Start(k) + 1)..(mark[k] - 1) : accepted'[i] = accepted[i]
  <2>1. mark[k] \in Nat BY <1>1
  <2>2. \A i \in (Start(k) + 1)..(mark[k] - 1) : i \in (Start(k) + 1)..mark[k] BY <1>3, <2>1
  <2>3. QED BY <1>5, <2>2
<1>9. Tells(k)'
  <2>1. /\ log'[k].logSeq = k /\ log'[k].acqSeq = accepted'[mark'[k]].seq
        /\ log'[k].ms = accepted'[mark'[k]].ms /\ log'[k].fault = accepted'[mark'[k]].fault
    BY <1>1, <1>7 DEF Tells
  <2>2. (log[k].intervalFault = UNION {Fault(i) : i \in (Start(k) + 1)..mark[k]})'
    BY <1>1, <1>6, Zenon DEF Tells
  <2>3. (log[k].gap <=> \E i \in (Start(k) + 1)..mark[k] : Hole(i))'
    BY <1>1, <1>6, Zenon DEF Tells
  <2>4. (k > 1 /\ ~log[k].terminal => log[k].ms - log[k - 1].ms >= LogInterval)'
    BY <1>1, <1>4 DEF Tells
  <2>5. (\A i \in (Start(k) + 1)..(mark[k] - 1) :
           k > 1 /\ accepted[i].ms - log[k - 1].ms < LogInterval)'
    BY <1>1, <1>3, <1>4, <1>8 DEF Tells
  <2>6. QED BY <2>1, <2>2, <2>3, <2>4, <2>5 DEF Tells
<1>10. QED BY <1>3, <1>9

(* A record returned by select() or finish() ends the window that began after
   the record before it, and closes it: it tells of what the selector kept. *)
LEMMA Emission ==
    ASSUME RInv, Grows, NEW r \in Record, NEW n \in Nat, n = Len(accepted'), Taken < n,
           log' = Append(log, r), mark' = Append(mark, n),
           r.logSeq = Len(log) + 1, r.acqSeq = accepted'[n].seq,
           r.ms = accepted'[n].ms, r.fault = accepted'[n].fault,
           r.intervalFault = UNION {Fault(i)' : i \in (Taken + 1)..n},
           r.gap <=> \E i \in (Taken + 1)..n : Hole(i)',
           log # <<>> /\ ~r.terminal => r.ms - log[Len(log)].ms >= LogInterval,
           \A i \in (Taken + 1)..(n - 1) :
               log # <<>> /\ accepted'[i].ms - log[Len(log)].ms < LogInterval
    PROVE  /\ log' \in Seq(Record) /\ mark' \in Seq(Nat)
           /\ Marks' /\ (\A k \in 1..Len(log) : Tells(k))'
           /\ Taken' = n /\ Len(log') = Len(log) + 1 /\ log' # <<>> /\ log'[Len(log) + 1] = r
           /\ \A j \in 1..Len(log) : log'[j] = log[j] /\ mark'[j] = mark[j]
<1> PICK m \in Nat : m = Len(log) + 1 BY TypeFacts
<1>1. /\ log \in Seq(Record) /\ mark \in Seq(Nat) /\ Len(mark) = Len(log) /\ Len(log) \in Nat
      /\ Taken \in Nat /\ Len(accepted) <= n /\ Len(accepted) \in Nat
  BY TypeFacts DEF Grows
<1>2. /\ log' \in Seq(Record) /\ Len(log') = m /\ log'[m] = r
      /\ \A j \in 1..Len(log) : log'[j] = log[j]
  BY <1>1, AppendIs
<1>3. /\ mark' \in Seq(Nat) /\ Len(mark') = m /\ mark'[m] = n
      /\ \A j \in 1..Len(log) : mark'[j] = mark[j]
  BY <1>1, AppendIs
<1>4. m \in Nat /\ m >= 1 /\ log' # <<>>
  <2>1. m \in Nat /\ m >= 1 BY <1>1
  <2>2. log' # <<>> BY <1>2, <2>1
  <2>3. QED BY <2>1, <2>2
<1>5. Taken' = n
  <2>1. Taken' = mark'[Len(log')] BY <1>4 DEF Taken
  <2>2. QED BY <1>2, <1>3, <2>1
<1>6. Start(m)' = Taken
  <2>1. CASE log = <<>>
    <3>1. m = 1 BY <2>1
    <3>2. Taken = 0 BY <2>1, TypeFacts
    <3>3. QED BY <3>1, <3>2 DEF Start
  <2>2. CASE log # <<>>
    <3>1. m # 1 /\ m - 1 = Len(log) /\ Len(log) \in 1..Len(log) BY <1>1, <2>2, TypeFacts
    <3>2. Start(m)' = mark'[m - 1] BY <3>1 DEF Start
    <3>3. Taken = mark[Len(log)] BY <2>2, TypeFacts
    <3>4. QED BY <1>3, <3>1, <3>2, <3>3
  <2>3. QED BY <2>1, <2>2
<1>7. \A k \in 1..Len(log) : Tells(k)' /\ Start(k)' = Start(k) BY <1>2, <1>3, OldRecordsTell
<1>8. ASSUME NEW k \in 1..m PROVE k \in 1..Len(log) \/ k = m BY <1>1
<1>9. Marks'
  <2>1. ASSUME NEW k \in 1..m PROVE mark'[k] \in 1..n /\ Start(k)' < mark'[k]
    <3>1. CASE k = m BY <1>1, <1>3, <1>6, <3>1
    <3>2. CASE k \in 1..Len(log)
      <4>1. mark[k] \in 1..Len(accepted) /\ Start(k) < mark[k] BY <3>2 DEF RInv, Marks
      <4>2. mark'[k] = mark[k] /\ Start(k)' = Start(k) BY <1>3, <1>7, <3>2
      <4>3. QED BY <1>1, <4>1, <4>2
    <3>3. QED BY <1>8, <3>1, <3>2
  <2>2. QED BY <1>2, <1>3, <2>1 DEF Marks
<1>10. Tells(m)'
  <2>1. /\ log'[m].logSeq = m /\ log'[m].acqSeq = accepted'[mark'[m]].seq
        /\ log'[m].ms = accepted'[mark'[m]].ms /\ log'[m].fault = accepted'[mark'[m]].fault
    BY <1>2, <1>3
  <2>2. (log[m].intervalFault = UNION {Fault(i) : i \in (Start(m) + 1)..mark[m]})'
    BY <1>2, <1>3, <1>6
  <2>3. (log[m].gap <=> \E i \in (Start(m) + 1)..mark[m] : Hole(i))'
    BY <1>2, <1>3, <1>6
  <2>4. m > 1 => log # <<>> BY <1>1
  <2>5. log # <<>> => m - 1 = Len(log) /\ log'[m - 1] = log[Len(log)] /\ m > 1
    BY <1>1, <1>2, TypeFacts
  <2>6. (m > 1 /\ ~log[m].terminal => log[m].ms - log[m - 1].ms >= LogInterval)'
    BY <1>2, <2>4, <2>5
  <2>7. (\A i \in (Start(m) + 1)..(mark[m] - 1) :
           m > 1 /\ accepted[i].ms - log[m - 1].ms < LogInterval)'
    BY <1>3, <1>6, <2>5
  <2>8. QED BY <2>1, <2>2, <2>3, <2>6, <2>7 DEF Tells
<1>11. (\A k \in 1..Len(log) : Tells(k))' BY <1>2, <1>7, <1>8, <1>10
<1>12. QED BY <1>2, <1>3, <1>4, <1>5, <1>9, <1>11

(* Nothing is kept for a window that has not begun. *)
LEMMA EmptyWindow ==
    ASSUME NEW n \in Nat
    PROVE  /\ UNION {Fault(i)' : i \in (n + 1)..n} = {}
           /\ ~ \E i \in (n + 1)..n : Hole(i)'
           /\ \A i \in (n + 1)..n : FALSE
<1>1. (n + 1)..n = {} OBVIOUS
<1>2. QED BY <1>1, Zenon

(* After a record the selector remembers nothing but the record's time. *)
LEMMA EmissionRemembers ==
    ASSUME NEW n \in Nat \ {0}, n = Len(accepted'), Taken' = n, log' # <<>>,
           Len(log') \in Nat,
           rec'.nextLogSeq = Len(log') + 1, rec'.acq = accepted'[n],
           rec'.lastLoggedMs = log'[Len(log')].ms, rec'.latest = NoSample,
           rec'.intervalFault = {}, ~rec'.gapPending, accepted' # <<>>
    PROVE  Remembers'
<1>1. Open' = (n + 1)..n BY DEF Open
<1>2. (rec.intervalFault = UNION {Fault(i) : i \in Open})' BY <1>1, EmptyWindow
<1>3. (rec.gapPending <=> \E i \in Open : Hole(i))' BY <1>1, EmptyWindow
<1>4. (\A i \in Open : log # <<>> /\ accepted[i].ms - rec.lastLoggedMs < LogInterval)'
  BY <1>1, EmptyWindow
<1>5. QED BY <1>2, <1>3, <1>4 DEF Remembers

-----------------------------------------------------------------------------
(* With one acquisition more, the fault bits and the hole that select() has
   noted are those of the whole window so far. *)
LEMMA NotedAll ==
    ASSUME RInv, NEW s \in Sample, NEW n \in Nat, n = Len(accepted) + 1,
           accepted' = Append(accepted, s)
    PROVE  /\ Grows /\ n = Len(accepted') /\ accepted'[n] = s /\ accepted' # <<>> /\ Taken < n
           /\ rec.intervalFault \cup s.fault = UNION {Fault(i)' : i \in (Taken + 1)..n}
           /\ rec.gapPending \/ IsGap(rec, s) <=> \E i \in (Taken + 1)..n : Hole(i)'
<1>1. accepted \in Seq(Sample) /\ Len(accepted) \in Nat /\ Taken \in 0..Len(accepted) BY TypeFacts
<1>2. /\ accepted' \in Seq(Sample) /\ Len(accepted') = n /\ accepted'[n] = s
      /\ \A i \in 1..Len(accepted) : accepted'[i] = accepted[i]
  BY <1>1, AppendIs
<1>3. Grows /\ accepted' # <<>> /\ Taken < n BY <1>1, <1>2 DEF Grows
<1>4. \A i \in (Taken + 1)..n : i = n \/ i \in Open BY <1>1 DEF Open
<1>5. \A i \in Open : i \in (Taken + 1)..n /\ i \in 1..Len(accepted) BY <1>1 DEF Open
<1>6. n \in (Taken + 1)..n BY <1>1
<1>7. \A i \in Open : Fault(i)' = Fault(i) /\ (Hole(i)' <=> Hole(i)) BY <1>3, <1>5, GrowsKeeps
<1>8. Fault(n)' = s.fault BY <1>2 DEF Fault
<1>9. /\ rec.intervalFault = UNION {Fault(i) : i \in Open}
      /\ rec.gapPending <=> \E i \in Open : Hole(i)
  BY DEF RInv, Remembers
<1>10. rec.intervalFault \cup s.fault = UNION {Fault(i)' : i \in (Taken + 1)..n}
  <2>1. ASSUME NEW e \in rec.intervalFault \cup s.fault
        PROVE  e \in UNION {Fault(i)' : i \in (Taken + 1)..n}
    <3>1. CASE e \in s.fault BY <1>6, <1>8, <3>1
    <3>2. CASE e \in rec.intervalFault
      <4>1. PICK i \in Open : e \in Fault(i) BY <1>9, <3>2
      <4>2. e \in Fault(i)' /\ i \in (Taken + 1)..n BY <1>5, <1>7, <4>1
      <4>3. QED BY <4>2
    <3>3. QED BY <3>1, <3>2
  <2>2. ASSUME NEW i \in (Taken + 1)..n, NEW e \in Fault(i)'
        PROVE  e \in rec.intervalFault \cup s.fault
    <3>1. CASE i = n BY <1>8, <2>2, <3>1
    <3>2. CASE i \in Open
      <4>1. e \in Fault(i) BY <1>7, <2>2, <3>2
      <4>2. QED BY <1>9, <3>2, <4>1
    <3>3. QED BY <1>4, <3>1, <3>2
  <2>3. QED BY <2>1, <2>2
<1>11. Hole(n)' <=> IsGap(rec, s)
  <2>1. CASE accepted = <<>>
    <3>1. n = 1 BY <2>1
    <3>2. rec.acq.seq = 0 BY <2>1 DEF RInv, Remembers, NoSample
    <3>3. QED BY <3>1, <3>2 DEF Hole, IsGap
  <2>2. CASE accepted # <<>>
    <3>1. n # 1 /\ n - 1 = Len(accepted) /\ Len(accepted) \in 1..Len(accepted) BY <1>1, <2>2
    <3>2. rec.acq = accepted[Len(accepted)] /\ rec.acq.seq # 0
      BY <2>2, <3>1 DEF RInv, Remembers, InWindow
    <3>3. accepted'[n - 1] = rec.acq BY <1>2, <3>1, <3>2
    <3>4. Hole(n)' <=> n # 1 /\ accepted'[n].ms - accepted'[n - 1].ms > GapThreshold BY DEF Hole
    <3>5. Hole(n)' <=> s.ms - rec.acq.ms > GapThreshold BY <1>2, <3>1, <3>3, <3>4
    <3>6. IsGap(rec, s) <=> s.ms - rec.acq.ms > GapThreshold BY <3>2 DEF IsGap
    <3>7. QED BY <3>5, <3>6
  <2>3. QED BY <2>1, <2>2
<1>12. rec.gapPending \/ IsGap(rec, s) <=> \E i \in (Taken + 1)..n : Hole(i)'
  BY <1>4, <1>5, <1>6, <1>7, <1>9, <1>11, Zenon
<1>13. QED BY <1>2, <1>3, <1>10, <1>12

(* A record of what the selector held answers for nothing acquired before. *)
LEMMA HeldSoFar ==
    ASSUME RInv, Grows
    PROVE  \A i \in Open : log # <<>> /\ accepted'[i].ms - log[Len(log)].ms < LogInterval
<1>1. \A i \in Open : i \in 1..Len(accepted) BY TypeFacts DEF Open
<1>2. \A i \in Open : accepted'[i] = accepted[i] BY <1>1 DEF Grows
<1>3. log # <<>> => rec.lastLoggedMs = log[Len(log)].ms BY DEF RInv, Remembers
<1>4. \A i \in Open : log # <<>> /\ accepted[i].ms - rec.lastLoggedMs < LogInterval
  BY DEF RInv, Remembers
<1>5. QED BY <1>2, <1>3, <1>4

(* Acquisitions keep the number and the window they were accepted with. *)
LEMMA WindowKept ==
    ASSUME RInv, NEW s \in Sample, s.seq # 0, s.ms <= MaxDuration, accepted' = Append(accepted, s)
    PROVE  InWindow'
<1>1. accepted \in Seq(Sample) BY TypeFacts
<1>2. \A i \in 1..Len(accepted) : accepted[i].seq # 0 /\ accepted[i].ms <= MaxDuration
  BY DEF RInv, InWindow
<1>3. /\ Len(accepted') = Len(accepted) + 1 /\ accepted'[Len(accepted) + 1] = s
      /\ \A i \in 1..Len(accepted) : accepted'[i] = accepted[i]
  BY <1>1, AppendIs
<1>4. \A i \in 1..(Len(accepted) + 1) : i \in 1..Len(accepted) \/ i = Len(accepted) + 1
  BY <1>1
<1>5. QED BY <1>2, <1>3, <1>4 DEF InWindow

-----------------------------------------------------------------------------
(* A selector that has just been reset, with nothing logged. *)
Fresh == /\ log = <<>> /\ accepted = <<>> /\ mark = <<>> /\ finished = FALSE
         /\ \E r \in Runs0 : rec = Reset(r)

LEMMA FreshIsSound == Fresh => RInv
<1> SUFFICES ASSUME Fresh PROVE RInv OBVIOUS
<1>1. /\ log = <<>> /\ accepted = <<>> /\ mark = <<>> /\ finished = FALSE
      /\ Len(log) = 0 /\ Len(accepted) = 0 /\ Len(mark) = 0
  BY DEF Fresh
<1>2. PICK r \in Runs0 : rec = Reset(r) BY DEF Fresh
<1>3. /\ rec \in Selector /\ rec.acq = NoSample /\ rec.latest = NoSample /\ rec.nextLogSeq = 1
      /\ rec.intervalFault = {} /\ ~rec.gapPending
  BY <1>2, ResetIs
<1>4. TypeOK
  <2>1. log \in Seq(Record) /\ accepted \in Seq(Sample) /\ mark \in Seq(Nat) BY <1>1
  <2>2. finished \in BOOLEAN BY <1>1, Zenon
  <2>3. QED BY <1>3, <2>1, <2>2 DEF TypeOK
<1>5. Marks /\ (\A k \in 1..Len(log) : Tells(k)) /\ InWindow BY <1>1 DEF Marks, InWindow
<1>6. Taken = 0 /\ Open = {} BY <1>1 DEF Taken, Open
<1>7. Closed BY <1>1, <1>6 DEF Closed
<1>8. (rec.gapPending <=> \E i \in Open : Hole(i)) BY <1>3, <1>6, Zenon
<1>9. rec.intervalFault = UNION {Fault(i) : i \in Open} BY <1>3, <1>6
<1>10. Remembers BY <1>1, <1>3, <1>6, <1>8, <1>9 DEF Remembers
<1>11. QED BY <1>4, <1>5, <1>7, <1>10 DEF RInv

(* The terminal flags of a log extended by one record. *)
LEMMA TerminalKept ==
    ASSUME RInv, NEW r, Len(log') = Len(log) + 1, log'[Len(log) + 1] = r,
           \A j \in 1..Len(log) : log'[j] = log[j],
           ~finished, r.terminal => finished'
    PROVE  \A k \in 1..Len(log') : log'[k].terminal => finished' /\ k = Len(log')
<1>1. Len(log) \in Nat BY TypeFacts
<1>2. \A k \in 1..Len(log) : ~log[k].terminal BY DEF RInv, Closed
<1>3. \A k \in 1..Len(log') : k \in 1..Len(log) \/ k = Len(log) + 1 BY <1>1
<1>4. QED BY <1>2, <1>3

(* select() lets a sample pass that it does not accept. *)
LEMMA RejectedIsSound ==
    ASSUME RInv, NEW s \in Sample, SelectStep(s), ~Accepts(rec, s)
    PROVE  vars' = vars
<1>1. Selected(rec, s) = <<>> /\ accepted' = accepted /\ rec' = rec /\ finished' = finished
  BY DEF SelectStep, Selected, Select
<1>2. log' = log \o <<>> /\ mark' = mark \o [i \in 1..Len(<<>>) |-> Len(accepted')]
  BY <1>1 DEF SelectStep, Returned
<1>3. mark' = mark \o <<>> BY <1>2, MarksReturned
<1>4. log' = log /\ mark' = mark BY <1>2, <1>3, TypeFacts, AppendIs
<1>5. QED BY <1>1, <1>4 DEF vars

(* select() holds a sample that is too soon after the last record. *)
LEMMA HeldIsSound ==
    ASSUME RInv, NEW s \in Sample, SelectStep(s), Accepts(rec, s), Held(rec, s)
    PROVE  RInv'
<1> DEFINE e == Consume(rec, s)
<1>1. /\ Selected(rec, s) = <<>> /\ accepted' = Append(accepted, s)
      /\ rec' = [e EXCEPT !.latest = s] /\ finished' = finished
  BY DEF SelectStep, Selected, Select
<1>2. log' = log \o <<>> /\ mark' = mark \o [i \in 1..Len(<<>>) |-> Len(accepted')]
  BY <1>1 DEF SelectStep, Returned
<1>3. mark' = mark \o <<>> BY <1>2, MarksReturned
<1>4. log' = log /\ mark' = mark BY <1>2, <1>3, TypeFacts, AppendIs
<1>5. PICK n \in Nat : n = Len(accepted) + 1 BY TypeFacts
<1>6. /\ Grows /\ n = Len(accepted') /\ accepted'[n] = s /\ accepted' # <<>> /\ Taken < n
      /\ rec.intervalFault \cup s.fault = UNION {Fault(i)' : i \in (Taken + 1)..n}
      /\ rec.gapPending \/ IsGap(rec, s) <=> \E i \in (Taken + 1)..n : Hole(i)'
  BY <1>1, <1>5, NotedAll
<1>7. /\ e \in Selector /\ e.acq = s /\ e.active = rec.active
      /\ e.lastLoggedMs = rec.lastLoggedMs /\ e.nextLogSeq = rec.nextLogSeq
      /\ e.intervalFault = rec.intervalFault \cup s.fault
      /\ e.gapPending <=> rec.gapPending \/ IsGap(rec, s)
  BY TypeFacts, ConsumeIs
<1> HIDE DEF e
<1>8. /\ rec' \in Selector /\ rec'.acq = s /\ rec'.active = rec.active /\ rec'.latest = s
      /\ rec'.lastLoggedMs = rec.lastLoggedMs /\ rec'.nextLogSeq = rec.nextLogSeq
      /\ rec'.intervalFault = e.intervalFault /\ rec'.gapPending = e.gapPending
  BY <1>1, <1>7 DEF Selector
<1>9. TypeOK'
  BY <1>1, <1>4, <1>6, <1>8 DEF RInv, TypeOK, Grows
<1>10. \A k \in 1..Len(log) : Tells(k)' /\ Start(k)' = Start(k) BY <1>4, <1>6, OldRecordsTell
<1>11. Marks'
  <2>1. Len(accepted) \in Nat /\ Len(accepted) <= Len(accepted') /\ Len(accepted') \in Nat
    BY <1>5, <1>6, TypeFacts
  <2>2. QED BY <1>4, <1>10, <2>1 DEF RInv, Marks
<1>12. (\A k \in 1..Len(log) : Tells(k))' BY <1>4, <1>10
<1>13. Taken' = Taken /\ Open' = (Taken + 1)..n BY <1>4, <1>6 DEF Taken, Open
<1>14. InWindow' BY <1>1, WindowKept DEF Accepts
<1>15. Remembers'
  <2>1. (rec.intervalFault = UNION {Fault(i) : i \in Open})' BY <1>6, <1>7, <1>8, <1>13
  <2>2. (rec.gapPending <=> \E i \in Open : Hole(i))' BY <1>6, <1>7, <1>8, <1>13, Zenon
  <2>3. log # <<>> /\ s.ms - rec.lastLoggedMs < LogInterval
    BY TypeFacts DEF Held, RInv, Remembers
  <2>4. log # <<>> => rec.lastLoggedMs = log[Len(log)].ms BY DEF RInv, Remembers
  <2>5. \A i \in (Taken + 1)..n : i = n \/ i \in Open BY <1>5, TypeFacts DEF Open
  <2>6. (\A i \in Open : log # <<>> /\ accepted[i].ms - rec.lastLoggedMs < LogInterval)'
    BY <1>4, <1>6, <1>8, <1>13, <2>3, <2>4, <2>5, HeldSoFar
  <2>7. rec'.nextLogSeq = Len(log') + 1 BY <1>4, <1>8 DEF RInv, Remembers
  <2>8. Taken' # Len(accepted') BY <1>6, <1>13, TypeFacts
  <2>9. log' # <<>> => rec'.lastLoggedMs = log'[Len(log')].ms BY <1>4, <1>8, <2>4
  <2>10. QED BY <1>6, <1>8, <2>1, <2>2, <2>6, <2>7, <2>8, <2>9 DEF Remembers
<1>16. Closed'
  <2>1. rec.active /\ ~finished BY DEF Accepts, RInv, Closed
  <2>2. QED BY <1>1, <1>4, <1>8, <2>1 DEF RInv, Closed
<1>17. QED BY <1>9, <1>11, <1>12, <1>14, <1>15, <1>16 DEF RInv

(* select() returns a sample as the next record. *)
LEMMA SelectedIsSound ==
    ASSUME RInv, NEW s \in Sample, SelectStep(s), Accepts(rec, s), ~Held(rec, s)
    PROVE  RInv'
<1> PICK e : e = Consume(rec, s) OBVIOUS
<1>0. PICK r : r = Emitted(e, s, FALSE) OBVIOUS
<1>1. /\ Selected(rec, s) = <<r>> /\ accepted' = Append(accepted, s)
      /\ rec' = AfterEmit(e, s) /\ finished' = finished
  BY <1>0, Zenon DEF SelectStep, Selected, Select
<1>2. log' = log \o <<r>> /\ mark' = mark \o [i \in 1..Len(<<r>>) |-> Len(accepted')]
  BY <1>1 DEF SelectStep, Returned
<1>3. PICK n \in Nat : n = Len(accepted) + 1 BY TypeFacts
<1>4. /\ Grows /\ n = Len(accepted') /\ accepted'[n] = s /\ accepted' # <<>> /\ Taken < n
      /\ rec.intervalFault \cup s.fault = UNION {Fault(i)' : i \in (Taken + 1)..n}
      /\ rec.gapPending \/ IsGap(rec, s) <=> \E i \in (Taken + 1)..n : Hole(i)'
  BY <1>1, <1>3, NotedAll
<1>5. /\ e \in Selector /\ e.acq = s /\ e.active = rec.active
      /\ e.lastLoggedMs = rec.lastLoggedMs /\ e.nextLogSeq = rec.nextLogSeq
      /\ e.intervalFault = rec.intervalFault \cup s.fault
      /\ e.gapPending <=> rec.gapPending \/ IsGap(rec, s)
  BY TypeFacts, ConsumeIs
<1>6. /\ r \in Record /\ r.logSeq = rec.nextLogSeq /\ r.acqSeq = s.seq /\ r.ms = s.ms
      /\ r.fault = s.fault /\ r.intervalFault = e.intervalFault
      /\ r.gap = e.gapPending /\ ~r.terminal
      /\ rec' \in Selector /\ rec'.acq = s /\ rec'.active = rec.active /\ rec'.latest = NoSample
      /\ rec'.nextLogSeq = rec.nextLogSeq + 1 /\ rec'.lastLoggedMs = s.ms
      /\ rec'.intervalFault = {} /\ ~rec'.gapPending
  <2> PICK d : d = rec' OBVIOUS
  <2>0. PICK b \in BOOLEAN : b = FALSE BY Zenon
  <2>1. d = AfterEmit(e, s) /\ r = Emitted(e, s, b) BY <1>0, <1>1, <2>0, Zenon
  <2>2. /\ r \in Record /\ r.logSeq = e.nextLogSeq /\ r.acqSeq = s.seq /\ r.ms = s.ms
        /\ r.fault = s.fault /\ r.intervalFault = e.intervalFault
        /\ r.gap = e.gapPending /\ (r.terminal => b)
        /\ d \in Selector /\ d.acq = e.acq /\ d.active = e.active /\ d.latest = NoSample
        /\ d.nextLogSeq = e.nextLogSeq + 1 /\ d.lastLoggedMs = s.ms
        /\ d.intervalFault = {} /\ ~d.gapPending
    <3>1. e \in Selector BY <1>5
    <3>2. QED BY <2>1, <3>1, EmitIs
  <2>3. ~r.terminal BY <2>0, <2>2, Zenon
  <2>4. QED BY <1>5, <2>2, <2>3
<1>7. log' = Append(log, r) /\ mark' = Append(mark, n)
  <2>1. mark' = mark \o <<n>> BY <1>2, <1>4, MarksReturned
  <2>2. mark' = Append(mark, n) BY <2>1, TypeFacts, AppendIs
  <2>3. log' = Append(log, r)
    <3>1. r \in Record /\ log \in Seq(Record) BY <1>6, TypeFacts
    <3>2. log \o <<r>> = Append(log, r) BY <3>1, AppendIs
    <3>3. QED BY <1>2, <3>2
  <2>4. QED BY <2>2, <2>3
<1>8. /\ rec.nextLogSeq = Len(log) + 1
      /\ log # <<>> => rec.lastLoggedMs = log[Len(log)].ms
  BY DEF RInv, Remembers
<1>9. log # <<>> /\ ~r.terminal => r.ms - log[Len(log)].ms >= LogInterval
  <2>1. Len(log) \in Nat BY TypeFacts
  <2>2. log # <<>> => Len(log) \in 1..Len(log) BY TypeFacts
  <2>3. log # <<>> => rec.nextLogSeq > 1 BY <1>8, <2>1, <2>2
  <2>4. s.ms \in Nat /\ rec.lastLoggedMs \in Nat /\ LogInterval \in Nat
    BY TypeFacts, RecorderAssumption DEF Sample, Selector
  <2>5. log # <<>> => s.ms - rec.lastLoggedMs >= LogInterval BY <2>3, <2>4 DEF Held
  <2>6. QED BY <1>6, <1>8, <2>5
<1>10. \A i \in (Taken + 1)..(n - 1) :
          log # <<>> /\ accepted'[i].ms - log[Len(log)].ms < LogInterval
  <2>1. n - 1 = Len(accepted) BY <1>3, TypeFacts
  <2>2. QED BY <1>4, <2>1, HeldSoFar DEF Open
<1>11. r.intervalFault = UNION {Fault(i)' : i \in (Taken + 1)..n} BY <1>4, <1>5, <1>6
<1>12. r.gap <=> \E i \in (Taken + 1)..n : Hole(i)' BY <1>4, <1>5, <1>6, Zenon
<1>13. /\ r.logSeq = Len(log) + 1 /\ r.acqSeq = accepted'[n].seq
       /\ r.ms = accepted'[n].ms /\ r.fault = accepted'[n].fault
  BY <1>4, <1>6, <1>8
<1>14. /\ log' \in Seq(Record) /\ mark' \in Seq(Nat)
       /\ Marks' /\ (\A k \in 1..Len(log) : Tells(k))'
       /\ Taken' = n /\ Len(log') = Len(log) + 1 /\ log' # <<>> /\ log'[Len(log) + 1] = r
       /\ \A j \in 1..Len(log) : log'[j] = log[j] /\ mark'[j] = mark[j]
  BY <1>4, <1>6, <1>7, <1>9, <1>10, <1>11, <1>12, <1>13, Emission
<1>15. TypeOK' BY <1>1, <1>4, <1>6, <1>14 DEF RInv, TypeOK, Grows
<1>16. InWindow' BY <1>1, WindowKept DEF Accepts
<1>17. Remembers'
  <2>1. n \in Nat \ {0} /\ Len(log) \in Nat BY <1>3, TypeFacts
  <2>2. Len(log') \in Nat /\ rec'.nextLogSeq = Len(log') + 1 BY <1>6, <1>8, <1>14, <2>1
  <2>3. rec'.lastLoggedMs = log'[Len(log')].ms BY <1>6, <1>14
  <2>4. rec'.acq = accepted'[n] BY <1>4, <1>6
  <2>5. QED BY <1>4, <1>6, <1>14, <2>1, <2>2, <2>3, <2>4, EmissionRemembers
<1>18. Closed'
  <2>1. rec.active /\ ~finished BY DEF Accepts, RInv, Closed
  <2>2. \A k \in 1..Len(log') : log'[k].terminal => finished' /\ k = Len(log')
    BY <1>6, <1>14, <2>1, TerminalKept
  <2>3. QED BY <1>1, <1>6, <2>1, <2>2 DEF Closed
<1>19. QED BY <1>14, <1>15, <1>16, <1>17, <1>18 DEF RInv

(* finish() has nothing to return: it closes the selector. *)
LEMMA ClosedIsSound ==
    ASSUME RInv, FinishStep, ~MustFinish(rec)
    PROVE  RInv'
<1>1. /\ Finished(rec) = <<>> /\ accepted' = accepted
      /\ rec' = [rec EXCEPT !.active = FALSE] /\ finished' = TRUE
  BY DEF FinishStep, Finished, Finish
<1>2. log' = log \o <<>> /\ mark' = mark \o [i \in 1..Len(<<>>) |-> Len(accepted')]
  BY <1>1 DEF FinishStep, Returned
<1>3. mark' = mark \o <<>> BY <1>2, MarksReturned
<1>4. log' = log /\ mark' = mark BY <1>2, <1>3, TypeFacts, AppendIs
<1>5. /\ rec' \in Selector /\ rec'.acq = rec.acq /\ ~rec'.active /\ rec'.latest = rec.latest
      /\ rec'.lastLoggedMs = rec.lastLoggedMs /\ rec'.nextLogSeq = rec.nextLogSeq
      /\ rec'.intervalFault = rec.intervalFault /\ rec'.gapPending = rec.gapPending
  <2>1. FALSE \in BOOLEAN BY Zenon
  <2>2. QED BY <1>1, <2>1, TypeFacts DEF Selector
<1>6. Grows BY <1>1, TypeFacts DEF Grows
<1>7. TypeOK'
  <2>1. finished' \in BOOLEAN BY <1>1, Zenon
  <2>2. QED BY <1>1, <1>4, <1>5, <2>1 DEF RInv, TypeOK
<1>8. Marks' /\ (\A k \in 1..Len(log) : Tells(k))'
  <2>1. \A k \in 1..Len(log) : Tells(k)' /\ Start(k)' = Start(k) BY <1>4, <1>6, OldRecordsTell
  <2>2. QED BY <1>1, <1>4, <2>1 DEF RInv, Marks
<1>9. Taken' = Taken /\ Open' = Open BY <1>1, <1>4 DEF Taken, Open
<1>10. \A i \in Open : i \in 1..Len(accepted) BY TypeFacts DEF Open
<1>11. Remembers'
  <2>1. \A i \in Open : Fault(i)' = Fault(i) /\ (Hole(i)' <=> Hole(i)) BY <1>6, <1>10, GrowsKeeps
  <2>2. (rec.intervalFault = UNION {Fault(i) : i \in Open})'
    BY <1>5, <1>9, <2>1 DEF RInv, Remembers
  <2>3. (rec.gapPending <=> \E i \in Open : Hole(i))'
    BY <1>5, <1>9, <2>1, Zenon DEF RInv, Remembers
  <2>4. QED BY <1>1, <1>4, <1>5, <1>9, <2>2, <2>3 DEF RInv, Remembers
<1>12. Closed'
  <2>1. Taken = Len(accepted)
    <3>1. CASE ~rec.active BY <3>1 DEF RInv, Closed
    <3>2. CASE rec.active
      <4>1. rec.latest.seq = 0 BY <3>2 DEF MustFinish
      <4>2. SUFFICES ASSUME Taken # Len(accepted) PROVE FALSE OBVIOUS
      <4>3. rec.latest = accepted[Len(accepted)] BY <4>2 DEF RInv, Remembers
      <4>4. Len(accepted) \in 1..Len(accepted) BY <4>2, TypeFacts
      <4>5. QED BY <4>1, <4>3, <4>4 DEF RInv, InWindow
    <3>3. QED BY <3>1, <3>2
  <2>2. QED BY <1>1, <1>4, <1>5, <1>9, <2>1 DEF RInv, Closed
<1>13. InWindow' BY <1>1 DEF RInv, InWindow
<1>14. QED BY <1>7, <1>8, <1>11, <1>12, <1>13 DEF RInv

(* finish() returns the acquisition it held as the last record. *)
LEMMA FinishedIsSound ==
    ASSUME RInv, FinishStep, MustFinish(rec)
    PROVE  RInv'
<1>e. PICK e : e = [rec EXCEPT !.active = FALSE] OBVIOUS
<1> PICK s : s = rec.latest OBVIOUS
<1>0. PICK r : r = Emitted(rec, s, TRUE) OBVIOUS
<1>1. accepted' = accepted /\ rec' = AfterEmit(e, s) /\ finished'
  BY <1>e DEF FinishStep, Finish
<1>2. log' = log \o <<r>> /\ mark' = mark \o [i \in 1..Len(<<r>>) |-> Len(accepted')]
  BY <1>0, Zenon DEF FinishStep, Returned, Finished
<1>3. PICK n \in Nat : n = Len(accepted) BY TypeFacts
<1>4. Taken # Len(accepted) /\ rec.active /\ s.seq # 0 BY DEF MustFinish, RInv, Remembers, NoSample
<1>5. /\ s = accepted[n] /\ n \in Nat \ {0} /\ Taken < n /\ accepted # <<>> /\ s \in Sample
      /\ rec.acq = accepted[n]
  <2>1. n \in Nat \ {0} /\ Taken < n BY <1>3, <1>4, TypeFacts
  <2>2. accepted # <<>> BY <1>3, <2>1
  <2>3. s = accepted[n] /\ rec.acq = accepted[n] BY <1>3, <1>4, <2>2 DEF RInv, Remembers
  <2>4. accepted[n] \in Sample BY <1>3, <2>1, TypeFacts
  <2>5. QED BY <2>1, <2>2, <2>3, <2>4
<1>6. /\ e \in Selector /\ ~e.active /\ e.acq = rec.acq /\ e.nextLogSeq = rec.nextLogSeq
      /\ e.intervalFault = rec.intervalFault /\ e.gapPending = rec.gapPending
  <2>1. FALSE \in BOOLEAN BY Zenon
  <2>2. QED BY <1>e, <2>1, TypeFacts DEF Selector
<1>7. /\ r \in Record /\ r.logSeq = rec.nextLogSeq /\ r.acqSeq = s.seq /\ r.ms = s.ms
      /\ r.fault = s.fault /\ r.intervalFault = rec.intervalFault /\ r.gap = rec.gapPending
      /\ r.terminal
  <2>0. PICK b \in BOOLEAN : b = TRUE BY Zenon
  <2> PICK d : d = AfterEmit(rec, s) OBVIOUS
  <2>1. r = Emitted(rec, s, b) BY <1>0, <2>0, Zenon
  <2>2. /\ r \in Record /\ r.logSeq = rec.nextLogSeq /\ r.acqSeq = s.seq /\ r.ms = s.ms
        /\ r.fault = s.fault /\ r.intervalFault = rec.intervalFault /\ r.gap = rec.gapPending
    BY <1>5, <2>1, TypeFacts, EmitIs, SMTT(60)
  <2>3. r.terminal BY <1>0, Zenon DEF Emitted
  <2>4. QED BY <2>2, <2>3
<1>8. /\ rec' \in Selector /\ rec'.acq = rec.acq /\ ~rec'.active /\ rec'.latest = NoSample
      /\ rec'.nextLogSeq = rec.nextLogSeq + 1 /\ rec'.lastLoggedMs = s.ms
      /\ rec'.intervalFault = {} /\ ~rec'.gapPending
  <2>0. PICK b \in BOOLEAN : b = TRUE BY Zenon
  <2>1. PICK q : q = Emitted(e, s, b) OBVIOUS
  <2>2. PICK d : d = rec' OBVIOUS
  <2>3. d = AfterEmit(e, s) BY <1>1, <2>2
  <2>4. /\ d \in Selector /\ d.acq = e.acq /\ d.active = e.active /\ d.latest = NoSample
        /\ d.nextLogSeq = e.nextLogSeq + 1 /\ d.lastLoggedMs = s.ms
        /\ d.intervalFault = {} /\ ~d.gapPending
    <3>1. e \in Selector /\ s \in Sample BY <1>5, <1>6
    <3>2. QED BY <2>1, <2>3, <3>1, EmitIs
  <2>5. QED BY <1>6, <2>2, <2>4
<1>9. log' = Append(log, r) /\ mark' = Append(mark, n)
  <2>1. mark' = mark \o <<n>> BY <1>1, <1>2, <1>3, MarksReturned
  <2>2. mark' = Append(mark, n) BY <2>1, TypeFacts, AppendIs
  <2>3. log' = Append(log, r)
    <3>1. r \in Record /\ log \in Seq(Record) BY <1>7, TypeFacts
    <3>2. log \o <<r>> = Append(log, r) BY <3>1, AppendIs
    <3>3. QED BY <1>2, <3>2
  <2>4. QED BY <2>2, <2>3
<1>10. Grows /\ n = Len(accepted') /\ accepted' # <<>> /\ Open = (Taken + 1)..n
  BY <1>1, <1>3, <1>5, TypeFacts DEF Grows, Open
<1>11. \A i \in Open : Fault(i)' = Fault(i) /\ (Hole(i)' <=> Hole(i))
  <2>1. \A i \in Open : i \in 1..Len(accepted) BY TypeFacts DEF Open
  <2>2. QED BY <1>10, <2>1, GrowsKeeps
<1>12. r.intervalFault = UNION {Fault(i)' : i \in (Taken + 1)..n}
  BY <1>7, <1>10, <1>11 DEF RInv, Remembers
<1>13. r.gap <=> \E i \in (Taken + 1)..n : Hole(i)'
  BY <1>7, <1>10, <1>11, Zenon DEF RInv, Remembers
<1>14. /\ rec.nextLogSeq = Len(log) + 1
       /\ log # <<>> => rec.lastLoggedMs = log[Len(log)].ms
  BY DEF RInv, Remembers
<1>15. \A i \in (Taken + 1)..(n - 1) :
          log # <<>> /\ accepted'[i].ms - log[Len(log)].ms < LogInterval
  <2>1. \A i \in (Taken + 1)..(n - 1) : i \in Open BY <1>10, TypeFacts
  <2>2. QED BY <1>10, <2>1, HeldSoFar
<1>16. /\ r.logSeq = Len(log) + 1 /\ r.acqSeq = accepted'[n].seq
       /\ r.ms = accepted'[n].ms /\ r.fault = accepted'[n].fault
  BY <1>1, <1>5, <1>7, <1>14
<1>17. /\ log' \in Seq(Record) /\ mark' \in Seq(Nat)
       /\ Marks' /\ (\A k \in 1..Len(log) : Tells(k))'
       /\ Taken' = n /\ Len(log') = Len(log) + 1 /\ log' # <<>> /\ log'[Len(log) + 1] = r
       /\ \A j \in 1..Len(log) : log'[j] = log[j] /\ mark'[j] = mark[j]
  <2>1. log # <<>> /\ ~r.terminal => r.ms - log[Len(log)].ms >= LogInterval BY <1>7
  <2>2. n \in Nat /\ r \in Record /\ Taken < n BY <1>5, <1>7
  <2>3. QED BY <1>9, <1>10, <1>12, <1>13, <1>15, <1>16, <2>1, <2>2, Emission
<1>18. TypeOK'
  <2>1. finished' \in BOOLEAN
    <3>1. finished' = TRUE BY DEF FinishStep
    <3>2. QED BY <3>1, Zenon
  <2>2. QED BY <1>1, <1>8, <1>17, <2>1 DEF RInv, TypeOK
<1>19. InWindow' BY <1>1 DEF RInv, InWindow
<1>20. Remembers'
  <2>1. Len(log) \in Nat BY TypeFacts
  <2>2. Len(log') \in Nat /\ rec'.nextLogSeq = Len(log') + 1 BY <1>8, <1>14, <1>17, <2>1
  <2>3. rec'.lastLoggedMs = log'[Len(log')].ms BY <1>7, <1>8, <1>17
  <2>4. rec'.acq = accepted'[n] BY <1>1, <1>5, <1>8
  <2>5. QED BY <1>5, <1>8, <1>10, <1>17, <2>2, <2>3, <2>4, EmissionRemembers
<1>21. Closed'
  <2>1. ~finished BY <1>4 DEF RInv, Closed
  <2>2. \A k \in 1..Len(log') : log'[k].terminal => finished' /\ k = Len(log')
    BY <1>1, <1>17, <2>1, TerminalKept
  <2>3. Taken' = Len(accepted') BY <1>10, <1>17
  <2>4. QED BY <1>1, <1>8, <2>2, <2>3 DEF Closed
<1>22. QED BY <1>17, <1>18, <1>19, <1>20, <1>21 DEF RInv

-----------------------------------------------------------------------------
(* RunRecorder: whatever samples are offered, in whatever order, with resets and
   finishes at any time, the selector remembers exactly the acquisitions that no
   record answers for yet, and every record returned tells of its own window. *)
THEOREM RecorderInvariant == Spec => []RInv
<1>1. Init => RInv
  <2>1. 0 \in Runs0 BY DEF Runs0
  <2>2. QED BY <2>1, FreshIsSound DEF Init, Fresh
<1>2. RInv /\ [Next]_vars => RInv'
  <2> SUFFICES ASSUME RInv, [Next]_vars PROVE RInv' OBVIOUS
  <2>1. CASE UNCHANGED vars
    <3>1. rec' = rec /\ log' = log /\ accepted' = accepted /\ mark' = mark /\ finished' = finished
      BY <2>1 DEF vars
    <3>2. TypeOK' /\ InWindow' BY <3>1 DEF RInv, TypeOK, InWindow
    <3>3. Taken' = Taken /\ Open' = Open BY <3>1 DEF Taken, Open
    <3>4. Grows BY <3>1, TypeFacts DEF Grows
    <3>5. \A k \in 1..Len(log) : Tells(k)' /\ Start(k)' = Start(k) BY <3>1, <3>4, OldRecordsTell
    <3>6. Marks' /\ (\A k \in 1..Len(log) : Tells(k))' /\ Closed'
      BY <3>1, <3>3, <3>5 DEF RInv, Marks, Closed
    <3>7. \A i \in Open : i \in 1..Len(accepted) BY TypeFacts DEF Open
    <3>8. \A i \in Open : Fault(i)' = Fault(i) /\ (Hole(i)' <=> Hole(i))
      BY <3>4, <3>7, GrowsKeeps
    <3>9. (rec.intervalFault = UNION {Fault(i) : i \in Open})'
      BY <3>1, <3>3, <3>8 DEF RInv, Remembers
    <3>10. (rec.gapPending <=> \E i \in Open : Hole(i))'
      BY <3>1, <3>3, <3>8, Zenon DEF RInv, Remembers
    <3>11. Remembers' BY <3>1, <3>3, <3>9, <3>10 DEF RInv, Remembers
    <3>12. QED BY <3>2, <3>6, <3>11 DEF RInv
  <2>2. ASSUME NEW r \in RunId \cup {0}, Restart(r) PROVE RInv'
    <3>1. Fresh'
      <4>1. /\ log' = <<>> /\ accepted' = <<>> /\ mark' = <<>> /\ finished' = FALSE
            /\ rec' = Reset(r)
        BY <2>2 DEF Restart
      <4>2. r \in Runs0 BY DEF Runs0
      <4>3. QED BY <4>1, <4>2 DEF Fresh
    <3>2. Fresh' => RInv' BY FreshIsSound, PTL
    <3>3. QED BY <3>1, <3>2
  <2>3. ASSUME NEW s \in Sample, SelectStep(s) PROVE RInv'
    <3>1. CASE ~Accepts(rec, s)
      <4>1. UNCHANGED vars BY <2>3, <3>1, RejectedIsSound
      <4>2. QED BY <2>1, <4>1
    <3>2. CASE Accepts(rec, s) /\ Held(rec, s) BY <2>3, <3>2, HeldIsSound
    <3>3. CASE Accepts(rec, s) /\ ~Held(rec, s) BY <2>3, <3>3, SelectedIsSound
    <3>4. QED BY <3>1, <3>2, <3>3
  <2>4. CASE FinishStep BY <2>4, ClosedIsSound, FinishedIsSound
  <2>5. ASSUME NEW r \in RunId \cup {0}, NEW n \in 0..MaxSeq, NEW t \in 0..MaxMs,
               NEW f \in SUBSET FaultBit
        PROVE  [runId |-> r, seq |-> n, ms |-> t, fault |-> f] \in Sample
    BY BoundAssumption DEF Sample
  <2>6. QED BY <2>1, <2>2, <2>3, <2>4, <2>5 DEF Next
<1>3. QED BY <1>1, <1>2, PTL DEF Spec

(* The promise of the logged stream, for every stream of samples: each record is
   the last acquisition of its window, carries every fault bit and every hole of
   that window and of no other, and lies in the run's duration. *)
THEOREM RecordsTellTheirWindow == Spec => []RecordsTellAll
<1>1. RInv => RecordsTellAll
  <2> SUFFICES ASSUME RInv PROVE RecordsTellAll OBVIOUS
  <2>1. Len(mark) = Len(log) /\ Len(accepted) \in Nat BY TypeFacts
  <2>2. ASSUME NEW k \in 1..Len(log)
        PROVE  /\ Window(k) # {} /\ mark[k] <= Len(accepted)
               /\ log[k].logSeq = k
               /\ log[k].acqSeq = accepted[mark[k]].seq
               /\ log[k].ms = accepted[mark[k]].ms /\ log[k].ms <= MaxDuration
               /\ log[k].fault = accepted[mark[k]].fault
               /\ log[k].intervalFault = UNION {accepted[i].fault : i \in Window(k)}
               /\ log[k].gap <=> \E i \in Window(k) \ {1} :
                                    accepted[i].ms - accepted[i - 1].ms > GapThreshold
    <3>1. Tells(k) /\ mark[k] \in 1..Len(accepted) /\ Start(k) < mark[k] BY DEF RInv, Marks
    <3>2. Start(k) \in Nat
      <4>1. CASE k = 1 BY <4>1 DEF Start
      <4>2. CASE k # 1
        <5>1. k - 1 \in 1..Len(log) BY <4>2, TypeFacts
        <5>2. QED BY <4>2, <5>1, TypeFacts DEF Start
      <4>3. QED BY <4>1, <4>2
    <3>3. Window(k) = (Start(k) + 1)..mark[k] BY DEF Window, Start
    <3>4. mark[k] \in Window(k) /\ mark[k] <= Len(accepted) BY <2>1, <3>1, <3>2, <3>3
    <3>5. log[k].ms <= MaxDuration BY <3>1 DEF RInv, InWindow, Tells
    <3>6. log[k].intervalFault = UNION {accepted[i].fault : i \in Window(k)}
      BY <3>1, <3>3 DEF Tells, Fault
    <3>7. log[k].gap <=> \E i \in Window(k) : Hole(i) BY <3>1, <3>3, Zenon DEF Tells
    <3>8. (\E i \in Window(k) : Hole(i)) <=>
          \E i \in Window(k) \ {1} : accepted[i].ms - accepted[i - 1].ms > GapThreshold
      BY DEF Hole
    <3>9. log[k].gap <=> \E i \in Window(k) \ {1} :
                            accepted[i].ms - accepted[i - 1].ms > GapThreshold
      BY <3>7, <3>8, Zenon
    <3>10. /\ log[k].logSeq = k /\ log[k].acqSeq = accepted[mark[k]].seq
           /\ log[k].ms = accepted[mark[k]].ms /\ log[k].fault = accepted[mark[k]].fault
      BY <3>1 DEF Tells
    <3>11. QED BY <3>4, <3>5, <3>6, <3>9, <3>10
  <2>3. QED BY <2>1, <2>2 DEF RecordsTellAll
<1>2. QED BY <1>1, RecorderInvariant, PTL

(* The cadence of the logged stream: records keep a log interval apart, the last
   one excepted, and nothing passed over is a log interval away from the record
   before it. *)
THEOREM CadenceIsKept == Spec => []Cadence
<1>1. RInv => Cadence
  <2> SUFFICES ASSUME RInv, NEW k \in 1..Len(log)
      PROVE  /\ k > 1 /\ ~log[k].terminal => log[k].ms - log[k - 1].ms >= LogInterval
             /\ \A i \in (mark[k] + 1)..(IF k < Len(log) THEN mark[k + 1] - 1
                                                        ELSE Len(accepted)) :
                    accepted[i].ms - log[k].ms < LogInterval
    BY Zenon DEF Cadence
  <2>1. k > 1 /\ ~log[k].terminal => log[k].ms - log[k - 1].ms >= LogInterval
    BY DEF RInv, Tells
  <2>2. CASE k < Len(log)
    <3>1. k + 1 \in 1..Len(log) /\ k + 1 # 1 /\ (k + 1) - 1 = k BY <2>2, TypeFacts
    <3>2. Tells(k + 1) /\ Start(k + 1) = mark[k] BY <3>1 DEF RInv, Start
    <3>3. \A i \in (mark[k] + 1)..(mark[k + 1] - 1) : accepted[i].ms - log[k].ms < LogInterval
      BY <3>1, <3>2 DEF Tells
    <3>4. QED BY <2>1, <2>2, <3>3
  <2>3. CASE ~(k < Len(log))
    <3>1. k = Len(log) /\ log # <<>> BY <2>3, TypeFacts
    <3>2. Open = (mark[k] + 1)..Len(accepted) BY <3>1, TypeFacts DEF Open
    <3>3. rec.lastLoggedMs = log[k].ms BY <3>1 DEF RInv, Remembers
    <3>4. \A i \in Open : accepted[i].ms - rec.lastLoggedMs < LogInterval BY DEF RInv, Remembers
    <3>5. QED BY <2>1, <2>3, <3>2, <3>3, <3>4
  <2>4. QED BY <2>2, <2>3
<1>2. QED BY <1>1, RecorderInvariant, PTL

(* finish() leaves nothing out: after it the last record is the last acquisition,
   and only that record can be terminal. *)
THEOREM TailIsComplete == Spec => []NothingHeldBack
<1>1. RInv => NothingHeldBack
  <2> SUFFICES ASSUME RInv PROVE NothingHeldBack OBVIOUS
  <2>1. ASSUME finished, accepted # <<>>
        PROVE  log # <<>> /\ log[Len(log)].acqSeq = accepted[Len(accepted)].seq
    <3>1. Taken = Len(accepted) BY <2>1 DEF RInv, Closed
    <3>2. Taken # 0 BY <2>1, <3>1, TypeFacts
    <3>3. log # <<>> /\ mark[Len(log)] = Len(accepted) /\ Len(log) \in 1..Len(log)
      BY <3>1, <3>2, TypeFacts
    <3>4. log[Len(log)].acqSeq = accepted[mark[Len(log)]].seq BY <3>3 DEF RInv, Tells
    <3>5. QED BY <3>3, <3>4
  <2>2. \A k \in 1..Len(log) : log[k].terminal => finished /\ k = Len(log) BY DEF RInv, Closed
  <2>3. QED BY <2>1, <2>2, Zenon DEF NothingHeldBack
<1>2. QED BY <1>1, RecorderInvariant, PTL
=============================================================================
