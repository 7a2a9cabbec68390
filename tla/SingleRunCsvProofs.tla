------------------------- MODULE SingleRunCsvProofs ------------------------
(***************************************************************************)
(* Proofs about SingleRunCsv: whatever is called, whatever the storage     *)
(* refuses and whenever the supply fails, the boot scan recovers every     *)
(* complete line and the rows account for every acquisition, for runs of   *)
(* any length at any cadence.                                              *)
(***************************************************************************)
EXTENDS SingleRunCsv, TLAPS

Sampled == [runId : Nat, seq : Nat, ms : Nat, fault : BOOLEAN]
Acquired == {s \in Sampled : s.seq # 0 /\ s.ms <= MaxDuration}
Recorder ==
    [mounted : BOOLEAN, hasRun : BOOLEAN, recording : BOOLEAN, reader : BOOLEAN,
     sent : Nat, runId : Nat, count : Nat, valid : Nat, lastAcq : Nat, lastMs : Nat,
     latest : Sampled, fault : BOOLEAN, gap : BOOLEAN, error : BOOLEAN,
     state : {"idle", "recording", "interrupted", "complete", "duration_limit", "error"}]

-----------------------------------------------------------------------------
(* What the file says of itself: every line counts, but for the footer a run may
   have ended with. *)
Opening(f) == \A k \in 1..Len(f.lines) : ValidLine(f, k)
Ended(f) ==
    /\ Len(f.lines) >= 2 /\ ~f.torn /\ ValidFooter(f, Len(f.lines))
    /\ \A k \in 1..(Len(f.lines) - 1) : ValidLine(f, k)
Counts(f) == Opening(f) \/ Ended(f)

(* What the file says of the way its run ended, and of the acquisitions a. *)
HoldsEnd(f, a) ==
    LET n == Len(f.lines)
        footer == f.lines[n]
    IN  /\ a # <<>> => /\ f.lines[n - 1].kind = "row"
                       /\ f.lines[n - 1].acqSeq = a[Len(a)].seq
                       /\ footer.elapsed >= a[Len(a)].ms
        /\ (footer.reason = "duration_limit") <=> (footer.elapsed = MaxDuration)
Saved(f, a) == Counts(f) /\ Accounts(f, a) /\ (Ended(f) => HoldsEnd(f, a))

(* Status reports the validated prefix. *)
RowsIn(f) == IF Ended(f) THEN Len(f.lines) - 2 ELSE Len(f.lines) - 1
Reports(c, f) ==
    /\ f # NoFile /\ c.valid = Len(f.lines)
    /\ Len(f.lines) > 0 => c.count = RowsIn(f)
    /\ Len(f.lines) = 0 => c.count = 0

-----------------------------------------------------------------------------
(* A recorder that records: the file stands where the recorder believes it does. *)
Stands(c, f) ==
    /\ c.hasRun /\ c.runId # 0 /\ f # NoFile /\ ~f.torn
    /\ Len(f.lines) >= 1 /\ Opening(f) /\ f.lines[1].runId = c.runId
    /\ c.valid = Len(f.lines) /\ c.count + 1 = Len(f.lines)
    /\ IF c.count = 0 THEN c.lastAcq = 0
       ELSE f.lines[Len(f.lines)].acqSeq = c.lastAcq /\ f.lines[Len(f.lines)].ms = c.lastMs

(* Rows so far keep the cadence, so that there is always room for the next one. *)
Paced(c, f) ==
    /\ c.count > 0 => c.lastMs >= (c.count - 1) * LogInterval /\ c.lastMs <= MaxDuration
    /\ c.count > 0 => ~f.lines[Len(f.lines)].terminal
    /\ \A k \in 2..Len(f.lines) : f.lines[k].acqSeq <= c.lastAcq

(* Acquisitions so far are in order, the latest the last of them. *)
Ordered(c, a) ==
    /\ \A i, j \in 1..Len(a) : i < j => a[i].seq < a[j].seq /\ a[i].ms < a[j].ms
    /\ c.latest.seq = 0 <=> a = <<>>
    /\ a # <<>> => c.latest = a[Len(a)]
    /\ c.lastAcq <= c.latest.seq
    /\ c.count > 0 => a # <<>> /\ c.lastMs <= c.latest.ms
    /\ c.count > 0 /\ c.lastAcq # c.latest.seq => c.lastMs < c.latest.ms

(* Since the last row: the flags are those of the acquisitions passed over, and
   none of them but maybe the latest was due. *)
Pending(a, c) == {i \in 1..Len(a) : a[i].seq > c.lastAcq}
Flagged(c, a) ==
    /\ c.fault <=> \E i \in Pending(a, c) : a[i].fault
    /\ c.gap <=> \E i \in Pending(a, c) \ {1} : HoleIn(a, i)
Passed(c, a, i) == c.count > 0 /\ a[i].ms - c.lastMs < LogInterval
Nearly(c, f, a) ==
    /\ Stands(c, f) /\ Paced(c, f) /\ Ordered(c, a) /\ Flagged(c, a)
    /\ \A i \in Pending(a, c) : i # Len(a) => Passed(c, a, i)
Live(c, f, a) == Nearly(c, f, a) /\ \A i \in Pending(a, c) : Passed(c, a, i)

Shaped(c, f, a) == c \in Recorder /\ f \in CsvFile \cup {NoFile} /\ a \in Seq(Acquired)
Sound(c, f, a) ==
    /\ Shaped(c, f, a)
    /\ f # NoFile => Saved(f, a)
    /\ c.hasRun /\ c.runId # 0 => Reports(c, f)
    /\ c.recording => Live(c, f, a)

Inv == Sound(rec, file, accepted)

-----------------------------------------------------------------------------
(* The fields of a line are those of its kind. *)
LEMMA LineFields ==
    ASSUME NEW l \in Line
    PROVE  /\ l.kind = "head" => l.runId \in Nat
           /\ l.kind = "row" => /\ l.runId \in Nat /\ l.logSeq \in Nat
                                /\ l.acqSeq \in Nat /\ l.ms \in Nat
           /\ l.kind = "row" => /\ l.intervalFault \in BOOLEAN /\ l.terminal \in BOOLEAN
                                /\ l.gap \in BOOLEAN
           /\ l.kind = "end" => /\ l.rows \in Nat /\ l.elapsed \in Nat
                                /\ l.reason \in {"complete", "duration_limit"}
           /\ l.kind \in {"head", "row", "end"}
BY DEF Line

LEMMA FileFields ==
    ASSUME NEW f \in CsvFile
    PROVE  /\ f.lines \in Seq(Line) /\ Len(f.lines) \in Nat
           /\ f.torn \in BOOLEAN /\ f.synced \in Nat
           /\ \A k \in 1..Len(f.lines) : f.lines[k] \in Line
BY DEF CsvFile

(* A footer is not a line of the content. *)
LEMMA FooterIsNoContent ==
    ASSUME NEW f, NEW k \in Nat, ValidFooter(f, k)
    PROVE  ~ValidLine(f, k)
BY DEF ValidFooter, ValidLine, ValidRow, IsHead

LEMMA ContentEndIs ==
    ASSUME NEW f \in CsvFile, NEW n \in 0..Len(f.lines),
           \A k \in 1..n : ValidLine(f, k),
           n < Len(f.lines) => ~ValidLine(f, n + 1)
    PROVE  ContentEnd(f) = n
<1> DEFINE P(m) == /\ \A k \in 1..m : ValidLine(f, k)
                   /\ m < Len(f.lines) => ~ValidLine(f, m + 1)
<1>0. Len(f.lines) \in Nat
  BY FileFields
<1>1. P(n)
  OBVIOUS
<1>2. ASSUME NEW m \in 0..Len(f.lines), P(m)
      PROVE  m = n
  <2>1. ~(m < n)
    BY <1>0, <1>2
  <2>2. ~(n < m)
    BY <1>0, <1>2
  <2> QED
    BY <1>0, <2>1, <2>2
<1>3. ContentEnd(f) = CHOOSE m \in 0..Len(f.lines) : P(m)
  BY DEF ContentEnd
<1> HIDE DEF P
<1>4. (CHOOSE m \in 0..Len(f.lines) : P(m)) \in 0..Len(f.lines) /\ P(CHOOSE m \in 0..Len(f.lines) : P(m))
  BY <1>1
<1> QED
  BY <1>2, <1>3, <1>4

(* The boot scan of a file whose lines all count. *)
LEMMA ScanOfOpening ==
    ASSUME NEW f \in CsvFile, Opening(f)
    PROVE  /\ Scan(f).valid = Len(f.lines)
           /\ Len(f.lines) = 0 => Scan(f).rows = 0 /\ Scan(f).runId = 0
           /\ Len(f.lines) > 0 => Scan(f).rows = Len(f.lines) - 1
           /\ Len(f.lines) > 0 => Scan(f).runId = f.lines[1].runId
           /\ Scan(f).state \in {"error", "interrupted"}
<1>1. Len(f.lines) \in Nat
  BY FileFields
<1>2. ContentEnd(f) = Len(f.lines)
  BY <1>1, ContentEndIs DEF Opening
<1>3. ~(ContentEnd(f) + 1 = Len(f.lines))
  BY <1>1, <1>2
<1> QED
  BY <1>1, <1>2, <1>3 DEF Scan

LEMMA ScanOfEnded ==
    ASSUME NEW f \in CsvFile, Ended(f)
    PROVE  /\ Scan(f).valid = Len(f.lines)
           /\ Scan(f).rows = Len(f.lines) - 2
           /\ Scan(f).runId = f.lines[1].runId
           /\ Scan(f).state = f.lines[Len(f.lines)].reason
<1>1. Len(f.lines) \in Nat /\ Len(f.lines) >= 2
  BY FileFields DEF Ended
<1>2. PICK n \in Nat : n + 1 = Len(f.lines)
  <2>1. \A m \in Nat : m >= 2 => \E n \in Nat : n + 1 = m
    BY SMT
  <2> QED
    BY <1>1, <2>1
<1>3. n > 0 /\ n \in 0..Len(f.lines) /\ n < Len(f.lines)
  BY <1>1, <1>2
<1>4. ~f.torn /\ ValidFooter(f, n + 1) /\ \A k \in 1..n : ValidLine(f, k)
  BY <1>1, <1>2 DEF Ended
<1>5. ~ValidLine(f, n + 1)
  BY <1>2, <1>4, FooterIsNoContent
<1>6. ContentEnd(f) = n
  BY <1>3, <1>4, <1>5, ContentEndIs
<1> HIDE DEF ValidFooter
<1>7. Scan(f) = [runId |-> f.lines[1].runId, rows |-> n - 1, valid |-> n + 1,
                 state |-> f.lines[n + 1].reason]
  BY <1>2, <1>3, <1>4, <1>6 DEF Scan
<1> QED
  BY <1>1, <1>2, <1>7

(* An opening is not ended. *)
LEMMA OpeningOrEnded ==
    ASSUME NEW f \in CsvFile, Opening(f)
    PROVE  ~Ended(f)
<1> SUFFICES ASSUME Ended(f) PROVE FALSE
  OBVIOUS
<1>1. Len(f.lines) \in Nat /\ Len(f.lines) >= 2
  BY FileFields DEF Ended
<1> QED
  BY <1>1, FooterIsNoContent DEF Ended, Opening

(* What the invariant says of the three properties. *)
LEMMA InvCounts == Inv => EveryLineCounts
<1> SUFFICES ASSUME Inv PROVE EveryLineCounts
  OBVIOUS
<1>1. file \in CsvFile \cup {NoFile}
  BY DEF Inv, Sound, Shaped
<1>2. ASSUME file # NoFile
      PROVE  /\ Scan(file).valid = Len(file.lines)
             /\ Len(file.lines) > 0 => Scan(file).rows = RowsIn(file)
             /\ Len(file.lines) = 0 => Scan(file).rows = 0
  <2>1. file \in CsvFile /\ Counts(file)
    BY <1>1, <1>2 DEF Inv, Sound, Saved
  <2>2. CASE Opening(file)
    BY <2>1, <2>2, ScanOfOpening, OpeningOrEnded DEF RowsIn
  <2>3. CASE Ended(file)
    <3>1. Len(file.lines) \in Nat /\ Len(file.lines) >= 2
      BY <2>1, <2>3, FileFields DEF Ended
    <3> QED
      BY <2>1, <2>3, <3>1, ScanOfEnded DEF RowsIn
  <2> QED
    BY <2>1, <2>2, <2>3 DEF Counts
<1>3. ASSUME rec.hasRun, rec.runId # 0
      PROVE  rec.valid = Scan(file).valid /\ rec.count = Scan(file).rows
  <2>1. Reports(rec, file)
    BY <1>3 DEF Inv, Sound
  <2>2. file \in CsvFile
    BY <1>1, <2>1 DEF Reports
  <2>3. Len(file.lines) \in Nat
    BY <2>2, FileFields
  <2> QED
    BY <1>2, <2>1, <2>3 DEF Reports
<1> QED
  BY <1>2, <1>3 DEF EveryLineCounts

LEMMA InvWhole == Inv => EndedMeansWhole
<1> SUFFICES ASSUME Inv, file # NoFile, Scan(file).state \in {"complete", "duration_limit"}
             PROVE  LET footer == Last(file.lines)
                        before == file.lines[Len(file.lines) - 1]
                    IN  /\ accepted # <<>> => /\ before.kind = "row"
                                             /\ before.acqSeq = Last(accepted).seq
                                             /\ footer.elapsed >= Last(accepted).ms
                        /\ (footer.reason = "duration_limit") <=> (footer.elapsed = MaxDuration)
  BY DEF EndedMeansWhole
<1>1. file \in CsvFile /\ Saved(file, accepted)
  BY DEF Inv, Sound, Shaped
<1>2. ~Opening(file)
  BY <1>1, ScanOfOpening
<1>3. HoldsEnd(file, accepted)
  BY <1>1, <1>2 DEF Saved, Counts
<1> QED
  BY <1>3 DEF HoldsEnd, Last

LEMMA InvTells == Inv => RowsTellAll
BY DEF Inv, Sound, Saved, RowsTellAll

-----------------------------------------------------------------------------
(* Files that agree up to line k agree on what line k is worth. *)
Agree(f, g, k) ==
    /\ f \in CsvFile /\ g \in CsvFile /\ k \in 1..Len(f.lines) /\ k \in 1..Len(g.lines)
    /\ \A j \in 1..k : g.lines[j] = f.lines[j]

LEMMA SameWorth ==
    ASSUME NEW f, NEW g, NEW k, Agree(f, g, k)
    PROVE  /\ ValidLine(f, k) => ValidLine(g, k)
           /\ ValidFooter(f, k) => ValidFooter(g, k)
           /\ \A a : k > 1 /\ Told(f, k, a) => Told(g, k, a)
<1>1. k \in Nat /\ g.lines[k] = f.lines[k] /\ k \in 1..k
  BY FileFields DEF Agree
<1>2. 1 \in 1..k /\ g.lines[1] = f.lines[1]
  BY <1>1, FileFields DEF Agree
<1>3. ASSUME k > 1 PROVE g.lines[k - 1] = f.lines[k - 1]
  <2>1. k - 1 \in 1..k
    BY <1>1, <1>3
  <2> QED
    BY <2>1 DEF Agree
<1>4. ValidLine(f, k) => ValidLine(g, k)
  BY <1>1, <1>2, <1>3 DEF ValidLine, ValidRow, RowsBefore
<1>5. ValidFooter(f, k) => ValidFooter(g, k)
  BY <1>1, <1>3 DEF ValidFooter, RowsBefore
<1>6. ASSUME NEW a, k > 1, Told(f, k, a) PROVE Told(g, k, a)
  <2>1. From(g, k) = From(f, k)
    BY <1>3, <1>6 DEF From
  <2> QED
    BY <1>1, <1>3, <1>6, <2>1 DEF Told
<1> QED
  BY <1>4, <1>5, <1>6

(* A file and the file with one more line. *)
Grows(f, g, line) ==
    /\ f \in CsvFile /\ g \in CsvFile /\ line \in Line
    /\ g.lines = Append(f.lines, line) /\ g.torn = f.torn

LEMMA WroteGrows ==
    ASSUME NEW f \in CsvFile, NEW line \in Line
    PROVE  Grows(f, Wrote(f, line), line) /\ Grows(f, Synced(Wrote(f, line)), line)
<1>1. f.lines \in Seq(Line) /\ f.torn \in BOOLEAN /\ f.synced \in Nat
  BY FileFields
<1>2. Append(f.lines, line) \in Seq(Line) /\ Len(Append(f.lines, line)) \in Nat
  BY <1>1
<1>3. Wrote(f, line) \in CsvFile
  BY <1>2 DEF Wrote, CsvFile
<1>4. Wrote(f, line).lines = Append(f.lines, line) /\ Wrote(f, line).torn = f.torn
  BY DEF Wrote, CsvFile
<1>5. Synced(Wrote(f, line)) \in CsvFile
  BY <1>2, <1>3, <1>4 DEF Synced, CsvFile
<1>6. /\ Synced(Wrote(f, line)).lines = Append(f.lines, line)
      /\ Synced(Wrote(f, line)).torn = f.torn
  BY <1>3, <1>4 DEF Synced, CsvFile
<1> QED
  BY <1>3, <1>4, <1>5, <1>6 DEF Grows

LEMMA GrownLines ==
    ASSUME NEW f, NEW g, NEW line, Grows(f, g, line)
    PROVE  /\ Len(f.lines) \in Nat /\ Len(g.lines) = Len(f.lines) + 1
           /\ g.lines[Len(g.lines)] = line
           /\ \A k \in 1..Len(f.lines) : g.lines[k] = f.lines[k]
           /\ \A k \in 1..Len(f.lines) : Agree(f, g, k)
<1>1. /\ f.lines \in Seq(Line) /\ g.lines \in Seq(Line) /\ Len(f.lines) \in Nat
      /\ g.lines = Append(f.lines, line)
  BY FileFields DEF Grows
<1>2. /\ Len(g.lines) = Len(f.lines) + 1 /\ g.lines[Len(g.lines)] = line
      /\ \A k \in 1..Len(f.lines) : g.lines[k] = f.lines[k]
  BY <1>1
<1>3. ASSUME NEW k \in 1..Len(f.lines) PROVE Agree(f, g, k)
  <2>1. k \in 1..Len(g.lines)
    BY <1>1, <1>2
  <2>2. \A j \in 1..k : g.lines[j] = f.lines[j]
    BY <1>1, <1>2
  <2> QED
    BY <2>1, <2>2 DEF Agree, Grows
<1> QED
  BY <1>1, <1>2, <1>3

LEMMA OpeningGrows ==
    ASSUME NEW f, NEW g, NEW line, Grows(f, g, line), Opening(f), ValidLine(g, Len(g.lines))
    PROVE  Opening(g)
<1> SUFFICES ASSUME NEW k \in 1..Len(g.lines) PROVE ValidLine(g, k)
  BY DEF Opening
<1>1. k = Len(g.lines) \/ k \in 1..Len(f.lines)
  BY GrownLines
<1>2. CASE k \in 1..Len(f.lines)
  BY <1>2, GrownLines, SameWorth DEF Opening
<1> QED
  BY <1>1, <1>2

LEMMA EndGrows ==
    ASSUME NEW f, NEW g, NEW line, Grows(f, g, line), Opening(f), ~f.torn,
           Len(f.lines) >= 1, ValidFooter(g, Len(g.lines))
    PROVE  Ended(g)
<1>1. /\ Len(f.lines) \in Nat /\ Len(g.lines) = Len(f.lines) + 1 /\ g.torn = f.torn
  BY GrownLines DEF Grows
<1>2. ASSUME NEW k \in 1..(Len(g.lines) - 1) PROVE ValidLine(g, k)
  <2>1. k \in 1..Len(f.lines)
    BY <1>1
  <2> QED
    BY <2>1, GrownLines, SameWorth DEF Opening
<1>3. Len(g.lines) >= 2
  BY <1>1
<1> QED
  BY <1>1, <1>2, <1>3 DEF Ended

LEMMA AccountsGrow ==
    ASSUME NEW f, NEW g, NEW line, NEW a, Grows(f, g, line), Accounts(f, a),
           line.kind = "row" => Told(g, Len(g.lines), a)
    PROVE  Accounts(g, a)
<1> SUFFICES ASSUME NEW k \in 2..Len(g.lines), g.lines[k].kind = "row" PROVE Told(g, k, a)
  BY DEF Accounts
<1>1. k = Len(g.lines) \/ k \in 2..Len(f.lines)
  BY GrownLines
<1>2. CASE k \in 2..Len(f.lines)
  <2>1. k \in 1..Len(f.lines) /\ k > 1
    BY <1>2, GrownLines
  <2>2. g.lines[k] = f.lines[k] /\ Agree(f, g, k)
    BY <2>1, GrownLines
  <2>3. Told(f, k, a)
    BY <1>2, <2>2 DEF Accounts
  <2> QED
    BY <2>1, <2>2, <2>3, SameWorth
<1>3. CASE k = Len(g.lines)
  BY <1>3, GrownLines
<1> QED
  BY <1>1, <1>2, <1>3

(* A part of a line changes nothing that counts. *)
LEMMA HalfKeeps ==
    ASSUME NEW f \in CsvFile, NEW a, Opening(f), Accounts(f, a), NEW g \in HalfWrote(f)
    PROVE  /\ g \in CsvFile /\ g.lines = f.lines /\ Opening(g)
           /\ Accounts(g, a)
<1>1. g \in CsvFile /\ g.lines = f.lines
  <2>1. CASE g = f
    BY <2>1
  <2>2. CASE g = [f EXCEPT !.torn = TRUE]
    BY <2>2 DEF CsvFile
  <2> QED
    BY <2>1, <2>2 DEF HalfWrote
<1>2. \A k \in 1..Len(f.lines) : Agree(f, g, k)
  BY <1>1, FileFields DEF Agree
<1>3. Opening(g)
  BY <1>1, <1>2, SameWorth DEF Opening
<1>4. ASSUME NEW k \in 2..Len(g.lines), g.lines[k].kind = "row" PROVE Told(g, k, a)
  <2>1. k \in 1..Len(f.lines) /\ k > 1
    BY <1>1, FileFields
  <2>2. Told(f, k, a)
    BY <1>1, <1>4 DEF Accounts
  <2> QED
    BY <1>2, <2>1, <2>2, SameWorth
<1> QED
  BY <1>1, <1>3, <1>4 DEF Accounts

-----------------------------------------------------------------------------
(* What the recorder reports when it records, and when it has stopped. *)
Still(c, d) ==
    /\ d \in Recorder /\ ~d.recording
    /\ d.hasRun = c.hasRun /\ d.runId = c.runId /\ d.valid = c.valid /\ d.count = c.count

LEMMA FailStopStill ==
    ASSUME NEW c \in Recorder
    PROVE  Still(c, FailStop(c))
<1>1. PICK t \in BOOLEAN, n \in BOOLEAN : t = TRUE /\ n = FALSE
  OBVIOUS
<1>2. PICK d : d = [c EXCEPT !.error = t, !.state = "error", !.recording = n]
  OBVIOUS
<1>3. d \in Recorder
  BY ONLY <1>2, c \in Recorder, t \in BOOLEAN, n \in BOOLEAN DEF Recorder
<1>4. /\ d.hasRun = c.hasRun /\ d.runId = c.runId /\ d.valid = c.valid /\ d.count = c.count
      /\ d.recording = n
  BY ONLY <1>2, c \in Recorder DEF Recorder
<1>5. d = FailStop(c)
  BY <1>1, <1>2 DEF FailStop
<1> QED
  BY <1>1, <1>3, <1>4, <1>5 DEF Still

LEMMA ReportsOpening ==
    ASSUME NEW c \in Recorder, NEW f \in CsvFile, Stands(c, f)
    PROVE  Reports(c, f)
<1>1. Len(f.lines) \in Nat /\ Len(f.lines) >= 1 /\ ~Ended(f)
  BY FileFields, OpeningOrEnded DEF Stands
<1>2. c.count \in Nat
  BY DEF Recorder
<1>3. c.valid = Len(f.lines) /\ c.count + 1 = Len(f.lines) /\ f # NoFile
  BY DEF Stands
<1>4. RowsIn(f) = Len(f.lines) - 1
  BY <1>1 DEF RowsIn
<1> QED
  BY <1>1, <1>2, <1>3, <1>4 DEF Reports

(* The three outcomes of a line: refused, in the file, durable. *)
LEMMA PutLineOutcomes ==
    ASSUME NEW c, NEW f, NEW line, NEW counted, NEW done,
           NEW o \in PutLine(c, f, line, counted, done)
    PROVE  \/ o.rec = FailStop(c) /\ o.file \in HalfWrote(f) /\ ~o.ok
           \/ o.rec = FailStop(counted) /\ o.file = Wrote(f, line) /\ ~o.ok
           \/ o.rec = done /\ o.file = Synced(Wrote(f, line)) /\ o.ok
<1>1. CASE \E g \in HalfWrote(f) : o = Outcome(FailStop(c), g, FALSE)
  <2>1. PICK g \in HalfWrote(f) : o = Outcome(FailStop(c), g, FALSE)
    BY <1>1
  <2>2. o.rec = FailStop(c) /\ o.file = g /\ ~o.ok
    BY <2>1, Zenon DEF Outcome
  <2> QED
    BY <2>2
<1>2. CASE o = Outcome(FailStop(counted), Wrote(f, line), FALSE)
  BY <1>2, Zenon DEF Outcome
<1>3. CASE o = Outcome(done, Synced(Wrote(f, line)), TRUE)
  BY <1>3, Zenon DEF Outcome
<1> QED
  BY <1>1, <1>2, <1>3 DEF PutLine

(* A recorder that has stopped on an opening, or behind a footer. *)
LEMMA StoppedOnOpening ==
    ASSUME NEW c \in Recorder, NEW f \in CsvFile, NEW a \in Seq(Acquired),
           Stands(c, f), Accounts(f, a), NEW d, Still(c, d), NEW g \in HalfWrote(f)
    PROVE  Sound(d, g, a)
<1>1. g \in CsvFile /\ g.lines = f.lines /\ Opening(g) /\ Accounts(g, a)
  BY HalfKeeps DEF Stands
<1>2. ~Ended(g) /\ ~Ended(f)
  BY <1>1, OpeningOrEnded DEF Stands
<1>3. Saved(g, a)
  BY <1>1, <1>2 DEF Saved, Counts
<1>4. Reports(c, f)
  BY ReportsOpening
<1>5. RowsIn(g) = RowsIn(f)
  BY <1>1, <1>2 DEF RowsIn
<1>6. g # NoFile
  BY <1>1, CsvAssumption
<1>7. d.valid = c.valid /\ d.count = c.count
  BY DEF Still
<1>8. Reports(d, g)
  BY <1>1, <1>4, <1>5, <1>6, <1>7 DEF Reports
<1>9. d \in Recorder /\ ~d.recording
  BY DEF Still
<1> QED
  BY <1>1, <1>3, <1>8, <1>9 DEF Sound, Shaped

LEMMA EndedIsSound ==
    ASSUME NEW d \in Recorder, ~d.recording, NEW g \in CsvFile, NEW a \in Seq(Acquired),
           Ended(g), HoldsEnd(g, a), Accounts(g, a),
           d.valid = Len(g.lines), d.count + 2 = Len(g.lines)
    PROVE  Sound(d, g, a)
<1>1. Len(g.lines) \in Nat /\ d.count \in Nat /\ Len(g.lines) >= 2
  BY FileFields DEF Recorder, Ended
<1>2. d.count = RowsIn(g) /\ g # NoFile
  BY <1>1, CsvAssumption DEF RowsIn
<1>3. Reports(d, g)
  BY <1>1, <1>2 DEF Reports
<1>4. Saved(g, a)
  BY DEF Saved, Counts
<1> QED
  BY <1>2, <1>3, <1>4 DEF Sound, Shaped

LEMMA FooterIsLine ==
    ASSUME NEW n \in Nat, NEW elapsed \in Nat, NEW why \in {"complete", "duration_limit"}
    PROVE  Footer(why, n, elapsed) \in Line
BY DEF Footer, Line

(* endRun() on a run whose last acquisition, if any, is its last row. *)
LastIsLogged(c, a) == a # <<>> => c.count > 0 /\ c.lastAcq = a[Len(a)].seq
Closing(c, a, why, elapsed) ==
    /\ why \in {"complete", "duration_limit"} /\ elapsed \in 0..MaxDuration
    /\ why = "duration_limit" <=> elapsed = MaxDuration
    /\ c.count > 0 => c.lastMs <= elapsed
    /\ a # <<>> => a[Len(a)].ms <= elapsed

LEMMA FooterEnds ==
    ASSUME NEW c \in Recorder, NEW f \in CsvFile, NEW a \in Seq(Acquired), NEW g, NEW why, NEW elapsed,
           Stands(c, f), Accounts(f, a), LastIsLogged(c, a), Closing(c, a, why, elapsed),
           Grows(f, g, Footer(why, c.count, elapsed))
    PROVE  Ended(g) /\ HoldsEnd(g, a) /\ Accounts(g, a)
<1>1. PICK e : e = Footer(why, c.count, elapsed)
  OBVIOUS
<1>2. e.kind = "end" /\ e.reason = why /\ e.rows = c.count /\ e.elapsed = elapsed
  BY <1>1 DEF Footer
<1>3. /\ Len(f.lines) \in Nat /\ Len(g.lines) = Len(f.lines) + 1 /\ g.lines[Len(g.lines)] = e
      /\ \A k \in 1..Len(f.lines) : g.lines[k] = f.lines[k]
  BY <1>1, GrownLines
<1>4. /\ c.count \in Nat /\ c.count + 1 = Len(f.lines) /\ Len(f.lines) >= 1
      /\ c.lastMs \in Nat /\ c.lastAcq \in Nat
  BY DEF Stands, Recorder
<1>5. PICK n \in Nat : n = Len(f.lines)
  BY <1>3
<1>5a. PICK m \in Nat : m = c.count
  BY <1>4
<1>5b. m + 1 = n
  BY <1>4, <1>5, <1>5a
<1>5c. (n + 1) - 1 = n /\ (n + 1) - 2 = m /\ n \in 1..n /\ n + 1 > 1 /\ (n + 1 > 2 => m > 0)
  BY ONLY <1>5b, n \in Nat, m \in Nat
<1>5d. m > 0 => n # 1
  BY ONLY <1>5b, n \in Nat, m \in Nat
<1>6. /\ Len(g.lines) = n + 1 /\ (n + 1) - 1 = n /\ (n + 1) - 2 = c.count
      /\ g.lines[n] = f.lines[n] /\ g.lines[n + 1] = e
  BY <1>3, <1>5, <1>5a, <1>5c
<1>7. ASSUME c.count > 0
      PROVE  f.lines[n].acqSeq = c.lastAcq /\ f.lines[n].ms = c.lastMs /\ f.lines[n].kind = "row"
  <2>0. c.count # 0 /\ n # 1
    BY <1>5a, <1>5d, <1>7
  <2>1. c.count # 0 /\ n # 1 /\ n \in 1..Len(f.lines)
    BY <1>5, <1>5c, <2>0
  <2>2. ValidLine(f, n)
    BY <2>1 DEF Stands, Opening
  <2>3. f.lines[n].kind = "row"
    BY <2>1, <2>2 DEF ValidLine, ValidRow
  <2> QED
    BY <1>5, <2>1, <2>3 DEF Stands
<1>8. ValidFooter(g, n + 1)
  <2>1. n + 1 > 2 => c.count > 0
    BY <1>5a, <1>5c
  <2>2. elapsed \in Nat /\ MaxDuration \in Nat /\ elapsed <= MaxDuration
    BY CsvAssumption DEF Closing
  <2>3. n + 1 > 2 => e.elapsed >= g.lines[(n + 1) - 1].ms
    BY <1>2, <1>4, <1>6, <1>7, <2>1, <2>2 DEF Closing
  <2>4. e.reason = "duration_limit" => e.elapsed = MaxDuration
    BY <1>2 DEF Closing
  <2>5. n + 1 > 1 /\ e.rows = (n + 1) - 2
    BY <1>2, <1>5a, <1>5c
  <2> QED
    BY <1>2, <1>6, <2>2, <2>3, <2>4, <2>5 DEF ValidFooter, RowsBefore
<1>9. Ended(g)
  BY <1>1, <1>4, <1>6, <1>8, EndGrows DEF Stands
<1>10. HoldsEnd(g, a)
  <2>1. ASSUME a # <<>>
        PROVE  /\ g.lines[n].kind = "row" /\ g.lines[n].acqSeq = a[Len(a)].seq
               /\ e.elapsed >= a[Len(a)].ms
    <3>1. c.count > 0 /\ c.lastAcq = a[Len(a)].seq /\ a[Len(a)].ms <= elapsed
      BY <2>1 DEF LastIsLogged, Closing
    <3>2. elapsed \in Nat /\ a[Len(a)].ms \in Nat
      <4>1. Len(a) \in 1..Len(a)
        BY <2>1
      <4>2. a[Len(a)] \in Acquired
        BY <4>1
      <4> QED
        BY <4>2, CsvAssumption DEF Acquired, Sampled, Closing
    <3> QED
      BY <1>2, <1>6, <1>7, <3>1, <3>2
  <2>2. (e.reason = "duration_limit") <=> (e.elapsed = MaxDuration)
    BY <1>2 DEF Closing
  <2> QED
    BY <1>6, <2>1, <2>2 DEF HoldsEnd
<1>11. Accounts(g, a)
  BY <1>1, <1>2, AccountsGrow
<1> QED
  BY <1>9, <1>10, <1>11

LEMMA EndRunSound ==
    ASSUME NEW c \in Recorder, NEW f \in CsvFile, NEW a \in Seq(Acquired), NEW why, NEW elapsed,
           Stands(c, f), Accounts(f, a), LastIsLogged(c, a), Closing(c, a, why, elapsed),
           NEW o \in EndRun(c, f, why, elapsed)
    PROVE  Sound(o.rec, o.file, a)
<1>1. PICK e : e = Footer(why, c.count, elapsed)
  OBVIOUS
<1>2. PICK counted : counted = [c EXCEPT !.valid = @ + 1]
  OBVIOUS
<1>3. PICK n \in BOOLEAN : n = FALSE
  OBVIOUS
<1>4. PICK done : done = [counted EXCEPT !.recording = n, !.state = why]
  OBVIOUS
<1>5. /\ c.count \in Nat /\ c.valid \in Nat /\ c.valid = Len(f.lines) /\ c.count + 1 = Len(f.lines)
      /\ elapsed \in Nat /\ why \in {"complete", "duration_limit"}
  BY CsvAssumption DEF Recorder, Stands, Closing
<1>6. e \in Line
  BY <1>1, <1>5, FooterIsLine
<1>7a. c.valid + 1 \in Nat
  BY <1>5
<1>7. /\ counted \in Recorder /\ counted.valid = c.valid + 1 /\ counted.count = c.count
  BY ONLY <1>2, <1>7a, c \in Recorder DEF Recorder
<1>8. /\ done \in Recorder /\ done.valid = counted.valid /\ done.count = counted.count
      /\ done.recording = n
  BY <1>4, <1>5, <1>7 DEF Recorder
<1>9. ASSUME NEW g, Grows(f, g, e), NEW d \in Recorder, ~d.recording,
             d.valid = c.valid + 1, d.count = c.count
      PROVE  Sound(d, g, a)
  <2>1. Ended(g) /\ HoldsEnd(g, a) /\ Accounts(g, a)
    BY <1>1, <1>9, FooterEnds
  <2>2. g \in CsvFile /\ Len(g.lines) = Len(f.lines) + 1
    BY <1>9, GrownLines DEF Grows
  <2>3. d.valid = Len(g.lines) /\ d.count + 2 = Len(g.lines)
    <3>1. PICK m \in Nat : m = c.count
      BY <1>5
    <3>2. Len(f.lines) = m + 1 /\ c.valid = m + 1
      BY <1>5, <3>1
    <3>3. Len(g.lines) = m + 2
      BY <2>2, <3>2
    <3> QED
      BY <1>9, <3>1, <3>2, <3>3
  <2> QED
    BY <1>9, <2>1, <2>2, <2>3, EndedIsSound
<1>10. o \in PutLine(c, f, e, counted, done)
  BY <1>1, <1>2, <1>3, <1>4 DEF EndRun
<1>11. CASE o.rec = FailStop(c) /\ o.file \in HalfWrote(f)
  BY <1>11, FailStopStill, StoppedOnOpening
<1>12. CASE o.rec = FailStop(counted) /\ o.file = Wrote(f, e)
  <2>1. Still(counted, FailStop(counted)) /\ Grows(f, Wrote(f, e), e)
    BY <1>6, <1>7, FailStopStill, WroteGrows
  <2> QED
    BY <1>7, <1>9, <1>12, <2>1 DEF Still
<1>13. CASE o.rec = done /\ o.file = Synced(Wrote(f, e))
  <2>1. ~done.recording
    BY <1>3, <1>8
  <2>2. Grows(f, Synced(Wrote(f, e)), e)
    BY <1>6, WroteGrows
  <2> QED
    BY <1>7, <1>8, <1>9, <1>13, <2>1, <2>2
<1> QED
  BY <1>10, <1>11, <1>12, <1>13, PutLineOutcomes

-----------------------------------------------------------------------------
(* The acquisitions. *)
LEMMA Acquisitions ==
    ASSUME NEW a \in Seq(Acquired)
    PROVE  /\ Len(a) \in Nat
           /\ a # <<>> => Len(a) \in 1..Len(a)
           /\ \A i \in 1..Len(a) : /\ a[i] \in Sampled /\ a[i] \in Acquired
                                   /\ a[i].seq \in Nat /\ a[i].seq # 0
                                   /\ a[i].ms \in Nat /\ a[i].ms <= MaxDuration
           /\ \A i \in 1..Len(a) : a[i].fault \in BOOLEAN
BY DEF Acquired, Sampled

LEMMA RecorderFields ==
    ASSUME NEW c \in Recorder
    PROVE  /\ c.runId \in Nat /\ c.count \in Nat /\ c.valid \in Nat
           /\ c.lastAcq \in Nat /\ c.lastMs \in Nat
           /\ c.latest \in Sampled /\ c.latest.seq \in Nat /\ c.latest.ms \in Nat
BY DEF Recorder, Sampled

LEMMA RowIsLine ==
    ASSUME NEW c \in Recorder, NEW s \in Sampled, NEW isTerminal \in BOOLEAN
    PROVE  Row(c, s, isTerminal) \in Line
<1>1. c.runId \in Nat /\ c.count + 1 \in Nat /\ s.seq \in Nat /\ s.ms \in Nat
  BY DEF Recorder, Sampled
<1>2. c.fault \in BOOLEAN /\ c.gap \in BOOLEAN
  BY DEF Recorder
<1> QED
  BY <1>1, <1>2, Zenon DEF Row, Line

(* What a row written for the latest acquisition stands behind. *)
LEMMA RowStands ==
    ASSUME NEW c \in Recorder, NEW f \in CsvFile, NEW s \in Sampled, NEW isTerminal \in BOOLEAN,
           NEW g, Stands(c, f), Paced(c, f), Loggable(c, s), Grows(f, g, Row(c, s, isTerminal))
    PROVE  ValidLine(g, Len(g.lines))
<1>1. PICK r : r = Row(c, s, isTerminal)
  OBVIOUS
<1>2. r.kind = "row" /\ r.runId = c.runId /\ r.logSeq = c.count + 1 /\ r.acqSeq = s.seq /\ r.ms = s.ms
  BY <1>1 DEF Row
<1>3. /\ Len(f.lines) \in Nat /\ Len(g.lines) = Len(f.lines) + 1 /\ g.lines[Len(g.lines)] = r
      /\ \A k \in 1..Len(f.lines) : g.lines[k] = f.lines[k]
  BY <1>1, GrownLines
<1>4. PICK n \in Nat : n = Len(f.lines)
  BY <1>3
<1>5. PICK m \in Nat : m = c.count
  BY RecorderFields
<1>6. m + 1 = n
  BY <1>4, <1>5 DEF Stands
<1>7. /\ (n + 1) - 1 = n /\ (n + 1) - 2 = m /\ n \in 1..n /\ 1 \in 1..n /\ n + 1 > 1
      /\ n + 1 # 1 /\ (n + 1 > 2 => m > 0)
  BY ONLY <1>6, n \in Nat, m \in Nat
<1>8. /\ Len(g.lines) = n + 1 /\ g.lines[n] = f.lines[n] /\ g.lines[1] = f.lines[1]
      /\ g.lines[n + 1] = r
  BY <1>3, <1>4, <1>7
<1>9. m < RecordLimit /\ s.seq # 0 /\ s.ms <= MaxDuration /\ (m > 0 => s.ms > c.lastMs /\ s.seq > c.lastAcq)
  BY <1>5 DEF Loggable
<1>10. ASSUME m > 0
       PROVE  /\ f.lines[n].acqSeq < r.acqSeq /\ f.lines[n].ms < r.ms
              /\ ~f.lines[n].terminal
  <2>1. m # 0
    BY <1>10
  <2>2. f.lines[n].acqSeq = c.lastAcq /\ f.lines[n].ms = c.lastMs
    BY <1>4, <1>5, <2>1 DEF Stands
  <2>3. ~f.lines[n].terminal
    BY <1>4, <1>5, <1>10 DEF Paced
  <2>4. s.ms > c.lastMs /\ s.seq > c.lastAcq
    BY <1>9, <1>10
  <2>5. s.seq \in Nat /\ s.ms \in Nat /\ c.lastAcq \in Nat /\ c.lastMs \in Nat
    BY RecorderFields DEF Sampled
  <2>6. f.lines[n].acqSeq < r.acqSeq /\ f.lines[n].ms < r.ms
    BY <1>2, <2>2, <2>4, <2>5
  <2> QED
    BY <2>3, <2>6
<1>11. r.runId = f.lines[1].runId
  BY <1>2 DEF Stands
<1>12. r.logSeq = m + 1 /\ r.acqSeq # 0 /\ r.ms <= MaxDuration
  BY <1>2, <1>5, <1>9
<1>13. ValidRow(g, n + 1)
  BY <1>2, <1>7, <1>8, <1>9, <1>10, <1>11, <1>12 DEF ValidRow, RowsBefore
<1> QED
  BY <1>7, <1>8, <1>13 DEF ValidLine

(* The acquisitions since the last row are those the next row answers for. *)
LEMMA WindowIsPending ==
    ASSUME NEW c \in Recorder, NEW a \in Seq(Acquired), Ordered(c, a), a # <<>>
    PROVE  Window(a, c.lastAcq, c.latest.seq) = Pending(a, c)
<1>1. \A i \in 1..Len(a) : i # Len(a) => a[i].seq < a[Len(a)].seq
  BY Acquisitions DEF Ordered
<1>2. c.latest = a[Len(a)]
  BY DEF Ordered
<1>3. \A i \in 1..Len(a) : a[i].seq <= c.latest.seq
  BY <1>1, <1>2, Acquisitions
<1> QED
  BY <1>3 DEF Window, Pending

LEMMA RowTells ==
    ASSUME NEW c \in Recorder, NEW f \in CsvFile, NEW a \in Seq(Acquired), NEW isTerminal \in BOOLEAN,
           NEW g, Nearly(c, f, a), a # <<>>, Loggable(c, c.latest),
           isTerminal \/ c.count = 0 \/ c.latest.ms - c.lastMs >= LogInterval,
           Grows(f, g, Row(c, c.latest, isTerminal))
    PROVE  Told(g, Len(g.lines), a)
<1> DEFINE s == c.latest
           W == Pending(a, c)
<1>1. PICK r : r = Row(c, s, isTerminal)
  OBVIOUS
<1>2. r.acqSeq = s.seq /\ r.ms = s.ms
  BY <1>1 DEF Row
<1>3. r.intervalFault = c.fault /\ r.gap = c.gap /\ r.terminal = isTerminal
  BY <1>1 DEF Row
<1>4. /\ Len(f.lines) \in Nat /\ Len(g.lines) = Len(f.lines) + 1 /\ g.lines[Len(g.lines)] = r
      /\ \A k \in 1..Len(f.lines) : g.lines[k] = f.lines[k]
  BY <1>1, GrownLines
<1>5. PICK n \in Nat : n = Len(f.lines)
  BY <1>4
<1>6. PICK m \in Nat : m = c.count
  BY RecorderFields
<1>7. m + 1 = n
  BY <1>5, <1>6 DEF Stands, Nearly
<1>8. /\ (n + 1) - 1 = n /\ n \in 1..n /\ (n + 1 = 2 <=> m = 0) /\ (n + 1 > 2 <=> m # 0)
  BY ONLY <1>7, n \in Nat, m \in Nat
<1>9. Len(g.lines) = n + 1 /\ g.lines[n] = f.lines[n] /\ g.lines[n + 1] = r
  BY <1>4, <1>5, <1>8
<1>10. From(g, n + 1) = c.lastAcq
  <2>1. CASE m = 0
    BY <1>6, <1>8, <2>1 DEF From, Nearly, Stands
  <2>2. CASE m # 0
    BY <1>5, <1>6, <1>8, <1>9, <2>2 DEF From, Nearly, Stands
  <2> QED
    BY <2>1, <2>2
<1>11. Window(a, From(g, n + 1), r.acqSeq) = W
  BY <1>2, <1>10, WindowIsPending DEF Nearly
<1>12. Len(a) \in W /\ a[Len(a)].seq = r.acqSeq /\ a[Len(a)].ms = r.ms
  <2>1. a[Len(a)] = s /\ Len(a) \in 1..Len(a)
    BY Acquisitions DEF Nearly, Ordered
  <2>2. s.seq > c.lastAcq
    <3>1. CASE m = 0
      <4>1. c.lastAcq = 0 /\ s.seq # 0
        BY <1>6, <3>1 DEF Nearly, Stands, Loggable
      <4> QED
        BY <4>1, RecorderFields
    <3>2. CASE m > 0
      BY <1>6, <3>2 DEF Loggable
    <3> QED
      BY <3>1, <3>2
  <2> QED
    BY <1>2, <2>1, <2>2 DEF Pending
<1>13. r.intervalFault <=> \E i \in W : a[i].fault
  BY <1>3, Zenon DEF Nearly, Flagged
<1>14. r.gap <=> \E i \in W \ {1} : HoleIn(a, i)
  BY <1>3, Zenon DEF Nearly, Flagged
<1>15. ASSUME m # 0, ~r.terminal PROVE r.ms - f.lines[n].ms >= LogInterval
  <2>1. s.ms - c.lastMs >= LogInterval
    BY <1>3, <1>6, <1>15
  <2>2. f.lines[n].ms = c.lastMs
    BY <1>5, <1>6, <1>15 DEF Nearly, Stands
  <2> QED
    BY <1>2, <2>1, <2>2
<1>16. ASSUME m # 0, NEW i \in W, a[i].ms - f.lines[n].ms >= LogInterval
       PROVE  a[i].seq = r.acqSeq
  <2>1. f.lines[n].ms = c.lastMs
    BY <1>5, <1>6, <1>16 DEF Nearly, Stands
  <2>2. i = Len(a)
    <3> SUFFICES ASSUME i # Len(a) PROVE FALSE
      OBVIOUS
    <3>1. a[i].ms - c.lastMs < LogInterval
      BY DEF Nearly, Passed
    <3>2. a[i].ms \in Nat /\ c.lastMs \in Nat /\ LogInterval \in Nat
      BY Acquisitions, RecorderFields, CsvAssumption DEF Pending
    <3>3. a[i].ms - c.lastMs >= LogInterval
      BY <1>16, <2>1
    <3> QED
      BY <3>1, <3>2, <3>3
  <2> QED
    BY <1>12, <2>2
<1> HIDE DEF W
<1>17. n + 1 > 2 /\ ~r.terminal => r.ms - g.lines[(n + 1) - 1].ms >= LogInterval
  BY <1>8, <1>9, <1>15
<1>18. n + 1 > 2 => \A i \in W : a[i].ms - g.lines[(n + 1) - 1].ms >= LogInterval
                                   => a[i].seq = r.acqSeq
  BY <1>8, <1>9, <1>16
<1> QED
  BY <1>9, <1>11, <1>12, <1>13, <1>14, <1>17, <1>18, Zenon DEF Told

(* The recorder behind a row that is in the file. *)
Logs(c, d) ==
    /\ d \in Recorder /\ d.hasRun = c.hasRun /\ d.runId = c.runId /\ d.latest = c.latest
    /\ d.valid = c.valid + 1 /\ d.count = c.count + 1
    /\ d.lastAcq = c.latest.seq /\ d.lastMs = c.latest.ms
Logged(c, d, g, isTerminal) ==
    /\ g \in CsvFile /\ Stands(d, g) /\ Logs(c, d) /\ ~d.fault /\ ~d.gap
    /\ g.lines[Len(g.lines)].terminal = isTerminal
    /\ \A k \in 2..Len(g.lines) : g.lines[k].acqSeq <= d.lastAcq

LEMMA CountedLogs ==
    ASSUME NEW c \in Recorder, NEW s, s = c.latest, NEW d,
           d = [c EXCEPT !.valid = @ + 1, !.count = @ + 1, !.lastAcq = s.seq,
                         !.lastMs = s.ms, !.fault = FALSE, !.gap = FALSE]
    PROVE  Logs(c, d) /\ ~d.fault /\ ~d.gap
<1>1. PICK n \in BOOLEAN : n = FALSE
  OBVIOUS
<1>2. PICK v : v = [c EXCEPT !.valid = @ + 1, !.count = @ + 1]
  OBVIOUS
<1>3. /\ c.count + 1 \in Nat /\ c.valid + 1 \in Nat /\ s.seq \in Nat /\ s.ms \in Nat
  BY RecorderFields
<1>3a. v \in Recorder
  BY ONLY <1>2, <1>3, c \in Recorder DEF Recorder
<1>3b. /\ v.hasRun = c.hasRun /\ v.runId = c.runId /\ v.latest = c.latest
       /\ v.valid = c.valid + 1 /\ v.count = c.count + 1
  BY ONLY <1>2, <1>3, c \in Recorder DEF Recorder
<1>4. PICK w : w = [v EXCEPT !.lastAcq = s.seq, !.lastMs = s.ms]
  OBVIOUS
<1>4a. w \in Recorder
  BY ONLY <1>3, <1>3a, <1>4 DEF Recorder
<1>4b. /\ w.hasRun = v.hasRun /\ w.runId = v.runId /\ w.latest = v.latest
       /\ w.valid = v.valid /\ w.count = v.count /\ w.lastAcq = s.seq /\ w.lastMs = s.ms
  BY ONLY <1>3a, <1>4 DEF Recorder
<1>5. PICK e : e = [w EXCEPT !.fault = n, !.gap = n]
  OBVIOUS
<1>5a. e \in Recorder
  BY ONLY <1>4a, <1>5, n \in BOOLEAN DEF Recorder
<1>5b. /\ e.hasRun = w.hasRun /\ e.runId = w.runId /\ e.latest = w.latest
       /\ e.valid = w.valid /\ e.count = w.count /\ e.lastAcq = w.lastAcq /\ e.lastMs = w.lastMs
  BY ONLY <1>4a, <1>5 DEF Recorder
<1>6. e.fault = n /\ e.gap = n
  BY ONLY <1>4a, <1>5 DEF Recorder
<1>7. d = e
  BY <1>1, <1>2, <1>4, <1>5
<1>8. ~d.fault /\ ~d.gap
  BY <1>1, <1>6, <1>7
<1> QED
  BY <1>3b, <1>4b, <1>5a, <1>5b, <1>7, <1>8 DEF Logs

LEMMA RowIsLogged ==
    ASSUME NEW c \in Recorder, NEW f \in CsvFile, NEW isTerminal \in BOOLEAN, NEW d, NEW g,
           Stands(c, f), Paced(c, f), Loggable(c, c.latest), Logs(c, d), ~d.fault, ~d.gap,
           Grows(f, g, Row(c, c.latest, isTerminal))
    PROVE  Logged(c, d, g, isTerminal)
<1>1. PICK r : r = Row(c, c.latest, isTerminal)
  OBVIOUS
<1>2. r.acqSeq = c.latest.seq /\ r.ms = c.latest.ms
  BY <1>1 DEF Row
<1>3. r.terminal = isTerminal
  BY <1>1 DEF Row
<1>4. /\ Len(f.lines) \in Nat /\ Len(g.lines) = Len(f.lines) + 1 /\ g.lines[Len(g.lines)] = r
      /\ \A k \in 1..Len(f.lines) : g.lines[k] = f.lines[k]
  BY <1>1, GrownLines
<1>5. PICK n \in Nat : n = Len(f.lines)
  BY <1>4
<1>6. PICK m \in Nat : m = c.count
  BY RecorderFields
<1>7. m + 1 = n
  BY <1>5, <1>6 DEF Stands
<1>8. /\ n >= 1 /\ n + 1 >= 1 /\ 1 \in 1..n /\ (m + 1) + 1 = n + 1 /\ m + 1 # 0
      /\ \A k \in 2..(n + 1) : k \in 2..n \/ k = n + 1
  BY ONLY <1>7, n \in Nat, m \in Nat
<1>9. Len(g.lines) = n + 1 /\ g.lines[n + 1] = r /\ g.lines[1] = f.lines[1]
  BY <1>4, <1>5, <1>8
<1>10. d.count = m + 1 /\ d.valid = n + 1
  BY <1>5, <1>6 DEF Logs, Stands
<1>11. Opening(g) /\ ~g.torn
  <2>1. ValidLine(g, Len(g.lines))
    BY RowStands, RecorderFields
  <2> QED
    BY <2>1, OpeningGrows DEF Stands, Grows
<1>12. d.hasRun /\ d.runId # 0 /\ g.lines[1].runId = d.runId /\ g # NoFile
  BY <1>9, CsvAssumption DEF Logs, Stands, Grows
<1>13. r.acqSeq = d.lastAcq /\ r.ms = d.lastMs
  BY <1>2 DEF Logs
<1>14. Stands(d, g)
  BY <1>8, <1>9, <1>10, <1>11, <1>12, <1>13 DEF Stands
<1>15. ASSUME NEW k \in 2..Len(g.lines) PROVE g.lines[k].acqSeq <= d.lastAcq
  <2>1. d.lastAcq \in Nat /\ c.lastAcq \in Nat /\ d.lastAcq = c.latest.seq
    BY RecorderFields DEF Logs
  <2>2. CASE k = n + 1
    BY <1>9, <1>13, <2>1, <2>2
  <2>3. CASE k \in 2..n
    <3>1. m > 0 /\ k \in 1..Len(f.lines)
      <4>1. m > 0 /\ k \in 1..n
        BY ONLY <1>7, <2>3, n \in Nat, m \in Nat
      <4> QED
        BY <1>5, <4>1
    <3>2. f.lines[k].acqSeq <= c.lastAcq /\ g.lines[k] = f.lines[k]
      BY <1>4, <1>5, <2>3, <3>1 DEF Paced
    <3>3. c.latest.seq > c.lastAcq
      BY <1>6, <3>1 DEF Loggable
    <3>4. f.lines[k].acqSeq \in Nat
      <4>1. f.lines[k] \in Line /\ ValidLine(f, k) /\ k # 1
        BY <2>3, <3>1, FileFields DEF Stands, Opening
      <4>2. f.lines[k].kind = "row"
        BY <4>1 DEF ValidLine, ValidRow
      <4> QED
        BY <4>1, <4>2, LineFields
    <3> QED
      BY <2>1, <3>2, <3>3, <3>4
  <2> QED
    BY <1>8, <1>9, <2>2, <2>3
<1>16. g.lines[Len(g.lines)].terminal = isTerminal
  BY <1>3, <1>4
<1> QED
  BY <1>14, <1>15, <1>16 DEF Logged, Grows

Due(c) == c.count = 0 \/ c.latest.ms - c.lastMs >= LogInterval
LEMMA LogRowOutcomes ==
    ASSUME NEW c \in Recorder, NEW f \in CsvFile, NEW a \in Seq(Acquired), NEW isTerminal \in BOOLEAN,
           Nearly(c, f, a), Accounts(f, a), a # <<>>, isTerminal \/ Due(c),
           NEW o \in LogRow(c, f, c.latest, isTerminal)
    PROVE  \/ ~o.ok /\ Sound(o.rec, o.file, a)
           \/ o.ok /\ Logged(c, o.rec, o.file, isTerminal) /\ Accounts(o.file, a)
<1> DEFINE counted == [c EXCEPT !.valid = @ + 1, !.count = @ + 1, !.lastAcq = c.latest.seq,
                                !.lastMs = c.latest.ms, !.fault = FALSE, !.gap = FALSE]
<1>0. Stands(c, f) /\ Paced(c, f)
  BY DEF Nearly
<1>1. PICK d : d = counted
  OBVIOUS
<1>2. Logs(c, d) /\ ~d.fault /\ ~d.gap
  BY <1>1, CountedLogs
<1>3. PICK r : r = Row(c, c.latest, isTerminal)
  OBVIOUS
<1>4. r \in Line
  BY <1>3, RowIsLine, RecorderFields
<1>5. \/ o = Outcome(FailStop(c), f, FALSE)
      \/ Loggable(c, c.latest) /\ o \in PutLine(c, f, r, d, d)
  BY <1>1, <1>3 DEF LogRow
<1> HIDE DEF counted
<1>6. ASSUME NEW h \in HalfWrote(f) PROVE Sound(FailStop(c), h, a)
  BY <1>0, FailStopStill, StoppedOnOpening
<1>7. CASE o = Outcome(FailStop(c), f, FALSE)
  <2>1. o.rec = FailStop(c) /\ o.file = f /\ ~o.ok
    BY <1>7, Zenon DEF Outcome
  <2>2. f \in HalfWrote(f)
    BY DEF HalfWrote
  <2> QED
    BY <1>6, <2>1, <2>2
<1>8. CASE Loggable(c, c.latest) /\ o \in PutLine(c, f, r, d, d)
  <2>1. ASSUME NEW g, Grows(f, g, r) PROVE Logged(c, d, g, isTerminal) /\ Accounts(g, a)
    <3>1. Told(g, Len(g.lines), a)
      BY <1>3, <1>8, <2>1, RowTells DEF Due
    <3> QED
      BY <1>0, <1>2, <1>3, <1>8, <2>1, <3>1, RowIsLogged, AccountsGrow
  <2>2. Grows(f, Wrote(f, r), r) /\ Grows(f, Synced(Wrote(f, r)), r)
    BY <1>4, WroteGrows
  <2>3. CASE o.rec = FailStop(c) /\ o.file \in HalfWrote(f) /\ ~o.ok
    BY <1>6, <2>3
  <2>4. CASE o.rec = FailStop(d) /\ o.file = Wrote(f, r) /\ ~o.ok
    <3>1. Logged(c, d, Wrote(f, r), isTerminal) /\ Accounts(Wrote(f, r), a)
      BY <2>1, <2>2
    <3>2. d \in Recorder /\ Stands(d, Wrote(f, r)) /\ Wrote(f, r) \in CsvFile
      BY <3>1 DEF Logged, Logs
    <3>3. Wrote(f, r) \in HalfWrote(Wrote(f, r))
      BY DEF HalfWrote
    <3>4. Sound(FailStop(d), Wrote(f, r), a)
      BY <3>1, <3>2, <3>3, FailStopStill, StoppedOnOpening
    <3> QED
      BY <2>4, <3>4
  <2>5. CASE o.rec = d /\ o.file = Synced(Wrote(f, r)) /\ o.ok
    BY <2>1, <2>2, <2>5
  <2> QED
    BY <1>8, <2>3, <2>4, <2>5, PutLineOutcomes
<1> QED
  BY <1>5, <1>7, <1>8

-----------------------------------------------------------------------------
(* Rows that keep the cadence leave room for one more: what recordLimit is for. *)
LEMMA ProductGrows ==
    ASSUME NEW L \in Nat, NEW p \in Nat, NEW q \in Nat, p <= q
    PROVE  p * L <= q * L
<1>1. PICK d \in Nat : q = p + d
  <2>1. q - p \in Nat /\ q = p + (q - p)
    OBVIOUS
  <2> QED
    BY <2>1
<1>2. q * L = p * L + d * L
  BY <1>1
<1>3. d * L \in Nat /\ p * L \in Nat
  OBVIOUS
<1> QED
  BY <1>2, <1>3

LEMMA QuotientBounds ==
    ASSUME NEW M \in Nat, NEW L \in Nat \ {0}, NEW k \in Nat, k * L <= M
    PROVE  M \div L \in Nat /\ k <= M \div L
<1>1. PICK q \in Nat : q = M \div L /\ M < (q + 1) * L
  <2>1. M \div L \in Nat /\ M < (M \div L + 1) * L
    OBVIOUS
  <2> QED
    BY <2>1
<1>2. ~(q + 1 <= k)
  <2> SUFFICES ASSUME q + 1 <= k PROVE FALSE
    OBVIOUS
  <2>1. (q + 1) * L <= k * L
    BY ProductGrows
  <2>2. (q + 1) * L \in Nat /\ k * L \in Nat
    OBVIOUS
  <2> QED
    BY <1>1, <2>1, <2>2
<1> QED
  BY <1>1, <1>2

LEMMA RoomForOneMore ==
    ASSUME NEW c \in Recorder, NEW f, Paced(c, f)
    PROVE  c.count < RecordLimit
<1>1. c.count \in Nat /\ c.lastMs \in Nat
  BY RecorderFields
<1>2. MaxDuration \in Nat /\ LogInterval \in Nat \ {0}
  BY CsvAssumption
<1>3. MaxDuration \div LogInterval \in Nat
  BY <1>2
<1>4. CASE c.count = 0
  BY <1>3, <1>4 DEF RecordLimit
<1>5. CASE c.count > 0
  <2>1. PICK k \in Nat : k = c.count - 1
    BY <1>1, <1>5
  <2>2. c.lastMs >= k * LogInterval /\ c.lastMs <= MaxDuration
    BY <1>5, <2>1 DEF Paced
  <2>3. k * LogInterval \in Nat
    BY <1>2
  <2>4. k * LogInterval <= MaxDuration
    BY <1>1, <1>2, <2>2, <2>3
  <2>5. k <= MaxDuration \div LogInterval
    BY <1>2, <2>4, QuotientBounds
  <2> QED
    BY <1>1, <1>3, <2>1, <2>5 DEF RecordLimit
<1> QED
  BY <1>1, <1>4, <1>5

(* finishRun(): the latest acquisition is logged, or was. *)
LEMMA NothingToSelect ==
    ASSUME NEW c \in Recorder, NEW f, NEW a \in Seq(Acquired), Nearly(c, f, a), ~Unselected(c)
    PROVE  LastIsLogged(c, a)
<1> SUFFICES ASSUME a # <<>> PROVE c.count > 0 /\ c.lastAcq = a[Len(a)].seq
  BY DEF LastIsLogged
<1>1. Len(a) \in 1..Len(a)
  BY Acquisitions
<1>2. c.latest = a[Len(a)] /\ c.latest.seq # 0 /\ c.latest.ms <= MaxDuration
  BY <1>1, Acquisitions DEF Nearly, Ordered
<1>3. c.count < RecordLimit
  BY RoomForOneMore DEF Nearly
<1>4. c.count # 0 /\ c.latest.seq = c.lastAcq
  BY <1>2, <1>3 DEF Unselected
<1>5. c.count \in Nat
  BY RecorderFields
<1> QED
  BY <1>2, <1>4, <1>5

Ending(c, a, why, elapsed) ==
    /\ why \in {"complete", "duration_limit"} /\ elapsed \in 0..MaxDuration
    /\ why = "duration_limit" <=> elapsed = MaxDuration
    /\ a # <<>> => c.latest.ms <= elapsed

LEMMA FinishRunSound ==
    ASSUME NEW c \in Recorder, NEW f \in CsvFile, NEW a \in Seq(Acquired), NEW why, NEW elapsed,
           Nearly(c, f, a), Accounts(f, a), Ending(c, a, why, elapsed),
           NEW o \in FinishRun(c, f, why, elapsed)
    PROVE  Sound(o.rec, o.file, a)
<1>0. Stands(c, f) /\ Paced(c, f)
  BY DEF Nearly
<1>1. elapsed \in Nat /\ MaxDuration \in Nat /\ c.lastMs \in Nat /\ c.latest.ms \in Nat /\ c.count \in Nat
  BY CsvAssumption, RecorderFields DEF Ending
<1>2. CASE ~Unselected(c)
  <2>1. o \in EndRun(c, f, why, elapsed)
    BY <1>2 DEF FinishRun
  <2>2. a # <<>> => a[Len(a)].ms <= elapsed
    BY DEF Nearly, Ordered, Ending
  <2>3. c.count > 0 => a # <<>> /\ c.lastMs <= c.latest.ms
    BY DEF Nearly, Ordered
  <2>4. c.count > 0 => c.lastMs <= elapsed
    BY <1>1, <2>3 DEF Ending
  <2>5. Closing(c, a, why, elapsed)
    BY <2>2, <2>4 DEF Closing, Ending
  <2> QED
    BY <1>0, <1>2, <2>1, <2>5, NothingToSelect, EndRunSound
<1>3. CASE Unselected(c)
  <2>1. a # <<>>
    BY <1>3 DEF Unselected, Nearly, Ordered
  <2>2. PICK p \in LogRow(c, f, c.latest, TRUE) :
            IF p.ok THEN o \in EndRun(p.rec, p.file, why, elapsed) ELSE o = p
    BY <1>3 DEF FinishRun
  <2>3. \/ ~p.ok /\ Sound(p.rec, p.file, a)
        \/ p.ok /\ Logged(c, p.rec, p.file, TRUE) /\ Accounts(p.file, a)
    BY <2>1, LogRowOutcomes
  <2>4. CASE ~p.ok /\ Sound(p.rec, p.file, a)
    BY <2>2, <2>4
  <2>5. CASE p.ok /\ Logged(c, p.rec, p.file, TRUE) /\ Accounts(p.file, a)
    <3>1. PICK d, g : d = p.rec /\ g = p.file
      OBVIOUS
    <3>2. o \in EndRun(d, g, why, elapsed)
      BY <2>2, <2>5, <3>1
    <3>3. d \in Recorder /\ g \in CsvFile /\ Stands(d, g) /\ Accounts(g, a)
      BY <2>5, <3>1 DEF Logged, Logs
    <3>4. d.lastAcq = c.latest.seq /\ d.lastMs = c.latest.ms /\ d.count = c.count + 1
      BY <2>5, <3>1 DEF Logged, Logs
    <3>5. c.latest = a[Len(a)]
      BY <2>1 DEF Nearly, Ordered
    <3>6. LastIsLogged(d, a)
      BY <1>1, <3>4, <3>5 DEF LastIsLogged
    <3>7. Closing(d, a, why, elapsed)
      BY <2>1, <3>4, <3>5 DEF Closing, Ending
    <3> QED
      BY <3>2, <3>3, <3>6, <3>7, EndRunSound
  <2> QED
    BY <2>3, <2>4, <2>5
<1> QED
  BY <1>2, <1>3

-----------------------------------------------------------------------------
(* One acquisition more. *)
More(a, b, s) ==
    /\ a \in Seq(Acquired) /\ s \in Acquired /\ b = Append(a, s)

LEMMA MoreAcquisitions ==
    ASSUME NEW a, NEW b, NEW s, More(a, b, s)
    PROVE  /\ b \in Seq(Acquired) /\ Len(a) \in Nat /\ Len(b) = Len(a) + 1
           /\ b # <<>> /\ b[Len(b)] = s
           /\ \A i \in 1..Len(a) : b[i] = a[i]
           /\ \A i \in (1..Len(a)) \ {1} : b[i - 1] = a[i - 1]
<1>1. /\ b \in Seq(Acquired) /\ Len(a) \in Nat /\ Len(b) = Len(a) + 1
      /\ b[Len(b)] = s /\ \A i \in 1..Len(a) : b[i] = a[i]
  BY DEF More
<1>2. b # <<>>
  BY <1>1
<1>3. \A i \in (1..Len(a)) \ {1} : i - 1 \in 1..Len(a)
  BY <1>1
<1> QED
  BY <1>1, <1>2, <1>3

LEMMA HolesStay ==
    ASSUME NEW a, NEW b, NEW s, More(a, b, s), NEW i \in (1..Len(a)) \ {1}
    PROVE  HoleIn(b, i) <=> HoleIn(a, i)
<1>1. b[i] = a[i] /\ b[i - 1] = a[i - 1]
  BY MoreAcquisitions
<1> QED
  BY <1>1, Zenon DEF HoleIn

LEMMA ToldStill ==
    ASSUME NEW a, NEW b, NEW s, More(a, b, s), NEW f, NEW k,
           f.lines[k].acqSeq \in Nat, f.lines[k].acqSeq < s.seq, Told(f, k, a)
    PROVE  Told(f, k, b)
<1> DEFINE upto == f.lines[k].acqSeq
           W == Window(a, From(f, k), upto)
<1>1. s.seq \in Nat
  BY DEF More, Acquired, Sampled
<1>2. \A i \in 1..Len(b) : i \in 1..Len(a) \/ i = Len(b)
  BY MoreAcquisitions
<1>3. \A i \in 1..Len(a) : i \in 1..Len(b) /\ b[i] = a[i]
  BY MoreAcquisitions
<1>4. ~(b[Len(b)].seq <= upto)
  BY <1>1, MoreAcquisitions
<1>5. Window(b, From(f, k), upto) = W
  BY <1>2, <1>3, <1>4 DEF Window
<1>6. \A i \in W : b[i] = a[i] /\ i \in 1..Len(a)
  BY <1>3 DEF Window
<1>7. \A i \in W \ {1} : HoleIn(b, i) <=> HoleIn(a, i)
  BY <1>6, HolesStay
<1> HIDE DEF W
<1>8. \E i \in W : b[i].seq = upto /\ b[i].ms = f.lines[k].ms
  BY <1>6 DEF Told, W
<1>9. f.lines[k].intervalFault <=> \E i \in W : b[i].fault
  <2>1. f.lines[k].intervalFault <=> \E i \in W : a[i].fault
    BY Zenon DEF Told, W
  <2> QED
    BY <1>6, <2>1, Zenon
<1>10. f.lines[k].gap <=> \E i \in W \ {1} : HoleIn(b, i)
  <2>1. f.lines[k].gap <=> \E i \in W \ {1} : HoleIn(a, i)
    BY Zenon DEF Told, W
  <2> QED
    BY <1>7, <2>1, Zenon
<1>11. /\ k > 2 /\ ~f.lines[k].terminal => f.lines[k].ms - f.lines[k - 1].ms >= LogInterval
  BY DEF Told
<1>12. k > 2 => \A i \in W : b[i].ms - f.lines[k - 1].ms >= LogInterval => b[i].seq = upto
  BY <1>6 DEF Told, W
<1> QED
  BY <1>5, <1>8, <1>9, <1>10, <1>11, <1>12, Zenon DEF Told

LEMMA AccountsStill ==
    ASSUME NEW a, NEW b, NEW s, More(a, b, s), NEW f \in CsvFile, NEW c \in Recorder,
           Paced(c, f), c.lastAcq < s.seq, Accounts(f, a)
    PROVE  Accounts(f, b)
<1> SUFFICES ASSUME NEW k \in 2..Len(f.lines), f.lines[k].kind = "row" PROVE Told(f, k, b)
  BY DEF Accounts
<1>1. k \in 1..Len(f.lines)
  BY FileFields
<1>2. f.lines[k].acqSeq \in Nat
  BY <1>1, FileFields, LineFields
<1>3. f.lines[k].acqSeq <= c.lastAcq
  BY DEF Paced
<1>4. s.seq \in Nat /\ c.lastAcq \in Nat
  BY RecorderFields DEF More, Acquired, Sampled
<1>5. f.lines[k].acqSeq < s.seq
  BY <1>2, <1>3, <1>4
<1> QED
  BY <1>2, <1>5, ToldStill DEF Accounts

(* The recorder that has noted an acquisition. *)
Notes(c, d, s) ==
    /\ d \in Recorder /\ d.latest = s
    /\ d.recording = c.recording /\ d.hasRun = c.hasRun /\ d.runId = c.runId
    /\ d.valid = c.valid /\ d.count = c.count /\ d.lastAcq = c.lastAcq /\ d.lastMs = c.lastMs
NotesFlags(c, d, s) ==
    /\ d.fault <=> c.fault \/ s.fault
    /\ d.gap <=> c.gap \/ IsGap(c, s)

LEMMA NotedNotes ==
    ASSUME NEW c \in Recorder, NEW s \in Sampled
    PROVE  Notes(c, Noted(c, s), s) /\ NotesFlags(c, Noted(c, s), s)
<1>1. PICK p \in BOOLEAN : p = (c.fault \/ s.fault)
  BY Zenon DEF Recorder, Sampled
<1>2. PICK q \in BOOLEAN : q = (c.gap \/ IsGap(c, s))
  BY Zenon
<1>3. PICK d : d = [c EXCEPT !.fault = p, !.gap = q, !.latest = s]
  OBVIOUS
<1>4. Notes(c, d, s)
  BY ONLY <1>3, c \in Recorder, s \in Sampled, p \in BOOLEAN, q \in BOOLEAN DEF Recorder, Notes
<1>5. d.fault = p /\ d.gap = q
  BY ONLY <1>3, c \in Recorder, s \in Sampled, p \in BOOLEAN, q \in BOOLEAN DEF Recorder
<1>6. NotesFlags(c, d, s)
  BY <1>1, <1>2, <1>5, Zenon DEF NotesFlags
<1>7. d = Noted(c, s)
  BY <1>1, <1>2, <1>3, Zenon DEF Noted
<1> QED
  BY <1>4, <1>6, <1>7

LEMMA InOrderIsLater ==
    ASSUME NEW c \in Recorder, NEW a, NEW b, NEW s, More(a, b, s), Ordered(c, a), InOrder(c, s)
    PROVE  /\ c.lastAcq < s.seq
           /\ a # <<>> => c.latest.seq < s.seq /\ c.latest.ms < s.ms
           /\ c.count > 0 => c.lastMs < s.ms
<1>1. s.seq \in Nat /\ s.seq # 0 /\ s.ms \in Nat
  BY DEF More, Acquired, Sampled
<1>2. c.lastAcq \in Nat /\ c.lastMs \in Nat /\ c.latest.seq \in Nat /\ c.latest.ms \in Nat
  BY RecorderFields
<1>3. a # <<>> => c.latest.seq < s.seq /\ c.latest.ms < s.ms
  BY <1>1, <1>2 DEF Ordered, InOrder
<1>4. c.lastAcq <= c.latest.seq /\ (a = <<>> => c.latest.seq = 0)
  BY DEF Ordered
<1>5. c.count > 0 => a # <<>> /\ c.lastMs <= c.latest.ms
  BY DEF Ordered
<1> QED
  BY <1>1, <1>2, <1>3, <1>4, <1>5

LEMMA NotedOrdered ==
    ASSUME NEW c \in Recorder, NEW a, NEW b, NEW s, More(a, b, s), Ordered(c, a), InOrder(c, s),
           NEW d, Notes(c, d, s)
    PROVE  Ordered(d, b)
<1>1. s.seq \in Nat /\ s.seq # 0 /\ s.ms \in Nat
  BY DEF More, Acquired, Sampled
<1>2. c.lastAcq \in Nat /\ c.lastMs \in Nat /\ c.latest.seq \in Nat /\ c.latest.ms \in Nat
  BY RecorderFields
<1>3. d.latest = s /\ d.count = c.count /\ d.lastAcq = c.lastAcq /\ d.lastMs = c.lastMs
  BY DEF Notes
<1>4. ASSUME NEW i \in 1..Len(b), NEW j \in 1..Len(b), i < j
      PROVE  b[i].seq < b[j].seq /\ b[i].ms < b[j].ms
  <2>1. i \in 1..Len(a) /\ b[i] = a[i] /\ a \in Seq(Acquired)
    BY <1>4, MoreAcquisitions DEF More
  <2>2. a[i].seq \in Nat /\ a[i].ms \in Nat
    BY <2>1, Acquisitions
  <2>3. CASE j \in 1..Len(a)
    <3>1. b[j] = a[j]
      BY <2>3, MoreAcquisitions
    <3> QED
      BY <1>4, <2>1, <2>3, <3>1 DEF Ordered
  <2>4. CASE j = Len(b)
    <3>1. b[j] = s
      BY <2>4, MoreAcquisitions
    <3>2. a # <<>> /\ Len(a) \in 1..Len(a) /\ c.latest = a[Len(a)]
      BY <2>1, Acquisitions DEF Ordered
    <3>3. a[i].seq <= c.latest.seq /\ a[i].ms <= c.latest.ms
      <4>1. CASE i = Len(a)
        BY <2>2, <3>2, <4>1
      <4>2. CASE i < Len(a)
        <5>1. a[i].seq < c.latest.seq /\ a[i].ms < c.latest.ms
          BY <2>1, <3>2, <4>2 DEF Ordered
        <5> QED
          BY <1>2, <2>2, <5>1
      <4>3. Len(a) \in Nat
        BY <2>1, Acquisitions
      <4> QED
        BY <2>1, <4>1, <4>2, <4>3
    <3>4. c.latest.seq < s.seq /\ c.latest.ms < s.ms
      BY <3>2, InOrderIsLater
    <3>5. a[i].seq < s.seq
      BY <1>1, <1>2, <2>2, <3>3, <3>4
    <3>6. a[i].ms < s.ms
      BY <1>1, <1>2, <2>2, <3>3, <3>4
    <3> QED
      BY <2>1, <3>1, <3>5, <3>6
  <2>5. j \in 1..Len(a) \/ j = Len(b)
    BY MoreAcquisitions
  <2> QED
    BY <2>3, <2>4, <2>5
<1>5. b # <<>> /\ d.latest = b[Len(b)] /\ d.latest.seq # 0
  BY <1>1, <1>3, MoreAcquisitions
<1>6. d.lastAcq <= d.latest.seq
  BY <1>1, <1>2, <1>3, InOrderIsLater
<1>7. d.count > 0 => d.lastMs <= d.latest.ms /\ d.lastMs < d.latest.ms
  BY <1>1, <1>2, <1>3, InOrderIsLater
<1> QED
  BY <1>4, <1>5, <1>6, <1>7 DEF Ordered

LEMMA NotedPending ==
    ASSUME NEW c \in Recorder, NEW a, NEW b, NEW s, More(a, b, s), Ordered(c, a), InOrder(c, s),
           NEW d, Notes(c, d, s)
    PROVE  Pending(b, d) = Pending(a, c) \cup {Len(b)}
<1>1. d.lastAcq = c.lastAcq /\ c.lastAcq < s.seq
  BY InOrderIsLater DEF Notes
<1>2. s.seq \in Nat /\ c.lastAcq \in Nat
  BY RecorderFields DEF More, Acquired, Sampled
<1>3. s.seq > c.lastAcq
  BY <1>1, <1>2
<1>4. /\ \A i \in 1..Len(b) : i \in 1..Len(a) \/ i = Len(b)
      /\ \A i \in 1..Len(a) : i \in 1..Len(b) /\ b[i] = a[i]
      /\ Len(b) \in 1..Len(b) /\ b[Len(b)] = s
  BY MoreAcquisitions
<1> QED
  BY <1>1, <1>3, <1>4 DEF Pending

LEMMA NotedFlagged ==
    ASSUME NEW c \in Recorder, NEW a, NEW b, NEW s, More(a, b, s), Ordered(c, a), InOrder(c, s),
           Flagged(c, a), NEW d, Notes(c, d, s), NotesFlags(c, d, s)
    PROVE  Flagged(d, b)
<1> DEFINE P == Pending(a, c)
<1>1. Pending(b, d) = P \cup {Len(b)}
  BY NotedPending
<1>2. \A i \in P : i \in 1..Len(a) /\ b[i] = a[i]
  BY MoreAcquisitions DEF Pending
<1>3. b[Len(b)] = s
  BY MoreAcquisitions
<1>4. \A i \in P \ {1} : HoleIn(b, i) <=> HoleIn(a, i)
  BY <1>2, HolesStay
<1>5. (Len(b) # 1 /\ HoleIn(b, Len(b))) <=> IsGap(c, s)
  <2>1. CASE a = <<>>
    <3>1. Len(b) = 1
      <4>1. Len(a) = 0
        BY <2>1
      <4>2. Len(b) = Len(a) + 1
        BY MoreAcquisitions
      <4> QED
        BY <4>1, <4>2
    <3>2. c.latest.seq = 0
      BY <2>1 DEF Ordered
    <3> QED
      BY <3>1, <3>2 DEF IsGap
  <2>2. CASE a # <<>>
    <3>1. a \in Seq(Acquired)
      BY DEF More
    <3>2. Len(a) \in 1..Len(a) /\ Len(a) \in Nat
      BY <2>2, <3>1, Acquisitions
    <3>3. Len(b) # 1 /\ Len(b) - 1 = Len(a) /\ b[Len(a)] = a[Len(a)]
      BY <3>2, MoreAcquisitions
    <3>4. c.latest = a[Len(a)] /\ c.latest.seq # 0
      BY <2>2 DEF Ordered
    <3>5. HoleIn(b, Len(b)) <=> \/ s.seq # c.latest.seq + 1
                               \/ s.ms - c.latest.ms > AcquireInterval + AcquireInterval \div 2
      BY <1>3, <3>3, <3>4, Zenon DEF HoleIn
    <3> QED
      BY <3>3, <3>4, <3>5, Zenon DEF IsGap
  <2> QED
    BY <2>1, <2>2
<1> HIDE DEF P
<1>6. d.fault <=> \E i \in P \cup {Len(b)} : b[i].fault
  <2>1. c.fault <=> \E i \in P : a[i].fault
    BY Zenon DEF Flagged, P
  <2>2. (\E i \in P \cup {Len(b)} : b[i].fault) <=> (\E i \in P : a[i].fault) \/ s.fault
    BY <1>2, <1>3, Zenon
  <2> QED
    BY <2>1, <2>2, Zenon DEF NotesFlags
<1>7. d.gap <=> \E i \in (P \cup {Len(b)}) \ {1} : HoleIn(b, i)
  <2>1. c.gap <=> \E i \in P \ {1} : HoleIn(a, i)
    BY Zenon DEF Flagged, P
  <2>2. (\E i \in (P \cup {Len(b)}) \ {1} : HoleIn(b, i))
          <=> (\E i \in P \ {1} : HoleIn(a, i)) \/ (Len(b) # 1 /\ HoleIn(b, Len(b)))
    BY <1>4, Zenon
  <2> QED
    BY <1>5, <2>1, <2>2, Zenon DEF NotesFlags
<1> QED
  BY <1>1, <1>6, <1>7, Zenon DEF Flagged

LEMMA NotedNearly ==
    ASSUME NEW c \in Recorder, NEW f, NEW a, NEW b, NEW s, More(a, b, s), Live(c, f, a), InOrder(c, s),
           NEW d, Notes(c, d, s), NotesFlags(c, d, s)
    PROVE  Nearly(d, f, b)
<1>1. Stands(c, f) /\ Paced(c, f) /\ Ordered(c, a) /\ Flagged(c, a)
  BY DEF Live, Nearly
<1>2. d.hasRun = c.hasRun /\ d.runId = c.runId /\ d.valid = c.valid /\ d.count = c.count
      /\ d.lastAcq = c.lastAcq /\ d.lastMs = c.lastMs
  BY DEF Notes
<1>3. Stands(d, f)
  BY <1>1, <1>2 DEF Stands
<1>4. Paced(d, f)
  BY <1>1, <1>2 DEF Paced
<1>5. Ordered(d, b) /\ Flagged(d, b)
  BY <1>1, NotedOrdered, NotedFlagged
<1>6. ASSUME NEW i \in Pending(b, d), i # Len(b) PROVE Passed(d, b, i)
  <2>1. i \in Pending(a, c)
    BY <1>1, <1>6, NotedPending
  <2>2. b[i] = a[i]
    BY <2>1, MoreAcquisitions DEF Pending
  <2> QED
    BY <1>2, <2>1, <2>2 DEF Live, Passed
<1> QED
  BY <1>3, <1>4, <1>5, <1>6 DEF Nearly

-----------------------------------------------------------------------------
(* The recorder goes on recording. *)
LEMMA LiveIsSound ==
    ASSUME NEW c \in Recorder, NEW f \in CsvFile, NEW a \in Seq(Acquired), Live(c, f, a), Accounts(f, a)
    PROVE  Sound(c, f, a)
<1>1. Stands(c, f)
  BY DEF Live, Nearly
<1>2. Saved(f, a)
  BY <1>1, OpeningOrEnded DEF Stands, Saved, Counts
<1> QED
  BY <1>1, <1>2, ReportsOpening DEF Sound, Shaped

LEMMA LoggedIsLive ==
    ASSUME NEW c \in Recorder, NEW f, NEW a \in Seq(Acquired), Nearly(c, f, a), a # <<>>, Due(c),
           NEW d, NEW g, Logged(c, d, g, FALSE)
    PROVE  Live(d, g, a)
<1>1. d \in Recorder /\ g \in CsvFile /\ Stands(d, g)
  BY DEF Logged, Logs
<1>2. /\ d.latest = c.latest /\ d.count = c.count + 1
      /\ d.lastAcq = c.latest.seq /\ d.lastMs = c.latest.ms
  BY DEF Logged, Logs
<1>3. PICK m \in Nat : m = c.count
  BY RecorderFields
<1>4. c.latest = a[Len(a)] /\ Len(a) \in 1..Len(a)
  BY Acquisitions DEF Nearly, Ordered
<1>5. c.latest.seq \in Nat /\ c.latest.ms \in Nat /\ c.latest.ms <= MaxDuration /\ c.latest.seq # 0
  BY <1>4, Acquisitions
<1>6. c.latest.ms >= m * LogInterval
  <2>1. CASE m = 0
    BY <1>5, <2>1, CsvAssumption
  <2>2. CASE m > 0
    <3>1. PICK k \in Nat : k + 1 = m
      <4>1. m - 1 \in Nat /\ (m - 1) + 1 = m
        BY <2>2
      <4> QED
        BY <4>1
    <3>2. c.lastMs >= k * LogInterval
      <4>1. c.count - 1 = k
        BY <1>3, <3>1
      <4> QED
        BY <1>3, <2>2, <4>1 DEF Nearly, Paced
    <3>3. c.latest.ms - c.lastMs >= LogInterval
      BY <1>3, <2>2 DEF Due
    <3>4. LogInterval \in Nat /\ c.lastMs \in Nat
      BY CsvAssumption, RecorderFields
    <3>5. PICK p \in Nat : p = k * LogInterval
      BY <3>4
    <3>6. m * LogInterval = p + LogInterval
      BY <3>1, <3>4, <3>5
    <3> QED
      BY <1>5, <3>2, <3>3, <3>4, <3>5, <3>6
  <2> QED
    BY <2>1, <2>2
<1>7. Paced(d, g)
  <2>1. d.count - 1 = m /\ d.lastMs = c.latest.ms
    BY <1>2, <1>3
  <2>2. ~g.lines[Len(g.lines)].terminal
    BY DEF Logged
  <2>3. \A k \in 2..Len(g.lines) : g.lines[k].acqSeq <= d.lastAcq
    BY DEF Logged
  <2> QED
    BY <1>5, <1>6, <2>1, <2>2, <2>3 DEF Paced
<1>8. Ordered(d, a)
  BY <1>2, <1>5 DEF Nearly, Ordered
<1>9. Pending(a, d) = {}
  <2> SUFFICES ASSUME NEW i \in 1..Len(a), a[i].seq > d.lastAcq PROVE FALSE
    BY DEF Pending
  <2>1. a[i].seq \in Nat
    BY Acquisitions
  <2>2. CASE i = Len(a)
    BY <1>2, <1>4, <2>1, <2>2
  <2>3. CASE i < Len(a)
    <3>1. a[i].seq < c.latest.seq
      BY <1>4, <2>3 DEF Nearly, Ordered
    <3> QED
      BY <1>2, <1>5, <2>1, <3>1
  <2>4. i < Len(a) \/ i = Len(a)
    BY Acquisitions
  <2> QED
    BY <2>2, <2>3, <2>4
<1>10. Flagged(d, a)
  BY <1>9, Zenon DEF Flagged, Logged
<1> QED
  BY <1>1, <1>7, <1>8, <1>9, <1>10 DEF Live, Nearly

(* onSample() *)
LEMMA StopsOnFile ==
    ASSUME NEW c \in Recorder, NEW f \in CsvFile, NEW a \in Seq(Acquired), Stands(c, f), Accounts(f, a)
    PROVE  Sound(FailStop(c), f, a)
<1>1. f \in HalfWrote(f)
  BY DEF HalfWrote
<1> QED
  BY <1>1, FailStopStill, StoppedOnOpening

LEMMA LogRowSound ==
    ASSUME NEW c \in Recorder, NEW f \in CsvFile, NEW a \in Seq(Acquired), Nearly(c, f, a), Accounts(f, a),
           a # <<>>, Due(c), NEW o \in LogRow(c, f, c.latest, FALSE)
    PROVE  Sound(o.rec, o.file, a)
<1>1. \/ ~o.ok /\ Sound(o.rec, o.file, a)
      \/ o.ok /\ Logged(c, o.rec, o.file, FALSE) /\ Accounts(o.file, a)
  BY LogRowOutcomes
<1>2. CASE Logged(c, o.rec, o.file, FALSE) /\ Accounts(o.file, a)
  <2>1. o.rec \in Recorder /\ o.file \in CsvFile
    BY <1>2 DEF Logged, Logs
  <2> QED
    BY <1>2, <2>1, LoggedIsLive, LiveIsSound
<1> QED
  BY <1>1, <1>2

LEMMA SampleConsumed ==
    ASSUME NEW c \in Recorder, NEW f \in CsvFile, NEW a, NEW b, NEW s, More(a, b, s),
           Live(c, f, a), Accounts(f, a), InOrder(c, s), c.recording, s.runId = c.runId,
           NEW o \in OnSample(c, f, s)
    PROVE  Sound(o.rec, o.file, b)
<1>1. PICK d : d = Noted(c, s)
  OBVIOUS
<1>2. s \in Sampled /\ s.ms \in Nat /\ s.ms <= MaxDuration /\ MaxDuration \in Nat /\ LogInterval \in Nat
  BY CsvAssumption DEF More, Acquired, Sampled
<1>3. Notes(c, d, s) /\ NotesFlags(c, d, s)
  BY <1>1, <1>2, NotedNotes
<1>4. d \in Recorder /\ d.latest = s /\ d.count = c.count /\ d.lastMs = c.lastMs
  BY <1>3 DEF Notes
<1>5. Nearly(d, f, b)
  BY <1>3, NotedNearly
<1>6. b \in Seq(Acquired) /\ b # <<>> /\ b[Len(b)] = s
  BY MoreAcquisitions
<1>7. Accounts(f, b)
  BY AccountsStill, InOrderIsLater DEF Live, Nearly
<1>7a. ~(s.ms > MaxDuration)
  BY <1>2
<1>8. CASE s.ms = MaxDuration
  <2>1. o \in FinishRun(d, f, "duration_limit", MaxDuration)
    BY <1>1, <1>2, <1>8 DEF OnSample
  <2>2. Ending(d, b, "duration_limit", MaxDuration)
    BY <1>2, <1>4 DEF Ending
  <2> QED
    BY <1>4, <1>5, <1>6, <1>7, <2>1, <2>2, FinishRunSound
<1>9. CASE s.ms # MaxDuration /\ (c.count = 0 \/ s.ms - c.lastMs >= LogInterval)
  <2>1. o \in LogRow(d, f, s, FALSE)
    BY <1>1, <1>7a, <1>9, Zenon DEF OnSample
  <2>2. Due(d)
    BY <1>4, <1>9 DEF Due
  <2> QED
    BY <1>4, <1>5, <1>6, <1>7, <2>1, <2>2, LogRowSound
<1>10. CASE s.ms # MaxDuration /\ ~(c.count = 0 \/ s.ms - c.lastMs >= LogInterval)
  <2>1. o = Outcome(d, f, TRUE)
    BY <1>1, <1>7a, <1>10, Zenon DEF OnSample
  <2>2. o.rec = d /\ o.file = f
    BY <2>1, Zenon DEF Outcome
  <2>3. c.count \in Nat /\ c.lastMs \in Nat
    BY RecorderFields
  <2>4. Passed(d, b, Len(b))
    BY <1>2, <1>4, <1>6, <1>10, <2>3 DEF Passed
  <2>5. Live(d, f, b)
    BY <1>5, <2>4 DEF Live, Nearly
  <2> QED
    BY <1>4, <1>6, <1>7, <2>2, <2>5, LiveIsSound
<1> QED
  BY <1>8, <1>9, <1>10

LEMMA SampleNotConsumed ==
    ASSUME NEW c, NEW f, NEW a, Sound(c, f, a), NEW s \in Sampled,
           ~(c.recording /\ s.runId = c.runId /\ s.ms <= MaxDuration /\ InOrder(c, s)),
           NEW o \in OnSample(c, f, s)
    PROVE  Sound(o.rec, o.file, a)
<1>1. c \in Recorder /\ a \in Seq(Acquired)
  BY DEF Sound, Shaped
<1>2. CASE ~(c.recording /\ s.runId = c.runId)
  <2>1. o = Outcome(c, f, FALSE)
    BY <1>2 DEF OnSample
  <2>2. o.rec = c /\ o.file = f
    BY <2>1, Zenon DEF Outcome
  <2> QED
    BY <2>2
<1>3. CASE c.recording /\ s.runId = c.runId
  <2>1. Live(c, f, a) /\ f # NoFile /\ Stands(c, f)
    BY <1>3 DEF Sound, Live, Nearly, Stands
  <2>2. f \in CsvFile /\ Accounts(f, a)
    BY <2>1 DEF Sound, Shaped, Saved
  <2>3. s.ms \in Nat /\ MaxDuration \in Nat
    BY CsvAssumption DEF Sampled
  <2>4. CASE s.ms > MaxDuration
    <3>1. o \in FinishRun(c, f, "duration_limit", MaxDuration)
      BY <1>3, <2>4 DEF OnSample
    <3>2. a # <<>> => c.latest.ms <= MaxDuration
      BY <1>1, <2>1, Acquisitions DEF Live, Nearly, Ordered
    <3>3. Ending(c, a, "duration_limit", MaxDuration)
      BY <2>3, <3>2 DEF Ending
    <3> QED
      BY <1>1, <2>1, <2>2, <3>1, <3>3, FinishRunSound DEF Live
  <2>5. CASE ~(s.ms > MaxDuration)
    <3>1. ~InOrder(c, s)
      BY <1>3, <2>3, <2>5
    <3>2. o = Outcome(FailStop(c), f, FALSE)
      BY <1>3, <2>5, <3>1 DEF OnSample
    <3>3. o.rec = FailStop(c) /\ o.file = f
      BY <3>2, Zenon DEF Outcome
    <3> QED
      BY <1>1, <2>1, <2>2, <3>3, StopsOnFile
  <2> QED
    BY <2>4, <2>5
<1> QED
  BY <1>2, <1>3

(* stop(elapsedMs) *)
LEMMA StopRunSound ==
    ASSUME NEW c, NEW f, NEW a, Sound(c, f, a), NEW elapsed \in Nat, NEW o \in StopRun(c, f, elapsed)
    PROVE  Sound(o.rec, o.file, a)
<1>1. c \in Recorder /\ a \in Seq(Acquired)
  BY DEF Sound, Shaped
<1>2. CASE ~c.recording
  <2>1. o = Outcome(c, f, FALSE)
    BY <1>2 DEF StopRun
  <2>2. o.rec = c /\ o.file = f
    BY <2>1, Zenon DEF Outcome
  <2> QED
    BY <2>2
<1>3. CASE c.recording
  <2>1. Live(c, f, a) /\ f # NoFile /\ Stands(c, f)
    BY <1>3 DEF Sound, Live, Nearly, Stands
  <2>2. f \in CsvFile /\ Accounts(f, a)
    BY <2>1 DEF Sound, Shaped, Saved
  <2>3. MaxDuration \in Nat /\ c.latest.ms \in Nat /\ (a # <<>> => c.latest.seq # 0)
    BY <1>1, <2>1, CsvAssumption, RecorderFields DEF Live, Nearly, Ordered
  <2>4. a # <<>> => c.latest.ms <= MaxDuration
    BY <1>1, <2>1, Acquisitions DEF Live, Nearly, Ordered
  <2>5. CASE c.latest.seq # 0 /\ elapsed < c.latest.ms
    <3>1. o = Outcome(FailStop(c), f, FALSE)
      BY <1>3, <2>5 DEF StopRun
    <3>2. o.rec = FailStop(c) /\ o.file = f
      BY <3>1, Zenon DEF Outcome
    <3> QED
      BY <1>1, <2>1, <2>2, <3>2, StopsOnFile
  <2>6. CASE ~(c.latest.seq # 0 /\ elapsed < c.latest.ms) /\ elapsed >= MaxDuration
    <3>1. o \in FinishRun(c, f, "duration_limit", MaxDuration)
      BY <1>3, <2>6 DEF StopRun
    <3>2. Ending(c, a, "duration_limit", MaxDuration)
      BY <2>3, <2>4 DEF Ending
    <3> QED
      BY <1>1, <2>1, <2>2, <3>1, <3>2, FinishRunSound DEF Live
  <2>7. CASE ~(c.latest.seq # 0 /\ elapsed < c.latest.ms) /\ ~(elapsed >= MaxDuration)
    <3>1. o \in FinishRun(c, f, "complete", elapsed)
      BY <1>3, <2>7 DEF StopRun
    <3>2. Ending(c, a, "complete", elapsed)
      BY <2>3, <2>7 DEF Ending
    <3> QED
      BY <1>1, <2>1, <2>2, <3>1, <3>2, FinishRunSound DEF Live
  <2> QED
    BY <2>5, <2>6, <2>7
<1> QED
  BY <1>2, <1>3

-----------------------------------------------------------------------------
(* The calls that do not record. *)
LEMMA StillSound ==
    ASSUME NEW c, NEW f, NEW a, Sound(c, f, a), NEW d, Still(c, d)
    PROVE  Sound(d, f, a)
<1>1. d \in Recorder /\ ~d.recording
  BY DEF Still
<1>2. d.hasRun /\ d.runId # 0 => Reports(d, f)
  BY DEF Still, Sound, Reports
<1> QED
  BY <1>1, <1>2 DEF Sound, Shaped

(* A recorder that reports no run makes no claim about the file. *)
Silent(d) == d \in Recorder /\ ~d.recording /\ ~(d.hasRun /\ d.runId # 0)

LEMMA SilentSound ==
    ASSUME NEW c, NEW f, NEW a, Sound(c, f, a), NEW d, Silent(d)
    PROVE  Sound(d, f, a)
BY DEF Sound, Shaped, Silent

LEMMA SilentWithoutFile ==
    ASSUME NEW d, Silent(d), NEW a \in Seq(Acquired)
    PROVE  Sound(d, NoFile, a)
BY DEF Sound, Shaped, Silent

LEMMA ErrorStill ==
    ASSUME NEW c \in Recorder, ~c.recording
    PROVE  Still(c, [c EXCEPT !.error = TRUE, !.state = "error"])
<1>1. PICK t \in BOOLEAN : t = TRUE
  OBVIOUS
<1>2. PICK d : d = [c EXCEPT !.error = t, !.state = "error"]
  OBVIOUS
<1>3. /\ d \in Recorder /\ d.hasRun = c.hasRun /\ d.runId = c.runId /\ d.valid = c.valid
      /\ d.count = c.count /\ d.recording = c.recording
  BY ONLY <1>2, c \in Recorder, t \in BOOLEAN DEF Recorder
<1> QED
  BY <1>1, <1>2, <1>3 DEF Still

LEMMA FreshFields ==
    ASSUME NEW c \in Recorder
    PROVE  /\ Fresh(c) \in Recorder /\ Fresh(c).runId = 0
           /\ Fresh(c).count = 0 /\ Fresh(c).valid = 0 /\ Fresh(c).lastAcq = 0 /\ Fresh(c).lastMs = 0
           /\ Fresh(c).latest.seq = 0 /\ ~Fresh(c).fault /\ ~Fresh(c).gap
           /\ Fresh(c).recording = c.recording /\ Fresh(c).hasRun = c.hasRun
<1>1. PICK n \in BOOLEAN : n = FALSE
  OBVIOUS
<1>2. PICK s : s = [runId |-> 0, seq |-> 0, ms |-> 0, fault |-> n]
  OBVIOUS
<1>3. s \in Sampled /\ s.seq = 0
  BY <1>2 DEF Sampled
<1>4. PICK v : v = [c EXCEPT !.runId = 0, !.count = 0, !.valid = 0, !.lastAcq = 0, !.lastMs = 0]
  OBVIOUS
<1>4a. v \in Recorder
  BY ONLY <1>4, c \in Recorder DEF Recorder
<1>4b. /\ v.runId = 0 /\ v.count = 0 /\ v.valid = 0 /\ v.lastAcq = 0 /\ v.lastMs = 0
       /\ v.recording = c.recording /\ v.hasRun = c.hasRun
  BY ONLY <1>4, c \in Recorder DEF Recorder
<1>5. PICK d : d = [v EXCEPT !.latest = s, !.fault = n, !.gap = n, !.error = n, !.state = "idle"]
  OBVIOUS
<1>5a. d \in Recorder
  BY ONLY <1>3, <1>4a, <1>5, n \in BOOLEAN DEF Recorder
<1>6. /\ d.runId = 0 /\ d.count = 0 /\ d.valid = 0 /\ d.lastAcq = 0 /\ d.lastMs = 0
      /\ d.latest = s /\ d.fault = n /\ d.gap = n
      /\ d.recording = c.recording /\ d.hasRun = c.hasRun
  BY ONLY <1>4a, <1>4b, <1>5 DEF Recorder
<1>7. d = Fresh(c)
  BY <1>1, <1>2, <1>4, <1>5, Zenon DEF Fresh, NoSample
<1>8. ~d.fault /\ ~d.gap
  BY <1>1, <1>6
<1> QED
  BY <1>3, <1>5a, <1>6, <1>7, <1>8

LEMMA UnmountedSilent == Silent(Unmounted)
<1>1. PICK n \in BOOLEAN : n = FALSE
  OBVIOUS
<1>2. PICK s : s = [runId |-> 0, seq |-> 0, ms |-> 0, fault |-> n]
  OBVIOUS
<1>3. s \in Sampled
  BY <1>2 DEF Sampled
<1>4. PICK d : d = [mounted |-> n, hasRun |-> n, recording |-> n, reader |-> n,
                    sent |-> 0, runId |-> 0, count |-> 0, valid |-> 0, lastAcq |-> 0, lastMs |-> 0,
                    latest |-> s, fault |-> n, gap |-> n, error |-> n, state |-> "idle"]
  OBVIOUS
<1>5. d \in Recorder /\ d.recording = n /\ d.runId = 0 /\ d.mounted = n
  BY <1>3, <1>4 DEF Recorder
<1>6. d = Unmounted
  BY <1>1, <1>2, <1>4, Zenon DEF Unmounted, NoSample
<1> QED
  BY <1>1, <1>5, <1>6 DEF Silent

(* What the boot scan finds is of the right types. *)
LEMMA ScanTyped ==
    ASSUME NEW f \in CsvFile, Counts(f)
    PROVE  /\ Scan(f).runId \in Nat /\ Scan(f).rows \in Nat /\ Scan(f).valid \in Nat
           /\ Scan(f).state \in {"error", "interrupted", "complete", "duration_limit"}
           /\ Scan(f).rows # 0 => /\ f.lines[Scan(f).rows + 1].acqSeq \in Nat
                                  /\ f.lines[Scan(f).rows + 1].ms \in Nat
           /\ Scan(f).runId # 0 => /\ Len(f.lines) > 0
                                   /\ Scan(f).valid = Len(f.lines) /\ Scan(f).rows = RowsIn(f)
<1>1. PICK n \in Nat : n = Len(f.lines)
  BY FileFields
<1>2. ASSUME NEW k \in 1..Len(f.lines), ValidLine(f, k)
      PROVE  /\ k = 1 => f.lines[1].runId \in Nat
             /\ k # 1 => f.lines[k].acqSeq \in Nat /\ f.lines[k].ms \in Nat
  <2>1. f.lines[k] \in Line
    BY FileFields
  <2>2. k # 1 => f.lines[k].kind = "row"
    BY <1>2 DEF ValidLine, ValidRow
  <2>3. k = 1 => f.lines[1].kind = "head"
    BY <1>2 DEF ValidLine, IsHead
  <2> QED
    BY <2>1, <2>2, <2>3, LineFields
<1>3. CASE Opening(f)
  <2>1. CASE n = 0
    BY <1>1, <1>3, <2>1, ScanOfOpening
  <2>2. CASE n > 0
    <3>1. PICK m \in Nat : m + 1 = n
      <4>1. n - 1 \in Nat /\ (n - 1) + 1 = n
        BY <2>2
      <4> QED
        BY <4>1
    <3>2. n - 1 = m /\ 1 \in 1..n /\ n \in 1..n /\ (m # 0 => n # 1)
      BY <2>2, <3>1
    <3>3. /\ Scan(f).rows = m /\ Scan(f).valid = n /\ Scan(f).runId = f.lines[1].runId
          /\ Scan(f).state \in {"error", "interrupted"} /\ RowsIn(f) = m
      BY <1>1, <1>3, <2>2, <3>2, ScanOfOpening, OpeningOrEnded DEF RowsIn
    <3>4. f.lines[1].runId \in Nat
      BY <1>1, <1>2, <1>3, <3>2 DEF Opening
    <3>5. n # 1 => f.lines[n].acqSeq \in Nat /\ f.lines[n].ms \in Nat
      BY <1>1, <1>2, <1>3, <3>2 DEF Opening
    <3> QED
      BY <1>1, <2>2, <3>1, <3>2, <3>3, <3>4, <3>5
  <2> QED
    BY <2>1, <2>2
<1>4. CASE Ended(f)
  <2>1. n >= 2
    BY <1>1, <1>4 DEF Ended
  <2>2. PICK m \in Nat : m + 2 = n
    <3>1. n - 2 \in Nat /\ (n - 2) + 2 = n
      BY <2>1
    <3> QED
      BY <3>1
  <2>3. /\ n - 2 = m /\ n - 1 = m + 1 /\ 1 \in 1..n /\ m + 1 \in 1..n /\ 1 \in 1..(m + 1)
        /\ m + 1 \in 1..(m + 1) /\ (m # 0 => m + 1 # 1) /\ n > 0 /\ n \in 1..n
    BY <2>2
  <2>4. /\ Scan(f).rows = m /\ Scan(f).valid = n /\ Scan(f).runId = f.lines[1].runId
        /\ Scan(f).state = f.lines[n].reason /\ RowsIn(f) = m
    BY <1>1, <1>4, <2>3, ScanOfEnded DEF RowsIn
  <2>5. \A k \in 1..(m + 1) : ValidLine(f, k)
    BY <1>1, <1>4, <2>3 DEF Ended
  <2>6. f.lines[1].runId \in Nat
    BY <1>1, <1>2, <2>3, <2>5
  <2>7. m # 0 => f.lines[m + 1].acqSeq \in Nat /\ f.lines[m + 1].ms \in Nat
    BY <1>1, <1>2, <2>3, <2>5
  <2>8. f.lines[n].reason \in {"complete", "duration_limit"}
    <3>1. f.lines[n] \in Line /\ f.lines[n].kind = "end"
      BY <1>1, <1>4, <2>3, FileFields DEF Ended, ValidFooter
    <3> QED
      BY <3>1, LineFields
  <2> QED
    BY <1>1, <2>3, <2>4, <2>6, <2>7, <2>8
<1> QED
  BY <1>3, <1>4 DEF Counts

(* begin() *)
LEMMA BeginSound ==
    ASSUME NEW c, NEW f, NEW a, Sound(c, f, a), NEW o \in Begin(c, f)
    PROVE  Sound(o.rec, o.file, a)
<1> DEFINE s == Scan(f)
           last == f.lines[s.rows + 1]
<1>1. PICK t \in BOOLEAN, n \in BOOLEAN : t = TRUE /\ n = FALSE
  OBVIOUS
<1>2. PICK up : up = [Unmounted EXCEPT !.mounted = TRUE]
  OBVIOUS
<1>3. up \in Recorder /\ ~up.recording /\ up.runId = 0 /\ Silent(up)
  <2>1. PICK v : v = [Unmounted EXCEPT !.mounted = t]
    OBVIOUS
  <2>2. Unmounted \in Recorder /\ ~Unmounted.recording /\ Unmounted.runId = 0
    BY UnmountedSilent DEF Silent, Unmounted
  <2>3. v \in Recorder /\ v.recording = Unmounted.recording /\ v.runId = Unmounted.runId
    BY ONLY <2>1, <2>2, t \in BOOLEAN DEF Recorder
  <2>4. v = up
    BY <1>1, <1>2, <2>1
  <2> QED
    BY <2>2, <2>3, <2>4 DEF Silent
<1>4. CASE c.recording \/ c.reader
  <2>1. o = Outcome(c, f, FALSE)
    BY <1>4 DEF Begin
  <2>2. o.rec = c /\ o.file = f
    BY <2>1, Zenon DEF Outcome
  <2> QED
    BY <2>2
<1>5. CASE ~(c.recording \/ c.reader)
  <2> DEFINE lost == [up EXCEPT !.hasRun = TRUE, !.error = TRUE, !.state = "error"]
             found == [up EXCEPT !.hasRun = TRUE, !.runId = s.runId, !.count = s.rows,
                                 !.valid = s.valid, !.state = s.state, !.error = s.runId = 0,
                                 !.lastAcq = IF s.rows = 0 THEN 0 ELSE last.acqSeq,
                                 !.lastMs = IF s.rows = 0 THEN 0 ELSE last.ms]
  <2>1. \/ o = Outcome([c EXCEPT !.error = TRUE, !.state = "error"], f, FALSE)
        \/ o = Outcome(up, f, TRUE)
        \/ f # NoFile /\ o = Outcome(lost, f, FALSE)
        \/ f # NoFile /\ o = Outcome(found, f, TRUE)
    BY <1>2, <1>5, Zenon DEF Begin
  <2>2. ASSUME NEW d, NEW ok, o = Outcome(d, f, ok), Silent(d) PROVE Sound(o.rec, o.file, a)
    <3>1. o.rec = d /\ o.file = f
      BY <2>2, Zenon DEF Outcome
    <3> QED
      BY <2>2, <3>1, SilentSound
  <2>3. CASE o = Outcome([c EXCEPT !.error = TRUE, !.state = "error"], f, FALSE)
    <3>1. o.rec = [c EXCEPT !.error = TRUE, !.state = "error"] /\ o.file = f
      BY <2>3, Zenon DEF Outcome
    <3>2. c \in Recorder /\ ~c.recording
      BY <1>5 DEF Sound, Shaped
    <3> QED
      BY <3>1, <3>2, ErrorStill, StillSound
  <2>4. CASE o = Outcome(up, f, TRUE)
    BY <1>3, <2>2, <2>4
  <2>5. CASE o = Outcome(lost, f, FALSE)
    <3>1. PICK d : d = [up EXCEPT !.hasRun = t, !.error = t, !.state = "error"]
      OBVIOUS
    <3>2. d \in Recorder /\ d.recording = up.recording /\ d.runId = up.runId
      BY ONLY <1>3, <3>1, t \in BOOLEAN DEF Recorder
    <3>3. d = lost
      BY <1>1, <3>1, Zenon
    <3> QED
      BY <1>3, <2>2, <2>5, <3>2, <3>3 DEF Silent
  <2>6. CASE f # NoFile /\ o = Outcome(found, f, TRUE)
    <3>1. f \in CsvFile /\ Saved(f, a)
      BY <2>6 DEF Sound, Shaped
    <3>2. /\ s.runId \in Nat /\ s.rows \in Nat /\ s.valid \in Nat
          /\ s.state \in {"error", "interrupted", "complete", "duration_limit"}
          /\ s.rows # 0 => last.acqSeq \in Nat /\ last.ms \in Nat
          /\ s.runId # 0 => /\ Len(f.lines) > 0
                            /\ s.valid = Len(f.lines) /\ s.rows = RowsIn(f)
      BY <3>1, ScanTyped DEF Saved
    <3>3. PICK x \in Nat : x = IF s.rows = 0 THEN 0 ELSE last.acqSeq
      BY <3>2
    <3>4. PICK y \in Nat : y = IF s.rows = 0 THEN 0 ELSE last.ms
      BY <3>2
    <3>5. PICK e \in BOOLEAN : e = (s.runId = 0)
      BY Zenon
    <3>6. PICK r : r = s
      OBVIOUS
    <3>6a. r.runId \in Nat /\ r.rows \in Nat /\ r.valid \in Nat
           /\ r.state \in {"error", "interrupted", "complete", "duration_limit"}
      BY <3>2, <3>6
    <3>7. PICK v : v = [up EXCEPT !.hasRun = t, !.runId = r.runId, !.count = r.rows,
                                  !.valid = r.valid]
      OBVIOUS
    <3>7a. v \in Recorder
      BY ONLY <1>3, <3>6a, <3>7, t \in BOOLEAN DEF Recorder
    <3>7b. /\ v.recording = up.recording
           /\ v.runId = r.runId /\ v.count = r.rows /\ v.valid = r.valid
      BY ONLY <1>3, <3>7 DEF Recorder
    <3>8. PICK d : d = [v EXCEPT !.state = r.state, !.error = e, !.lastAcq = x, !.lastMs = y]
      OBVIOUS
    <3>8a. d \in Recorder
      BY ONLY <3>6a, <3>7a, <3>8, e \in BOOLEAN, x \in Nat, y \in Nat DEF Recorder
    <3>9. /\ d.recording = up.recording
          /\ d.runId = r.runId /\ d.count = r.rows /\ d.valid = r.valid
      BY ONLY <3>7a, <3>7b, <3>8 DEF Recorder
    <3>10. d = found
      BY <1>1, <3>3, <3>4, <3>5, <3>6, <3>7, <3>8, Zenon
    <3>11. o.rec = d /\ o.file = f
      BY <2>6, <3>10, Zenon DEF Outcome
    <3>12. d.runId # 0 => Reports(d, f)
      BY <2>6, <3>2, <3>6, <3>9 DEF Reports
    <3> QED
      BY <1>3, <3>8a, <3>9, <3>11, <3>12 DEF Sound, Shaped
  <2> QED
    BY <2>1, <2>3, <2>4, <2>5, <2>6
<1> QED
  BY <1>4, <1>5

(* start() *)
LEMMA HeadStarts ==
    ASSUME NEW id \in Nat \ {0}, NEW g, Grows(EmptyFile, g, HeadOf(id))
    PROVE  /\ g \in CsvFile /\ Len(g.lines) = 1 /\ Opening(g) /\ ~g.torn
           /\ g.lines[1].runId = id /\ Accounts(g, <<>>)
<1>1. PICK h : h = HeadOf(id)
  OBVIOUS
<1>2. h.kind = "head" /\ h.runId = id
  BY <1>1 DEF HeadOf
<1>3. EmptyFile.lines = <<>> /\ ~EmptyFile.torn
  BY DEF EmptyFile
<1>4. Len(EmptyFile.lines) = 0
  BY <1>3
<1>5. g \in CsvFile /\ g.torn = EmptyFile.torn
  BY DEF Grows
<1>6. Len(g.lines) = 1 /\ g.lines[1] = h
  <2>1. Len(g.lines) = Len(EmptyFile.lines) + 1 /\ g.lines[Len(g.lines)] = h
    BY <1>1, GrownLines
  <2>2. Len(g.lines) = 1
    BY <1>4, <2>1
  <2> QED
    BY <2>1, <2>2
<1>7. Opening(g)
  <2>1. ValidLine(g, 1)
    BY <1>2, <1>6 DEF ValidLine, IsHead
  <2> QED
    BY <1>6, <2>1 DEF Opening
<1>8. Accounts(g, <<>>)
  BY <1>6 DEF Accounts
<1> QED
  BY <1>2, <1>3, <1>5, <1>6, <1>7, <1>8

LEMMA EmptyFileTyped == EmptyFile \in CsvFile /\ Len(EmptyFile.lines) = 0 /\ ~EmptyFile.torn
<1>1. PICK n \in BOOLEAN : n = FALSE
  OBVIOUS
<1>2. PICK f : f = [lines |-> <<>>, torn |-> n, synced |-> 0]
  OBVIOUS
<1>3. f \in CsvFile /\ f.lines = <<>> /\ f.torn = n
  BY <1>2 DEF CsvFile
<1>4. f = EmptyFile
  BY <1>1, <1>2, Zenon DEF EmptyFile
<1> QED
  BY <1>1, <1>3, <1>4

(* The recorder of a run whose file has no row yet. *)
Begun(c, id) ==
    /\ c \in Recorder /\ c.hasRun /\ c.runId = id /\ c.count = 0 /\ c.lastAcq = 0
    /\ c.latest.seq = 0 /\ ~c.fault /\ ~c.gap

LEMMA BegunIsLive ==
    ASSUME NEW id \in Nat \ {0}, NEW g, Grows(EmptyFile, g, HeadOf(id)),
           NEW c, Begun(c, id), c.valid = 1
    PROVE  g \in CsvFile /\ Live(c, g, <<>>) /\ Accounts(g, <<>>)
<1>1. /\ g \in CsvFile /\ Len(g.lines) = 1 /\ Opening(g) /\ ~g.torn
      /\ g.lines[1].runId = id /\ Accounts(g, <<>>) /\ g # NoFile
  BY HeadStarts, CsvAssumption
<1>2. c \in Recorder /\ c.hasRun /\ c.runId = id /\ c.count = 0 /\ c.lastAcq = 0 /\ c.latest.seq = 0
  BY DEF Begun
<1>3. Stands(c, g)
  BY <1>1, <1>2 DEF Stands
<1>4. Paced(c, g)
  BY <1>1, <1>2 DEF Paced
<1>5. Ordered(c, <<>>)
  BY <1>2 DEF Ordered
<1>6. Pending(<<>>, c) = {}
  BY DEF Pending
<1>7. Flagged(c, <<>>)
  BY <1>6, Zenon DEF Begun, Flagged
<1> QED
  BY <1>1, <1>3, <1>4, <1>5, <1>6, <1>7 DEF Live, Nearly

Makes(c, id, made, counted, done) ==
    /\ made = [Fresh(c) EXCEPT !.hasRun = TRUE, !.runId = id]
    /\ counted = [made EXCEPT !.valid = 1]
    /\ done = [counted EXCEPT !.recording = TRUE, !.state = "recording"]

LEMMA StartRunMakes ==
    ASSUME NEW c \in Recorder, NEW id \in Nat \ {0},
           NEW made, NEW counted, NEW done, Makes(c, id, made, counted, done)
    PROVE  /\ Begun(made, id) /\ made.valid = 0
           /\ Begun(counted, id) /\ counted.valid = 1
           /\ Begun(done, id) /\ done.valid = 1
<1>1. PICK t \in BOOLEAN : t = TRUE
  OBVIOUS
<1>2. /\ Fresh(c) \in Recorder
      /\ Fresh(c).count = 0 /\ Fresh(c).valid = 0 /\ Fresh(c).lastAcq = 0
      /\ Fresh(c).latest.seq = 0 /\ ~Fresh(c).fault /\ ~Fresh(c).gap
  BY FreshFields
<1>3. PICK b : b = Fresh(c)
  OBVIOUS
<1>4. b \in Recorder
  BY <1>2, <1>3
<1>5. PICK m : m = [b EXCEPT !.hasRun = t, !.runId = id]
  OBVIOUS
<1>6. /\ m \in Recorder /\ m.count = b.count /\ m.valid = b.valid /\ m.lastAcq = b.lastAcq
      /\ m.latest = b.latest /\ m.fault = b.fault /\ m.gap = b.gap
      /\ m.hasRun = t /\ m.runId = id
  BY ONLY <1>4, <1>5, t \in BOOLEAN, id \in Nat \ {0} DEF Recorder
<1>7. made = m
  BY <1>1, <1>3, <1>5 DEF Makes
<1>8. PICK n : n = [m EXCEPT !.valid = 1]
  OBVIOUS
<1>9. /\ n \in Recorder /\ n.count = m.count /\ n.valid = 1 /\ n.lastAcq = m.lastAcq
      /\ n.latest = m.latest /\ n.fault = m.fault /\ n.gap = m.gap
      /\ n.hasRun = m.hasRun /\ n.runId = m.runId
  BY ONLY <1>6, <1>8 DEF Recorder
<1>10. counted = n
  BY <1>7, <1>8 DEF Makes
<1>11. PICK d : d = [n EXCEPT !.recording = t, !.state = "recording"]
  OBVIOUS
<1>12. /\ d \in Recorder /\ d.count = n.count /\ d.valid = n.valid /\ d.lastAcq = n.lastAcq
       /\ d.latest = n.latest /\ d.fault = n.fault /\ d.gap = n.gap
       /\ d.hasRun = n.hasRun /\ d.runId = n.runId
  BY ONLY <1>9, <1>11, t \in BOOLEAN DEF Recorder
<1>13. done = d
  BY <1>1, <1>10, <1>11 DEF Makes
<1>14. Begun(m, id) /\ m.valid = 0
  BY <1>1, <1>2, <1>3, <1>6 DEF Begun
<1>15. Begun(n, id)
  BY <1>9, <1>14 DEF Begun
<1>16. Begun(d, id) /\ d.valid = 1
  BY <1>9, <1>12, <1>15 DEF Begun
<1> QED
  BY <1>7, <1>9, <1>10, <1>13, <1>14, <1>15, <1>16

LEMMA StartRunSound ==
    ASSUME NEW c, NEW f, NEW a, Sound(c, f, a), NEW id \in Nat, NEW o \in StartRun(c, f, id)
    PROVE  Sound(o.rec, o.file, IF f = NoFile THEN <<>> ELSE a)
<1> DEFINE b == IF f = NoFile THEN <<>> ELSE a
           refused == [c EXCEPT !.error = TRUE, !.state = "error"]
           surfaced == [c EXCEPT !.hasRun = TRUE, !.runId = 0, !.count = 0, !.valid = 0,
                                 !.error = TRUE, !.state = "error"]
           made == [Fresh(c) EXCEPT !.hasRun = TRUE, !.runId = id]
           counted == [made EXCEPT !.valid = 1]
           done == [counted EXCEPT !.recording = TRUE, !.state = "recording"]
<1>1. Sound(c, f, b)
  <2>1. CASE f = NoFile
    <3>1. ~c.recording /\ ~(c.hasRun /\ c.runId # 0)
      BY <2>1 DEF Sound, Live, Nearly, Stands, Reports
    <3>2. Silent(c)
      BY <3>1 DEF Silent, Sound, Shaped
    <3>3. <<>> \in Seq(Acquired)
      OBVIOUS
    <3> QED
      BY <2>1, <3>2, <3>3, SilentWithoutFile
  <2>2. CASE f # NoFile
    BY <2>2
  <2> QED
    BY <2>1, <2>2
<1> HIDE DEF b
<1>2. c \in Recorder
  BY DEF Sound, Shaped
<1>3. \/ o = Outcome(c, f, FALSE)
      \/ id # 0 /\ CanStart(c) /\ o = Outcome(refused, f, FALSE)
      \/ id # 0 /\ CanStart(c) /\ o = Outcome(surfaced, f, FALSE)
      \/ /\ id # 0 /\ CanStart(c) /\ f = NoFile
         /\ o \in PutLine(made, EmptyFile, HeadOf(id), counted, done)
  BY Zenon DEF StartRun
<1>4. CASE o = Outcome(c, f, FALSE)
  <2>1. o.rec = c /\ o.file = f
    BY <1>4, Zenon DEF Outcome
  <2> QED
    BY <1>1, <2>1 DEF b
<1>5. CASE id # 0 /\ CanStart(c) /\ o = Outcome(refused, f, FALSE)
  <2>1. o.rec = refused /\ o.file = f
    BY <1>5, Zenon DEF Outcome
  <2>2. ~c.recording
    BY <1>5 DEF CanStart
  <2> QED
    BY <1>1, <1>2, <2>1, <2>2, ErrorStill, StillSound DEF b
<1>6. CASE id # 0 /\ CanStart(c) /\ o = Outcome(surfaced, f, FALSE)
  <2>1. o.rec = surfaced /\ o.file = f
    BY <1>6, Zenon DEF Outcome
  <2>2. ~c.recording
    BY <1>6 DEF CanStart
  <2>3. PICK t \in BOOLEAN : t = TRUE
    OBVIOUS
  <2>4. PICK d : d = [c EXCEPT !.hasRun = t, !.runId = 0, !.count = 0, !.valid = 0,
                               !.error = t, !.state = "error"]
    OBVIOUS
  <2>5. d \in Recorder /\ d.recording = c.recording /\ d.runId = 0
    BY ONLY <1>2, <2>4, t \in BOOLEAN DEF Recorder
  <2>6. d = surfaced
    BY <2>3, <2>4, Zenon
  <2>7. Silent(surfaced)
    BY <2>2, <2>5, <2>6 DEF Silent
  <2> QED
    BY <1>1, <2>1, <2>7, SilentSound DEF b
<1>7. CASE /\ id # 0 /\ CanStart(c) /\ f = NoFile
           /\ o \in PutLine(made, EmptyFile, HeadOf(id), counted, done)
  <2>1. PICK m, n, d : m = made /\ n = counted /\ d = done
    OBVIOUS
  <2>2. /\ Begun(m, id) /\ m.valid = 0 /\ Begun(n, id) /\ n.valid = 1 /\ Begun(d, id) /\ d.valid = 1
    <3>1. id \in Nat \ {0}
      BY <1>7
    <3>2. Makes(c, id, m, n, d)
      BY <2>1 DEF Makes
    <3> QED
      BY <1>2, <3>1, <3>2, StartRunMakes
  <2>3. o \in PutLine(m, EmptyFile, HeadOf(id), n, d)
    BY <1>7, <2>1
  <2> HIDE DEF made, counted, done
  <2>4. b = <<>> /\ <<>> \in Seq(Acquired) /\ id \in Nat \ {0}
    BY <1>7 DEF b
  <2>5. HeadOf(id) \in Line
    BY DEF HeadOf, Line
  <2>6. ASSUME NEW g, Grows(EmptyFile, g, HeadOf(id)), NEW e, Begun(e, id), e.valid = 1
        PROVE  Sound(e, g, <<>>) /\ Sound(FailStop(e), g, <<>>)
    <3>1. g \in CsvFile /\ Live(e, g, <<>>) /\ Accounts(g, <<>>) /\ e \in Recorder
      BY <2>4, <2>6, BegunIsLive DEF Begun
    <3>2. Stands(e, g)
      BY <3>1 DEF Live, Nearly
    <3> QED
      BY <2>4, <3>1, <3>2, LiveIsSound, StopsOnFile
  <2>7. /\ Grows(EmptyFile, Wrote(EmptyFile, HeadOf(id)), HeadOf(id))
        /\ Grows(EmptyFile, Synced(Wrote(EmptyFile, HeadOf(id))), HeadOf(id))
    BY <2>5, EmptyFileTyped, WroteGrows
  <2>8. CASE o.rec = FailStop(m) /\ o.file \in HalfWrote(EmptyFile)
    <3>1. /\ EmptyFile \in CsvFile /\ Opening(EmptyFile) /\ Accounts(EmptyFile, <<>>)
          /\ Len(EmptyFile.lines) = 0
      BY EmptyFileTyped DEF Opening, Accounts
    <3>2. PICK g : g = o.file
      OBVIOUS
    <3>3. g \in CsvFile /\ g.lines = EmptyFile.lines /\ Opening(g) /\ Accounts(g, <<>>)
      BY <2>8, <3>1, <3>2, HalfKeeps
    <3>4. Still(m, FailStop(m)) /\ m.count = 0
      BY <2>2, FailStopStill DEF Begun
    <3>5. Len(g.lines) = 0 /\ g # NoFile
      BY <3>1, <3>3, CsvAssumption
    <3>6. Saved(g, <<>>)
      BY <3>3, OpeningOrEnded DEF Saved, Counts
    <3>7. Reports(FailStop(m), g)
      BY <2>2, <3>4, <3>5 DEF Reports, Still
    <3> QED
      BY <2>4, <2>8, <3>2, <3>3, <3>4, <3>6, <3>7 DEF Sound, Shaped, Still, b
  <2>9. CASE o.rec = FailStop(n) /\ o.file = Wrote(EmptyFile, HeadOf(id))
    BY <2>2, <2>4, <2>6, <2>7, <2>9 DEF b
  <2>10. CASE o.rec = d /\ o.file = Synced(Wrote(EmptyFile, HeadOf(id)))
    BY <2>2, <2>4, <2>6, <2>7, <2>10 DEF b
  <2> QED
    BY <2>3, <2>8, <2>9, <2>10, PutLineOutcomes
<1> QED
  BY <1>3, <1>4, <1>5, <1>6, <1>7

(* erase(expectedRunId), and format() *)
LEMMA EraseRunSound ==
    ASSUME NEW c, NEW f, NEW a, Sound(c, f, a), NEW id, NEW o \in EraseRun(c, f, id)
    PROVE  Sound(o.rec, o.file, a)
<1>1. c \in Recorder /\ a \in Seq(Acquired)
  BY DEF Sound, Shaped
<1>2. \/ o = Outcome(c, f, FALSE)
      \/ Erasable(c, id) /\ o = Outcome([c EXCEPT !.error = TRUE, !.state = "error"], f, FALSE)
      \/ Erasable(c, id) /\ o = Outcome([Fresh(c) EXCEPT !.hasRun = FALSE], NoFile, TRUE)
  BY Zenon DEF EraseRun
<1>3. CASE o = Outcome(c, f, FALSE)
  <2>1. o.rec = c /\ o.file = f
    BY <1>3, Zenon DEF Outcome
  <2> QED
    BY <2>1
<1>4. CASE Erasable(c, id) /\ o = Outcome([c EXCEPT !.error = TRUE, !.state = "error"], f, FALSE)
  <2>1. o.rec = [c EXCEPT !.error = TRUE, !.state = "error"] /\ o.file = f
    BY <1>4, Zenon DEF Outcome
  <2>2. ~c.recording
    BY <1>4 DEF Erasable
  <2> QED
    BY <1>1, <2>1, <2>2, ErrorStill, StillSound
<1>5. CASE Erasable(c, id) /\ o = Outcome([Fresh(c) EXCEPT !.hasRun = FALSE], NoFile, TRUE)
  <2>1. o.rec = [Fresh(c) EXCEPT !.hasRun = FALSE] /\ o.file = NoFile
    BY <1>5, Zenon DEF Outcome
  <2>2. PICK n \in BOOLEAN : n = FALSE
    OBVIOUS
  <2>3. PICK b : b = Fresh(c)
    OBVIOUS
  <2>4. b \in Recorder /\ b.runId = 0 /\ b.recording = c.recording
    BY <1>1, <2>3, FreshFields
  <2>5. PICK d : d = [b EXCEPT !.hasRun = n]
    OBVIOUS
  <2>6. d \in Recorder /\ d.runId = 0 /\ d.recording = b.recording
    BY ONLY <2>4, <2>5, n \in BOOLEAN DEF Recorder
  <2>7. ~c.recording
    BY <1>5 DEF Erasable
  <2>8. Silent(d) /\ d = o.rec
    BY <2>1, <2>2, <2>3, <2>4, <2>5, <2>6, <2>7 DEF Silent
  <2> QED
    BY <1>1, <2>1, <2>8, SilentWithoutFile
<1> QED
  BY <1>2, <1>3, <1>4, <1>5

LEMMA FormatSound ==
    ASSUME NEW c, NEW f, NEW a, Sound(c, f, a), NEW o \in FormatVolume(c, f)
    PROVE  Sound(o.rec, o.file, a)
<1> DEFINE broken == [c EXCEPT !.mounted = FALSE, !.error = TRUE, !.state = "error"]
           ready == [Fresh(c) EXCEPT !.mounted = TRUE]
<1>1. c \in Recorder /\ a \in Seq(Acquired)
  BY DEF Sound, Shaped
<1>2. \/ o = Outcome(c, f, FALSE)
      \/ ~(c.recording \/ c.reader \/ c.hasRun) /\ o = Outcome(broken, f, FALSE)
      \/ ~(c.recording \/ c.reader \/ c.hasRun) /\ o = Outcome(broken, NoFile, FALSE)
      \/ ~(c.recording \/ c.reader \/ c.hasRun) /\ o = Outcome(ready, NoFile, TRUE)
  BY Zenon DEF FormatVolume
<1>3. PICK n \in BOOLEAN, t \in BOOLEAN : n = FALSE /\ t = TRUE
  OBVIOUS
<1>4. CASE o = Outcome(c, f, FALSE)
  <2>1. o.rec = c /\ o.file = f
    BY <1>4, Zenon DEF Outcome
  <2> QED
    BY <2>1
<1>5. CASE ~(c.recording \/ c.reader \/ c.hasRun)
  <2>1. Silent(broken)
    <3>1. PICK d : d = [c EXCEPT !.mounted = n, !.error = t, !.state = "error"]
      OBVIOUS
    <3>2. d \in Recorder /\ d.recording = c.recording /\ d.hasRun = c.hasRun
      BY ONLY <1>1, <3>1, n \in BOOLEAN, t \in BOOLEAN DEF Recorder
    <3>3. d = broken
      BY <1>3, <3>1, Zenon
    <3> QED
      BY <1>5, <3>2, <3>3 DEF Silent
  <2>2. Silent(ready)
    <3>1. PICK b : b = Fresh(c)
      OBVIOUS
    <3>2. b \in Recorder /\ b.recording = c.recording /\ b.runId = 0
      BY <1>1, <3>1, FreshFields
    <3>3. PICK d : d = [b EXCEPT !.mounted = t]
      OBVIOUS
    <3>4. d \in Recorder /\ d.recording = b.recording /\ d.runId = b.runId
      BY ONLY <3>2, <3>3, t \in BOOLEAN DEF Recorder
    <3>5. d = ready
      BY <1>3, <3>1, <3>3
    <3> QED
      BY <1>5, <3>2, <3>4, <3>5 DEF Silent
  <2> HIDE DEF broken, ready
  <2>3. ASSUME NEW d, NEW g, NEW ok, o = Outcome(d, g, ok) PROVE o.rec = d /\ o.file = g
    BY <2>3, Zenon DEF Outcome
  <2>4. CASE o = Outcome(broken, f, FALSE)
    <3>1. o.rec = broken /\ o.file = f
      BY <2>3, <2>4
    <3> QED
      BY <2>1, <3>1, SilentSound
  <2>5. CASE o = Outcome(broken, NoFile, FALSE)
    <3>1. o.rec = broken /\ o.file = NoFile
      BY <2>3, <2>5
    <3> QED
      BY <1>1, <2>1, <3>1, SilentWithoutFile
  <2>6. CASE o = Outcome(ready, NoFile, TRUE)
    <3>1. o.rec = ready /\ o.file = NoFile
      BY <2>3, <2>6
    <3> QED
      BY <1>1, <2>2, <3>1, SilentWithoutFile
  <2> QED
    BY <1>2, <1>4, <2>4, <2>5, <2>6
<1> QED
  BY <1>2, <1>4, <1>5

(* A download reads and changes nothing that was written. *)
LEMMA ReaderSound ==
    ASSUME NEW c, NEW f, NEW a, Sound(c, f, a), NEW d, NEW b \in BOOLEAN,
           d = [c EXCEPT !.reader = b, !.sent = 0]
    PROVE  Sound(d, f, a)
<1>1. c \in Recorder
  BY DEF Sound, Shaped
<1>2. /\ d \in Recorder /\ d.hasRun = c.hasRun /\ d.recording = c.recording /\ d.runId = c.runId
      /\ d.count = c.count /\ d.valid = c.valid /\ d.lastAcq = c.lastAcq /\ d.lastMs = c.lastMs
      /\ d.latest = c.latest /\ d.fault = c.fault /\ d.gap = c.gap
  BY <1>1 DEF Recorder
<1>3. Reports(c, f) => Reports(d, f)
  BY <1>2 DEF Reports
<1>4. ASSUME Live(c, f, a) PROVE Live(d, f, a)
  <2>1. Stands(d, f) /\ Paced(d, f) /\ Ordered(d, a)
    BY <1>2, <1>4 DEF Live, Nearly, Stands, Paced, Ordered
  <2>2. Pending(a, d) = Pending(a, c)
    BY <1>2 DEF Pending
  <2>3. Flagged(d, a)
    BY <1>2, <1>4, <2>2, Zenon DEF Live, Nearly, Flagged
  <2>4. \A i \in Pending(a, d) : Passed(d, a, i)
    BY <1>2, <1>4, <2>2 DEF Live, Passed
  <2> QED
    BY <2>1, <2>3, <2>4 DEF Live, Nearly
<1> QED
  BY <1>2, <1>3, <1>4 DEF Sound, Shaped

(* A loss of power leaves the beginning of the file. *)
LEMMA Truncated ==
    ASSUME NEW f \in CsvFile, NEW n \in 0..Len(f.lines), NEW t \in BOOLEAN, NEW g,
           g = [lines |-> SubSeq(f.lines, 1, n), torn |-> t, synced |-> n]
    PROVE  /\ g \in CsvFile /\ g.torn = t /\ Len(g.lines) = n
           /\ \A k \in 1..n : g.lines[k] = f.lines[k]
           /\ \A k \in 1..n : Agree(f, g, k)
<1>1. f.lines \in Seq(Line) /\ Len(f.lines) \in Nat
  BY FileFields
<1>2. PICK L : L = SubSeq(f.lines, 1, n)
  OBVIOUS
<1>3. L \in Seq(Line) /\ Len(L) = n /\ \A k \in 1..n : L[k] = f.lines[k]
  BY <1>1, <1>2
<1>4. n \in Nat
  BY <1>1
<1>5. g \in CsvFile /\ g.torn = t /\ g.lines = L
  BY <1>2, <1>3, <1>4 DEF CsvFile
<1>6. ASSUME NEW k \in 1..n PROVE Agree(f, g, k)
  <2>1. k \in 1..Len(f.lines) /\ k \in 1..Len(g.lines)
    BY <1>1, <1>3, <1>5
  <2>2. \A j \in 1..k : g.lines[j] = f.lines[j]
    BY <1>3, <1>5
  <2> QED
    BY <1>5, <2>1, <2>2 DEF Agree
<1> QED
  BY <1>3, <1>5, <1>6

LEMMA LossSaves ==
    ASSUME NEW f \in CsvFile, NEW a, Saved(f, a), NEW n \in 0..Len(f.lines), NEW t \in BOOLEAN,
           t => n < Len(f.lines) \/ f.torn, NEW g,
           g = [lines |-> SubSeq(f.lines, 1, n), torn |-> t, synced |-> n]
    PROVE  g \in CsvFile /\ Saved(g, a)
<1>1. /\ g \in CsvFile /\ g.torn = t /\ Len(g.lines) = n
      /\ \A k \in 1..n : g.lines[k] = f.lines[k] /\ Agree(f, g, k)
  BY Truncated
<1>2. PICK N \in Nat : N = Len(f.lines)
  BY FileFields
<1>3. n \in 0..N /\ n \in Nat
  BY <1>2
<1>4. Accounts(g, a)
  <2> SUFFICES ASSUME NEW k \in 2..n, g.lines[k].kind = "row" PROVE Told(g, k, a)
    BY <1>1 DEF Accounts
  <2>1. k \in 1..n /\ k > 1 /\ k \in 2..N
    BY <1>3
  <2>2. f.lines[k].kind = "row"
    BY <1>1, <2>1
  <2>3. Told(f, k, a)
    BY <1>2, <2>1, <2>2 DEF Saved, Accounts
  <2> QED
    BY <1>1, <2>1, <2>3, SameWorth
<1>5. CASE Opening(f) \/ n # N
  <2>1. ASSUME NEW k \in 1..n PROVE ValidLine(g, k)
    <3>1. k \in 1..N /\ (n # N => k \in 1..(N - 1))
      BY <1>3
    <3>2. ValidLine(f, k)
      BY <1>2, <1>5, <3>1 DEF Saved, Counts, Opening, Ended
    <3> QED
      BY <1>1, <3>2, SameWorth
  <2>2. Opening(g)
    BY <1>1, <2>1 DEF Opening
  <2> QED
    BY <1>1, <1>4, <2>2, OpeningOrEnded DEF Saved, Counts
<1>6. CASE Ended(f) /\ n = N
  <2>1. N >= 2
    BY <1>2, <1>6 DEF Ended
  <2>2. N - 1 \in 1..N /\ N \in 1..N /\ \A k \in 1..(N - 1) : k \in 1..N
    BY <2>1
  <2>3. ~(n < Len(f.lines)) /\ ~f.torn
    BY <1>2, <1>6 DEF Ended
  <2>4. ~g.torn
    BY <1>1, <2>3
  <2>5. ValidFooter(g, N)
    BY <1>1, <1>2, <1>6, <2>2, SameWorth DEF Ended
  <2>6. \A k \in 1..(N - 1) : ValidLine(g, k)
    BY <1>1, <1>2, <1>6, <2>2, SameWorth DEF Ended
  <2>7. Ended(g)
    BY <1>1, <1>6, <2>1, <2>4, <2>5, <2>6 DEF Ended
  <2>8. g.lines[N] = f.lines[N] /\ g.lines[N - 1] = f.lines[N - 1]
    BY <1>1, <1>6, <2>2
  <2>9. HoldsEnd(g, a)
    BY <1>1, <1>2, <1>6, <2>8 DEF Saved, HoldsEnd
  <2> QED
    BY <1>1, <1>4, <2>7, <2>9 DEF Saved, Counts
<1> QED
  BY <1>5, <1>6 DEF Saved, Counts

LEMMA PowerLossSound ==
    ASSUME NEW c, NEW f, NEW a, Sound(c, f, a), NEW g \in AfterLoss(f)
    PROVE  Sound(Unmounted, g, a)
<1>1. a \in Seq(Acquired) /\ f \in CsvFile \cup {NoFile} /\ (f # NoFile => Saved(f, a))
  BY DEF Sound, Shaped
<1>2. CASE g = NoFile
  BY <1>1, <1>2, UnmountedSilent, SilentWithoutFile
<1>3. CASE g # NoFile
  <2>1. f # NoFile /\ f \in CsvFile /\ Saved(f, a)
    BY <1>1, <1>3 DEF AfterLoss
  <2>2. PICK n \in f.synced..Len(f.lines), t \in BOOLEAN :
            g = [lines |-> SubSeq(f.lines, 1, n), torn |-> t, synced |-> n]
    BY <1>3, <2>1 DEF AfterLoss
  <2>3. g.torn => g.synced < Len(f.lines) \/ f.torn
    BY <1>3, <2>1 DEF AfterLoss
  <2>4. g.torn = t /\ g.synced = n
    BY <2>2, Zenon
  <2>5. n \in 0..Len(f.lines)
    BY <2>1, FileFields
  <2>6. t => n < Len(f.lines) \/ f.torn
    BY <2>3, <2>4
  <2>7. g \in CsvFile /\ Saved(g, a)
    BY <2>1, <2>2, <2>5, <2>6, LossSaves
  <2> QED
    BY <1>1, <2>7, UnmountedSilent DEF Sound, Shaped, Silent
<1> QED
  BY <1>2, <1>3

-----------------------------------------------------------------------------
(* A call keeps the invariant when all its outcomes do. *)
LEMMA CallKeeps ==
    ASSUME NEW outcomes, NEW consumed, Call(outcomes, consumed),
           \A o \in outcomes : Sound(o.rec, o.file, consumed)
    PROVE  Inv'
BY DEF Call, Inv

LEMMA InitInv == Init => Inv
<1>1. <<>> \in Seq(Acquired)
  OBVIOUS
<1> QED
  BY <1>1, UnmountedSilent, SilentWithoutFile DEF Init, Inv

LEMMA SampleKeeps ==
    ASSUME Inv, NEW s \in Sampled, Sample(s)
    PROVE  Inv'
<1>1. Sound(rec, file, accepted)
  BY DEF Inv
<1>2. CASE Consumes(s)
  <2>1. /\ rec.recording /\ s.runId = rec.runId /\ s.ms <= MaxDuration /\ InOrder(rec, s)
    BY <1>2 DEF Consumes
  <2>2. s \in Acquired
    BY <2>1 DEF Acquired, InOrder
  <2>3. More(accepted, Append(accepted, s), s)
    BY <1>1, <2>2 DEF More, Sound, Shaped
  <2>4. rec \in Recorder /\ Live(rec, file, accepted) /\ file # NoFile
    BY <1>1, <2>1 DEF Sound, Shaped, Live, Nearly, Stands
  <2>5. file \in CsvFile /\ Accounts(file, accepted)
    BY <1>1, <2>4 DEF Sound, Shaped, Saved
  <2>6. \A o \in OnSample(rec, file, s) : Sound(o.rec, o.file, Append(accepted, s))
    BY <2>1, <2>3, <2>4, <2>5, SampleConsumed
  <2>7. Call(OnSample(rec, file, s), Append(accepted, s))
    BY <1>2 DEF Sample
  <2> QED
    BY <2>6, <2>7, CallKeeps
<1>3. CASE ~Consumes(s)
  <2>1. \A o \in OnSample(rec, file, s) : Sound(o.rec, o.file, accepted)
    BY <1>1, <1>3, SampleNotConsumed DEF Consumes
  <2>2. Call(OnSample(rec, file, s), accepted)
    BY <1>3 DEF Sample
  <2> QED
    BY <2>1, <2>2, CallKeeps
<1> QED
  BY <1>2, <1>3

LEMMA StartKeeps ==
    ASSUME Inv, NEW id \in Nat, Start(id)
    PROVE  Inv'
<1>1. PICK b : b = IF file = NoFile THEN <<>> ELSE accepted
  OBVIOUS
<1>2. \A o \in StartRun(rec, file, id) : Sound(o.rec, o.file, b)
  BY <1>1, StartRunSound DEF Inv
<1>3. Call(StartRun(rec, file, id), b)
  BY <1>1 DEF Start
<1> QED
  BY <1>2, <1>3, CallKeeps

LEMMA NextInv == Inv /\ [Next]_vars => Inv'
<1> SUFFICES ASSUME Inv, [Next]_vars PROVE Inv'
  OBVIOUS
<1>1. Sound(rec, file, accepted)
  BY DEF Inv
<1>2. CASE UNCHANGED vars
  BY <1>2 DEF vars, Inv
<1>3. CASE Mount
  <2>1. \A o \in Begin(rec, file) : Sound(o.rec, o.file, accepted)
    BY <1>1, BeginSound
  <2> QED
    BY <1>3, <2>1, CallKeeps DEF Mount
<1>4. CASE Format
  <2>1. \A o \in FormatVolume(rec, file) : Sound(o.rec, o.file, accepted)
    BY <1>1, FormatSound
  <2> QED
    BY <1>4, <2>1, CallKeeps DEF Format
<1>5. CASE CloseDownload
  <2>1. Sound(Closed(rec), file, accepted)
    BY <1>1, ReaderSound DEF Closed
  <2> QED
    BY <1>5, <2>1 DEF CloseDownload, Inv
<1>6. CASE PowerLoss
  <2>1. \A g \in AfterLoss(file) : Sound(Unmounted, g, accepted)
    BY <1>1, PowerLossSound
  <2> QED
    BY <1>6, <2>1 DEF PowerLoss, Inv
<1>7. ASSUME NEW id \in Run \cup {0}, Start(id) PROVE Inv'
  BY <1>7, StartKeeps, BoundAssumption
<1>8. ASSUME NEW id \in Run \cup {0}, Erase(id) PROVE Inv'
  <2>1. \A o \in EraseRun(rec, file, id) : Sound(o.rec, o.file, accepted)
    BY <1>1, EraseRunSound
  <2> QED
    BY <1>8, <2>1, CallKeeps DEF Erase
<1>9. ASSUME NEW id \in Run \cup {0}, OpenDownload(id) PROVE Inv'
  <2>1. Sound(Opened(rec), file, accepted)
    BY <1>1, ReaderSound DEF Opened
  <2> QED
    BY <1>9, <2>1 DEF OpenDownload, Inv
<1>10. ASSUME NEW id \in Run, NEW n \in 0..MaxSeq, NEW t \in 0..MaxMs, NEW b \in BOOLEAN,
              Sample([runId |-> id, seq |-> n, ms |-> t, fault |-> b])
       PROVE  Inv'
  <2>1. [runId |-> id, seq |-> n, ms |-> t, fault |-> b] \in Sampled
    BY BoundAssumption DEF Sampled
  <2> QED
    BY <1>10, <2>1, SampleKeeps
<1>11. ASSUME NEW t \in 0..MaxMs, Stop(t) PROVE Inv'
  <2>1. \A o \in StopRun(rec, file, t) : Sound(o.rec, o.file, accepted)
    BY <1>1, BoundAssumption, StopRunSound
  <2> QED
    BY <1>11, <2>1, CallKeeps DEF Stop
<1> QED
  BY <1>2, <1>3, <1>4, <1>5, <1>6, <1>7, <1>8, <1>9, <1>10, <1>11 DEF Next

(* The recorder's invariant, for runs of any length at any cadence, on a volume
   that may refuse any operation and with the supply failing at any time. *)
THEOREM CsvInvariant == Spec => []Inv
<1> QED
  BY InitInv, NextInv, PTL DEF Spec

(* Every complete line of the file is recovered by the boot scan, and status
   reports what a reboot would recover (scanSavedRun, logRow, endRun). *)
THEOREM EveryLineRecovered == Spec => []EveryLineCounts
<1> QED
  BY CsvInvariant, InvCounts, PTL

(* A file that says how its run ended holds its last acquisition (finishRun). *)
THEOREM EndedRunsAreWhole == Spec => []EndedMeansWhole
<1> QED
  BY CsvInvariant, InvWhole, PTL

(* The rows account for every acquisition, fault and hole (onSample, logRow). *)
THEOREM RowsAccountForAll == Spec => []RowsTellAll
<1> QED
  BY CsvInvariant, InvTells, PTL
=============================================================================
