------------------------ MODULE FeatherRequestsProofs ------------------------
(***************************************************************************)
(* The Feather's requests, proved: the run that is said to be recorded is  *)
(* the one recorded, a download is the run it announced, and the requests  *)
(* are executed in the order they were made.  The invariant FInv has two   *)
(* halves.  The first follows one download through its three places, the   *)
(* file's reader, the block and the client, and holds the recorder still   *)
(* while it is under way.  The second numbers the line: the tickets of the *)
(* requests in it count down from the next one with at most one gap, so    *)
(* that two of them are never half the counter's range apart and poll()'s  *)
(* comparison is the line's order, wherever the counter wraps.             *)
(***************************************************************************)
EXTENDS FeatherRequests, SequenceTheorems, FiniteSetTheorems, NaturalsInduction,
        WellFoundedInduction, TLAPS

(* The recorder's state. *)
Sample == [runId : Nat, seq : Nat, ms : Nat, fault : BOOLEAN]
Recorder ==
    [mounted : BOOLEAN, hasRun : BOOLEAN, recording : BOOLEAN, reader : BOOLEAN,
     sent : Nat, runId : Nat, count : Nat, valid : Nat, lastAcq : Nat, lastMs : Nat,
     latest : Sample, fault : BOOLEAN, gap : BOOLEAN, error : BOOLEAN,
     state : {"idle", "recording", "interrupted", "complete", "duration_limit", "error"}]

(* What a recorder counts as validated is in the file, behind the head. *)
Fits(c, f) ==
    /\ c \in Recorder /\ f \in CsvFile \cup {NoFile}
    /\ c.valid > 0 => f # NoFile /\ c.valid <= Len(f.lines) /\ IsHead(f.lines[1])
    /\ c.recording => c.hasRun /\ c.valid > 0
    /\ ~c.hasRun => c.valid = 0

(* A recorder in the middle of a run, or just stopped. *)
Running(c, f) == Fits(c, f) /\ c.hasRun /\ c.valid > 0

(* What a call on it may leave. *)
Goes(c, d, f) == Running(d, f) /\ d.runId = c.runId
Leaves(c, o) == Goes(c, o.rec, o.file) /\ (o.ok \/ ~o.rec.recording)

Kind == {"info", "download", "erase", "format"}
Job == [st : {"Free", "Filling", "Ready"}, req : Request \cup {None}, kind : Kind \cup {None},
        ticket : 0..(TicketSize - 1), runId : Nat]
Callback == [at : {"none", "ticket", "ready", "empty"}, req : Request \cup {None},
             kind : Kind \cup {None}, slot : 0..SlotCount, runId : Nat]
Reader == [st : {"new", "waiting", "streaming", "answered", "short", "gone"},
           got : Seq(Line), of : Seq(Line)]

TypeOK ==
    /\ job \in [Slot -> Job] /\ nextTicket \in 0..(TicketSize - 1)
    /\ download \in Buffer \cup {None}
    /\ pc \in {"top", "commands", "cancelled", "fill", "publish", "scan", "execute", "reply"}
    /\ scan \in [i : Slot, oldest : 0..SlotCount]
    /\ reply \in {"none", "error", "ok", "stream"}
    /\ callback \in Callback
    /\ client \in [Request -> Reader]
    /\ order \in Seq(Request) /\ seen \in SUBSET Request

(* The run and the recorder, of which RunIsRecorded speaks. *)
RunState == [id : Nat, active : BOOLEAN, seq : Nat, ms : Nat]
Recorded(c, f, u) ==
    /\ Fits(c, f) /\ u \in RunState
    /\ u.active <=> c.recording
    /\ c.recording => c.runId = u.id
    /\ c.hasRun => c.runId <= u.id

Ready(s) == job[s].st = "Ready"
Handing == callback.at \in {"ticket", "ready"}

(* Who stands where: a slot being filled is its callback's, the job picked waits. *)
Placed ==
    /\ Handing => /\ callback.slot \in Slot /\ job[callback.slot].st = "Filling"
                  /\ callback.req \in Request /\ client[callback.req].st # "new"
    /\ callback.at = "empty" => callback.req \in Request /\ Streaming(callback.req)
    /\ \A s \in Slot : Ready(s) => job[s].req \in Request /\ client[job[s].req].st # "new"
    /\ scan.oldest # 0 => Ready(scan.oldest)
    /\ pc \in {"execute", "reply"} => scan.oldest # 0

(* The download's buffer and the reader behind it. *)
Buffered ==
    /\ pc \in {"cancelled", "fill", "publish"} => download # None
    /\ download # None =>
          /\ rec.reader /\ ~rec.recording /\ rec.hasRun /\ rec.valid > 0
          /\ rec.sent + download.remaining = rec.valid
          /\ download.ready => download.bytes # <<>>
          /\ pc = "publish" => ~download.ready /\ download.bytes # <<>>
          /\ ~download.ready /\ pc # "publish" => download.bytes = <<>>
          /\ download.finished => download.remaining = 0 /\ download.bytes = <<>>

(* What each client of a download has. *)
Gets(r) ==
    /\ download # None /\ download.req = r /\ ~download.cancelled
    /\ client[r].of = SubSeq(file.lines, 1, rec.valid)
    /\ client[r].got \o download.bytes = SubSeq(file.lines, 1, rec.sent)
Delivered ==
    /\ \A r \in Request :
          /\ client[r].st # "short"
          /\ Streaming(r) => Gets(r)
          /\ ~Streaming(r) => client[r].got = <<>> /\ client[r].of = <<>>
    /\ pc = "reply" /\ reply = "stream" =>
          /\ download # None /\ download.req = Picked.req /\ download.ready /\ ~download.cancelled
          /\ download.bytes = SubSeq(file.lines, 1, rec.sent)
          /\ \A r \in Request : ~Streaming(r)

-----------------------------------------------------------------------------
(* The requests in line are those with a ticket, each in its slot. *)
Holds(s, r) == \/ Ready(s) /\ job[s].req = r
               \/ callback.at = "ready" /\ callback.slot = s /\ callback.req = r
InLine ==
    /\ \A i, j \in 1..Len(order) : order[i] = order[j] => i = j
    /\ \A i \in 1..Len(order) : client[order[i]].st # "new" /\ \E s \in Slot : Holds(s, order[i])
    /\ \A s \in Slot : Ready(s) => \E i \in 1..Len(order) : order[i] = job[s].req
    /\ \A s, t \in Slot : Ready(s) /\ Ready(t) /\ job[s].req = job[t].req => s = t
    /\ callback.at = "ready" => Len(order) > 0 /\ order[Len(order)] = callback.req
    /\ Handing => \A s \in Slot : Ready(s) => job[s].req # callback.req
    /\ callback.at = "ticket" => \A i \in 1..Len(order) : order[i] # callback.req

(* Tickets count down from the next one, with a gap at most once: a job may
   overtake those before it, but never two in turn. *)
Looking == pc \in {"execute", "reply"} \/ (pc = "scan" /\ scan.i > 1)
TicketAt(i, h) ==
    (nextTicket - (Len(order) - i + 1) - (IF i <= h THEN 1 ELSE 0)) % TicketSize
Numbered ==
    \E h \in 0..Len(order) :
       /\ \A i \in 1..Len(order) : \A s \in Slot :
             Holds(s, order[i]) => job[s].ticket = TicketAt(i, h)
       /\ callback.at = "ready" => h < Len(order)
       /\ Looking /\ seen = {} => h = 0

(* What the scan has found. *)
Before(q, r) == \A a, b \in 1..Len(order) : order[a] = q /\ order[b] = r => a <= b
Found ==
    /\ ~Looking => scan = [i |-> 1, oldest |-> 0]
    /\ Looking =>
          /\ seen # {} => Len(order) > 0 /\ order[1] \in seen
          /\ \A r \in seen : \E s \in Slot : Ready(s) /\ job[s].req = r
          /\ \A s \in Slot : Ready(s) /\ job[s].req \in seen /\ (pc = "scan" => s < scan.i) =>
                scan.oldest # 0 /\ Before(Picked.req, job[s].req)

FInv ==
    /\ TypeOK /\ Recorded(rec, file, run) /\ Placed /\ Buffered /\ Delivered
    /\ InLine /\ Numbered /\ Found

-----------------------------------------------------------------------------
(* The recorder: what each of its calls leaves. *)
LEMMA FileFields ==
    ASSUME NEW f \in CsvFile
    PROVE  /\ f.lines \in Seq(Line) /\ Len(f.lines) \in Nat
           /\ f.torn \in BOOLEAN /\ f.synced \in Nat
           /\ f # NoFile
BY CsvAssumption DEF CsvFile

LEMMA RecorderFields ==
    ASSUME NEW c \in Recorder
    PROVE  /\ c.runId \in Nat /\ c.count \in Nat /\ c.valid \in Nat /\ c.sent \in Nat
           /\ c.lastAcq \in Nat /\ c.lastMs \in Nat
           /\ c.latest \in Sample /\ c.latest.seq \in Nat /\ c.latest.ms \in Nat
BY DEF Recorder, Sample

(* A file that goes on behind another. *)
Longer(f, g) ==
    /\ g \in CsvFile /\ Len(g.lines) = Len(f.lines) + 1
    /\ f.lines # <<>> => g.lines[1] = f.lines[1]

LEMMA WroteIsLonger ==
    ASSUME NEW f \in CsvFile, NEW line \in Line
    PROVE  /\ Longer(f, Wrote(f, line)) /\ Longer(f, Synced(Wrote(f, line)))
           /\ f.lines = <<>> => /\ Wrote(f, line).lines[1] = line
                                /\ Synced(Wrote(f, line)).lines[1] = line
<1>1. f.lines \in Seq(Line) /\ f.torn \in BOOLEAN /\ f.synced \in Nat BY FileFields
<1>2. /\ Append(f.lines, line) \in Seq(Line) /\ Len(Append(f.lines, line)) = Len(f.lines) + 1
      /\ Len(Append(f.lines, line)) \in Nat
      /\ f.lines # <<>> => Append(f.lines, line)[1] = f.lines[1]
      /\ f.lines = <<>> => Append(f.lines, line)[1] = line
  BY <1>1
<1>3. Wrote(f, line) \in CsvFile BY <1>2 DEF Wrote, CsvFile
<1>4. Wrote(f, line).lines = Append(f.lines, line) BY DEF Wrote, CsvFile
<1>5. Synced(Wrote(f, line)) \in CsvFile BY <1>2, <1>3, <1>4 DEF Synced, CsvFile
<1>6. Synced(Wrote(f, line)).lines = Append(f.lines, line) BY <1>3, <1>4 DEF Synced, CsvFile
<1>7. QED BY <1>2, <1>3, <1>4, <1>5, <1>6 DEF Longer

LEMMA HalfKeeps ==
    ASSUME NEW f \in CsvFile, NEW g \in HalfWrote(f)
    PROVE  g \in CsvFile /\ g.lines = f.lines
<1>1. CASE g = f BY <1>1
<1>2. CASE g = [f EXCEPT !.torn = TRUE] BY <1>2 DEF CsvFile
<1>3. QED BY <1>1, <1>2 DEF HalfWrote

LEMMA FailStopStill ==
    ASSUME NEW c \in Recorder
    PROVE  /\ FailStop(c) \in Recorder /\ ~FailStop(c).recording
           /\ FailStop(c).hasRun = c.hasRun /\ FailStop(c).runId = c.runId
           /\ FailStop(c).valid = c.valid /\ FailStop(c).reader = c.reader
<1>1. PICK t \in BOOLEAN, n \in BOOLEAN : t = TRUE /\ n = FALSE OBVIOUS
<1>2. PICK d : d = [c EXCEPT !.error = t, !.state = "error", !.recording = n] OBVIOUS
<1>3. d \in Recorder
  BY ONLY <1>2, c \in Recorder, t \in BOOLEAN, n \in BOOLEAN DEF Recorder
<1>4. /\ d.hasRun = c.hasRun /\ d.runId = c.runId /\ d.valid = c.valid /\ d.reader = c.reader
      /\ d.recording = n
  BY ONLY <1>2, c \in Recorder DEF Recorder
<1>5. d = FailStop(c) BY <1>1, <1>2 DEF FailStop
<1>6. QED BY <1>1, <1>3, <1>4, <1>5

LEMMA FailStopGoes ==
    ASSUME NEW c, NEW f, Running(c, f), NEW g \in CsvFile, g.lines = f.lines
    PROVE  Goes(c, FailStop(c), g) /\ ~FailStop(c).recording
<1>1. c \in Recorder BY DEF Running, Fits
<1>2. /\ FailStop(c) \in Recorder /\ ~FailStop(c).recording
      /\ FailStop(c).hasRun = c.hasRun /\ FailStop(c).runId = c.runId
      /\ FailStop(c).valid = c.valid
  BY <1>1, FailStopStill
<1>3. g # NoFile BY FileFields
<1>4. QED BY <1>2, <1>3 DEF Goes, Running, Fits

(* The three outcomes of a line: refused, in the file, durable. *)
LEMMA PutLineOutcomes ==
    ASSUME NEW c, NEW f, NEW line, NEW counted, NEW done,
           NEW o \in PutLine(c, f, line, counted, done)
    PROVE  \/ o.rec = FailStop(c) /\ o.file \in HalfWrote(f) /\ ~o.ok
           \/ o.rec = FailStop(counted) /\ o.file = Wrote(f, line) /\ ~o.ok
           \/ o.rec = done /\ o.file = Synced(Wrote(f, line)) /\ o.ok
<1>1. CASE \E g \in HalfWrote(f) : o = Outcome(FailStop(c), g, FALSE)
  <2>1. PICK g \in HalfWrote(f) : o = Outcome(FailStop(c), g, FALSE) BY <1>1
  <2>2. o.rec = FailStop(c) /\ o.file = g /\ ~o.ok BY <2>1, Zenon DEF Outcome
  <2>3. QED BY <2>2
<1>2. CASE o = Outcome(FailStop(counted), Wrote(f, line), FALSE) BY <1>2, Zenon DEF Outcome
<1>3. CASE o = Outcome(done, Synced(Wrote(f, line)), TRUE) BY <1>3, Zenon DEF Outcome
<1>4. QED BY <1>1, <1>2, <1>3 DEF PutLine

(* A recorder that counts one line more. *)
Counts(c, d) ==
    /\ d \in Recorder /\ d.valid = c.valid + 1 /\ d.runId = c.runId /\ d.hasRun

LEMMA CountedGoes ==
    ASSUME NEW c, NEW f, NEW d, NEW g, Running(c, f), Counts(c, d), Longer(f, g)
    PROVE  Goes(c, d, g)
<1>1. c \in Recorder /\ f \in CsvFile /\ c.valid <= Len(f.lines) /\ IsHead(f.lines[1])
  BY DEF Running, Fits
<1>2. f.lines # <<>> /\ Len(f.lines) \in Nat /\ c.valid \in Nat
  <2>1. f.lines \in Seq(Line) /\ c.valid \in Nat /\ c.valid > 0
    BY <1>1, FileFields, RecorderFields DEF Running
  <2>2. QED BY <1>1, <2>1
<1>3. d.valid <= Len(g.lines) /\ d.valid > 0 /\ g.lines[1] = f.lines[1] BY <1>1, <1>2 DEF Counts, Longer
<1>4. g # NoFile BY FileFields DEF Longer
<1>5. QED BY <1>1, <1>3, <1>4 DEF Goes, Running, Fits, Counts, Longer

LEMMA PutLineLeaves ==
    ASSUME NEW c, NEW f, NEW line \in Line, NEW counted, NEW done, Running(c, f),
           Counts(c, counted), Counts(c, done),
           NEW o \in PutLine(c, f, line, counted, done)
    PROVE  Leaves(c, o) /\ (o.ok => o.rec = done)
<1>1. f \in CsvFile /\ c \in Recorder BY DEF Running, Fits
<1>2. CASE o.rec = FailStop(c) /\ o.file \in HalfWrote(f) /\ ~o.ok
  <2>1. o.file \in CsvFile /\ o.file.lines = f.lines BY <1>1, <1>2, HalfKeeps
  <2>2. Goes(c, FailStop(c), o.file) /\ ~FailStop(c).recording BY <2>1, FailStopGoes
  <2>3. QED BY <1>2, <2>2 DEF Leaves
<1>3. CASE o.rec = FailStop(counted) /\ o.file = Wrote(f, line) /\ ~o.ok
  <2>1. Goes(c, counted, o.file) BY <1>1, <1>3, WroteIsLonger, CountedGoes
  <2>2. o.file \in CsvFile BY <1>1, <1>3, WroteIsLonger DEF Longer
  <2>3. Goes(counted, FailStop(counted), o.file) /\ ~FailStop(counted).recording
    BY <2>1, <2>2, FailStopGoes DEF Goes
  <2>4. QED BY <1>3, <2>1, <2>3 DEF Leaves, Goes
<1>4. CASE o.rec = done /\ o.file = Synced(Wrote(f, line)) /\ o.ok
  <2>1. Goes(c, done, o.file) BY <1>1, <1>4, WroteIsLonger, CountedGoes
  <2>2. QED BY <1>4, <2>1 DEF Leaves
<1>5. QED BY <1>2, <1>3, <1>4, PutLineOutcomes

-----------------------------------------------------------------------------
(* A row, and the footer. *)
LEMMA RowIsLine ==
    ASSUME NEW c \in Recorder, NEW s \in Sample, NEW isTerminal \in BOOLEAN
    PROVE  Row(c, s, isTerminal) \in Line
<1>1. c.runId \in Nat /\ c.count + 1 \in Nat /\ s.seq \in Nat /\ s.ms \in Nat
  BY DEF Recorder, Sample
<1>2. c.fault \in BOOLEAN /\ c.gap \in BOOLEAN BY DEF Recorder
<1>3. QED BY <1>1, <1>2, Zenon DEF Row, Line

LEMMA FooterIsLine ==
    ASSUME NEW n \in Nat, NEW elapsed \in Nat, NEW why \in {"complete", "duration_limit"}
    PROVE  Footer(why, n, elapsed) \in Line
BY DEF Footer, Line

LEMMA LogRowLeaves ==
    ASSUME NEW c, NEW f, Running(c, f), NEW s \in Sample, NEW isTerminal \in BOOLEAN,
           NEW o \in LogRow(c, f, s, isTerminal)
    PROVE  Leaves(c, o)
<1> DEFINE counted == [c EXCEPT !.valid = @ + 1, !.count = @ + 1, !.lastAcq = s.seq,
                                !.lastMs = s.ms, !.fault = FALSE, !.gap = FALSE]
<1>0. c \in Recorder /\ f \in CsvFile /\ c.hasRun BY DEF Running, Fits
<1>1. PICK n \in BOOLEAN : n = FALSE OBVIOUS
<1>2. PICK v \in Nat, k \in Nat, q \in Nat, m \in Nat :
           v = c.valid + 1 /\ k = c.count + 1 /\ q = s.seq /\ m = s.ms
  BY <1>0, RecorderFields DEF Sample
<1>2a. PICK b : b = [c EXCEPT !.valid = v, !.count = k, !.lastAcq = q, !.lastMs = m] OBVIOUS
<1>2b. PICK d : d = [b EXCEPT !.fault = n, !.gap = n] OBVIOUS
<1>3. /\ d \in Recorder /\ d.valid = c.valid + 1 /\ d.runId = c.runId /\ d.hasRun = c.hasRun
  <2>1. b \in Recorder /\ b.valid = v /\ b.runId = c.runId /\ b.hasRun = c.hasRun
    BY ONLY <1>0, <1>2a, v \in Nat, k \in Nat, q \in Nat, m \in Nat DEF Recorder
  <2>2. d \in Recorder /\ d.valid = b.valid /\ d.runId = b.runId /\ d.hasRun = b.hasRun
    BY ONLY <1>2b, <2>1, n \in BOOLEAN DEF Recorder
  <2>3. QED BY <1>2, <2>1, <2>2
<1>4. d = counted BY <1>1, <1>2, <1>2a, <1>2b, Zenon
<1>5. Counts(c, d) BY <1>0, <1>3 DEF Counts
<1> HIDE DEF counted
<1>6. \/ o = Outcome(FailStop(c), f, FALSE)
      \/ o \in PutLine(c, f, Row(c, s, isTerminal), d, d)
  BY <1>4 DEF LogRow, counted
<1>7. CASE o = Outcome(FailStop(c), f, FALSE)
  <2>1. o.rec = FailStop(c) /\ o.file = f /\ ~o.ok BY <1>7, Zenon DEF Outcome
  <2>2. QED BY <1>0, <2>1, FailStopGoes DEF Leaves
<1>8. CASE o \in PutLine(c, f, Row(c, s, isTerminal), d, d)
  BY <1>0, <1>5, <1>8, RowIsLine, PutLineLeaves
<1>9. QED BY <1>6, <1>7, <1>8

LEMMA EndRunLeaves ==
    ASSUME NEW c, NEW f, Running(c, f), NEW elapsed \in Nat,
           NEW why \in {"complete", "duration_limit"}, NEW o \in EndRun(c, f, why, elapsed)
    PROVE  Leaves(c, o) /\ ~o.rec.recording
<1>0. c \in Recorder /\ c.hasRun BY DEF Running, Fits
<1>1. PICK n \in BOOLEAN : n = FALSE OBVIOUS
<1>2. PICK d : d = [c EXCEPT !.valid = c.valid + 1] OBVIOUS
<1>3. PICK e : e = [d EXCEPT !.recording = n, !.state = why] OBVIOUS
<1>4. c.valid + 1 \in Nat /\ c.count \in Nat BY <1>0, RecorderFields
<1>5. d \in Recorder /\ d.valid = c.valid + 1 /\ d.runId = c.runId /\ d.hasRun = c.hasRun
  BY ONLY <1>0, <1>2, <1>4 DEF Recorder
<1>6. /\ e \in Recorder /\ e.valid = d.valid /\ e.runId = d.runId /\ e.hasRun = d.hasRun
      /\ e.recording = n
  BY ONLY <1>3, <1>5, n \in BOOLEAN, why \in {"complete", "duration_limit"} DEF Recorder
<1>7. Counts(c, d) /\ Counts(c, e) BY <1>0, <1>5, <1>6 DEF Counts
<1>8. o \in PutLine(c, f, Footer(why, c.count, elapsed), d, e)
  BY <1>1, <1>2, <1>3 DEF EndRun
<1>9. Leaves(c, o) /\ (o.ok => o.rec = e) BY <1>4, <1>7, <1>8, FooterIsLine, PutLineLeaves
<1>10. QED BY <1>1, <1>6, <1>9 DEF Leaves

LEMMA FinishRunLeaves ==
    ASSUME NEW c, NEW f, Running(c, f), NEW elapsed \in Nat,
           NEW why \in {"complete", "duration_limit"}, NEW o \in FinishRun(c, f, why, elapsed)
    PROVE  Leaves(c, o) /\ ~o.rec.recording
<1>1. CASE ~Unselected(c) BY <1>1, EndRunLeaves DEF FinishRun
<1>2. CASE Unselected(c)
  <2>1. PICK p \in LogRow(c, f, c.latest, TRUE) :
             o \in IF p.ok THEN EndRun(p.rec, p.file, why, elapsed) ELSE {p}
    BY <1>2 DEF FinishRun
  <2>2. Leaves(c, p)
    <3>1. c.latest \in Sample BY RecorderFields DEF Running, Fits
    <3>2. QED BY <2>1, <3>1, LogRowLeaves
  <2>3. CASE p.ok
    <3>1. Running(p.rec, p.file) BY <2>2 DEF Leaves, Goes
    <3>2. Leaves(p.rec, o) /\ ~o.rec.recording BY <2>1, <2>3, <3>1, EndRunLeaves
    <3>3. QED BY <2>2, <3>2 DEF Leaves, Goes
  <2>4. CASE ~p.ok BY <2>1, <2>2, <2>4 DEF Leaves
  <2>5. QED BY <2>3, <2>4
<1>3. QED BY <1>1, <1>2

LEMMA NotedGoes ==
    ASSUME NEW c, NEW f, Running(c, f), NEW s \in Sample
    PROVE  Goes(c, Noted(c, s), f)
<1>0. c \in Recorder BY DEF Running, Fits
<1>1. PICK p \in BOOLEAN : p = (c.fault \/ s.fault) BY <1>0, Zenon DEF Recorder, Sample
<1>2. PICK q \in BOOLEAN : q = (c.gap \/ IsGap(c, s)) BY Zenon
<1>3. PICK d : d = [c EXCEPT !.fault = p, !.gap = q, !.latest = s] OBVIOUS
<1>4. /\ d \in Recorder /\ d.runId = c.runId /\ d.valid = c.valid /\ d.hasRun = c.hasRun
      /\ d.recording = c.recording
  BY ONLY <1>0, <1>3, s \in Sample, p \in BOOLEAN, q \in BOOLEAN DEF Recorder
<1>5. d = Noted(c, s) BY <1>1, <1>2, <1>3, Zenon DEF Noted
<1>6. Goes(c, d, f) BY <1>4 DEF Goes, Running, Fits
<1>7. QED BY <1>5, <1>6

(* onSample() and stop() on a run being recorded. *)
LEMMA OnSampleLeaves ==
    ASSUME NEW c, NEW f, Running(c, f), c.recording, NEW s \in Sample, s.runId = c.runId,
           NEW o \in OnSample(c, f, s)
    PROVE  Goes(c, o.rec, o.file)
<1>0. c \in Recorder /\ f \in CsvFile /\ MaxDuration \in Nat BY CsvAssumption DEF Running, Fits
<1>1. Goes(c, Noted(c, s), f) /\ Running(Noted(c, s), f) BY NotedGoes DEF Goes
<1>2. CASE o \in FinishRun(c, f, "duration_limit", MaxDuration)
  BY <1>0, <1>2, FinishRunLeaves DEF Leaves
<1>3. CASE o = Outcome(FailStop(c), f, FALSE)
  <2>1. o.rec = FailStop(c) /\ o.file = f BY <1>3, Zenon DEF Outcome
  <2>2. QED BY <1>0, <2>1, FailStopGoes
<1>4. CASE o \in FinishRun(Noted(c, s), f, "duration_limit", MaxDuration)
  <2>1. Goes(Noted(c, s), o.rec, o.file) BY <1>0, <1>1, <1>4, FinishRunLeaves DEF Leaves
  <2>2. QED BY <1>1, <2>1 DEF Goes
<1>5. CASE o \in LogRow(Noted(c, s), f, s, FALSE)
  <2>1. Goes(Noted(c, s), o.rec, o.file) BY <1>1, <1>5, LogRowLeaves DEF Leaves
  <2>2. QED BY <1>1, <2>1 DEF Goes
<1>6. CASE o = Outcome(Noted(c, s), f, TRUE)
  <2>1. o.rec = Noted(c, s) /\ o.file = f BY <1>6, Zenon DEF Outcome
  <2>2. QED BY <1>1, <2>1
<1>7. \/ o \in FinishRun(c, f, "duration_limit", MaxDuration)
      \/ o = Outcome(FailStop(c), f, FALSE)
      \/ o \in FinishRun(Noted(c, s), f, "duration_limit", MaxDuration)
      \/ o \in LogRow(Noted(c, s), f, s, FALSE)
      \/ o = Outcome(Noted(c, s), f, TRUE)
  BY Zenon DEF OnSample
<1>8. QED BY <1>2, <1>3, <1>4, <1>5, <1>6, <1>7

LEMMA StopRunLeaves ==
    ASSUME NEW c, NEW f, Running(c, f), c.recording, NEW elapsed \in Nat,
           NEW o \in StopRun(c, f, elapsed)
    PROVE  Goes(c, o.rec, o.file) /\ ~o.rec.recording
<1>0. f \in CsvFile /\ MaxDuration \in Nat BY CsvAssumption DEF Running, Fits
<1>1. CASE o = Outcome(FailStop(c), f, FALSE)
  <2>1. o.rec = FailStop(c) /\ o.file = f BY <1>1, Zenon DEF Outcome
  <2>2. QED BY <1>0, <2>1, FailStopGoes
<1>2. CASE o \in FinishRun(c, f, "duration_limit", MaxDuration)
  BY <1>0, <1>2, FinishRunLeaves DEF Leaves
<1>3. CASE o \in FinishRun(c, f, "complete", elapsed)
  BY <1>0, <1>3, FinishRunLeaves DEF Leaves
<1>4. QED BY <1>1, <1>2, <1>3, Zenon DEF StopRun

-----------------------------------------------------------------------------
(* The boot. *)
LEMMA LeastNumber ==
    ASSUME NEW S \in SUBSET Nat, S # {}
    PROVE  \E n \in S : \A m \in S : n <= m
<1>1. IsWellFoundedOn(OpToRel(<, Nat), Nat) BY NatLessThanWellFounded
<1>2. PICK n \in S : \A y \in S : <<y, n>> \notin OpToRel(<, Nat)
  BY <1>1, WFMin
<1>3. ASSUME NEW m \in S PROVE n <= m
  <2>1. ~(m < n) BY <1>2 DEF OpToRel
  <2>2. QED BY <2>1
<1>4. QED BY <1>3

(* Where the content ends, it is because the next line does not count. *)
LEMMA ContentEndIs ==
    ASSUME NEW f \in CsvFile
    PROVE  /\ ContentEnd(f) \in 0..Len(f.lines)
           /\ \A k \in 1..ContentEnd(f) : ValidLine(f, k)
<1> DEFINE P(n) == /\ \A k \in 1..n : ValidLine(f, k)
                   /\ n < Len(f.lines) => ~ValidLine(f, n + 1)
           bad == {k \in 0..Len(f.lines) : k < Len(f.lines) => ~ValidLine(f, k + 1)}
<1>0. Len(f.lines) \in Nat BY FileFields
<1>1. PICK n \in bad : \A m \in bad : n <= m
  <2>1. Len(f.lines) \in bad /\ bad \in SUBSET Nat BY <1>0
  <2>2. QED BY <2>1, LeastNumber
<1>2. P(n)
  <2>1. ASSUME NEW k \in 1..n PROVE ValidLine(f, k)
    <3>0. PICK j \in 0..Len(f.lines) : j = k - 1 BY <1>0
    <3>1. j \notin bad BY <1>1, <3>0
    <3>2. ValidLine(f, (k - 1) + 1) BY <3>0, <3>1
    <3>3. (k - 1) + 1 = k OBVIOUS
    <3>4. QED BY <3>2, <3>3
  <2>2. QED BY <1>1, <2>1
<1>3. ContentEnd(f) = CHOOSE m \in 0..Len(f.lines) : P(m) BY DEF ContentEnd
<1>4. \E m \in 0..Len(f.lines) : P(m) BY <1>1, <1>2
<1> HIDE DEF P
<1>5. ContentEnd(f) \in 0..Len(f.lines) /\ P(ContentEnd(f)) BY <1>3, <1>4
<1>6. QED BY <1>5 DEF P

LEMMA ScanFits ==
    ASSUME NEW f \in CsvFile
    PROVE  /\ Scan(f).runId \in Nat /\ Scan(f).rows \in Nat /\ Scan(f).valid \in 0..Len(f.lines)
           /\ Scan(f).state \in {"error", "interrupted", "complete", "duration_limit"}
           /\ Scan(f).rows # 0 => /\ f.lines[Scan(f).rows + 1].acqSeq \in Nat
                                  /\ f.lines[Scan(f).rows + 1].ms \in Nat
           /\ Scan(f).valid > 0 => IsHead(f.lines[1])
<1>1. PICK n \in 0..Len(f.lines) : n = ContentEnd(f) BY ContentEndIs
<1>2. Len(f.lines) \in Nat /\ f.lines \in Seq(Line) BY FileFields
<1>3. PICK ended \in BOOLEAN :
          ended = (n > 0 /\ n + 1 = Len(f.lines) /\ ~f.torn /\ ValidFooter(f, n + 1))
  BY Zenon
<1>4. CASE n = 0
  <2>1. Scan(f) = [runId |-> 0, rows |-> 0, valid |-> 0, state |-> "error"]
    BY <1>1, <1>4 DEF Scan
  <2>2. QED BY <1>2, <2>1
<1>5. CASE n > 0
  <2>1. Scan(f) = [runId |-> f.lines[1].runId, rows |-> n - 1,
                   valid |-> IF ended THEN n + 1 ELSE n,
                   state |-> IF ended THEN f.lines[n + 1].reason ELSE "interrupted"]
    <3>1. n # 0 BY <1>5
    <3>2. QED BY <1>1, <1>3, <3>1, Zenon DEF Scan
  <2>2. IsHead(f.lines[1]) /\ f.lines[1] \in Line
    <3>1. ValidLine(f, 1) BY <1>1, <1>5, ContentEndIs
    <3>2. QED BY <1>2, <1>5, <3>1 DEF ValidLine
  <2>3. f.lines[1].runId \in Nat BY <2>2 DEF IsHead, Line
  <2>4. ended => f.lines[n + 1].reason \in {"complete", "duration_limit"} /\ n + 1 = Len(f.lines)
    <3>1. SUFFICES ASSUME ended PROVE f.lines[n + 1].reason \in {"complete", "duration_limit"}
                                      /\ n + 1 = Len(f.lines)
      OBVIOUS
    <3>2. n + 1 = Len(f.lines) /\ ValidFooter(f, n + 1) BY <1>3, <3>1, Zenon
    <3>3. f.lines[n + 1] \in Line /\ f.lines[n + 1].kind = "end"
      BY <1>2, <1>5, <3>2 DEF ValidFooter
    <3>4. QED BY <3>2, <3>3 DEF Line
  <2>5. n - 1 # 0 => f.lines[(n - 1) + 1].acqSeq \in Nat /\ f.lines[(n - 1) + 1].ms \in Nat
    <3>1. SUFFICES ASSUME n # 1 PROVE f.lines[n].acqSeq \in Nat /\ f.lines[n].ms \in Nat
      BY <1>5
    <3>2. ValidLine(f, n) BY <1>1, <1>5, ContentEndIs
    <3>3. f.lines[n].kind = "row" BY <3>1, <3>2 DEF ValidLine, ValidRow
    <3>4. f.lines[n] \in Line BY <1>2, <1>5
    <3>5. QED BY <3>3, <3>4 DEF Line
  <2>6. CASE ended
    <3>1. /\ Scan(f).runId = f.lines[1].runId /\ Scan(f).rows = n - 1 /\ Scan(f).valid = n + 1
          /\ Scan(f).state = f.lines[n + 1].reason
      BY <2>1, <2>6
    <3>2. QED BY <1>2, <1>5, <2>2, <2>3, <2>4, <2>5, <2>6, <3>1
  <2>7. CASE ~ended
    <3>1. /\ Scan(f).runId = f.lines[1].runId /\ Scan(f).rows = n - 1 /\ Scan(f).valid = n
          /\ Scan(f).state = "interrupted"
      BY <2>1, <2>7
    <3>2. QED BY <1>2, <1>5, <2>2, <2>3, <2>5, <3>1
  <2>8. QED BY <2>6, <2>7
<1>6. QED BY <1>4, <1>5

(* A recorder that neither records nor reads. *)
Quiet(c, f) == Fits(c, f) /\ ~c.recording /\ ~c.reader

LEMMA UnmountedIs ==
    /\ Unmounted \in Recorder /\ ~Unmounted.recording /\ ~Unmounted.reader
    /\ ~Unmounted.hasRun /\ Unmounted.valid = 0
<1>1. PICK n \in BOOLEAN : n = FALSE OBVIOUS
<1>2. PICK s : s = [runId |-> 0, seq |-> 0, ms |-> 0, fault |-> n] OBVIOUS
<1>3. s \in Sample BY <1>2 DEF Sample
<1>4. PICK d : d = [mounted |-> n, hasRun |-> n, recording |-> n, reader |-> n, sent |-> 0,
                    runId |-> 0, count |-> 0, valid |-> 0, lastAcq |-> 0, lastMs |-> 0,
                    latest |-> s, fault |-> n, gap |-> n, error |-> n, state |-> "idle"]
  OBVIOUS
<1>5. d \in Recorder BY ONLY <1>3, <1>4, n \in BOOLEAN DEF Recorder
<1>6. d.recording = n /\ d.reader = n /\ d.hasRun = n /\ d.valid = 0 BY <1>4
<1>7. d = Unmounted BY <1>1, <1>2, <1>4, Zenon DEF Unmounted, NoSample
<1>8. QED BY <1>1, <1>5, <1>6, <1>7

LEMMA ErrorFits ==
    ASSUME NEW c, NEW f, Fits(c, f), NEW d, d = [c EXCEPT !.error = TRUE, !.state = "error"]
    PROVE  /\ Fits(d, f) /\ d.recording = c.recording /\ d.reader = c.reader
           /\ d.hasRun = c.hasRun /\ d.runId = c.runId /\ d.valid = c.valid
<1>0. c \in Recorder BY DEF Fits
<1>1. PICK t \in BOOLEAN : t = TRUE OBVIOUS
<1>2. PICK e : e = [c EXCEPT !.error = t, !.state = "error"] OBVIOUS
<1>3. /\ e \in Recorder /\ e.recording = c.recording /\ e.reader = c.reader
      /\ e.hasRun = c.hasRun /\ e.runId = c.runId /\ e.valid = c.valid
  BY ONLY <1>0, <1>2, t \in BOOLEAN DEF Recorder
<1>4. e = d BY <1>1, <1>2
<1>5. Fits(e, f) BY <1>3 DEF Fits
<1>6. QED BY <1>3, <1>4, <1>5

LEMMA BeginFits ==
    ASSUME NEW f \in CsvFile \cup {NoFile}, NEW o \in Begin(Unmounted, f)
    PROVE  Quiet(o.rec, f)
<1> DEFINE s == Scan(f)
           last == f.lines[s.rows + 1]
<1>1. PICK t \in BOOLEAN, n \in BOOLEAN : t = TRUE /\ n = FALSE OBVIOUS
<1>2. PICK up : up = [Unmounted EXCEPT !.mounted = TRUE] OBVIOUS
<1>3. /\ up \in Recorder /\ ~up.recording /\ ~up.reader /\ ~up.hasRun /\ up.valid = 0
  <2>1. PICK v : v = [Unmounted EXCEPT !.mounted = t] OBVIOUS
  <2>2. Unmounted \in Recorder BY UnmountedIs
  <2>3. /\ v \in Recorder /\ v.recording = Unmounted.recording /\ v.reader = Unmounted.reader
        /\ v.hasRun = Unmounted.hasRun /\ v.valid = Unmounted.valid
    BY ONLY <2>1, <2>2, t \in BOOLEAN DEF Recorder
  <2>4. v = up BY <1>1, <1>2, <2>1
  <2>5. QED BY <2>3, <2>4, UnmountedIs
<1> DEFINE lost == [up EXCEPT !.hasRun = TRUE, !.error = TRUE, !.state = "error"]
           found == [up EXCEPT !.hasRun = TRUE, !.runId = s.runId, !.count = s.rows,
                               !.valid = s.valid, !.state = s.state, !.error = s.runId = 0,
                               !.lastAcq = IF s.rows = 0 THEN 0 ELSE last.acqSeq,
                               !.lastMs = IF s.rows = 0 THEN 0 ELSE last.ms]
<1>4. \/ o = Outcome([Unmounted EXCEPT !.error = TRUE, !.state = "error"], f, FALSE)
      \/ o = Outcome(up, f, TRUE)
      \/ f # NoFile /\ o = Outcome(lost, f, FALSE)
      \/ f # NoFile /\ o = Outcome(found, f, TRUE)
  BY <1>2, UnmountedIs, Zenon DEF Begin
<1>5. ASSUME NEW d, NEW ok, o = Outcome(d, f, ok), Quiet(d, f) PROVE Quiet(o.rec, f)
  <2>1. o.rec = d BY <1>5, Zenon DEF Outcome
  <2>2. QED BY <1>5, <2>1
<1>6. CASE o = Outcome([Unmounted EXCEPT !.error = TRUE, !.state = "error"], f, FALSE)
  <2>1. Quiet(Unmounted, f) BY UnmountedIs DEF Quiet, Fits
  <2>2. o.rec = [Unmounted EXCEPT !.error = TRUE, !.state = "error"] BY <1>6, Zenon DEF Outcome
  <2>3. QED BY <2>1, <2>2, ErrorFits DEF Quiet
<1>7. CASE o = Outcome(up, f, TRUE)
  <2>1. Quiet(up, f) BY <1>3 DEF Quiet, Fits
  <2>2. QED BY <1>5, <1>7, <2>1
<1>8. CASE o = Outcome(lost, f, FALSE)
  <2>1. PICK d : d = [up EXCEPT !.hasRun = t, !.error = t, !.state = "error"] OBVIOUS
  <2>2. /\ d \in Recorder /\ d.recording = up.recording /\ d.reader = up.reader /\ d.valid = up.valid
    BY ONLY <1>3, <2>1, t \in BOOLEAN DEF Recorder
  <2>3. d = lost BY <1>1, <2>1, Zenon
  <2>4. Quiet(d, f) BY <1>3, <2>2 DEF Quiet, Fits
  <2>5. QED BY <1>5, <1>8, <2>3, <2>4
<1>9. CASE f # NoFile /\ o = Outcome(found, f, TRUE)
  <2>1. f \in CsvFile BY <1>9
  <2>2. /\ s.runId \in Nat /\ s.rows \in Nat /\ s.valid \in 0..Len(f.lines)
        /\ s.state \in {"error", "interrupted", "complete", "duration_limit"}
        /\ s.rows # 0 => last.acqSeq \in Nat /\ last.ms \in Nat
        /\ s.valid > 0 => IsHead(f.lines[1])
    BY <2>1, ScanFits
  <2>3. PICK x \in Nat : x = IF s.rows = 0 THEN 0 ELSE last.acqSeq BY <2>2
  <2>4. PICK y \in Nat : y = IF s.rows = 0 THEN 0 ELSE last.ms BY <2>2
  <2>5. PICK e \in BOOLEAN : e = (s.runId = 0) BY Zenon
  <2>6. PICK r : r = s OBVIOUS
  <2>7. r.runId \in Nat /\ r.rows \in Nat /\ r.valid \in Nat
        /\ r.state \in {"error", "interrupted", "complete", "duration_limit"}
    BY <2>1, <2>2, <2>6, FileFields
  <2>8. PICK v : v = [up EXCEPT !.hasRun = t, !.runId = r.runId, !.count = r.rows,
                                !.valid = r.valid]
    OBVIOUS
  <2>9. v \in Recorder BY ONLY <1>3, <2>7, <2>8, t \in BOOLEAN DEF Recorder
  <2>10. /\ v.recording = up.recording /\ v.reader = up.reader /\ v.valid = r.valid /\ v.hasRun = t
    BY ONLY <1>3, <2>8 DEF Recorder
  <2>11. PICK d : d = [v EXCEPT !.state = r.state, !.error = e, !.lastAcq = x, !.lastMs = y] OBVIOUS
  <2>12. d \in Recorder
    BY ONLY <2>7, <2>9, <2>11, e \in BOOLEAN, x \in Nat, y \in Nat DEF Recorder
  <2>13. /\ d.recording = up.recording /\ d.reader = up.reader /\ d.valid = r.valid /\ d.hasRun = t
    BY ONLY <2>9, <2>10, <2>11 DEF Recorder
  <2>14. d = found BY <1>1, <2>3, <2>4, <2>5, <2>6, <2>8, <2>11, Zenon
  <2>15. d.valid \in 0..Len(f.lines) /\ (d.valid > 0 => IsHead(f.lines[1])) BY <2>2, <2>6, <2>13
  <2>16. Quiet(d, f) BY <1>1, <1>3, <1>9, <2>12, <2>13, <2>15 DEF Quiet, Fits
  <2>17. QED BY <1>5, <1>9, <2>14, <2>16
<1>10. QED BY <1>4, <1>6, <1>7, <1>8, <1>9

-----------------------------------------------------------------------------
(* start(), erase() and format() on a recorder at rest. *)
LEMMA FreshFields ==
    ASSUME NEW c \in Recorder
    PROVE  /\ Fresh(c) \in Recorder /\ Fresh(c).runId = 0 /\ Fresh(c).valid = 0
           /\ Fresh(c).recording = c.recording /\ Fresh(c).hasRun = c.hasRun
           /\ Fresh(c).reader = c.reader
<1>1. PICK n \in BOOLEAN : n = FALSE OBVIOUS
<1>2. PICK s : s = [runId |-> 0, seq |-> 0, ms |-> 0, fault |-> n] OBVIOUS
<1>3. s \in Sample BY <1>2 DEF Sample
<1>4. PICK v : v = [c EXCEPT !.runId = 0, !.count = 0, !.valid = 0, !.lastAcq = 0, !.lastMs = 0]
  OBVIOUS
<1>5. v \in Recorder BY ONLY <1>4, c \in Recorder DEF Recorder
<1>6. /\ v.runId = 0 /\ v.valid = 0
      /\ v.recording = c.recording /\ v.hasRun = c.hasRun /\ v.reader = c.reader
  BY ONLY <1>4, c \in Recorder DEF Recorder
<1>7. PICK d : d = [v EXCEPT !.latest = s, !.fault = n, !.gap = n, !.error = n, !.state = "idle"]
  OBVIOUS
<1>8. d \in Recorder BY ONLY <1>3, <1>5, <1>7, n \in BOOLEAN DEF Recorder
<1>9. /\ d.runId = 0 /\ d.valid = 0
      /\ d.recording = c.recording /\ d.hasRun = c.hasRun /\ d.reader = c.reader
  BY ONLY <1>5, <1>6, <1>7 DEF Recorder
<1>10. d = Fresh(c) BY <1>1, <1>2, <1>4, <1>7, Zenon DEF Fresh, NoSample
<1>11. QED BY <1>8, <1>9, <1>10

LEMMA EmptyFileIs == EmptyFile \in CsvFile /\ EmptyFile.lines = <<>>
<1>1. PICK n \in BOOLEAN : n = FALSE OBVIOUS
<1>2. PICK f : f = [lines |-> <<>>, torn |-> n, synced |-> 0] OBVIOUS
<1>3. f \in CsvFile /\ f.lines = <<>> BY <1>2 DEF CsvFile
<1>4. f = EmptyFile BY <1>1, <1>2, Zenon DEF EmptyFile
<1>5. QED BY <1>3, <1>4

(* What a start may leave of a recorder without a run. *)
Starts(id, d, f) ==
    Fits(d, f) /\ (d.recording => d.runId = id) /\ (d.hasRun => d.runId \in {0, id})

LEMMA StartRunLeaves ==
    ASSUME NEW c, NEW f, Fits(c, f), CanStart(c), NEW id \in Nat \ {0}, NEW o \in StartRun(c, f, id)
    PROVE  Starts(id, o.rec, o.file)
<1>1. PICK t \in BOOLEAN, n \in BOOLEAN : t = TRUE /\ n = FALSE OBVIOUS
<1>2. c \in Recorder /\ ~c.recording /\ ~c.hasRun /\ c.valid = 0 BY DEF Fits, CanStart
<1>3. PICK b : b = Fresh(c) OBVIOUS
<1>4. b \in Recorder /\ b.valid = 0 /\ b.recording = c.recording BY <1>2, <1>3, FreshFields
<1>5. PICK m : m = [b EXCEPT !.hasRun = t, !.runId = id] OBVIOUS
<1>6. /\ m \in Recorder /\ m.valid = b.valid /\ m.hasRun = t /\ m.runId = id
      /\ m.recording = b.recording
  BY ONLY <1>4, <1>5, t \in BOOLEAN, id \in Nat \ {0} DEF Recorder
<1>7. PICK k : k = [m EXCEPT !.valid = 1] OBVIOUS
<1>8. /\ k \in Recorder /\ k.valid = 1 /\ k.hasRun = m.hasRun /\ k.runId = m.runId
      /\ k.recording = m.recording
  BY ONLY <1>6, <1>7 DEF Recorder
<1>9. PICK d : d = [k EXCEPT !.recording = t, !.state = "recording"] OBVIOUS
<1>10. d \in Recorder /\ d.valid = k.valid /\ d.hasRun = k.hasRun /\ d.runId = k.runId
  BY ONLY <1>8, <1>9, t \in BOOLEAN DEF Recorder
<1>11. PICK x : x = [c EXCEPT !.hasRun = TRUE, !.runId = 0, !.count = 0, !.valid = 0,
                              !.error = TRUE, !.state = "error"]
  OBVIOUS
<1>12. \/ o = Outcome(c, f, FALSE)
       \/ o = Outcome([c EXCEPT !.error = TRUE, !.state = "error"], f, FALSE)
       \/ o = Outcome(x, f, FALSE)
       \/ o \in PutLine(m, EmptyFile, HeadOf(id), k, d)
  BY <1>1, <1>3, <1>5, <1>7, <1>9, <1>11, Zenon DEF StartRun
<1>13. ASSUME NEW e, NEW g, NEW ok, o = Outcome(e, g, ok), Starts(id, e, g)
       PROVE  Starts(id, o.rec, o.file)
  <2>1. o.rec = e /\ o.file = g BY <1>13, Zenon DEF Outcome
  <2>2. QED BY <1>13, <2>1
<1>14. CASE o = Outcome(c, f, FALSE)
  <2>1. Starts(id, c, f) BY <1>2 DEF Starts
  <2>2. QED BY <1>13, <1>14, <2>1
<1>15. CASE o = Outcome([c EXCEPT !.error = TRUE, !.state = "error"], f, FALSE)
  <2>1. PICK e : e = [c EXCEPT !.error = TRUE, !.state = "error"] OBVIOUS
  <2>2. Fits(e, f) /\ e.recording = c.recording /\ e.hasRun = c.hasRun BY <2>1, ErrorFits
  <2>3. Starts(id, e, f) BY <1>2, <2>2 DEF Starts
  <2>4. QED BY <1>13, <1>15, <2>1, <2>3
<1>16. CASE o = Outcome(x, f, FALSE)
  <2>1. PICK v : v = [c EXCEPT !.hasRun = t, !.runId = 0, !.count = 0, !.valid = 0] OBVIOUS
  <2>2. v \in Recorder /\ v.runId = 0 /\ v.valid = 0 /\ v.recording = c.recording /\ v.hasRun = t
    BY ONLY <1>2, <2>1, t \in BOOLEAN DEF Recorder
  <2>3. PICK e : e = [v EXCEPT !.error = t, !.state = "error"] OBVIOUS
  <2>4. /\ e \in Recorder /\ e.runId = v.runId /\ e.valid = v.valid
        /\ e.recording = v.recording /\ e.hasRun = v.hasRun
    BY ONLY <2>2, <2>3, t \in BOOLEAN DEF Recorder
  <2>5. e = x BY <1>1, <1>11, <2>1, <2>3, Zenon
  <2>6. Starts(id, e, f) BY <1>1, <1>2, <2>2, <2>4 DEF Starts, Fits
  <2>7. QED BY <1>13, <1>16, <2>5, <2>6
<1>17. CASE o \in PutLine(m, EmptyFile, HeadOf(id), k, d)
  <2>1. HeadOf(id) \in Line /\ IsHead(HeadOf(id)) BY DEF HeadOf, Line, IsHead
  <2>2. EmptyFile \in CsvFile /\ EmptyFile.lines = <<>> BY EmptyFileIs
  <2>3. ASSUME NEW g \in CsvFile, Longer(EmptyFile, g), g.lines[1] = HeadOf(id),
               NEW e \in Recorder, e.valid = 1, e.hasRun, e.runId = id
        PROVE  Starts(id, e, g)
    <3>1. Len(g.lines) = 1 BY <2>2, <2>3 DEF Longer
    <3>2. g # NoFile /\ IsHead(g.lines[1]) BY <2>1, <2>3, FileFields
    <3>3. Fits(e, g) BY <2>3, <3>1, <3>2 DEF Fits
    <3>4. QED BY <2>3, <3>3 DEF Starts
  <2>4. CASE o.rec = FailStop(m) /\ o.file \in HalfWrote(EmptyFile)
    <3>1. o.file \in CsvFile /\ o.file # NoFile BY <2>2, <2>4, HalfKeeps, FileFields
    <3>2. /\ FailStop(m) \in Recorder /\ ~FailStop(m).recording /\ FailStop(m).runId = id
          /\ FailStop(m).valid = 0
      BY <1>4, <1>6, FailStopStill
    <3>3. Fits(FailStop(m), o.file) BY <3>1, <3>2 DEF Fits
    <3>4. QED BY <2>4, <3>2, <3>3 DEF Starts
  <2>5. CASE o.rec = FailStop(k) /\ o.file = Wrote(EmptyFile, HeadOf(id))
    <3>1. /\ FailStop(k) \in Recorder /\ FailStop(k).hasRun /\ FailStop(k).runId = id
          /\ FailStop(k).valid = 1
      BY <1>1, <1>6, <1>8, FailStopStill
    <3>2a. Longer(EmptyFile, o.file) /\ o.file.lines[1] = HeadOf(id)
      BY <2>1, <2>2, <2>5, WroteIsLonger
    <3>2. Longer(EmptyFile, o.file) /\ o.file.lines[1] = HeadOf(id) /\ o.file \in CsvFile
      BY <3>2a DEF Longer
    <3>3. QED BY <2>3, <2>5, <3>1, <3>2
  <2>6. CASE o.rec = d /\ o.file = Synced(Wrote(EmptyFile, HeadOf(id)))
    <3>1. d.hasRun /\ d.runId = id /\ d.valid = 1 BY <1>1, <1>6, <1>8, <1>10
    <3>2a. Longer(EmptyFile, o.file) /\ o.file.lines[1] = HeadOf(id)
      BY <2>1, <2>2, <2>6, WroteIsLonger
    <3>2. Longer(EmptyFile, o.file) /\ o.file.lines[1] = HeadOf(id) /\ o.file \in CsvFile
      BY <3>2a DEF Longer
    <3>3. QED BY <1>10, <2>3, <2>6, <3>1, <3>2
  <2>7. QED BY <1>17, <2>4, <2>5, <2>6, PutLineOutcomes
<1>18. QED BY <1>12, <1>14, <1>15, <1>16, <1>17

(* What an erase or a format may leave: the run as it was, or none. *)
Rests(c, d, f) ==
    Fits(d, f) /\ ~d.recording /\ (d.hasRun => c.hasRun /\ d.runId = c.runId)

LEMMA EraseRunLeaves ==
    ASSUME NEW c, NEW f, Fits(c, f), ~c.recording, NEW id, NEW o \in EraseRun(c, f, id)
    PROVE  Rests(c, o.rec, o.file)
<1>0. c \in Recorder BY DEF Fits
<1>1. ASSUME NEW e, NEW g, NEW ok, o = Outcome(e, g, ok), Rests(c, e, g)
      PROVE  Rests(c, o.rec, o.file)
  <2>1. o.rec = e /\ o.file = g BY <1>1, Zenon DEF Outcome
  <2>2. QED BY <1>1, <2>1
<1>2. CASE o = Outcome(c, f, FALSE)
  <2>1. Rests(c, c, f) BY DEF Rests
  <2>2. QED BY <1>1, <1>2, <2>1
<1>3. CASE o = Outcome([c EXCEPT !.error = TRUE, !.state = "error"], f, FALSE)
  <2>1. PICK e : e = [c EXCEPT !.error = TRUE, !.state = "error"] OBVIOUS
  <2>2. Rests(c, e, f) BY <2>1, ErrorFits DEF Rests
  <2>3. QED BY <1>1, <1>3, <2>1, <2>2
<1>4. CASE o = Outcome([Fresh(c) EXCEPT !.hasRun = FALSE], NoFile, TRUE)
  <2>1. PICK n \in BOOLEAN : n = FALSE OBVIOUS
  <2>2. PICK b : b = Fresh(c) OBVIOUS
  <2>3. b \in Recorder /\ b.valid = 0 /\ b.recording = c.recording BY <1>0, <2>2, FreshFields
  <2>4. PICK d : d = [b EXCEPT !.hasRun = n] OBVIOUS
  <2>5. d \in Recorder /\ d.valid = b.valid /\ d.recording = b.recording /\ d.hasRun = n
    BY ONLY <2>3, <2>4, n \in BOOLEAN DEF Recorder
  <2>6. Rests(c, d, NoFile) BY <2>1, <2>3, <2>5 DEF Rests, Fits
  <2>7. d = [Fresh(c) EXCEPT !.hasRun = FALSE] BY <2>1, <2>2, <2>4
  <2>8. QED BY <1>1, <1>4, <2>6, <2>7
<1>5. QED BY <1>2, <1>3, <1>4, Zenon DEF EraseRun

LEMMA FormatLeaves ==
    ASSUME NEW c, NEW f, Fits(c, f), ~c.recording, NEW o \in FormatVolume(c, f)
    PROVE  Rests(c, o.rec, o.file)
<1> DEFINE broken == [c EXCEPT !.mounted = FALSE, !.error = TRUE, !.state = "error"]
           ready == [Fresh(c) EXCEPT !.mounted = TRUE]
<1>0. c \in Recorder BY DEF Fits
<1>1. ASSUME NEW e, NEW g, NEW ok, o = Outcome(e, g, ok), Rests(c, e, g)
      PROVE  Rests(c, o.rec, o.file)
  <2>1. o.rec = e /\ o.file = g BY <1>1, Zenon DEF Outcome
  <2>2. QED BY <1>1, <2>1
<1>2. PICK n \in BOOLEAN, t \in BOOLEAN : n = FALSE /\ t = TRUE OBVIOUS
<1>3. CASE o = Outcome(c, f, FALSE)
  <2>1. Rests(c, c, f) BY DEF Rests
  <2>2. QED BY <1>1, <1>3, <2>1
<1>4. CASE ~c.hasRun /\ \E g \in {f, NoFile} : o = Outcome(broken, g, FALSE)
  <2>1. PICK g \in {f, NoFile} : o = Outcome(broken, g, FALSE) BY <1>4
  <2>2. PICK d : d = [c EXCEPT !.mounted = n, !.error = t, !.state = "error"] OBVIOUS
  <2>3. /\ d \in Recorder /\ d.recording = c.recording /\ d.hasRun = c.hasRun /\ d.valid = c.valid
    BY ONLY <1>0, <2>2, n \in BOOLEAN, t \in BOOLEAN DEF Recorder
  <2>4. Rests(c, d, g) BY <1>4, <2>3 DEF Rests, Fits
  <2>5. d = broken BY <1>2, <2>2, Zenon
  <2>6. QED BY <1>1, <2>1, <2>4, <2>5
<1>5. CASE ~c.hasRun /\ o = Outcome(ready, NoFile, TRUE)
  <2>1. PICK b : b = Fresh(c) OBVIOUS
  <2>2. b \in Recorder /\ b.valid = 0 /\ b.recording = c.recording /\ b.hasRun = c.hasRun
    BY <1>0, <2>1, FreshFields
  <2>3. PICK d : d = [b EXCEPT !.mounted = t] OBVIOUS
  <2>4. d \in Recorder /\ d.valid = b.valid /\ d.recording = b.recording /\ d.hasRun = b.hasRun
    BY ONLY <2>2, <2>3, t \in BOOLEAN DEF Recorder
  <2>5. Rests(c, d, NoFile) BY <1>5, <2>2, <2>4 DEF Rests, Fits
  <2>6. d = ready BY <1>2, <2>1, <2>3
  <2>7. QED BY <1>1, <1>5, <2>5, <2>6
<1>6. QED BY <1>3, <1>4, <1>5, Zenon DEF FormatVolume

-----------------------------------------------------------------------------
(* A download changes what is read, not what is recorded. *)
Reads(c, d) ==
    /\ d \in Recorder /\ d.recording = c.recording /\ d.hasRun = c.hasRun
    /\ d.runId = c.runId /\ d.valid = c.valid

LEMMA ReadsFits ==
    ASSUME NEW c, NEW d, NEW f, Fits(c, f), Reads(c, d)
    PROVE  Fits(d, f)
BY DEF Fits, Reads

LEMMA ClosedReads ==
    ASSUME NEW c \in Recorder
    PROVE  Reads(c, Closed(c)) /\ ~Closed(c).reader
<1>1. PICK n \in BOOLEAN : n = FALSE OBVIOUS
<1>2. PICK d : d = [c EXCEPT !.reader = n, !.sent = 0] OBVIOUS
<1>3. /\ d \in Recorder /\ d.recording = c.recording /\ d.hasRun = c.hasRun
      /\ d.runId = c.runId /\ d.valid = c.valid /\ d.reader = n
  BY ONLY <1>2, c \in Recorder, n \in BOOLEAN DEF Recorder
<1>4. d = Closed(c) BY <1>1, <1>2 DEF Closed
<1>5. QED BY <1>1, <1>3, <1>4 DEF Reads

LEMMA OpenedReads ==
    ASSUME NEW c \in Recorder
    PROVE  Reads(c, Opened(c)) /\ Opened(c).reader /\ Opened(c).sent = 0
<1>1. PICK t \in BOOLEAN : t = TRUE OBVIOUS
<1>2. PICK d : d = [c EXCEPT !.reader = t, !.sent = 0] OBVIOUS
<1>3. /\ d \in Recorder /\ d.recording = c.recording /\ d.hasRun = c.hasRun
      /\ d.runId = c.runId /\ d.valid = c.valid /\ d.reader = t /\ d.sent = 0
  BY ONLY <1>2, c \in Recorder, t \in BOOLEAN DEF Recorder
<1>4. d = Opened(c) BY <1>1, <1>2 DEF Opened
<1>5. QED BY <1>1, <1>3, <1>4 DEF Reads

LEMMA AdvancedReads ==
    ASSUME NEW c \in Recorder, NEW n \in Nat
    PROVE  Reads(c, Advanced(c, n)) /\ Advanced(c, n).reader = c.reader
           /\ Advanced(c, n).sent = c.sent + n
<1>1. PICK k \in Nat : k = c.sent + n BY RecorderFields
<1>2. PICK d : d = [c EXCEPT !.sent = k] OBVIOUS
<1>3. /\ d \in Recorder /\ d.recording = c.recording /\ d.hasRun = c.hasRun
      /\ d.runId = c.runId /\ d.valid = c.valid /\ d.reader = c.reader /\ d.sent = k
  BY ONLY <1>2, c \in Recorder, k \in Nat DEF Recorder
<1>4. d = Advanced(c, n) BY <1>1, <1>2 DEF Advanced
<1>5. QED BY <1>1, <1>3, <1>4 DEF Reads

(* What a step does to the recorder, its file and the run, when it does anything. *)
LEMMA KeptFits ==
    ASSUME NEW f \in CsvFile \cup {NoFile}
    PROVE  /\ Kept(f) \in CsvFile \cup {NoFile}
           /\ f = NoFile => Kept(f) = NoFile
           /\ f # NoFile => Kept(f) # NoFile /\ Kept(f).lines = f.lines
           /\ \A c : Fits(c, f) => Fits(c, Kept(f))
<1>1. CASE f = NoFile BY <1>1 DEF Kept
<1>2. CASE f # NoFile
  <2>1. f \in CsvFile /\ f.lines \in Seq(Line) BY <1>2, FileFields
  <2>2. Kept(f) = [EmptyFile EXCEPT !.lines = f.lines] BY <1>2 DEF Kept
  <2>3. Kept(f) \in CsvFile /\ Kept(f).lines = f.lines
    BY <2>1, <2>2, EmptyFileIs DEF CsvFile
  <2>4. Kept(f) # NoFile BY <2>3, FileFields
  <2>5. QED BY <1>2, <2>3, <2>4 DEF Fits
<1>3. QED BY <1>1, <1>2

LEMMA RecordingIs ==
    ASSUME NEW outcomes, NEW after \in RunState, Recording(outcomes, after)
    PROVE  \E o \in outcomes :
              /\ rec' = o.rec /\ file' = Kept(o.file)
              /\ run' \in RunState /\ run'.id = after.id /\ run'.seq = after.seq
              /\ run'.active <=> after.active /\ o.rec.recording
<1>1. PICK o \in outcomes : /\ rec' = o.rec /\ file' = Kept(o.file)
                            /\ run' = [after EXCEPT !.active = after.active /\ o.rec.recording]
  BY DEF Recording
<1>2. PICK b \in BOOLEAN : b = (after.active /\ o.rec.recording) BY Zenon
<1>3. run' = [after EXCEPT !.active = b] BY <1>1, <1>2, Zenon
<1>4. /\ run' \in RunState /\ run'.id = after.id /\ run'.seq = after.seq /\ run'.active = b
  BY ONLY <1>3, after \in RunState, b \in BOOLEAN DEF RunState
<1>5. run'.active <=> after.active /\ o.rec.recording BY <1>2, <1>4, Zenon
<1>6. QED BY <1>1, <1>4, <1>5

LEMMA AfterIs ==
    ASSUME NEW u \in RunState, NEW t \in Nat
    PROVE  /\ [u EXCEPT !.active = FALSE] \in RunState
           /\ [u EXCEPT !.active = FALSE].id = u.id /\ ~[u EXCEPT !.active = FALSE].active
           /\ [u EXCEPT !.seq = @ + 1, !.ms = t] \in RunState
           /\ [u EXCEPT !.seq = @ + 1, !.ms = t].id = u.id
           /\ [u EXCEPT !.seq = @ + 1, !.ms = t].active = u.active
           /\ [u EXCEPT !.seq = @ + 1, !.ms = t].seq = u.seq + 1
           /\ [id |-> u.id + 1, active |-> TRUE, seq |-> 0, ms |-> 0] \in RunState
<1>1. PICK b \in BOOLEAN, c \in BOOLEAN : b = FALSE /\ c = TRUE OBVIOUS
<1>2. PICK v : v = [u EXCEPT !.active = b] OBVIOUS
<1>3. v \in RunState /\ v.id = u.id /\ v.active = b
  BY ONLY <1>2, u \in RunState, b \in BOOLEAN DEF RunState
<1>4. PICK n \in Nat : n = u.seq + 1 BY DEF RunState
<1>5. PICK w : w = [u EXCEPT !.seq = n, !.ms = t] OBVIOUS
<1>6. w \in RunState /\ w.id = u.id /\ w.active = u.active /\ w.seq = n
  BY ONLY <1>5, u \in RunState, n \in Nat, t \in Nat DEF RunState
<1>7. PICK m : m = [id |-> u.id + 1, active |-> c, seq |-> 0, ms |-> 0] OBVIOUS
<1>8. m \in RunState BY ONLY <1>7, u \in RunState, c \in BOOLEAN DEF RunState
<1>9. v = [u EXCEPT !.active = FALSE] BY <1>1, <1>2
<1>10. w = [u EXCEPT !.seq = @ + 1, !.ms = t] BY <1>4, <1>5
<1>11. m = [id |-> u.id + 1, active |-> TRUE, seq |-> 0, ms |-> 0] BY <1>1, <1>7
<1>12. QED BY <1>1, <1>3, <1>4, <1>6, <1>8, <1>9, <1>10, <1>11

LEMMA SampledKeeps ==
    ASSUME Recorded(rec, file, run), run.active, NEW t \in Nat, Sampled(t)
    PROVE  Recorded(rec, file, run)' /\ run' \in RunState
<1> DEFINE taken == [run EXCEPT !.seq = @ + 1, !.ms = t]
           s == [runId |-> run.id, seq |-> taken.seq, ms |-> t, fault |-> FALSE]
<1>1. /\ run \in RunState /\ taken \in RunState /\ taken.id = run.id /\ taken.active = run.active
      /\ taken.seq = run.seq + 1
  BY AfterIs DEF Recorded
<1>2. s \in Sample /\ s.runId = run.id
  <2>1. PICK n \in BOOLEAN : n = FALSE OBVIOUS
  <2>2. PICK z : z = [runId |-> run.id, seq |-> taken.seq, ms |-> t, fault |-> n] OBVIOUS
  <2>3. run.id \in Nat /\ taken.seq \in Nat BY <1>1 DEF RunState
  <2>4. z \in Sample /\ z.runId = run.id BY ONLY <2>2, <2>3, t \in Nat, n \in BOOLEAN DEF Sample
  <2>5. z = s BY <2>1, <2>2
  <2>6. QED BY <2>4, <2>5
<1>3. Recording(OnSample(rec, file, s), taken) BY DEF Sampled
<1> HIDE DEF taken, s
<1>4. PICK o \in OnSample(rec, file, s) :
            /\ rec' = o.rec /\ file' = Kept(o.file)
            /\ run' \in RunState /\ run'.id = taken.id
            /\ run'.active <=> taken.active /\ o.rec.recording
  BY <1>1, <1>3, RecordingIs
<1>5. rec.recording /\ Running(rec, file) /\ rec.runId = run.id
  BY DEF Recorded, Running, Fits
<1>6. Goes(rec, o.rec, o.file) BY <1>2, <1>4, <1>5, OnSampleLeaves
<1>7. Fits(o.rec, o.file) /\ o.rec.runId = run.id BY <1>5, <1>6 DEF Goes, Running
<1>8. Fits(o.rec, Kept(o.file)) BY <1>7, KeptFits DEF Fits
<1>9. run'.id = run.id /\ (run'.active <=> rec'.recording) BY <1>1, <1>4
<1>10. run.id \in Nat BY <1>1 DEF RunState
<1>11. QED BY <1>4, <1>7, <1>8, <1>9, <1>10 DEF Recorded

LEMMA StopKeeps ==
    ASSUME Recorded(rec, file, run), run.active, NEW t \in Nat,
           Recording(StopRun(rec, file, t), [run EXCEPT !.active = FALSE])
    PROVE  Recorded(rec, file, run)'
<1>1. run \in RunState /\ run.id \in Nat BY DEF Recorded, RunState
<1>2. PICK after : after = [run EXCEPT !.active = FALSE] OBVIOUS
<1>3. after \in RunState /\ after.id = run.id /\ ~after.active BY <1>1, <1>2, AfterIs
<1>4. PICK o \in StopRun(rec, file, t) :
            /\ rec' = o.rec /\ file' = Kept(o.file)
            /\ run' \in RunState /\ run'.id = after.id
            /\ run'.active <=> after.active /\ o.rec.recording
  BY <1>2, <1>3, RecordingIs
<1>5. rec.recording /\ Running(rec, file) /\ rec.runId = run.id
  BY DEF Recorded, Running, Fits
<1>6. Goes(rec, o.rec, o.file) /\ ~o.rec.recording BY <1>4, <1>5, StopRunLeaves
<1>7. Fits(o.rec, o.file) /\ o.rec.runId = run.id BY <1>5, <1>6 DEF Goes, Running
<1>8. Fits(o.rec, Kept(o.file)) BY <1>7, KeptFits DEF Fits
<1>9. QED BY <1>1, <1>3, <1>4, <1>6, <1>7, <1>8 DEF Recorded

LEMMA StartKeeps ==
    ASSUME Recorded(rec, file, run), StartCommand
    PROVE  Recorded(rec, file, run)'
<1> DEFINE made == [id |-> run.id + 1, active |-> TRUE, seq |-> 0, ms |-> 0]
<1>1. run \in RunState /\ run.id \in Nat BY DEF Recorded, RunState
<1>2. made \in RunState /\ made.id = run.id + 1 /\ made.active
  <2>1. made \in RunState BY <1>1, AfterIs
  <2>2. QED BY <2>1
<1>3. CanStart(rec) /\ Recording(StartRun(rec, file, made.id), made) BY DEF StartCommand
<1> HIDE DEF made
<1>4. PICK o \in StartRun(rec, file, made.id) :
            /\ rec' = o.rec /\ file' = Kept(o.file)
            /\ run' \in RunState /\ run'.id = made.id
            /\ run'.active <=> made.active /\ o.rec.recording
  BY <1>2, <1>3, RecordingIs
<1>5. made.id \in Nat \ {0} BY <1>1, <1>2
<1>6. Starts(made.id, o.rec, o.file) BY <1>3, <1>4, <1>5, StartRunLeaves DEF Recorded
<1>7. Fits(o.rec, Kept(o.file)) BY <1>6, KeptFits DEF Fits, Starts
<1>8. o.rec.hasRun => o.rec.runId <= made.id BY <1>5, <1>6 DEF Starts
<1>9. QED BY <1>2, <1>4, <1>6, <1>7, <1>8 DEF Recorded, Starts

LEMMA ReadsKeeps ==
    ASSUME NEW c, NEW d, NEW f, NEW u, Recorded(c, f, u), Reads(c, d)
    PROVE  Recorded(d, f, u)
<1>1. Fits(d, f) BY ReadsFits DEF Recorded
<1>2. QED BY <1>1 DEF Recorded, Reads

LEMMA RestsKeeps ==
    ASSUME NEW c, NEW d, NEW f, NEW g, NEW u, Recorded(c, f, u), Rests(c, d, g), ~c.recording
    PROVE  Recorded(d, g, u)
BY DEF Recorded, Rests

LEMMA FreeBlocks ==
    ASSUME TypeOK, download # None
    PROVE  download.remaining \in Nat /\ \A n \in 1..Block : n \in Nat /\ n <= download.remaining
<1>1. download.remaining \in Nat BY DEF TypeOK, Buffer
<1>2. BlockSize \in Nat BY FeatherAssumption
<1>3. QED BY <1>1, <1>2 DEF Block

LEMMA RecordedKept ==
    ASSUME TypeOK, Buffered, Recorded(rec, file, run), Next
    PROVE  Recorded(rec, file, run)'
<1>0. rec \in Recorder /\ run \in RunState BY DEF Recorded, Fits
<1>1. CASE UNCHANGED <<rec, file, run>> BY <1>1 DEF Recorded
<1>2. CASE LoopTop
  <2>1. CASE run.active /\ Recording(StopRun(rec, file, MaxDuration), [run EXCEPT !.active = FALSE])
    BY <2>1, StopKeeps, CsvAssumption
  <2>2. CASE \E t \in 0..(MaxDuration - 1) : run.active /\ Sampled(t)
    BY <2>2, SampledKeeps
  <2>3. QED BY <1>1, <1>2, <2>1, <2>2 DEF LoopTop
<1>3. CASE LoopCommands
  <2>1. CASE StopCommand
    <3>1. PICK t \in run.ms..MaxDuration :
               run.active /\ Recording(StopRun(rec, file, t), [run EXCEPT !.active = FALSE])
      BY <2>1 DEF StopCommand
    <3>2. t \in Nat BY <1>0, CsvAssumption DEF RunState
    <3>3. QED BY <3>1, <3>2, StopKeeps
  <2>2. QED BY <1>1, <1>3, <2>1, StartKeeps DEF LoopCommands
<1>4. CASE PollCancelled
  <2>1. rec' = Closed(rec) \/ rec' = rec BY <1>4 DEF PollCancelled
  <2>2. file' = file /\ run' = run BY <1>4 DEF PollCancelled
  <2>3. QED BY <1>0, <1>1, <2>1, <2>2, ClosedReads, ReadsKeeps
<1>5. CASE PollFill
  <2>1. file' = file /\ run' = run BY <1>5 DEF PollFill
  <2>2. rec' = rec \/ \E n \in 1..Block : rec' = Advanced(rec, n) BY <1>5 DEF PollFill
  <2>3. CASE \E n \in 1..Block : rec' = Advanced(rec, n)
    <3>1. PICK n \in 1..Block : rec' = Advanced(rec, n) BY <2>3
    <3>2. download # None BY <1>5 DEF PollFill, Buffered
    <3>3. n \in Nat BY <3>2, FreeBlocks
    <3>4. QED BY <1>0, <2>1, <3>1, <3>3, AdvancedReads, ReadsKeeps
  <2>4. QED BY <1>1, <2>1, <2>2, <2>3
<1>6. CASE Execute
  <2>1. run' = run BY <1>6 DEF Execute
  <2>2. \/ UNCHANGED <<rec, file>>
        \/ Opening
        \/ /\ ~rec.recording
           /\ \E o \in EraseRun(rec, file, Picked.runId) : rec' = o.rec /\ file' = o.file
        \/ /\ ~rec.recording
           /\ \E o \in FormatVolume(rec, file) : rec' = o.rec /\ file' = o.file
    BY <1>6, Zenon DEF Execute
  <2>3. CASE UNCHANGED <<rec, file>> BY <1>1, <2>1, <2>3
  <2>4. CASE Opening
    <3>1. CASE \E k \in 1..(IF rec.valid < BlockSize THEN rec.valid ELSE BlockSize) :
                  rec' = Advanced(Opened(rec), k) /\ file' = file
      <4>1. PICK k \in 1..(IF rec.valid < BlockSize THEN rec.valid ELSE BlockSize) :
                 rec' = Advanced(Opened(rec), k) /\ file' = file
        BY <3>1
      <4>2. k \in Nat BY <1>0, FeatherAssumption, RecorderFields
      <4>3. Reads(rec, Opened(rec)) BY <1>0, OpenedReads
      <4>4. Reads(Opened(rec), rec') BY <4>1, <4>2, <4>3, AdvancedReads DEF Reads
      <4>5. QED BY <2>1, <4>1, <4>3, <4>4, ReadsKeeps
    <3>2. UNCHANGED <<rec, file>> \/ \E k \in 1..(IF rec.valid < BlockSize THEN rec.valid ELSE BlockSize) :
                  rec' = Advanced(Opened(rec), k) /\ file' = file
      BY <2>4, Zenon DEF Opening
    <3>3. QED BY <2>3, <3>1, <3>2
  <2>5. CASE /\ ~rec.recording
             /\ \E o \in EraseRun(rec, file, Picked.runId) : rec' = o.rec /\ file' = o.file
    BY <2>1, <2>5, EraseRunLeaves, RestsKeeps DEF Recorded
  <2>6. CASE /\ ~rec.recording
             /\ \E o \in FormatVolume(rec, file) : rec' = o.rec /\ file' = o.file
    BY <2>1, <2>6, FormatLeaves, RestsKeeps DEF Recorded
  <2>7. QED BY <2>2, <2>3, <2>4, <2>5, <2>6
<1>7. CASE Reply
  <2>1. file' = file /\ run' = run BY <1>7 DEF Reply
  <2>2. rec' = rec \/ rec' = Closed(rec) BY <1>7 DEF Reply
  <2>3. QED BY <1>0, <1>1, <2>1, <2>2, ClosedReads, ReadsKeeps
<1>8. CASE PollPublish \/ ScanSlot BY <1>1, <1>8 DEF PollPublish, ScanSlot
<1>9. CASE Handler BY <1>1, <1>9 DEF Handler, TakeTicket, MakeReady, CheckFinished, owner
<1>10. CASE \E r \in Request : Served(r) \/ \E k \in Kinds[r] : \E id \in Ids(k) : Enqueue(r, k, id)
  BY <1>1, <1>10 DEF Served, Consume, LengthSent, Disconnect, Enqueue, owner
<1>11. QED BY <1>2, <1>3, <1>4, <1>5, <1>6, <1>7, <1>8, <1>9, <1>10 DEF Next, Loop

LEMMA InitRecorded == Init => Recorded(rec, file, run)
<1> SUFFICES ASSUME Init PROVE Recorded(rec, file, run) OBVIOUS
<1>1. file \in CsvFile \cup {NoFile}
  <2>1. CASE SavedRun = <<>> BY <2>1 DEF Init
  <2>2. CASE SavedRun # <<>>
    <3>1. file = [EmptyFile EXCEPT !.lines = SavedRun] BY <2>2 DEF Init
    <3>2. QED BY <3>1, EmptyFileIs, FeatherAssumption DEF CsvFile
  <2>3. QED BY <2>1, <2>2
<1>2. PICK o \in Begin(Unmounted, file) : rec = o.rec BY DEF Init
<1>3. Quiet(rec, file) BY <1>1, <1>2, BeginFits
<1>4. rec.runId \in Nat BY <1>3, RecorderFields DEF Quiet, Fits
<1>5. PICK stored \in 0..1 :
          run = [id |-> IF stored < rec.runId THEN rec.runId ELSE stored,
                 active |-> FALSE, seq |-> 0, ms |-> 0]
  BY DEF Init
<1>6. PICK n \in BOOLEAN : n = FALSE OBVIOUS
<1>7. PICK k \in Nat : k = (IF stored < rec.runId THEN rec.runId ELSE stored) /\ rec.runId <= k
  BY <1>4
<1>8. run = [id |-> k, active |-> n, seq |-> 0, ms |-> 0] BY <1>5, <1>6, <1>7, Zenon
<1>9. run \in RunState /\ run.id = k /\ run.active = n BY ONLY <1>8, k \in Nat, n \in BOOLEAN DEF RunState
<1>10. QED BY <1>3, <1>6, <1>7, <1>9 DEF Recorded, Quiet

-----------------------------------------------------------------------------
(* What each step does to the buffer. *)
LEMMA BufferFields ==
    ASSUME NEW b \in Buffer
    PROVE  /\ b.req \in Request /\ b.bytes \in Seq(Line) /\ b.remaining \in Nat /\ b # None
           /\ b.ready \in BOOLEAN /\ b.finished \in BOOLEAN
           /\ b.failed \in BOOLEAN /\ b.cancelled \in BOOLEAN
BY FeatherAssumption DEF Buffer

LEMMA Cancels ==
    ASSUME NEW b \in Buffer, NEW d, d = [b EXCEPT !.cancelled = TRUE]
    PROVE  /\ d \in Buffer /\ d.req = b.req /\ d.bytes = b.bytes /\ d.remaining = b.remaining
           /\ d.ready = b.ready /\ d.finished = b.finished /\ d.failed = b.failed
<1>1. PICK t \in BOOLEAN : t = TRUE OBVIOUS
<1>2. d = [b EXCEPT !.cancelled = t] BY <1>1
<1>3. QED BY ONLY <1>2, b \in Buffer, t \in BOOLEAN DEF Buffer

LEMMA Finishes ==
    ASSUME NEW b \in Buffer, NEW d, d = [b EXCEPT !.finished = TRUE]
    PROVE  /\ d \in Buffer /\ d.req = b.req /\ d.bytes = b.bytes /\ d.remaining = b.remaining
           /\ d.ready = b.ready /\ d.cancelled = b.cancelled
<1>1. PICK t \in BOOLEAN : t = TRUE OBVIOUS
<1>2. d = [b EXCEPT !.finished = t] BY <1>1
<1>3. QED BY ONLY <1>2, b \in Buffer, t \in BOOLEAN DEF Buffer

LEMMA Fails ==
    ASSUME NEW b \in Buffer, NEW d, d = [b EXCEPT !.failed = TRUE]
    PROVE  /\ d \in Buffer /\ d.req = b.req /\ d.bytes = b.bytes /\ d.remaining = b.remaining
           /\ d.ready = b.ready /\ d.finished = b.finished /\ d.cancelled = b.cancelled
<1>1. PICK t \in BOOLEAN : t = TRUE OBVIOUS
<1>2. d = [b EXCEPT !.failed = t] BY <1>1
<1>3. QED BY ONLY <1>2, b \in Buffer, t \in BOOLEAN DEF Buffer

LEMMA Publishes ==
    ASSUME NEW b \in Buffer, NEW d, d = [b EXCEPT !.ready = TRUE]
    PROVE  /\ d \in Buffer /\ d.req = b.req /\ d.bytes = b.bytes /\ d.remaining = b.remaining
           /\ d.ready /\ d.finished = b.finished /\ d.cancelled = b.cancelled
<1>1. PICK t \in BOOLEAN : t = TRUE OBVIOUS
<1>2. d = [b EXCEPT !.ready = t] BY <1>1
<1>3. d \in Buffer /\ d.req = b.req /\ d.bytes = b.bytes /\ d.remaining = b.remaining
      /\ d.ready = t /\ d.finished = b.finished /\ d.cancelled = b.cancelled
  BY ONLY <1>2, b \in Buffer, t \in BOOLEAN DEF Buffer
<1>4. QED BY <1>1, <1>3

Consumed(d, b, x, n) == d = [b EXCEPT !.bytes = x, !.ready = n # Len(b.bytes)]
LEMMA Consumes ==
    ASSUME NEW b \in Buffer, NEW x \in Seq(Line), NEW n, NEW d, Consumed(d, b, x, n)
    PROVE  /\ d \in Buffer /\ d.req = b.req /\ d.bytes = x /\ d.remaining = b.remaining
           /\ d.finished = b.finished /\ d.cancelled = b.cancelled
           /\ d.ready <=> n # Len(b.bytes)
<1>1. PICK t \in BOOLEAN : t = (n # Len(b.bytes)) BY Zenon
<1>2. d = [b EXCEPT !.bytes = x, !.ready = t] BY <1>1, Zenon DEF Consumed
<1>3. d \in Buffer /\ d.req = b.req /\ d.bytes = x /\ d.remaining = b.remaining
      /\ d.ready = t /\ d.finished = b.finished /\ d.cancelled = b.cancelled
  BY ONLY <1>2, b \in Buffer, x \in Seq(Line), t \in BOOLEAN DEF Buffer
<1>4. d.ready <=> n # Len(b.bytes) BY <1>1, <1>3, Zenon
<1>5. QED BY <1>3, <1>4

LEMMA Fills ==
    ASSUME NEW b \in Buffer, NEW x \in Seq(Line), NEW n \in Nat, NEW d,
           d = [b EXCEPT !.remaining = n, !.bytes = x]
    PROVE  /\ d \in Buffer /\ d.req = b.req /\ d.bytes = x /\ d.remaining = n
           /\ d.ready = b.ready /\ d.finished = b.finished /\ d.cancelled = b.cancelled
BY ONLY b \in Buffer, x \in Seq(Line), n \in Nat, d = [b EXCEPT !.remaining = n, !.bytes = x] DEF Buffer

OpenedFor(d, r, m, n, x) ==
    d = [[req |-> r, bytes |-> <<>>, remaining |-> m, ready |-> FALSE,
          finished |-> FALSE, failed |-> FALSE, cancelled |-> FALSE]
           EXCEPT !.ready = TRUE, !.remaining = n, !.bytes = x]
LEMMA Opens ==
    ASSUME NEW r \in Request, NEW x \in Seq(Line), NEW n \in Nat, NEW m \in Nat, NEW d,
           OpenedFor(d, r, m, n, x)
    PROVE  /\ d \in Buffer /\ d.req = r /\ d.bytes = x /\ d.remaining = n
           /\ d.ready /\ ~d.finished /\ ~d.cancelled
<1>1. PICK t \in BOOLEAN, f \in BOOLEAN : t = TRUE /\ f = FALSE OBVIOUS
<1>2. PICK e : e = [req |-> r, bytes |-> <<>>, remaining |-> m, ready |-> f,
                    finished |-> f, failed |-> f, cancelled |-> f]
  OBVIOUS
<1>3. e \in Buffer /\ e.req = r /\ e.finished = f /\ e.cancelled = f
  BY ONLY <1>2, r \in Request, m \in Nat, f \in BOOLEAN DEF Buffer
<1>4. d = [e EXCEPT !.ready = t, !.remaining = n, !.bytes = x] BY <1>1, <1>2, Zenon DEF OpenedFor
<1>5. d \in Buffer /\ d.req = e.req /\ d.bytes = x /\ d.remaining = n
      /\ d.ready = t /\ d.finished = e.finished /\ d.cancelled = e.cancelled
  BY ONLY <1>3, <1>4, x \in Seq(Line), n \in Nat, t \in BOOLEAN DEF Buffer
<1>6. QED BY <1>1, <1>3, <1>5

-----------------------------------------------------------------------------
(* Types. *)
LEMMA ReaderTyped ==
    ASSUME NEW st \in {"new", "waiting", "streaming", "answered", "short", "gone"}
    PROVE  Client(st) \in Reader /\ Client(st).st = st /\ Client(st).got = <<>> /\ Client(st).of = <<>>
BY DEF Client, Reader

LEMMA IdsAreNumbers ==
    ASSUME NEW k \in Kind, NEW id \in Ids(k)
    PROVE  id \in Nat
<1>1. MaxRun \in Nat BY FeatherAssumption
<1>2. CASE k = "download" BY <1>1, <1>2 DEF Ids
<1>3. CASE k = "erase" BY <1>1, <1>3 DEF Ids
<1>4. CASE k \in {"info", "format"} BY <1>4 DEF Ids
<1>5. QED BY <1>2, <1>3, <1>4 DEF Kind

LEMMA SlotsAre == SlotCount \in Nat \ {0} /\ Slot = 1..SlotCount /\ TicketSize \in Nat /\ TicketSize > 0
BY FeatherAssumption DEF Slot

LEMMA FreeJobTyped == FreeJob \in Job
BY SlotsAre DEF FreeJob, Job

LEMMA InitTyped == Init => TypeOK
<1> SUFFICES ASSUME Init PROVE TypeOK OBVIOUS
<1>1. job \in [Slot -> Job] BY FreeJobTyped DEF Init
<1>2. client \in [Request -> Reader] BY ReaderTyped DEF Init
<1>3. scan \in [i : Slot, oldest : 0..SlotCount] BY SlotsAre DEF Init
<1>4. callback \in Callback BY SlotsAre DEF Init, NoCallback, Callback
<1>5. nextTicket \in 0..(TicketSize - 1) BY FeatherAssumption DEF Init
<1>6. QED BY <1>1, <1>2, <1>3, <1>4, <1>5 DEF Init, TypeOK

(* The files a download reads from are of lines. *)
LEMMA FileLines ==
    ASSUME NEW c, NEW f, Fits(c, f), c.valid > 0
    PROVE  /\ f \in CsvFile /\ f.lines \in Seq(Line) /\ Len(f.lines) \in Nat
           /\ c.valid \in Nat /\ c.sent \in Nat /\ c.valid <= Len(f.lines)
           /\ IsHead(f.lines[1])
BY FileFields, RecorderFields DEF Fits

LEMMA PieceTyped ==
    ASSUME NEW S, NEW q \in Seq(S), NEW a \in Nat \ {0}, NEW b \in Int, b <= Len(q)
    PROVE  /\ SubSeq(q, a, b) \in Seq(S)
           /\ Len(SubSeq(q, a, b)) = (IF a <= b THEN b - a + 1 ELSE 0)
           /\ \A i \in 1..Len(SubSeq(q, a, b)) : SubSeq(q, a, b)[i] = q[a + i - 1]
OBVIOUS

LEMMA DestroyedTyped ==
    ASSUME download \in Buffer \cup {None}, NEW r, Destroyed(r)
    PROVE  download' \in Buffer \cup {None}
BY Cancels DEF Destroyed

LEMMA EndedTyped ==
    ASSUME TypeOK, NEW r \in Request, Ended(r)
    PROVE  download' \in Buffer \cup {None} /\ client' \in [Request -> Reader]
<1>1. download' \in Buffer \cup {None} BY DestroyedTyped DEF Ended, TypeOK
<1>2. PICK st \in {"answered", "short"} : client' = [client EXCEPT ![r] = Client(st)]
  BY DEF Ended
<1>3. QED BY <1>1, <1>2, ReaderTyped DEF TypeOK

LEMMA EnqueueTyped ==
    ASSUME TypeOK, NEW r \in Request, NEW k \in Kinds[r], NEW id \in Ids(k), Enqueue(r, k, id)
    PROVE  TypeOK'
<1>1. k \in Kind /\ id \in Nat
  <2>1. k \in Kind BY FeatherAssumption DEF Kind
  <2>2. QED BY <2>1, IdsAreNumbers
<1>2. \/ client' = [client EXCEPT ![r] = Client("answered")] /\ UNCHANGED <<job, callback>>
      \/ \E s \in Slot :
            /\ job' = [job EXCEPT ![s].st = "Filling"]
            /\ callback' = [at |-> "ticket", req |-> r, kind |-> k, slot |-> s, runId |-> id]
            /\ client' = [client EXCEPT ![r] = Client("waiting")]
  BY DEF Enqueue
<1>3. client' \in [Request -> Reader] BY <1>2, ReaderTyped DEF TypeOK
<1>4. job' \in [Slot -> Job]
  <2>1. ASSUME NEW s \in Slot, job' = [job EXCEPT ![s].st = "Filling"] PROVE job' \in [Slot -> Job]
    <3>1. job[s] \in Job BY DEF TypeOK
    <3>2. [job[s] EXCEPT !.st = "Filling"] \in Job BY <3>1 DEF Job
    <3>3. QED BY <2>1, <3>2 DEF TypeOK
  <2>2. QED BY <1>2, <2>1 DEF TypeOK
<1>5. callback' \in Callback BY <1>1, <1>2, SlotsAre DEF TypeOK, Callback
<1>6. QED BY <1>3, <1>4, <1>5 DEF TypeOK, Enqueue, owner

(* The place of a request in line, and the line without it. *)
LEMMA RankIs ==
    ASSUME NEW r, \E i \in 1..Len(order) : order[i] = r
    PROVE  Rank(r) \in 1..Len(order) /\ order[Rank(r)] = r
BY DEF Rank

LEMMA Without ==
    ASSUME NEW S, NEW q \in Seq(S), NEW k \in 1..Len(q)
    PROVE  /\ RemoveAt(q, k) \in Seq(S) /\ Len(RemoveAt(q, k)) = Len(q) - 1
           /\ \A i \in 1..(Len(q) - 1) : RemoveAt(q, k)[i] = IF i < k THEN q[i] ELSE q[i + 1]
<1>1. Len(q) \in Nat /\ k \in Nat OBVIOUS
<1>1a. SubSeq(q, 1, k - 1) \in Seq(S) /\ SubSeq(q, k + 1, Len(q)) \in Seq(S) BY <1>1
<1>2. PICK a \in Seq(S) : a = SubSeq(q, 1, k - 1) BY <1>1a
<1>3. PICK b \in Seq(S) : b = SubSeq(q, k + 1, Len(q)) BY <1>1a
<1>4. Len(a) = k - 1 /\ \A i \in 1..(k - 1) : a[i] = q[i] BY <1>1, <1>2
<1>5. Len(b) = Len(q) - k /\ \A i \in 1..(Len(q) - k) : b[i] = q[k + i] BY <1>1, <1>3
<1>6. RemoveAt(q, k) = a \o b BY <1>2, <1>3 DEF RemoveAt
<1>7. a \o b \in Seq(S) /\ Len(a \o b) = Len(q) - 1
  <2>1. a \o b \in Seq(S) /\ Len(a \o b) = Len(a) + Len(b) OBVIOUS
  <2>2. QED BY <1>1, <1>4, <1>5, <2>1
<1>8. ASSUME NEW i \in 1..(Len(q) - 1) PROVE (a \o b)[i] = IF i < k THEN q[i] ELSE q[i + 1]
  <2>1. CASE i < k BY <1>1, <1>4, <1>5, <2>1
  <2>2. CASE ~(i < k)
    <3>1. (a \o b)[i] = b[i - (k - 1)] BY <1>1, <1>4, <1>5, <2>2
    <3>2. i - (k - 1) \in 1..(Len(q) - k) /\ k + (i - (k - 1)) = i + 1 BY <1>1, <2>2
    <3>3. QED BY <1>5, <2>2, <3>1, <3>2
  <2>3. QED BY <2>1, <2>2
<1>9. QED BY <1>6, <1>7, <1>8

LEMMA TypeKept ==
    ASSUME TypeOK, Placed, Buffered, Delivered, InLine, Recorded(rec, file, run), Next
    PROVE  TypeOK'
<1>0. /\ job \in [Slot -> Job] /\ nextTicket \in 0..(TicketSize - 1)
      /\ download \in Buffer \cup {None}
      /\ scan \in [i : Slot, oldest : 0..SlotCount]
      /\ callback \in Callback /\ client \in [Request -> Reader]
      /\ order \in Seq(Request) /\ seen \in SUBSET Request
  BY DEF TypeOK
<1>1. CASE LoopTop \/ LoopCommands
  BY <1>1 DEF LoopTop, LoopCommands, At, queue, TypeOK
<1>2. CASE PollCancelled
  BY <1>2 DEF PollCancelled, At, queue, TypeOK
<1>3. CASE PollFill
  <2>1. download # None BY <1>3 DEF PollFill, Buffered
  <2>2. download \in Buffer BY <1>0, <2>1
  <2>3. download' \in Buffer
    <3>1. CASE \E n \in 1..Block : download' = [download EXCEPT !.remaining = @ - n, !.bytes = NextBlock(n)]
      <4>1. PICK n \in 1..Block : download' = [download EXCEPT !.remaining = @ - n, !.bytes = NextBlock(n)]
        BY <3>1
      <4>2. n \in Nat /\ n <= download.remaining /\ download.remaining \in Nat BY <2>1, FreeBlocks
      <4>3. PICK m \in Nat : m = download.remaining - n BY <4>2
      <4>4. /\ file.lines \in Seq(Line) /\ Len(file.lines) \in Nat /\ rec.sent \in Nat
            /\ rec.valid <= Len(file.lines) /\ rec.sent + download.remaining = rec.valid
            /\ rec.valid \in Nat
        BY <2>1, FileLines DEF Buffered, Recorded
      <4>5. NextBlock(n) \in Seq(Line)
        <5>1. rec.sent + 1 \in Nat \ {0} /\ rec.sent + n \in Int /\ rec.sent + n <= Len(file.lines)
          BY <4>2, <4>4
        <5>2. QED BY <4>4, <5>1, PieceTyped DEF NextBlock
      <4>6. PICK x \in Seq(Line) : x = NextBlock(n) BY <4>5
      <4>7. download' = [download EXCEPT !.remaining = m, !.bytes = x] BY <4>1, <4>3, <4>6
      <4>8. QED BY <2>2, <4>7, Fills
    <3>2. \/ download' = download
          \/ download' = [download EXCEPT !.finished = TRUE]
          \/ download' = [download EXCEPT !.failed = TRUE]
          \/ \E n \in 1..Block : download' = [download EXCEPT !.remaining = @ - n, !.bytes = NextBlock(n)]
      BY <1>3, Zenon DEF PollFill
    <3>3. QED BY <2>2, <3>1, <3>2, Finishes, Fails
  <2>4. pc' \in {"scan", "publish"} BY <1>3 DEF PollFill
  <2>5. QED BY <1>3, <2>3, <2>4 DEF PollFill, queue, TypeOK
<1>4. CASE PollPublish
  <2>1. download \in Buffer BY <1>0, <1>4 DEF PollPublish, At, Buffered
  <2>2. download' \in Buffer BY <1>4, <2>1, Publishes DEF PollPublish
  <2>3. QED BY <1>4, <2>2 DEF PollPublish, At, queue, TypeOK
<1>5. CASE ScanSlot
  <2>1. scan.i \in 1..SlotCount /\ scan.oldest \in 0..SlotCount BY <1>0, SlotsAre
  <2>2. scan' \in [i : Slot, oldest : 0..SlotCount] /\ pc' \in {"top", "scan", "execute"}
    <3>1. CASE job[scan.i].st = "Filling" BY <1>5, <3>1, SlotsAre DEF ScanSlot
    <3>2. CASE job[scan.i].st # "Filling"
      <4>1. PICK found \in 0..SlotCount :
                 /\ found \in {scan.i, scan.oldest}
                 /\ IF scan.i < SlotCount
                    THEN pc' = pc /\ scan' = [i |-> scan.i + 1, oldest |-> found]
                    ELSE /\ scan' = [i |-> 1, oldest |-> found]
                         /\ pc' = IF found = 0 THEN "top" ELSE "execute"
        BY <1>5, <2>1, <3>2 DEF ScanSlot
      <4>2. pc = "scan" BY <1>5 DEF ScanSlot
      <4>3. QED BY <2>1, <4>1, <4>2, SlotsAre
    <3>3. QED BY <3>1, <3>2
  <2>3. seen' \in SUBSET Request
    <3>1. {job[s].req : s \in {t \in Slot : job[t].st = "Ready"}} \in SUBSET Request BY DEF Placed, Ready
    <3>2. \/ seen' = {} \/ seen' = seen \/ seen' = {job[s].req : s \in {t \in Slot : job[t].st = "Ready"}}
      BY <1>5 DEF ScanSlot
    <3>3. QED BY <1>0, <3>1, <3>2
  <2>4. QED BY <1>5, <2>2, <2>3 DEF ScanSlot, queue, TypeOK
<1>6. CASE Execute
  <2>1. reply' \in {"none", "error", "ok", "stream"}
    <3>1. CASE Opening BY <3>1 DEF Opening
    <3>2. CASE ~Opening BY <1>6, <3>2 DEF Execute
    <3>3. QED BY <3>1, <3>2
  <2>2. download' \in Buffer \cup {None}
    <3>1. CASE Opening /\ rec.valid > 0
      <4>1. CASE UNCHANGED download BY <1>0, <4>1
      <4>2. CASE ~UNCHANGED download
        <5>0. PICK n \in Nat : n = rec.valid BY RecorderFields DEF Recorded, Fits
        <5>1. PICK k \in 1..(IF n < BlockSize THEN n ELSE BlockSize) :
                   download' = [[req |-> Picked.req, bytes |-> <<>>, remaining |-> n, ready |-> FALSE,
                                 finished |-> FALSE, failed |-> FALSE, cancelled |-> FALSE]
                                  EXCEPT !.ready = TRUE, !.remaining = n - k,
                                         !.bytes = SubSeq(file.lines, 1, k)]
          BY <3>1, <4>2, <5>0, Zenon DEF Opening
        <5>2. k \in Nat /\ k <= n /\ n - k \in Nat BY FeatherAssumption
        <5>3. file.lines \in Seq(Line) /\ k <= Len(file.lines)
          BY <3>1, <5>0, <5>2, FileLines DEF Recorded
        <5>3a. SubSeq(file.lines, 1, k) \in Seq(Line) BY <5>2, <5>3
        <5>4. PICK x \in Seq(Line) : x = SubSeq(file.lines, 1, k) BY <5>3a
        <5>5. PICK m \in Nat : m = n - k BY <5>2
        <5>6. Picked.req \in Request
          BY <1>0, <1>6, SlotsAre DEF Execute, At, Placed, Picked, Ready
        <5>7. download' \in Buffer
          <6>1. OpenedFor(download', Picked.req, n, m, x) BY <5>1, <5>4, <5>5, Zenon DEF OpenedFor
          <6>2. QED BY <5>6, <6>1, Opens
        <5>8. QED BY <5>7
      <4>3. QED BY <4>1, <4>2
    <3>2. CASE ~(Opening /\ rec.valid > 0) BY <1>0, <1>6, <3>2 DEF Execute
    <3>3. QED BY <3>1, <3>2
  <2>3. pc' = "reply" /\ UNCHANGED <<run, queue, callback, client, scan, seen>>
    BY <1>6 DEF Execute, At
  <2>4. QED BY <2>1, <2>2, <2>3 DEF queue, TypeOK
<1>7. CASE Reply
  <2>1. scan.oldest \in Slot /\ Picked \in Job
    <3>1. scan.oldest \in Slot BY <1>0, <1>7, SlotsAre DEF Reply, At, Placed
    <3>2. QED BY <1>0, <3>1 DEF Picked
  <2>2. job' \in [Slot -> Job] BY <1>0, <1>7, <2>1, FreeJobTyped DEF Reply
  <2>3. Picked.req \in Request BY <2>1, <1>7 DEF Reply, At, Placed, Picked, Ready
  <2>4. order' \in Seq(Request)
    <3>1. order' = RemoveAt(order, Rank(Picked.req)) BY <1>7 DEF Reply
    <3>2. \E i \in 1..Len(order) : order[i] = Picked.req
      BY <1>7, <2>1 DEF Reply, At, Placed, InLine, Picked
    <3>3. Rank(Picked.req) \in 1..Len(order) BY <3>2, RankIs
    <3>4. QED BY <1>0, <3>1, <3>3, Without
  <2>5. client' \in [Request -> Reader]
    <3>1. CASE UNCHANGED client BY <1>0, <3>1
    <3>2. CASE client' = [client EXCEPT ![Picked.req] = Client("answered")]
      BY <1>0, <2>3, <3>2, ReaderTyped
    <3>3. CASE client' = [client EXCEPT ![Picked.req].st = "streaming",
                                        ![Picked.req].of = SubSeq(file.lines, 1, rec.valid)] /\ reply = "stream"
      <4>1. download # None BY <1>7, <3>3 DEF Reply, At, Delivered
      <4>2. /\ file.lines \in Seq(Line) /\ rec.valid <= Len(file.lines) /\ rec.valid \in Nat
        BY <4>1, FileLines DEF Buffered, Recorded
      <4>2a. SubSeq(file.lines, 1, rec.valid) \in Seq(Line) BY <4>2
      <4>3. PICK x \in Seq(Line) : x = SubSeq(file.lines, 1, rec.valid) BY <4>2a
      <4>4. client[Picked.req] \in Reader BY <1>0, <2>3
      <4>5. [client[Picked.req] EXCEPT !.st = "streaming", !.of = x] \in Reader BY <4>4 DEF Reader
      <4>6. client' = [client EXCEPT ![Picked.req] =
                          [client[Picked.req] EXCEPT !.st = "streaming", !.of = x]]
        BY <1>0, <2>3, <3>3, <4>3
      <4>7. QED BY <1>0, <2>3, <4>5, <4>6
    <3>4. QED BY <1>7, <3>1, <3>2, <3>3 DEF Reply
  <2>6. download' \in Buffer \cup {None} BY <1>0, <1>7 DEF Reply
  <2>7. scan' \in [i : Slot, oldest : 0..SlotCount] BY <1>7, SlotsAre DEF Reply
  <2>8. QED BY <1>7, <2>2, <2>4, <2>5, <2>6, <2>7 DEF Reply, At, TypeOK
<1>8. CASE TakeTicket
  <2>1. callback.slot \in Slot /\ callback.req \in Request BY <1>8 DEF TakeTicket, Placed, Handing
  <2>2. job' \in [Slot -> Job]
    <3>1. job[callback.slot] \in Job BY <1>0, <2>1
    <3>2. [job[callback.slot] EXCEPT !.ticket = nextTicket] \in Job BY <1>0, <3>1 DEF Job
    <3>3. QED BY <1>0, <1>8, <2>1, <3>2 DEF TakeTicket
  <2>3. nextTicket' \in 0..(TicketSize - 1) BY <1>0, <1>8, SlotsAre DEF TakeTicket
  <2>4. callback' \in Callback BY <1>0, <1>8 DEF TakeTicket, Callback
  <2>5. order' \in Seq(Request) BY <1>0, <1>8, <2>1 DEF TakeTicket
  <2>6. QED BY <1>8, <2>2, <2>3, <2>4, <2>5 DEF TakeTicket, owner, TypeOK
<1>9. CASE MakeReady
  <2>1. callback.slot \in Slot /\ callback.req \in Request BY <1>9 DEF MakeReady, Placed, Handing
  <2>2. job' \in [Slot -> Job]
    <3>1. job[callback.slot] \in Job BY <1>0, <2>1
    <3>2. callback.kind \in Kind \cup {None} /\ callback.runId \in Nat BY <1>0 DEF Callback
    <3>3. [job[callback.slot] EXCEPT !.st = "Ready", !.req = callback.req,
                                     !.kind = callback.kind, !.runId = callback.runId] \in Job
      BY <2>1, <3>1, <3>2 DEF Job
    <3>4. job' = [job EXCEPT ![callback.slot] =
                     [job[callback.slot] EXCEPT !.st = "Ready", !.req = callback.req,
                                     !.kind = callback.kind, !.runId = callback.runId]]
      BY <1>0, <1>9, <2>1 DEF MakeReady
    <3>5. QED BY <1>0, <2>1, <3>3, <3>4
  <2>3. callback' \in Callback BY <1>9, SlotsAre DEF MakeReady, NoCallback, Callback
  <2>4. QED BY <1>9, <2>2, <2>3 DEF MakeReady, owner, TypeOK
<1>10. CASE CheckFinished
  <2>1. callback.req \in Request BY <1>10 DEF CheckFinished, Placed
  <2>2. callback' \in Callback BY <1>10, SlotsAre DEF CheckFinished, NoCallback, Callback
  <2>3. download' \in Buffer \cup {None} /\ client' \in [Request -> Reader]
    BY <1>0, <1>10, <2>1, EndedTyped DEF CheckFinished
  <2>4. QED BY <1>10, <2>2, <2>3 DEF CheckFinished, owner, queue, TypeOK
<1>11. CASE \E r \in Request : Consume(r)
  <2>1. PICK r \in Request : Consume(r) BY <1>11
  <2>2. download \in Buffer BY <1>0, <2>1 DEF Consume, Delivered, Gets
  <2>3. callback' \in Callback
    <3>1. callback' = callback \/ callback' = [NoCallback EXCEPT !.at = "empty", !.req = r]
      BY <2>1 DEF Consume
    <3>2. NoCallback \in Callback BY SlotsAre DEF NoCallback, Callback
    <3>3. [NoCallback EXCEPT !.at = "empty", !.req = r] \in Callback BY <3>2 DEF Callback
    <3>4. QED BY <1>0, <3>1, <3>3
  <2>4. download' \in Buffer \cup {None} /\ client' \in [Request -> Reader]
    <3>1. CASE \E n \in 1..Len(download.bytes) :
                  /\ client' = [client EXCEPT ![r].got = @ \o SubSeq(download.bytes, 1, n)]
                  /\ download' = [download EXCEPT !.bytes = SubSeq(@, n + 1, Len(@)),
                                                  !.ready = n # Len(download.bytes)]
      <4>1. PICK n \in 1..Len(download.bytes) :
                  /\ client' = [client EXCEPT ![r].got = @ \o SubSeq(download.bytes, 1, n)]
                  /\ download' = [download EXCEPT !.bytes = SubSeq(@, n + 1, Len(@)),
                                                  !.ready = n # Len(download.bytes)]
        BY <3>1
      <4>2. download.bytes \in Seq(Line) /\ Len(download.bytes) \in Nat /\ n \in Nat BY <2>2, BufferFields
      <4>3. PICK x \in Seq(Line), y \in Seq(Line) :
                 x = SubSeq(download.bytes, 1, n) /\ y = SubSeq(download.bytes, n + 1, Len(download.bytes))
        <5>1. PICK q \in Seq(Line) : q = download.bytes BY <4>2
        <5>2. SubSeq(q, 1, n) \in Seq(Line) /\ SubSeq(q, n + 1, Len(q)) \in Seq(Line) BY <4>2, <5>1
        <5>3. QED BY <5>1, <5>2
      <4>4. Consumed(download', download, y, n) BY <4>1, <4>3, Zenon DEF Consumed
      <4>5. download' \in Buffer BY <2>2, <4>4, Consumes
      <4>6. client[r] \in Reader BY <1>0
      <4>7. [client[r] EXCEPT !.got = client[r].got \o x] \in Reader
        <5>1. PICK q : q = client[r] OBVIOUS
        <5>2. q.got \in Seq(Line) /\ q \in Reader BY <4>6, <5>1 DEF Reader
        <5>2a. q.got \o x \in Seq(Line) BY <5>2
        <5>3. PICK z \in Seq(Line) : z = q.got \o x BY <5>2a
        <5>4. [q EXCEPT !.got = z] \in Reader BY ONLY <5>2, z \in Seq(Line) DEF Reader
        <5>5. QED BY <5>1, <5>3, <5>4
      <4>8. QED BY <1>0, <4>1, <4>3, <4>5, <4>7
    <3>2. QED BY <1>0, <2>1, <3>1, Zenon DEF Consume
  <2>5. QED BY <2>1, <2>3, <2>4 DEF Consume, owner, queue, TypeOK
<1>12. CASE \E r \in Request : LengthSent(r)
  <2>1. PICK r \in Request : LengthSent(r) BY <1>12
  <2>2. download' \in Buffer \cup {None} /\ client' \in [Request -> Reader] BY <2>1, EndedTyped DEF LengthSent
  <2>3. QED BY <2>1, <2>2 DEF LengthSent, owner, queue, TypeOK
<1>13. CASE \E r \in Request : Disconnect(r)
  <2>1. PICK r \in Request : Disconnect(r) BY <1>13
  <2>2. download' \in Buffer \cup {None} BY <1>0, <2>1, DestroyedTyped DEF Disconnect
  <2>3. client' \in [Request -> Reader] BY <1>0, <2>1, ReaderTyped DEF Disconnect
  <2>4. QED BY <2>1, <2>2, <2>3 DEF Disconnect, owner, queue, TypeOK
<1>14. CASE \E r \in Request : \E k \in Kinds[r] : \E id \in Ids(k) : Enqueue(r, k, id)
  BY <1>14, EnqueueTyped
<1>15. QED
  BY <1>1, <1>2, <1>3, <1>4, <1>5, <1>6, <1>7, <1>8, <1>9, <1>10, <1>11, <1>12, <1>13, <1>14
  DEF Next, Loop, Handler, Served

-----------------------------------------------------------------------------
(* Places. *)
LEMMA ClientIs ==
    ASSUME TypeOK, NEW r \in Request, NEW st \in {"waiting", "answered", "short", "gone"},
           client' = [client EXCEPT ![r] = Client(st)]
    PROVE  /\ client'[r].st = st /\ client'[r].got = <<>> /\ client'[r].of = <<>>
           /\ \A q \in Request : q # r => client'[q] = client[q]
           /\ \A q \in Request : client[q].st # "new" => client'[q].st # "new"
BY ReaderTyped DEF TypeOK

LEMMA EndedClient ==
    ASSUME TypeOK, NEW r \in Request, Ended(r)
    PROVE  \E st \in {"answered", "short"} :
              /\ client' = [client EXCEPT ![r] = Client(st)]
              /\ client[r].got = client[r].of => st = "answered"
BY DEF Ended

LEMMA PickedIs ==
    ASSUME TypeOK, Placed, pc \in {"execute", "reply"}
    PROVE  /\ scan.oldest \in Slot /\ Ready(scan.oldest) /\ Picked.req \in Request
           /\ client[Picked.req].st # "new"
BY SlotsAre DEF TypeOK, Placed, Picked, Ready

LEMMA CallbackIs ==
    ASSUME TypeOK, Placed
    PROVE  /\ callback.at \in {"none", "ticket", "ready", "empty"}
           /\ Handing => callback.slot \in Slot /\ ~Ready(callback.slot)
BY DEF TypeOK, Placed, Callback, Ready

LEMMA NoCallbackIs ==
    /\ NoCallback.at = "none" /\ [NoCallback EXCEPT !.at = "empty"].at = "empty"
    /\ \A r : /\ [NoCallback EXCEPT !.at = "empty", !.req = r].at = "empty"
              /\ [NoCallback EXCEPT !.at = "empty", !.req = r].req = r
BY DEF NoCallback

(* What the handlers do to the slots. *)
LEMMA TakesTicket ==
    ASSUME TypeOK, Placed, TakeTicket
    PROVE  /\ callback.slot \in Slot /\ callback.req \in Request
           /\ callback'.at = "ready" /\ callback'.slot = callback.slot /\ callback'.req = callback.req
           /\ job'[callback.slot].st = "Filling" /\ job'[callback.slot].ticket = nextTicket
           /\ \A s \in Slot : s # callback.slot => job'[s] = job[s]
<1>1. callback.slot \in Slot /\ callback.req \in Request /\ job[callback.slot].st = "Filling"
  BY DEF TakeTicket, Placed, Handing
<1>2. job[callback.slot] \in Job /\ callback \in Callback BY <1>1 DEF TypeOK
<1>3. callback' = [callback EXCEPT !.at = "ready"] BY DEF TakeTicket
<1>4. callback'.at = "ready" /\ callback'.slot = callback.slot /\ callback'.req = callback.req
  BY <1>2, <1>3 DEF Callback
<1>5. job'[callback.slot] = [job[callback.slot] EXCEPT !.ticket = nextTicket]
      /\ \A s \in Slot : s # callback.slot => job'[s] = job[s]
  BY <1>1 DEF TypeOK, TakeTicket
<1>6. QED BY <1>1, <1>2, <1>4, <1>5 DEF Job

LEMMA MakesReady ==
    ASSUME TypeOK, Placed, MakeReady
    PROVE  /\ callback.slot \in Slot /\ callback.req \in Request /\ callback' = NoCallback
           /\ job'[callback.slot].st = "Ready" /\ job'[callback.slot].req = callback.req
           /\ job'[callback.slot].ticket = job[callback.slot].ticket
           /\ \A s \in Slot : s # callback.slot => job'[s] = job[s]
<1>1. callback.slot \in Slot /\ callback.req \in Request BY DEF MakeReady, Placed, Handing
<1>2. job[callback.slot] \in Job BY <1>1 DEF TypeOK
<1>3. PICK e : e = [job[callback.slot] EXCEPT !.st = "Ready", !.req = callback.req,
                                     !.kind = callback.kind, !.runId = callback.runId]
  OBVIOUS
<1>4. job' = [job EXCEPT ![callback.slot] = e] BY <1>1, <1>3 DEF TypeOK, MakeReady
<1>5. job'[callback.slot] = e /\ \A s \in Slot : s # callback.slot => job'[s] = job[s]
  BY <1>1, <1>4 DEF TypeOK
<1>6. e.st = "Ready" /\ e.req = callback.req /\ e.ticket = job[callback.slot].ticket
  BY <1>2, <1>3 DEF Job
<1>7. QED BY <1>1, <1>5, <1>6 DEF MakeReady

LEMMA Enqueues ==
    ASSUME TypeOK, NEW r \in Request, NEW k, NEW id, Enqueue(r, k, id)
    PROVE  \/ client' = [client EXCEPT ![r] = Client("answered")] /\ UNCHANGED <<job, callback>>
           \/ \E s \in Slot :
                 /\ job[s].st = "Free" /\ job'[s].st = "Filling"
                 /\ \A t \in Slot : t # s => job'[t] = job[t]
                 /\ callback'.at = "ticket" /\ callback'.slot = s /\ callback'.req = r
                 /\ client' = [client EXCEPT ![r] = Client("waiting")]
<1>1. ASSUME NEW s \in Slot, job' = [job EXCEPT ![s].st = "Filling"]
      PROVE  job'[s].st = "Filling" /\ \A t \in Slot : t # s => job'[t] = job[t]
  <2>1. job[s] \in Job BY DEF TypeOK
  <2>2. QED BY <1>1, <2>1 DEF TypeOK, Job
<1>2. QED BY <1>1 DEF Enqueue

LEMMA Replies ==
    ASSUME TypeOK, Placed, Reply
    PROVE  /\ scan.oldest \in Slot /\ Ready(scan.oldest) /\ Picked.req \in Request
           /\ job'[scan.oldest] = FreeJob /\ \A s \in Slot : s # scan.oldest => job'[s] = job[s]
           /\ scan' = [i |-> 1, oldest |-> 0]
           /\ \A q \in Request : q # Picked.req => client'[q] = client[q]
           /\ client'[Picked.req].st # "new"
           /\ \/ client[Picked.req].st = "waiting"
              \/ client[Picked.req].st # "waiting" /\ UNCHANGED client
<1>1. scan.oldest \in Slot /\ Ready(scan.oldest) /\ Picked.req \in Request
      /\ client[Picked.req].st # "new"
  BY PickedIs DEF Reply, At
<1>2. job'[scan.oldest] = FreeJob /\ \A s \in Slot : s # scan.oldest => job'[s] = job[s]
  BY <1>1 DEF Reply, TypeOK
<1>3. /\ \A q \in Request : q # Picked.req => client'[q] = client[q]
      /\ client'[Picked.req].st # "new"
  <2>1. CASE UNCHANGED client BY <1>1, <2>1
  <2>2. CASE client' = [client EXCEPT ![Picked.req] = Client("answered")]
    BY <1>1, <2>2, ReaderTyped DEF TypeOK
  <2>3. CASE client' = [client EXCEPT ![Picked.req].st = "streaming",
                                      ![Picked.req].of = SubSeq(file.lines, 1, rec.valid)]
    <3>1. client[Picked.req] \in Reader BY <1>1 DEF TypeOK
    <3>2. client'[Picked.req] = [client[Picked.req] EXCEPT !.st = "streaming",
                                    !.of = SubSeq(file.lines, 1, rec.valid)]
          /\ \A q \in Request : q # Picked.req => client'[q] = client[q]
      BY <1>1, <2>3 DEF TypeOK
    <3>3. QED BY <3>1, <3>2 DEF Reader
  <2>4. QED BY <2>1, <2>2, <2>3 DEF Reply
<1>4. QED BY <1>1, <1>2, <1>3 DEF Reply, Connected

LEMMA Scans ==
    ASSUME TypeOK, ScanSlot
    PROVE  /\ scan.i \in Slot /\ pc = "scan"
           /\ UNCHANGED <<rec, file, run, job, nextTicket, order, download, reply, callback, client>>
           /\ \/ /\ job[scan.i].st = "Filling"
                 /\ pc' = "top" /\ scan' = [i |-> 1, oldest |-> 0] /\ seen' = {}
              \/ \E found \in {scan.i, scan.oldest} :
                    /\ job[scan.i].st # "Filling"
                    /\ found = IF /\ Ready(scan.i)
                                  /\ \/ scan.oldest = 0
                                     \/ Older(job[scan.i].ticket, job[scan.oldest].ticket)
                               THEN scan.i ELSE scan.oldest
                    /\ seen' = IF scan.i = 1 THEN {job[s].req : s \in {t \in Slot : Ready(t)}} ELSE seen
                    /\ \/ scan.i < SlotCount /\ pc' = "scan" /\ scan' = [i |-> scan.i + 1, oldest |-> found]
                       \/ /\ scan.i = SlotCount /\ scan' = [i |-> 1, oldest |-> found]
                          /\ pc' = IF found = 0 THEN "top" ELSE "execute"
<1>1. scan.i \in Slot BY DEF TypeOK
<1>2. scan.i \in 1..SlotCount BY <1>1, SlotsAre
<1>3. CASE job[scan.i].st = "Filling" BY <1>1, <1>3 DEF ScanSlot, queue
<1>4. CASE job[scan.i].st # "Filling"
  <2>1. PICK found : /\ found = IF /\ Ready(scan.i)
                                  /\ \/ scan.oldest = 0
                                     \/ Older(job[scan.i].ticket, job[scan.oldest].ticket)
                               THEN scan.i ELSE scan.oldest
    OBVIOUS
  <2>2. /\ seen' = IF scan.i = 1 THEN {job[s].req : s \in {t \in Slot : Ready(t)}} ELSE seen
        /\ IF scan.i < SlotCount
           THEN pc' = pc /\ scan' = [i |-> scan.i + 1, oldest |-> found]
           ELSE /\ scan' = [i |-> 1, oldest |-> found]
                /\ pc' = IF found = 0 THEN "top" ELSE "execute"
    BY <1>4, <2>1, Zenon DEF ScanSlot, Ready
  <2>3. scan.i < SlotCount \/ scan.i = SlotCount BY <1>2, SlotsAre
  <2>4. found \in {scan.i, scan.oldest} BY <2>1
  <2>5. ~(scan.i < SlotCount) => scan.i = SlotCount BY <2>3
  <2>6. pc = "scan" BY DEF ScanSlot
  <2>7. UNCHANGED <<rec, file, run, job, nextTicket, order, download, reply, callback, client>>
    BY DEF ScanSlot, queue
  <2>8. CASE scan.i < SlotCount BY <1>1, <1>4, <2>1, <2>2, <2>4, <2>6, <2>7, <2>8, Zenon
  <2>9. CASE ~(scan.i < SlotCount) BY <1>1, <1>4, <2>1, <2>2, <2>4, <2>5, <2>6, <2>7, <2>9, Zenon
  <2>10. QED BY <2>8, <2>9
<1>5. QED BY <1>3, <1>4

LEMMA PlacedKept ==
    ASSUME TypeOK, Placed, Delivered, Next
    PROVE  Placed'
<1>0. /\ \A s \in Slot : Ready(s) => job[s].req \in Request /\ client[job[s].req].st # "new"
      /\ scan.oldest # 0 => Ready(scan.oldest)
      /\ scan.oldest \in 0..SlotCount
  BY DEF Placed, TypeOK
<1>1. CASE UNCHANGED <<job, callback, client, scan>> /\ (pc' \in {"execute", "reply"} => pc \in {"execute", "reply"})
  BY <1>1 DEF Placed, Ready, Handing, Streaming
<1>2. CASE LoopTop \/ LoopCommands \/ PollCancelled \/ PollFill \/ PollPublish \/ Execute
  BY <1>1, <1>2 DEF LoopTop, LoopCommands, PollCancelled, PollFill, PollPublish, Execute, At, queue
<1>3. CASE ScanSlot
  <2>1. UNCHANGED <<job, callback, client>> BY <1>3, Scans
  <2>2. (scan.oldest # 0 => Ready(scan.oldest))' BY <1>0, <1>3, Scans DEF Ready
  <2>3. pc' \in {"execute", "reply"} => scan'.oldest # 0 BY <1>3, Scans
  <2>4. QED BY <2>1, <2>2, <2>3 DEF Placed, Ready, Handing, Streaming
<1>4. CASE Reply
  <2>1. pc' = "top" /\ callback' = callback BY <1>4 DEF Reply, At
  <2>2. scan'.oldest = 0 BY <1>4, Replies
  <2>3. \A q \in Request : client[q].st # "new" => client'[q].st # "new" BY <1>4, Replies
  <2>4. \A s \in Slot : s # scan.oldest => job'[s] = job[s] BY <1>4, Replies
  <2>5. Ready(scan.oldest) /\ job'[scan.oldest].st = "Free" BY <1>4, Replies DEF Ready, FreeJob
  <2>6. \A q \in Request : Streaming(q) => Streaming(q)' BY <1>4, Replies DEF Streaming
  <2>7. \A s \in Slot : job[s].st = "Filling" => job'[s] = job[s] BY <2>4, <2>5 DEF Ready
  <2>8. \A s \in Slot : Ready(s)' => Ready(s) /\ job'[s] = job[s] BY <2>4, <2>5 DEF Ready
  <2>9. QED BY <2>1, <2>2, <2>3, <2>6, <2>7, <2>8 DEF Placed, Handing
<1>5. CASE TakeTicket
  <2>1. client' = client /\ scan' = scan /\ pc' = pc BY <1>5 DEF TakeTicket, owner
  <2>2. \A s \in Slot : Ready(s)' => Ready(s) /\ job'[s] = job[s] BY <1>5, TakesTicket DEF Ready
  <2>3. \A s \in Slot : Ready(s) => Ready(s)' BY <1>5, TakesTicket, CallbackIs DEF Ready, TakeTicket, Handing
  <2>4. (scan.oldest # 0 => Ready(scan.oldest))'
    <3>1. scan.oldest # 0 => scan.oldest \in Slot BY <1>0, SlotsAre
    <3>2. QED BY <1>0, <2>1, <2>3, <3>1
  <2>5. client[callback.req].st # "new" BY <1>5 DEF TakeTicket, Placed, Handing
  <2>6. Handing' /\ callback'.at # "empty" BY <1>5, TakesTicket DEF Handing
  <2>7. QED BY <1>0, <1>5, <2>1, <2>2, <2>4, <2>5, <2>6, TakesTicket DEF Placed
<1>6. CASE MakeReady
  <2>1. client' = client /\ scan' = scan /\ pc' = pc BY <1>6 DEF MakeReady, owner
  <2>2. \A s \in Slot : Ready(s)' => job'[s].req \in Request /\ client'[job'[s].req].st # "new"
    <3>1. client[callback.req].st # "new" BY <1>6 DEF MakeReady, Placed, Handing
    <3>2. QED BY <1>0, <1>6, <2>1, <3>1, MakesReady DEF Ready
  <2>3. (scan.oldest # 0 => Ready(scan.oldest))'
    <3>1. scan.oldest # 0 => scan.oldest \in Slot BY <1>0, SlotsAre
    <3>2. QED BY <1>0, <1>6, <2>1, <3>1, MakesReady DEF Ready
  <2>4. callback'.at = "none" BY <1>6, MakesReady, NoCallbackIs
  <2>5. QED BY <2>1, <2>2, <2>3, <2>4 DEF Placed, Handing
<1>7. CASE CheckFinished \/ \E r \in Request : LengthSent(r) \/ Disconnect(r)
  <2>1. UNCHANGED <<job, scan, pc>> BY <1>7 DEF CheckFinished, LengthSent, Disconnect, owner, queue
  <2>2. callback'.at = "none"
    BY <1>7, NoCallbackIs DEF CheckFinished, LengthSent, Disconnect, Idle
  <2>3. client' = client \/ \E r \in Request, st \in {"answered", "short", "gone"} :
                               client' = [client EXCEPT ![r] = Client(st)]
    <3>1. callback.at = "empty" => callback.req \in Request BY DEF Placed
    <3>2. CASE CheckFinished /\ Ended(callback.req) BY <3>1, <3>2, EndedClient DEF CheckFinished
    <3>3. CASE \E r \in Request : LengthSent(r) BY <3>3, EndedClient DEF LengthSent
    <3>4. QED BY <1>7, <3>2, <3>3 DEF CheckFinished, Disconnect
  <2>4. \A q \in Request : client[q].st # "new" => client'[q].st # "new" BY <2>3, ClientIs
  <2>5. QED BY <2>1, <2>2, <2>4 DEF Placed, Handing, Ready
<1>8. CASE \E r \in Request : Consume(r)
  <2>1. PICK r \in Request : Consume(r) BY <1>8
  <2>2. UNCHANGED <<job, scan, pc>> BY <2>1 DEF Consume, owner, queue
  <2>3. \A q \in Request : client'[q].st = client[q].st
    <3>1. \A q \in Request : client[q] \in Reader BY DEF TypeOK
    <3>2. ASSUME NEW x PROVE \A q \in Request : [client EXCEPT ![r].got = x][q].st = client[q].st
      BY <3>1 DEF TypeOK, Reader
    <3>3. client' = client \/ \E x : client' = [client EXCEPT ![r].got = x]
      <4>1. CASE \E n \in 1..Len(download.bytes) :
                    client' = [client EXCEPT ![r].got = @ \o SubSeq(download.bytes, 1, n)]
        BY <4>1
      <4>2. client' = client \/ \E n \in 1..Len(download.bytes) :
                    client' = [client EXCEPT ![r].got = @ \o SubSeq(download.bytes, 1, n)]
        BY <2>1, Zenon DEF Consume
      <4>3. QED BY <4>1, <4>2
    <3>4. CASE \E x : client' = [client EXCEPT ![r].got = x]
      <4>1. PICK x : client' = [client EXCEPT ![r].got = x] BY <3>4
      <4>2. \A q \in Request : [client EXCEPT ![r].got = x][q].st = client[q].st BY <3>2
      <4>3. QED BY <4>1, <4>2, Zenon
    <3>5. QED BY <3>3, <3>4
  <2>4. callback'.at = "none" \/ (callback'.at = "empty" /\ callback'.req = r)
    <3>1. callback' = callback \/ callback' = [NoCallback EXCEPT !.at = "empty", !.req = r]
      BY <2>1 DEF Consume
    <3>2. callback.at = "none" BY <2>1, NoCallbackIs DEF Consume, Idle
    <3>3. QED BY <3>1, <3>2, NoCallbackIs
  <2>5. Streaming(r)' BY <2>1, <2>3 DEF Consume, Streaming
  <2>6. QED BY <2>2, <2>3, <2>4, <2>5 DEF Placed, Handing, Ready
<1>9. CASE \E r \in Request : \E k \in Kinds[r] : \E id \in Ids(k) : Enqueue(r, k, id)
  <2>1. PICK r \in Request : \E k : \E id : Enqueue(r, k, id) BY <1>9
  <2>2. UNCHANGED <<scan, pc>> /\ callback.at = "none" BY <2>1, NoCallbackIs DEF Enqueue, owner, Idle
  <2>3. \A q \in Request : client[q].st # "new" => client'[q].st # "new" BY <2>1, Enqueues, ClientIs
  <2>4. CASE UNCHANGED <<job, callback>>
    BY <2>2, <2>3, <2>4 DEF Placed, Handing, Ready
  <2>5. CASE ~UNCHANGED <<job, callback>>
    <3>1. PICK s \in Slot :
                 /\ job[s].st = "Free" /\ job'[s].st = "Filling"
                 /\ \A t \in Slot : t # s => job'[t] = job[t]
                 /\ callback'.at = "ticket" /\ callback'.slot = s /\ callback'.req = r
                 /\ client' = [client EXCEPT ![r] = Client("waiting")]
      BY <2>1, <2>5, Enqueues
    <3>2. client'[r].st # "new" BY <3>1, ClientIs
    <3>3. \A t \in Slot : Ready(t)' => Ready(t) /\ job'[t] = job[t] BY <3>1 DEF Ready
    <3>4. \A t \in Slot : Ready(t) => Ready(t)' BY <3>1 DEF Ready
    <3>5. scan.oldest # 0 => scan.oldest \in Slot BY <1>0, SlotsAre
    <3>6. QED BY <1>0, <2>2, <2>3, <3>1, <3>2, <3>3, <3>4, <3>5 DEF Placed
  <2>6. QED BY <2>4, <2>5
<1>10. QED BY <1>2, <1>3, <1>4, <1>5, <1>6, <1>7, <1>8, <1>9 DEF Next, Loop, Handler, Served

-----------------------------------------------------------------------------
(* The buffer and the reader. *)
LEMMA BufferIs ==
    ASSUME TypeOK, Buffered, Recorded(rec, file, run), download # None
    PROVE  /\ download \in Buffer /\ download.req \in Request /\ download.bytes \in Seq(Line)
           /\ download.remaining \in Nat
           /\ rec.reader /\ ~rec.recording /\ rec.hasRun /\ rec.valid > 0
           /\ rec.sent + download.remaining = rec.valid
           /\ file.lines \in Seq(Line) /\ Len(file.lines) \in Nat /\ rec.valid \in Nat /\ rec.sent \in Nat
           /\ rec.valid <= Len(file.lines) /\ IsHead(file.lines[1])
BY BufferFields, FileLines DEF TypeOK, Buffered, Recorded

(* While a download is there, the recorder does nothing else. *)
LEMMA DownloadAlone ==
    ASSUME TypeOK, Buffered, Recorded(rec, file, run), download # None
    PROVE  /\ LoopTop => UNCHANGED <<rec, file, run>>
           /\ LoopCommands => UNCHANGED <<rec, file, run>> /\ pc' = "cancelled"
           /\ Execute => UNCHANGED <<rec, file, download>> /\ reply' # "stream"
<1>1. rec.reader /\ ~rec.recording /\ rec.hasRun /\ ~run.active BY BufferIs DEF Recorded
<1>2. LoopTop => UNCHANGED <<rec, file, run>> BY <1>1 DEF LoopTop
<1>3. LoopCommands => UNCHANGED <<rec, file, run>> /\ pc' = "cancelled"
  BY <1>1 DEF LoopCommands, At, StartCommand, StopCommand, CanStart
<1>4. Execute => UNCHANGED <<rec, file, download>> /\ reply' # "stream" BY <1>1, Zenon DEF Execute
<1>5. QED BY <1>2, <1>3, <1>4

(* A download is opened with its first block. *)
Begun(k) ==
    /\ k \in Nat \ {0} /\ k <= rec.valid
    /\ rec.reader' /\ rec'.recording = rec.recording /\ rec'.hasRun = rec.hasRun
    /\ rec'.valid = rec.valid /\ rec'.sent = k /\ file' = file
    /\ download' \in Buffer /\ download'.req = Picked.req /\ download'.ready
    /\ ~download'.finished /\ ~download'.cancelled
    /\ download'.remaining = rec.valid - k /\ download'.bytes = SubSeq(file.lines, 1, k)
    /\ download'.bytes # <<>> /\ reply' = "stream"

LEMMA OpeningBegins ==
    ASSUME TypeOK, Placed, Recorded(rec, file, run), Execute, Opening, rec.valid > 0
    PROVE  \/ UNCHANGED <<rec, file, download>> /\ reply' # "stream"
           \/ \E k : Begun(k)
<1>1. CASE reply' = "error" /\ UNCHANGED <<rec, file, download>> BY <1>1
<1>2. CASE ~(reply' = "error" /\ UNCHANGED <<rec, file, download>>)
  <2>1. rec \in Recorder BY DEF Recorded, Fits
  <2>2. PICK n \in Nat : n = rec.valid BY <2>1, RecorderFields
  <2>3. PICK k \in 1..(IF n < BlockSize THEN n ELSE BlockSize) :
             /\ rec' = Advanced(Opened(rec), k) /\ reply' = "stream" /\ UNCHANGED file
             /\ download' = [[req |-> Picked.req, bytes |-> <<>>, remaining |-> n, ready |-> FALSE,
                                 finished |-> FALSE, failed |-> FALSE, cancelled |-> FALSE]
                                  EXCEPT !.ready = TRUE, !.remaining = n - k,
                                         !.bytes = SubSeq(file.lines, 1, k)]
    BY <1>2, <2>2, Zenon DEF Opening
  <2>4. k \in Nat \ {0} /\ k <= n /\ n - k \in Nat BY FeatherAssumption
  <2>5. file.lines \in Seq(Line) /\ Len(file.lines) \in Nat /\ rec.valid <= Len(file.lines)
    BY FileLines DEF Recorded
  <2>5a. k <= Len(file.lines) BY <2>2, <2>4, <2>5
  <2>6. SubSeq(file.lines, 1, k) \in Seq(Line) /\ Len(SubSeq(file.lines, 1, k)) = k
    BY <2>4, <2>5, <2>5a, PieceTyped
  <2>7. PICK x \in Seq(Line) : x = SubSeq(file.lines, 1, k) BY <2>6
  <2>8. PICK m \in Nat : m = n - k BY <2>4
  <2>9. Picked.req \in Request BY PickedIs DEF Execute, At
  <2>10. OpenedFor(download', Picked.req, n, m, x) BY <2>3, <2>7, <2>8, Zenon DEF OpenedFor
  <2>11. /\ download' \in Buffer /\ download'.req = Picked.req /\ download'.bytes = x
         /\ download'.remaining = m /\ download'.ready /\ ~download'.finished /\ ~download'.cancelled
    BY <2>9, <2>10, Opens
  <2>12. x # <<>> BY <2>4, <2>6, <2>7
  <2>13. Reads(rec, Opened(rec)) /\ Opened(rec).reader /\ Opened(rec).sent = 0 BY <2>1, OpenedReads
  <2>14. Reads(Opened(rec), rec') /\ rec'.reader = Opened(rec).reader /\ rec'.sent = 0 + k
    BY <2>3, <2>4, <2>13, AdvancedReads DEF Reads
  <2>14a. rec'.sent = k BY <2>4, <2>14
  <2>15. Begun(k)
    BY <2>2, <2>3, <2>4, <2>7, <2>8, <2>11, <2>12, <2>13, <2>14, <2>14a DEF Begun, Reads
  <2>16. QED BY <2>15
<1>3. QED BY <1>1, <1>2

(* What poll() of a download does. *)
LEMMA FillsBlock ==
    ASSUME TypeOK, Buffered, Recorded(rec, file, run), download # None,
           NEW n \in 1..Block, download.remaining > 0,
           download' = [download EXCEPT !.remaining = @ - n, !.bytes = NextBlock(n)],
           rec' = Advanced(rec, n)
    PROVE  /\ download' \in Buffer /\ download'.req = download.req
           /\ download'.remaining = download.remaining - n
           /\ download'.bytes = SubSeq(file.lines, rec.sent + 1, rec.sent + n)
           /\ download'.bytes # <<>>
           /\ download'.ready = download.ready /\ download'.finished = download.finished
           /\ download'.cancelled = download.cancelled
           /\ Reads(rec, rec') /\ rec'.reader = rec.reader /\ rec'.sent = rec.sent + n
           /\ n \in Nat \ {0} /\ n <= download.remaining
<1>1. n \in Nat \ {0} /\ n <= download.remaining /\ download.remaining \in Nat BY FreeBlocks
<1>2. PICK m \in Nat : m = download.remaining - n BY <1>1
<1>3. /\ file.lines \in Seq(Line) /\ Len(file.lines) \in Nat /\ rec.sent \in Nat
      /\ rec.valid <= Len(file.lines) /\ rec.sent + download.remaining = rec.valid
      /\ rec.valid \in Nat /\ download \in Buffer
  BY BufferIs
<1>4. rec.sent + 1 \in Nat \ {0} /\ rec.sent + n \in Int /\ rec.sent + n <= Len(file.lines)
      /\ rec.sent + 1 <= rec.sent + n
  BY <1>1, <1>3
<1>4a. PICK a \in Nat \ {0}, b \in Int : a = rec.sent + 1 /\ b = rec.sent + n BY <1>4
<1>4b. NextBlock(n) \in Seq(Line) /\ Len(NextBlock(n)) = b - a + 1
  BY <1>3, <1>4, <1>4a, PieceTyped DEF NextBlock
<1>5. PICK x \in Seq(Line) : x = NextBlock(n) BY <1>4b
<1>6. x # <<>> BY <1>4, <1>4a, <1>4b, <1>5
<1>7. download' = [download EXCEPT !.remaining = m, !.bytes = x] BY <1>2, <1>5
<1>8. /\ download' \in Buffer /\ download'.req = download.req
      /\ download'.remaining = m /\ download'.bytes = x
      /\ download'.ready = download.ready /\ download'.finished = download.finished
      /\ download'.cancelled = download.cancelled
  <2>1. PICK c \in Buffer : c = download BY <1>3
  <2>2. PICK d : d = download' OBVIOUS
  <2>3. d = [c EXCEPT !.remaining = m, !.bytes = x] BY <1>7, <2>1, <2>2
  <2>4. /\ d \in Buffer /\ d.req = c.req /\ d.bytes = x /\ d.remaining = m
        /\ d.ready = c.ready /\ d.finished = c.finished /\ d.cancelled = c.cancelled
    BY ONLY <2>3, c \in Buffer, x \in Seq(Line), m \in Nat DEF Buffer
  <2>5. QED BY <2>1, <2>2, <2>4, Zenon
<1>9. Reads(rec, rec') /\ rec'.reader = rec.reader /\ rec'.sent = rec.sent + n
  BY <1>1, AdvancedReads DEF Recorded, Fits
<1>10. QED BY <1>1, <1>2, <1>5, <1>6, <1>8, <1>9 DEF NextBlock

LEMMA DestroyedIs ==
    ASSUME TypeOK, NEW r, Destroyed(r)
    PROVE  \/ download' = download /\ (download = None \/ download.req # r)
           \/ /\ download # None /\ download.req = r /\ download' \in Buffer
              /\ download'.req = download.req /\ download'.bytes = download.bytes
              /\ download'.remaining = download.remaining /\ download'.ready = download.ready
              /\ download'.finished = download.finished
<1>1. CASE download # None /\ download.req = r
  <2>1. PICK b \in Buffer : b = download BY <1>1 DEF TypeOK
  <2>2. PICK d : d = download' OBVIOUS
  <2>3. d = [b EXCEPT !.cancelled = TRUE] BY <1>1, <2>1, <2>2 DEF Destroyed
  <2>4. /\ d \in Buffer /\ d.req = b.req /\ d.bytes = b.bytes /\ d.remaining = b.remaining
        /\ d.ready = b.ready /\ d.finished = b.finished
    BY <2>3, Cancels
  <2>5. QED BY <1>1, <2>1, <2>2, <2>4, Zenon
<1>2. CASE ~(download # None /\ download.req = r) BY <1>2 DEF Destroyed
<1>3. QED BY <1>1, <1>2

LEMMA ConsumeIs ==
    ASSUME TypeOK, Buffered, Recorded(rec, file, run), NEW r \in Request, Consume(r), Delivered
    PROVE  /\ download # None /\ Streaming(r) /\ Idle
           /\ UNCHANGED <<rec, file, run, pc, scan, reply, job, nextTicket, order, seen>>
           /\ \/ /\ ~download.ready /\ UNCHANGED <<download, client>>
                 /\ callback'.at = "empty" /\ callback'.req = r
              \/ \E n \in 1..Len(download.bytes) :
                    /\ download.ready /\ callback' = callback
                    /\ client'[r].st = client[r].st /\ client'[r].of = client[r].of
                    /\ client'[r].got = client[r].got \o SubSeq(download.bytes, 1, n)
                    /\ client'[r] \in Reader
                    /\ \A q \in Request : q # r => client'[q] = client[q]
                    /\ download' \in Buffer /\ download'.req = download.req
                    /\ download'.bytes = SubSeq(download.bytes, n + 1, Len(download.bytes))
                    /\ download'.remaining = download.remaining
                    /\ download'.finished = download.finished
                    /\ download'.cancelled = download.cancelled
                    /\ download'.ready <=> n # Len(download.bytes)
<1>1. download # None /\ Streaming(r) /\ Idle BY DEF Consume, Delivered, Gets
<1>2. UNCHANGED <<rec, file, run, pc, scan, reply, job, nextTicket, order, seen>>
  BY DEF Consume, owner, queue
<1>3. CASE ~download.ready
  <2>1. callback' = [NoCallback EXCEPT !.at = "empty", !.req = r] /\ UNCHANGED <<download, client>>
    BY <1>3 DEF Consume
  <2>2. QED BY <1>1, <1>2, <1>3, <2>1, NoCallbackIs
<1>4. CASE download.ready
  <2>1. PICK n \in 1..Len(download.bytes) :
             /\ client' = [client EXCEPT ![r].got = @ \o SubSeq(download.bytes, 1, n)]
             /\ download' = [download EXCEPT !.bytes = SubSeq(@, n + 1, Len(@)),
                                             !.ready = n # Len(download.bytes)]
             /\ callback' = callback
    BY <1>4, Zenon DEF Consume
  <2>2. PICK b \in Buffer : b = download BY <1>1, BufferIs
  <2>3. b.bytes \in Seq(Line) /\ Len(b.bytes) \in Nat /\ n \in Nat BY <2>2, BufferFields
  <2>4. SubSeq(b.bytes, 1, n) \in Seq(Line) /\ SubSeq(b.bytes, n + 1, Len(b.bytes)) \in Seq(Line)
    <3>1. PICK q \in Seq(Line) : q = b.bytes BY <2>3
    <3>2. n <= Len(q) /\ Len(q) \in Nat /\ n + 1 \in Nat \ {0} BY <2>2, <2>3, <3>1
    <3>3. SubSeq(q, 1, n) \in Seq(Line) BY <2>3, <3>2, PieceTyped
    <3>4. SubSeq(q, n + 1, Len(q)) \in Seq(Line) BY <3>2, PieceTyped
    <3>5. QED BY <3>1, <3>3, <3>4
  <2>5. PICK x \in Seq(Line) : x = SubSeq(b.bytes, 1, n) BY <2>4
  <2>6. PICK y \in Seq(Line) : y = SubSeq(b.bytes, n + 1, Len(b.bytes)) BY <2>4
  <2>7. PICK d : d = download' OBVIOUS
  <2>8. Consumed(d, b, y, n) BY <2>1, <2>2, <2>6, <2>7, Zenon DEF Consumed
  <2>9. /\ d \in Buffer /\ d.req = b.req /\ d.bytes = y /\ d.remaining = b.remaining
        /\ d.finished = b.finished /\ d.cancelled = b.cancelled
        /\ d.ready <=> n # Len(b.bytes)
    BY <2>8, Consumes
  <2>10. PICK c \in Reader : c = client[r] BY DEF TypeOK
  <2>11. c.got \in Seq(Line) BY DEF Reader
  <2>12. c.got \o x \in Seq(Line) BY <2>11
  <2>13. PICK z \in Seq(Line) : z = c.got \o x BY <2>12
  <2>14. PICK e : e = [c EXCEPT !.got = z] OBVIOUS
  <2>15. e \in Reader /\ e.st = c.st /\ e.of = c.of /\ e.got = z
    BY ONLY <2>14, c \in Reader, z \in Seq(Line) DEF Reader
  <2>16. client' = [client EXCEPT ![r] = e]
    <3>1. client' = [client EXCEPT ![r] = [client[r] EXCEPT !.got = client[r].got \o SubSeq(download.bytes, 1, n)]]
      BY <2>1, Zenon
    <3>2. QED BY <2>2, <2>5, <2>10, <2>13, <2>14, <3>1, Zenon
  <2>17. client'[r] = e /\ \A q \in Request : q # r => client'[q] = client[q]
    BY <2>16 DEF TypeOK
  <2>18. /\ client'[r].st = client[r].st /\ client'[r].of = client[r].of
         /\ client'[r].got = client[r].got \o SubSeq(download.bytes, 1, n)
         /\ client'[r] \in Reader
    BY <2>2, <2>5, <2>10, <2>13, <2>15, <2>17, Zenon
  <2>19. /\ download' \in Buffer /\ download'.req = download.req
         /\ download'.bytes = SubSeq(download.bytes, n + 1, Len(download.bytes))
         /\ download'.remaining = download.remaining
         /\ download'.finished = download.finished
         /\ download'.cancelled = download.cancelled
         /\ download'.ready <=> n # Len(download.bytes)
    BY <2>2, <2>6, <2>7, <2>9, Zenon
  <2>20. QED BY <1>1, <1>2, <1>4, <2>1, <2>17, <2>18, <2>19, Zenon
<1>5. QED BY <1>3, <1>4

(* The buffer's part, of which recorder, buffer and loop are a part each. *)
Serves(b, c, at) ==
    /\ c.reader /\ ~c.recording /\ c.hasRun /\ c.valid > 0
    /\ c.sent + b.remaining = c.valid
    /\ b.ready => b.bytes # <<>>
    /\ at = "publish" => ~b.ready /\ b.bytes # <<>>
    /\ ~b.ready /\ at # "publish" => b.bytes = <<>>
    /\ b.finished => b.remaining = 0 /\ b.bytes = <<>>

LEMMA BufferedIs ==
    Buffered <=> /\ pc \in {"cancelled", "fill", "publish"} => download # None
                 /\ download # None => Serves(download, rec, pc)
BY DEF Buffered, Serves

LEMMA BufferedKept ==
    ASSUME TypeOK, Placed, Buffered, Delivered, Recorded(rec, file, run), Next
    PROVE  Buffered'
<1>0. rec \in Recorder BY DEF Recorded, Fits
<1>1. CASE /\ UNCHANGED <<rec, download>> /\ pc' # "publish" /\ pc # "publish"
           /\ pc' \in {"cancelled", "fill"} => download # None
  BY <1>1 DEF Buffered
<1>2. CASE LoopTop
  <2>1. CASE download = None BY <1>2, <2>1 DEF LoopTop, At, Buffered
  <2>2. CASE download # None BY <1>1, <1>2, <2>2, DownloadAlone DEF LoopTop, At
  <2>3. QED BY <2>1, <2>2
<1>3. CASE LoopCommands
  <2>1. CASE download = None BY <1>3, <2>1 DEF LoopCommands, At, Buffered
  <2>2. CASE download # None BY <1>1, <1>3, <2>2, DownloadAlone DEF LoopCommands, At
  <2>3. QED BY <2>1, <2>2
<1>4. CASE PollCancelled
  <2>1. CASE download' = None BY <1>4, <2>1 DEF PollCancelled, At, Buffered
  <2>2. CASE download' # None BY <1>1, <1>4, <2>2 DEF PollCancelled, At, Buffered
  <2>3. QED BY <2>1, <2>2
<1>5. CASE PollFill
  <2>0. download # None /\ pc = "fill" BY <1>5 DEF PollFill, Buffered
  <2>1. PICK b \in Buffer : b = download BY <2>0, BufferIs
  <2>2. Serves(b, rec, "fill") BY <2>0, <2>1, BufferedIs
  <2>3. CASE download' = download /\ rec' = rec /\ pc' = "scan" BY <1>1, <2>0, <2>3
  <2>4. CASE download' = [download EXCEPT !.finished = TRUE] /\ rec' = rec /\ pc' = "scan"
             /\ CanFill /\ download.remaining = 0
    <3>1. PICK d : d = [b EXCEPT !.finished = TRUE] OBVIOUS
    <3>2. /\ d \in Buffer /\ d.req = b.req /\ d.bytes = b.bytes /\ d.remaining = b.remaining
          /\ d.ready = b.ready
      BY <3>1, Finishes
    <3>3. ~b.ready /\ b.remaining = 0 BY <2>1, <2>4 DEF CanFill
    <3>4. Serves(d, rec, "scan") BY <2>2, <3>2, <3>3 DEF Serves
    <3>5. QED BY <2>0, <2>1, <2>4, <3>1, <3>2, <3>4, BufferFields DEF Buffered, Serves
  <2>5. CASE download' = [download EXCEPT !.failed = TRUE] /\ rec' = rec /\ pc' = "scan"
    <3>1. PICK d : d = [b EXCEPT !.failed = TRUE] OBVIOUS
    <3>2. /\ d \in Buffer /\ d.req = b.req /\ d.bytes = b.bytes /\ d.remaining = b.remaining
          /\ d.ready = b.ready /\ d.finished = b.finished
      BY <3>1, Fails
    <3>4. Serves(d, rec, "scan") BY <2>2, <3>2 DEF Serves
    <3>5. QED BY <2>0, <2>1, <2>5, <3>1, <3>2, <3>4, BufferFields DEF Buffered, Serves
  <2>6. CASE /\ CanFill /\ download.remaining > 0 /\ pc' = "publish"
             /\ \E n \in 1..Block :
                   /\ download' = [download EXCEPT !.remaining = @ - n, !.bytes = NextBlock(n)]
                   /\ rec' = Advanced(rec, n)
    <3>1. PICK n \in 1..Block :
                   /\ download' = [download EXCEPT !.remaining = @ - n, !.bytes = NextBlock(n)]
                   /\ rec' = Advanced(rec, n)
      BY <2>6
    <3>2. /\ download' \in Buffer /\ download'.remaining = download.remaining - n
          /\ download'.bytes # <<>>
          /\ download'.ready = download.ready /\ download'.finished = download.finished
          /\ Reads(rec, rec') /\ rec'.reader = rec.reader /\ rec'.sent = rec.sent + n
          /\ n \in Nat \ {0} /\ n <= download.remaining
      BY <2>0, <2>6, <3>1, FillsBlock
    <3>3. /\ download.remaining \in Nat /\ rec.reader /\ ~rec.recording /\ rec.hasRun /\ rec.valid > 0
          /\ rec.sent + download.remaining = rec.valid /\ rec.sent \in Nat
      BY <2>0, BufferIs
    <3>4. ~download.ready /\ ~download.finished BY <2>0, <2>6 DEF CanFill, Buffered
    <3>5. rec'.sent + download'.remaining = rec.valid BY <3>2, <3>3
    <3>6. pc' = "publish" BY <2>6
    <3>7. QED BY <3>2, <3>3, <3>4, <3>5, <3>6, BufferFields DEF Buffered, Reads
  <2>7. QED BY <1>5, <2>3, <2>4, <2>5, <2>6, Zenon DEF PollFill
<1>6. CASE PollPublish
  <2>0. download # None /\ pc = "publish" /\ pc' = "scan" /\ rec' = rec
    BY <1>6 DEF PollPublish, At, Buffered
  <2>1. PICK b \in Buffer : b = download BY <2>0, BufferIs
  <2>2. Serves(b, rec, "publish") BY <2>0, <2>1, BufferedIs
  <2>3. PICK d : d = [b EXCEPT !.ready = TRUE] OBVIOUS
  <2>4. /\ d \in Buffer /\ d.req = b.req /\ d.bytes = b.bytes /\ d.remaining = b.remaining
        /\ d.ready /\ d.finished = b.finished
    BY <2>3, Publishes
  <2>5. Serves(d, rec, "scan") BY <2>2, <2>4 DEF Serves
  <2>6. download' = d BY <1>6, <2>1, <2>3 DEF PollPublish
  <2>7. QED BY <2>0, <2>5, <2>6 DEF Buffered, Serves
<1>7. CASE ScanSlot
  BY <1>1, <1>7, Scans
<1>8. CASE Execute
  <2>1. pc = "execute" /\ pc' = "reply" BY <1>8 DEF Execute, At
  <2>2. CASE UNCHANGED <<rec, download>> BY <1>1, <2>1, <2>2
  <2>3. CASE download # None BY <1>8, <2>2, <2>3, DownloadAlone
  <2>4. CASE Opening /\ rec.valid > 0 /\ ~rec.recording /\ rec.hasRun
    <3>0. SUFFICES ASSUME ~UNCHANGED <<rec, download>> PROVE Buffered' BY <2>2
    <3>1. PICK k : Begun(k) BY <1>8, <2>4, <3>0, OpeningBegins
    <3>2. rec.valid \in Nat BY <1>0, RecorderFields
    <3>3. k + (rec.valid - k) = rec.valid BY <3>1, <3>2 DEF Begun
    <3>4. QED BY <2>1, <2>4, <3>1, <3>3 DEF Begun, Buffered
  <2>5. CASE download' = None BY <2>1, <2>5 DEF Buffered
  <2>6. UNCHANGED download \/ (Opening /\ rec.valid > 0 /\ ~rec.recording /\ rec.hasRun)
    BY <1>8, Zenon DEF Execute
  <2>7. QED BY <2>3, <2>4, <2>5, <2>6
<1>9. CASE Reply
  <2>1. pc = "reply" /\ pc' = "top" /\ (UNCHANGED <<rec, download>> \/ download' = None)
    BY <1>9 DEF Reply, At
  <2>2. QED BY <1>1, <2>1 DEF Buffered
<1>10. CASE UNCHANGED <<rec, download, pc>> BY <1>10 DEF Buffered
<1>11. CASE TakeTicket \/ MakeReady BY <1>10, <1>11 DEF TakeTicket, MakeReady, owner
<1>12. CASE \E r : UNCHANGED <<rec, pc>> /\ Destroyed(r)
  <2>1. PICK r : UNCHANGED <<rec, pc>> /\ Destroyed(r) BY <1>12
  <2>2. CASE download' = download BY <1>10, <2>1, <2>2
  <2>3. CASE download' # download
    <3>1. /\ download # None /\ download' \in Buffer /\ download'.bytes = download.bytes
          /\ download'.remaining = download.remaining /\ download'.ready = download.ready
          /\ download'.finished = download.finished
      BY <2>1, <2>3, DestroyedIs
    <3>2. Serves(download, rec, pc) BY <3>1, BufferedIs
    <3>3. Serves(download, rec, pc)' BY <2>1, <3>1, <3>2 DEF Serves
    <3>4. download' # None BY <3>1, BufferFields
    <3>5. QED BY <3>3, <3>4 DEF Buffered, Serves
  <2>4. QED BY <2>2, <2>3
<1>13. CASE CheckFinished \/ \E r \in Request : LengthSent(r) \/ Disconnect(r)
  BY <1>10, <1>12, <1>13, Zenon DEF CheckFinished, LengthSent, Disconnect, Ended, owner
<1>14. CASE \E r \in Request : Consume(r)
  <2>1. PICK r \in Request : Consume(r) BY <1>14
  <2>2. UNCHANGED <<rec, pc>> /\ download # None BY <2>1, ConsumeIs
  <2>3. CASE UNCHANGED download BY <1>10, <2>2, <2>3
  <2>4. CASE ~UNCHANGED download
    <3>1. PICK n \in 1..Len(download.bytes) :
                    /\ download.ready
                    /\ download' \in Buffer
                    /\ download'.bytes = SubSeq(download.bytes, n + 1, Len(download.bytes))
                    /\ download'.remaining = download.remaining
                    /\ download'.finished = download.finished
                    /\ download'.ready <=> n # Len(download.bytes)
      BY <2>1, <2>4, ConsumeIs
    <3>2. PICK q \in Seq(Line) : q = download.bytes BY <2>2, BufferIs
    <3>3. Len(q) \in Nat /\ n \in Nat /\ n + 1 \in Nat \ {0} BY <3>1, <3>2
    <3>4. SubSeq(q, n + 1, Len(q)) # <<>> <=> n # Len(q)
      <4>1. Len(SubSeq(q, n + 1, Len(q))) = (IF n + 1 <= Len(q) THEN Len(q) - (n + 1) + 1 ELSE 0)
            /\ SubSeq(q, n + 1, Len(q)) \in Seq(Line)
        BY <3>3, PieceTyped
      <4>2. PICK p \in Seq(Line) : p = SubSeq(q, n + 1, Len(q)) BY <4>1
      <4>3. p # <<>> <=> Len(p) # 0 OBVIOUS
      <4>4. n <= Len(q) BY <3>2
      <4>5. Len(p) = (IF n + 1 <= Len(q) THEN Len(q) - (n + 1) + 1 ELSE 0) BY <4>1, <4>2
      <4>6. Len(p) # 0 <=> n # Len(q) BY <3>3, <4>4, <4>5
      <4>7. QED BY <4>2, <4>3, <4>6
    <3>5. download'.bytes # <<>> <=> download'.ready BY <3>1, <3>2, <3>4
    <3>6. ~download.finished /\ pc # "publish" BY <2>2, <3>1 DEF Buffered
    <3>7. QED BY <2>2, <3>1, <3>5, <3>6, BufferFields DEF Buffered
  <2>5. QED BY <2>3, <2>4
<1>15. CASE \E r \in Request : \E k \in Kinds[r] : \E id \in Ids(k) : Enqueue(r, k, id)
  BY <1>10, <1>15 DEF Enqueue, owner
<1>16. QED
  BY <1>2, <1>3, <1>4, <1>5, <1>6, <1>7, <1>8, <1>9, <1>11, <1>13, <1>14, <1>15
  DEF Next, Loop, Handler, Served

-----------------------------------------------------------------------------
(* What a client has. *)
LEMMA ClientTyped ==
    ASSUME TypeOK, NEW r \in Request
    PROVE  client[r] \in Reader /\ client[r].got \in Seq(Line) /\ client[r].of \in Seq(Line)
BY DEF TypeOK, Reader

LEMMA OneReader ==
    ASSUME Delivered, NEW r \in Request, Streaming(r)
    PROVE  /\ Gets(r) /\ download # None
           /\ \A q \in Request : Streaming(q) => q = r
           /\ ~(pc = "reply" /\ reply = "stream")
BY DEF Delivered, Gets

LEMMA NoReader ==
    ASSUME Delivered, download = None
    PROVE  (\A r \in Request : ~Streaming(r)) /\ ~(pc = "reply" /\ reply = "stream")
BY DEF Delivered, Gets

(* As long as nothing is read or sent, everyone has what he had. *)
LEMMA DeliveredStays ==
    ASSUME Delivered, UNCHANGED <<client, download>>, pc' # "reply" \/ reply' # "stream",
           download = None \/ UNCHANGED <<rec, file>>
    PROVE  Delivered'
<1>1. \A r \in Request : Streaming(r)' => Streaming(r) /\ Gets(r) BY DEF Delivered, Streaming
<1>2. \A r \in Request : Gets(r) => Gets(r)' BY DEF Gets
<1>3. QED BY <1>1, <1>2 DEF Delivered, Streaming

LEMMA PickedStays ==
    ASSUME TypeOK, Placed, scan' = scan, \A s \in Slot : Ready(s) => job'[s] = job[s],
           pc \in {"execute", "reply"}
    PROVE  Picked' = Picked
BY PickedIs DEF Picked

LEMMA DeliveredQueued ==
    ASSUME TypeOK, Placed, Delivered, \A s \in Slot : Ready(s) => job'[s] = job[s],
           UNCHANGED <<rec, file, pc, scan, reply, client, download>>
    PROVE  Delivered'
<1>1. \A r \in Request : (Streaming(r)' <=> Streaming(r)) /\ (Gets(r) => Gets(r)')
  BY DEF Streaming, Gets
<1>2. pc = "reply" => Picked' = Picked BY PickedStays
<1>3. QED BY <1>1, <1>2 DEF Delivered

(* The reader goes, with all of it or for good. *)
LEMMA DeliveredEnds ==
    ASSUME TypeOK, Placed, Delivered, NEW r \in Request, Streaming(r),
           NEW st \in {"answered", "gone"}, client' = [client EXCEPT ![r] = Client(st)],
           UNCHANGED <<pc, reply>>
    PROVE  Delivered'
<1>1. /\ client'[r].st = st /\ client'[r].got = <<>> /\ client'[r].of = <<>>
      /\ \A q \in Request : q # r => client'[q] = client[q]
  BY ClientIs
<1>2. \A q \in Request : ~Streaming(q)' BY <1>1, OneReader DEF Streaming
<1>3. ~(pc' = "reply" /\ reply' = "stream") BY OneReader
<1>4. QED BY <1>1, <1>2, <1>3 DEF Delivered, Streaming

(* Of equal length with the file's lines, what is there is everything. *)
LEMMA AllThere ==
    ASSUME TypeOK, Buffered, Recorded(rec, file, run), NEW r \in Request, Gets(r),
           Len(client[r].got) = Len(client[r].of) \/ (download.bytes = <<>> /\ download.remaining = 0)
    PROVE  client[r].got = client[r].of
<1>1. download # None BY DEF Gets
<1>2. PICK q \in Seq(Line), v \in Nat, n \in Nat, m \in Nat :
           /\ q = file.lines /\ v = rec.valid /\ n = rec.sent /\ m = download.remaining
           /\ n + m = v /\ v <= Len(q)
  BY <1>1, BufferIs
<1>3. PICK g \in Seq(Line), o \in Seq(Line), b \in Seq(Line) :
           g = client[r].got /\ o = client[r].of /\ b = download.bytes
  BY <1>1, ClientTyped, BufferIs
<1>4. o = SubSeq(q, 1, v) /\ g \o b = SubSeq(q, 1, n) BY <1>2, <1>3 DEF Gets
<1>5. Len(o) = v /\ Len(g \o b) = n
  <2>1. ASSUME NEW k \in Nat, k <= Len(q) PROVE Len(SubSeq(q, 1, k)) = k
    BY <2>1, PieceTyped
  <2>2. n <= Len(q) BY <1>2
  <2>3. QED BY <1>2, <1>4, <2>1, <2>2
<1>6. Len(g \o b) = Len(g) + Len(b) /\ Len(g) \in Nat /\ Len(b) \in Nat OBVIOUS
<1>7. n = v /\ Len(b) = 0
  <2>0. PICK i \in Nat, j \in Nat : i = Len(g) /\ j = Len(b) BY <1>6
  <2>0a. i + j = n BY <1>5, <1>6, <2>0
  <2>1. CASE Len(g) = Len(o)
    <3>1. i = v BY <1>5, <2>0, <2>1
    <3>2. n + m = v BY <1>2
    <3>3. n = v /\ j = 0 BY ONLY <2>0a, <3>1, <3>2, i \in Nat, j \in Nat, n \in Nat, m \in Nat, v \in Nat
    <3>4. QED BY <2>0, <3>3
  <2>2. CASE b = <<>> /\ m = 0 BY <1>2, <2>2
  <2>3. QED BY <1>2, <1>3, <2>1, <2>2
<1>8. b = <<>> BY <1>7
<1>9. g \o b = g BY <1>8
<1>10. QED BY <1>3, <1>4, <1>7, <1>9

(* A block is the lines behind those before it. *)
LEMMA BlockFollows ==
    ASSUME NEW q \in Seq(Line), NEW a \in Nat, NEW n \in Nat, a + n <= Len(q)
    PROVE  SubSeq(q, 1, a) \o SubSeq(q, a + 1, a + n) = SubSeq(q, 1, a + n)
<1>1. 1 \in 1..(Len(q) + 1) /\ a \in (1 - 1)..Len(q) /\ a + n \in a..Len(q) OBVIOUS
<1>2. QED BY <1>1, ConcatAdjacentSubSeq

LEMMA SentAndLeft ==
    ASSUME NEW g \in Seq(Line), NEW b \in Seq(Line), NEW n \in 1..Len(b)
    PROVE  (g \o SubSeq(b, 1, n)) \o SubSeq(b, n + 1, Len(b)) = g \o b
<1>1. 1 \in 1..(Len(b) + 1) /\ n \in (1 - 1)..Len(b) /\ Len(b) \in n..Len(b) OBVIOUS
<1>2. SubSeq(b, 1, n) \o SubSeq(b, n + 1, Len(b)) = SubSeq(b, 1, Len(b))
  BY <1>1, ConcatAdjacentSubSeq
<1>3. SubSeq(b, 1, Len(b)) = b BY SubSeqFull
<1>4. SubSeq(b, 1, n) \in Seq(Line) /\ SubSeq(b, n + 1, Len(b)) \in Seq(Line) OBVIOUS
<1>5. PICK p \in Seq(Line), t \in Seq(Line) :
           p = SubSeq(b, 1, n) /\ t = SubSeq(b, n + 1, Len(b))
  BY <1>4
<1>6. (g \o p) \o t = g \o (p \o t)
  <2> DEFINE lhs == (g \o p) \o t
             rhs == g \o (p \o t)
  <2>1. g \o p \in Seq(Line) /\ p \o t \in Seq(Line) OBVIOUS
  <2>2. lhs \in Seq(Line) /\ rhs \in Seq(Line) BY <2>1
  <2>3. Len(lhs) = Len(rhs) BY <2>1
  <2>4. \A i \in 1..Len(lhs) : lhs[i] = rhs[i] BY <2>1
  <2> HIDE DEF lhs, rhs
  <2>5. lhs = rhs BY <2>2, <2>3, <2>4, SeqEqual
  <2>6. QED BY <2>5 DEF lhs, rhs
<1>7. QED BY <1>2, <1>3, <1>5, <1>6

(* A step of the loop on the buffer of one reader. *)
LEMMA DeliveredOn ==
    ASSUME TypeOK, Delivered, download # None, UNCHANGED <<client, file>>,
           pc' # "reply", rec'.valid = rec.valid, download' # None,
           download'.req = download.req, download'.cancelled = download.cancelled,
           \A r \in Request : Gets(r) =>
              client[r].got \o download'.bytes = SubSeq(file.lines, 1, rec'.sent)
    PROVE  Delivered'
<1>1. \A r \in Request : (Streaming(r)' <=> Streaming(r)) /\ client'[r] = client[r] BY DEF Streaming
<1>2. \A r \in Request : Gets(r) => Gets(r)' BY DEF Gets
<1>3. QED BY <1>1, <1>2 DEF Delivered

LEMMA DeliveredPolled ==
    ASSUME TypeOK, Buffered, Delivered, Recorded(rec, file, run), PollFill \/ PollPublish
    PROVE  Delivered'
<1>0. download # None /\ UNCHANGED <<client, file, reply>> /\ pc' # "reply"
  BY DEF PollFill, PollPublish, At, Buffered
<1>1. PICK b \in Buffer : b = download BY <1>0, BufferIs
<1>2. CASE download' = download /\ rec' = rec BY <1>0, <1>2, DeliveredOn DEF Gets
<1>3. ASSUME NEW d \in Buffer, download' = d, d.req = b.req, d.bytes = b.bytes,
             d.cancelled = b.cancelled, rec' = rec
      PROVE  Delivered'
  <2>1. d # None BY BufferFields
  <2>2. QED BY <1>0, <1>1, <1>3, <2>1, DeliveredOn DEF Gets
<1>4. CASE PollPublish
  <2>1. PICK d : d = [b EXCEPT !.ready = TRUE] OBVIOUS
  <2>2. d \in Buffer /\ d.req = b.req /\ d.bytes = b.bytes /\ d.cancelled = b.cancelled
    BY <2>1, Publishes
  <2>3. download' = d /\ rec' = rec BY <1>1, <1>4, <2>1 DEF PollPublish
  <2>4. QED BY <1>3, <2>2, <2>3
<1>5. CASE download' = [download EXCEPT !.finished = TRUE] /\ rec' = rec
  <2>1. PICK d : d = [b EXCEPT !.finished = TRUE] OBVIOUS
  <2>2. d \in Buffer /\ d.req = b.req /\ d.bytes = b.bytes /\ d.cancelled = b.cancelled
    BY <2>1, Finishes
  <2>3. QED BY <1>1, <1>3, <1>5, <2>1, <2>2
<1>6. CASE download' = [download EXCEPT !.failed = TRUE] /\ rec' = rec
  <2>1. PICK d : d = [b EXCEPT !.failed = TRUE] OBVIOUS
  <2>2. d \in Buffer /\ d.req = b.req /\ d.bytes = b.bytes /\ d.cancelled = b.cancelled
    BY <2>1, Fails
  <2>3. QED BY <1>1, <1>3, <1>6, <2>1, <2>2
<1>7. CASE /\ PollFill /\ CanFill /\ download.remaining > 0
           /\ \E n \in 1..Block :
                   /\ download' = [download EXCEPT !.remaining = @ - n, !.bytes = NextBlock(n)]
                   /\ rec' = Advanced(rec, n)
  <2>1. PICK n \in 1..Block :
                   /\ download' = [download EXCEPT !.remaining = @ - n, !.bytes = NextBlock(n)]
                   /\ rec' = Advanced(rec, n)
    BY <1>7
  <2>2. /\ download' \in Buffer /\ download'.req = download.req
        /\ download'.cancelled = download.cancelled
        /\ download'.bytes = SubSeq(file.lines, rec.sent + 1, rec.sent + n)
        /\ Reads(rec, rec') /\ rec'.sent = rec.sent + n
        /\ n \in Nat \ {0} /\ n <= download.remaining
    BY <1>0, <1>7, <2>1, FillsBlock
  <2>3. download.bytes = <<>> BY <1>0, <1>7 DEF Buffered, PollFill, CanFill
  <2>4. PICK q \in Seq(Line), a \in Nat : q = file.lines /\ a = rec.sent /\ a + n <= Len(q)
    <3>1. /\ file.lines \in Seq(Line) /\ rec.sent \in Nat /\ rec.valid \in Nat /\ Len(file.lines) \in Nat
          /\ rec.sent + download.remaining = rec.valid /\ rec.valid <= Len(file.lines)
          /\ download.remaining \in Nat
      BY <1>0, BufferIs
    <3>2. rec.sent + n <= Len(file.lines) BY <2>2, <3>1
    <3>3. QED BY <3>1, <3>2
  <2>5. ASSUME NEW r \in Request, Gets(r)
        PROVE  client[r].got \o download'.bytes = SubSeq(file.lines, 1, rec'.sent)
    <3>1. PICK g \in Seq(Line) : g = client[r].got BY ClientTyped
    <3>2. g = SubSeq(q, 1, a)
      <4>1. g \o <<>> = SubSeq(q, 1, a) BY <2>3, <2>4, <2>5, <3>1 DEF Gets
      <4>2. QED BY <4>1, ConcatEmptySeq
    <3>3. SubSeq(q, 1, a) \o SubSeq(q, a + 1, a + n) = SubSeq(q, 1, a + n)
      BY <2>2, <2>4, BlockFollows
    <3>4. QED BY <2>2, <2>4, <3>1, <3>2, <3>3
  <2>6. download' # None /\ rec'.valid = rec.valid BY <2>2, BufferFields DEF Reads
  <2>7. QED BY <1>0, <2>2, <2>5, <2>6, DeliveredOn
<1>8. QED BY <1>2, <1>4, <1>5, <1>6, <1>7, Zenon DEF PollFill

LEMMA DeliveredExecuted ==
    ASSUME TypeOK, Placed, Buffered, Delivered, Recorded(rec, file, run), Execute
    PROVE  Delivered'
<1>0. pc = "execute" /\ pc' = "reply" /\ client' = client /\ UNCHANGED <<scan, job>>
  BY DEF Execute, At, queue
<1>1. CASE download # None
  <2>1. UNCHANGED <<rec, file, download>> /\ reply' # "stream" BY <1>1, DownloadAlone
  <2>2. QED BY <1>0, <2>1, DeliveredStays
<1>2. CASE download = None /\ reply' # "stream"
  <2>1. \A r \in Request : ~Streaming(r)' BY <1>0, <1>2, NoReader DEF Streaming
  <2>2. QED BY <1>0, <1>2, <2>1 DEF Delivered, Streaming
<1>3. CASE download = None /\ reply' = "stream"
  <2>1. Opening /\ rec.valid > 0 BY <1>3, Zenon DEF Execute
  <2>2. PICK k : Begun(k) BY <1>3, <2>1, OpeningBegins
  <2>3. \A r \in Request : ~Streaming(r)' BY <1>0, <1>3, NoReader DEF Streaming
  <2>4. Picked' = Picked BY <1>0 DEF Picked
  <2>5. download' # None BY <2>2, BufferFields DEF Begun
  <2>6. /\ download'.req = Picked' .req /\ download'.ready /\ ~download'.cancelled
        /\ download'.bytes = SubSeq(file'.lines, 1, rec'.sent)
    BY <2>2, <2>4 DEF Begun
  <2>7. QED BY <1>0, <2>3, <2>5, <2>6 DEF Delivered, Streaming
<1>4. QED BY <1>1, <1>2, <1>3

LEMMA DeliveredReplied ==
    ASSUME TypeOK, Placed, Buffered, Delivered, Recorded(rec, file, run), Reply
    PROVE  Delivered'
<1>0. /\ pc = "reply" /\ pc' = "top" /\ file' = file BY DEF Reply, At
<1>1. /\ Picked.req \in Request /\ \A q \in Request : q # Picked.req => client'[q] = client[q]
  BY Replies
<1>2. PICK r \in Request : r = Picked.req BY <1>1
<1>3. CASE Connected /\ reply = "stream"
  <2>1. client' = [client EXCEPT ![r].st = "streaming", ![r].of = SubSeq(file.lines, 1, rec.valid)]
        /\ UNCHANGED <<rec, download>>
    BY <1>2, <1>3 DEF Reply
  <2>2. /\ download # None /\ download.req = r /\ ~download.cancelled
        /\ download.bytes = SubSeq(file.lines, 1, rec.sent)
        /\ \A q \in Request : ~Streaming(q)
    BY <1>0, <1>2, <1>3 DEF Delivered
  <2>3. client[r].got = <<>> /\ client[r] \in Reader BY <2>2, ClientTyped DEF Delivered
  <2>4. client'[r].st = "streaming" /\ client'[r].got = <<>>
        /\ client'[r].of = SubSeq(file.lines, 1, rec.valid)
        /\ \A q \in Request : q # r => client'[q] = client[q]
    <3>1. PICK x : x = SubSeq(file.lines, 1, rec.valid) OBVIOUS
    <3>2. PICK c : c = client[r] OBVIOUS
    <3>3. client' = [client EXCEPT ![r] = [c EXCEPT !.st = "streaming", !.of = x]]
      BY <2>1, <3>1, <3>2 DEF TypeOK
    <3>4. client'[r] = [c EXCEPT !.st = "streaming", !.of = x]
          /\ \A q \in Request : q # r => client'[q] = client[q]
      BY <3>3 DEF TypeOK
    <3>5. QED BY <2>3, <3>1, <3>2, <3>4 DEF Reader
  <2>5. PICK x \in Seq(Line) : x = download.bytes BY <2>2, BufferIs
  <2>6. client'[r].got \o download'.bytes = SubSeq(file'.lines, 1, rec'.sent)
    <3>1. <<>> \o x = x BY ConcatEmptySeq
    <3>2. QED BY <1>0, <2>1, <2>2, <2>4, <2>5, <3>1
  <2>7. Gets(r)' BY <1>0, <2>1, <2>2, <2>4, <2>6 DEF Gets
  <2>8. \A q \in Request : q # r => ~Streaming(q)' /\ client'[q] = client[q]
    BY <2>2, <2>4 DEF Streaming
  <2>9. client'[r].st # "short" BY <2>4
  <2>10. Streaming(r)' BY <2>4 DEF Streaming
  <2>11. \A q \in Request : ~Streaming(q) BY <2>2
  <2>12. QED BY <1>0, <2>7, <2>8, <2>9, <2>10, <2>11 DEF Delivered
<1>4. CASE Connected /\ reply # "stream"
  <2>1. client' = [client EXCEPT ![r] = Client("answered")] /\ UNCHANGED <<rec, download>>
    BY <1>2, <1>4 DEF Reply
  <2>2. /\ client'[r].st = "answered" /\ client'[r].got = <<>> /\ client'[r].of = <<>>
        /\ \A q \in Request : q # r => client'[q] = client[q]
    BY <2>1, ClientIs
  <2>3. \A q \in Request : q # r => (Streaming(q)' <=> Streaming(q)) /\ (Gets(q) => Gets(q)')
    BY <1>0, <2>1, <2>2 DEF Streaming, Gets
  <2>4. ~Streaming(r)' BY <2>2 DEF Streaming
  <2>5. QED BY <1>0, <2>2, <2>3, <2>4 DEF Delivered
<1>5. CASE ~Connected /\ reply = "stream"
  <2>1. client' = client BY <1>5 DEF Reply
  <2>2. \A q \in Request : ~Streaming(q)' BY <1>0, <1>5, <2>1 DEF Delivered, Streaming
  <2>3. QED BY <1>0, <2>1, <2>2 DEF Delivered, Streaming
<1>6. CASE ~Connected /\ reply # "stream"
  BY <1>0, <1>6, DeliveredStays DEF Reply
<1>7. QED BY <1>3, <1>4, <1>5, <1>6

LEMMA DeliveredServed ==
    ASSUME TypeOK, Placed, Buffered, Delivered, Recorded(rec, file, run),
           CheckFinished \/ \E r \in Request : Served(r)
    PROVE  Delivered'
<1>0. /\ UNCHANGED <<rec, file, pc, scan, reply, job>>
  BY DEF CheckFinished, Served, Consume, LengthSent, Disconnect, owner, queue
<1>1. ASSUME NEW r \in Request, Streaming(r), Ended(r), client[r].got = client[r].of PROVE Delivered'
  <2>1. client' = [client EXCEPT ![r] = Client("answered")] BY <1>1, EndedClient
  <2>2. QED BY <1>0, <1>1, <2>1, DeliveredEnds
<1>2. CASE CheckFinished
  <2>1. CASE download.finished
    <3>1. callback.req \in Request /\ Streaming(callback.req) BY <1>2 DEF CheckFinished, Placed
    <3>2. Gets(callback.req) /\ download # None BY <3>1, OneReader
    <3>3. download.bytes = <<>> /\ download.remaining = 0 BY <2>1, <3>2 DEF Buffered
    <3>4. client[callback.req].got = client[callback.req].of BY <3>1, <3>2, <3>3, AllThere
    <3>5. Ended(callback.req) BY <1>2, <2>1 DEF CheckFinished
    <3>6. QED BY <1>1, <3>1, <3>4, <3>5
  <2>2. CASE ~download.finished
    BY <1>0, <1>2, <2>2, DeliveredQueued DEF CheckFinished
  <2>3. QED BY <2>1, <2>2
<1>3. CASE \E r \in Request : LengthSent(r)
  <2>1. PICK r \in Request : LengthSent(r) BY <1>3
  <2>2. Streaming(r) /\ Ended(r) /\ Len(client[r].got) = Len(client[r].of) BY <2>1 DEF LengthSent
  <2>3. Gets(r) BY <2>2, OneReader
  <2>4. client[r].got = client[r].of BY <2>2, <2>3, AllThere
  <2>5. QED BY <1>1, <2>2, <2>4
<1>4. CASE \E r \in Request : Disconnect(r)
  <2>1. PICK r \in Request : Disconnect(r) BY <1>4
  <2>2. client' = [client EXCEPT ![r] = Client("gone")] BY <2>1 DEF Disconnect
  <2>3. CASE Streaming(r) BY <1>0, <2>2, <2>3, DeliveredEnds
  <2>4. CASE ~Streaming(r)
    <3>1. download' = download BY <2>1, <2>4 DEF Disconnect
    <3>2. /\ client'[r].st = "gone" /\ client'[r].got = <<>> /\ client'[r].of = <<>>
          /\ \A q \in Request : q # r => client'[q] = client[q]
      BY <2>2, ClientIs
    <3>3. \A q \in Request : q # r => (Streaming(q)' <=> Streaming(q)) /\ (Gets(q) => Gets(q)')
      BY <1>0, <3>1, <3>2 DEF Streaming, Gets
    <3>4. ~Streaming(r)' BY <3>2 DEF Streaming
    <3>5. Picked' = Picked BY <1>0 DEF Picked
    <3>6. QED BY <1>0, <3>1, <3>2, <3>3, <3>4, <3>5 DEF Delivered
  <2>5. QED BY <2>3, <2>4
<1>5. CASE \E r \in Request : Consume(r)
  <2>1. PICK r \in Request : Consume(r) BY <1>5
  <2>2. download # None /\ Streaming(r) BY <2>1, ConsumeIs
  <2>3. CASE UNCHANGED <<download, client>> BY <1>0, <2>3, DeliveredQueued
  <2>4. CASE ~UNCHANGED <<download, client>>
    <3>1. PICK n \in 1..Len(download.bytes) :
                    /\ client'[r].st = client[r].st /\ client'[r].of = client[r].of
                    /\ client'[r].got = client[r].got \o SubSeq(download.bytes, 1, n)
                    /\ \A q \in Request : q # r => client'[q] = client[q]
                    /\ download' \in Buffer /\ download'.req = download.req
                    /\ download'.bytes = SubSeq(download.bytes, n + 1, Len(download.bytes))
                    /\ download'.cancelled = download.cancelled
      BY <2>1, <2>4, ConsumeIs
    <3>2. Gets(r) /\ ~(pc = "reply" /\ reply = "stream") /\ \A q \in Request : Streaming(q) => q = r
      BY <2>2, OneReader
    <3>3. client'[r].got \o download'.bytes = client[r].got \o download.bytes
      <4>1. PICK g \in Seq(Line), b \in Seq(Line) : g = client[r].got /\ b = download.bytes
        BY <2>2, ClientTyped, BufferIs
      <4>2. (g \o SubSeq(b, 1, n)) \o SubSeq(b, n + 1, Len(b)) = g \o b BY <3>1, <4>1, SentAndLeft
      <4>3. QED BY <3>1, <4>1, <4>2
    <3>4. download' # None BY <3>1, BufferFields
    <3>5. Gets(r)' BY <1>0, <3>1, <3>2, <3>3, <3>4 DEF Gets
    <3>6. \A q \in Request : Streaming(q)' <=> Streaming(q) BY <3>1 DEF Streaming
    <3>7. QED BY <1>0, <2>2, <3>1, <3>2, <3>5, <3>6 DEF Delivered
  <2>5. QED BY <2>3, <2>4
<1>6. QED BY <1>2, <1>3, <1>4, <1>5 DEF Served

LEMMA DeliveredKept ==
    ASSUME TypeOK, Placed, Buffered, Delivered, Recorded(rec, file, run), Next
    PROVE  Delivered'
<1>1. CASE LoopTop \/ LoopCommands
  <2>1. UNCHANGED <<client, download>> /\ pc' # "reply" BY <1>1 DEF LoopTop, LoopCommands, At
  <2>2. download = None \/ UNCHANGED <<rec, file>> BY <1>1, DownloadAlone
  <2>3. QED BY <2>1, <2>2, DeliveredStays
<1>2. CASE PollCancelled
  <2>1. client' = client /\ file' = file /\ pc' # "reply" BY <1>2 DEF PollCancelled, At
  <2>2. CASE UNCHANGED <<rec, download>> BY <2>1, <2>2, DeliveredStays
  <2>3. CASE download.cancelled
    <3>1. \A r \in Request : ~Streaming(r)' BY <2>1, <2>3 DEF Streaming, Delivered, Gets
    <3>2. QED BY <2>1, <3>1 DEF Delivered, Streaming
  <2>4. QED BY <1>2, <2>2, <2>3 DEF PollCancelled
<1>3. CASE ScanSlot
  BY <1>3, Scans, DeliveredStays
<1>4. CASE TakeTicket
  <2>1. \A s \in Slot : Ready(s) => job'[s] = job[s]
    BY <1>4, TakesTicket, CallbackIs DEF TakeTicket, Handing
  <2>2. QED BY <1>4, <2>1, DeliveredQueued DEF TakeTicket, owner
<1>5. CASE MakeReady
  <2>1. \A s \in Slot : Ready(s) => job'[s] = job[s]
    BY <1>5, MakesReady, CallbackIs DEF MakeReady, Handing
  <2>2. QED BY <1>5, <2>1, DeliveredQueued DEF MakeReady, owner
<1>6. CASE \E r \in Request : \E k \in Kinds[r] : \E id \in Ids(k) : Enqueue(r, k, id)
  <2>1. PICK r \in Request : \E k : \E id : Enqueue(r, k, id) BY <1>6
  <2>2. /\ UNCHANGED <<rec, file, pc, scan, reply, download>> /\ client[r].st = "new"
    BY <2>1 DEF Enqueue, owner
  <2>3. PICK st \in {"answered", "waiting"} : client' = [client EXCEPT ![r] = Client(st)]
    BY <2>1, Enqueues
  <2>4. /\ client'[r].st = st /\ client'[r].got = <<>> /\ client'[r].of = <<>>
        /\ \A q \in Request : q # r => client'[q] = client[q]
    BY <2>3, ClientIs
  <2>5. \A q \in Request : q # r => (Streaming(q)' <=> Streaming(q)) /\ (Gets(q) => Gets(q)')
    BY <2>2, <2>4 DEF Streaming, Gets
  <2>6. ~Streaming(r)' BY <2>4 DEF Streaming
  <2>7. \A s \in Slot : Ready(s) => job'[s] = job[s] BY <2>1, Enqueues DEF Ready
  <2>8. pc = "reply" => Picked' = Picked BY <2>2, <2>7, PickedStays
  <2>9. QED BY <2>2, <2>4, <2>5, <2>6, <2>8 DEF Delivered
<1>7. QED
  BY <1>1, <1>2, <1>3, <1>4, <1>5, <1>6, DeliveredPolled, DeliveredExecuted, DeliveredReplied, DeliveredServed
  DEF Next, Loop, Handler

LEMMA InitPlaced == Init => Placed /\ Buffered /\ Delivered
<1> SUFFICES ASSUME Init PROVE Placed /\ Buffered /\ Delivered OBVIOUS
<1>1. Placed BY NoCallbackIs DEF Init, Placed, Handing, Ready, FreeJob
<1>2. Buffered BY DEF Init, Buffered
<1>3. Delivered BY ReaderTyped DEF Init, Delivered, Streaming
<1>4. QED BY <1>1, <1>2, <1>3

-----------------------------------------------------------------------------
(* Tickets: a counter that wraps, of which no two in line are half its range apart. *)
LEMMA ModWraps ==
    ASSUME NEW N \in Nat \ {0}, NEW a \in Int, -N <= a, a < N
    PROVE  a % N = IF a >= 0 THEN a ELSE a + N
<1>1. CASE a >= 0 BY <1>1
<1>2. CASE ~(a >= 0) BY <1>2
<1>3. QED BY <1>1, <1>2

LEMMA TicketsOrder ==
    ASSUME NEW N \in Nat \ {0}, NEW n \in 0..(N - 1), NEW c \in Nat, 2 * c + 1 < N,
           NEW x \in 1..(N - 1), NEW y \in 1..(N - 1), x - y <= c, y - x <= c
    PROVE  ((((n - x) % N) - ((n - y) % N)) % N >= N \div 2) <=> x > y
<1>1. PICK t \in 0..(N - 1) : t = (n - x) % N /\ (t = n - x \/ t = n - x + N)
  <2>1. (n - x) % N = IF n - x >= 0 THEN n - x ELSE n - x + N
    <3>1. n - x \in Int /\ -N <= n - x /\ n - x < N OBVIOUS
    <3>2. QED BY <3>1, ModWraps
  <2>2. QED BY <2>1
<1>2. PICK u \in 0..(N - 1) : u = (n - y) % N /\ (u = n - y \/ u = n - y + N)
  <2>1. (n - y) % N = IF n - y >= 0 THEN n - y ELSE n - y + N
    <3>1. n - y \in Int /\ -N <= n - y /\ n - y < N OBVIOUS
    <3>2. QED BY <3>1, ModWraps
  <2>2. QED BY <2>1
<1>3. (t - u) % N = IF t - u >= 0 THEN t - u ELSE t - u + N
  <2>1. t - u \in Int /\ -N <= t - u /\ t - u < N OBVIOUS
  <2>2. QED BY <2>1, ModWraps
<1>4. PICK d \in Int : d = (t - u) % N /\ (d = y - x \/ d = y - x + N \/ d = y - x - N) /\ 0 <= d /\ d < N
  BY <1>1, <1>2, <1>3
<1>5. c < N \div 2 /\ N - c >= N \div 2 /\ N \div 2 \in Int OBVIOUS
<1>6. (d >= N \div 2) <=> x > y BY <1>4, <1>5
<1>7. QED BY <1>1, <1>2, <1>4, <1>6

LEMMA TicketAfter ==
    ASSUME NEW N \in Nat \ {0}, NEW n \in 0..(N - 1), NEW x \in 1..(N - 1)
    PROVE  /\ (((n + 1) % N) - (x + 1)) % N = (n - x) % N
           /\ (((n + 1) % N) - 1) % N = n
<1>1. PICK m \in 0..(N - 1) : m = (n + 1) % N /\ (m = n + 1 \/ (m = 0 /\ n = N - 1))
  <2>1. CASE n + 1 < N
    <3>1. (n + 1) % N = n + 1 BY <2>1
    <3>2. QED BY <2>1, <3>1
  <2>2. CASE n + 1 = N BY <2>2
  <2>3. QED BY <2>1, <2>2
<1>2. (n - x) % N = IF n - x >= 0 THEN n - x ELSE n - x + N
  <2>1. n - x \in Int /\ -N <= n - x /\ n - x < N OBVIOUS
  <2>2. QED BY <2>1, ModWraps
<1>3. (m - (x + 1)) % N = IF m - (x + 1) >= 0 THEN m - (x + 1) ELSE m - (x + 1) + N
  <2>1. m - (x + 1) \in Int /\ -N <= m - (x + 1) /\ m - (x + 1) < N OBVIOUS
  <2>2. QED BY <2>1, ModWraps
<1>4. (m - 1) % N = IF m - 1 >= 0 THEN m - 1 ELSE m - 1 + N
  <2>1. m - 1 \in Int /\ -N <= m - 1 /\ m - 1 < N OBVIOUS
  <2>2. QED BY <2>1, ModWraps
<1>5. (m - (x + 1)) % N = (n - x) % N BY <1>1, <1>2, <1>3
<1>6. (m - 1) % N = n BY <1>1, <1>4
<1>7. QED BY <1>1, <1>5, <1>6

(* The line is no longer than there are slots. *)
LEMMA ShortLine ==
    ASSUME TypeOK, Placed, InLine
    PROVE  Len(order) \in Nat /\ Len(order) <= SlotCount
<1>0. Len(order) \in Nat /\ SlotCount \in Nat /\ Slot = 1..SlotCount BY SlotsAre DEF TypeOK
<1>1. \A s \in Slot : \A q, r : Holds(s, q) /\ Holds(s, r) => q = r
  BY DEF Holds, Placed, Handing, Ready
<1> DEFINE I == 1..Len(order)
           f == [i \in I |-> CHOOSE s \in Slot : Holds(s, order[i])]
<1>2. \A i \in I : f[i] \in Slot /\ Holds(f[i], order[i])
  <2>1. \A i \in I : \E s \in Slot : Holds(s, order[i]) BY DEF InLine
  <2>2. QED BY <2>1
<1>3. f \in [I -> Slot] BY <1>2
<1>4. \A i, j \in I : f[i] = f[j] => i = j
  <2>1. ASSUME NEW i \in I, NEW j \in I, f[i] = f[j] PROVE i = j
    <3>1. f[i] \in Slot /\ Holds(f[i], order[i]) /\ Holds(f[i], order[j]) BY <1>2, <2>1
    <3>2. order[i] = order[j] BY <1>1, <3>1
    <3>3. QED BY <3>2 DEF InLine
  <2>2. QED BY <2>1
<1>5. f \in Injection(I, Slot)
  <2> HIDE DEF I, f
  <2>1. QED BY <1>3, <1>4 DEF Injection, IsInjective
<1>6. IsFiniteSet(Slot) /\ Cardinality(Slot) = SlotCount /\ Cardinality(I) = Len(order)
  <2>1. SlotCount \in Int /\ Len(order) \in Int /\ 1 \in Int BY <1>0
  <2>2. SlotCount > 0 BY SlotsAre
  <2>3. IsFiniteSet(1..SlotCount) /\ Cardinality(1..SlotCount) = SlotCount BY <1>0, <2>1, <2>2, FS_Interval
  <2>4. Cardinality(1..Len(order)) = Len(order)
    <3>1. Cardinality(1..Len(order)) = IF 1 > Len(order) THEN 0 ELSE Len(order) - 1 + 1 BY <2>1, FS_Interval
    <3>2. QED BY <1>0, <3>1
  <2>5. QED BY <1>0, <2>3, <2>4
<1>7. Cardinality(I) <= Cardinality(Slot)
  <2> HIDE DEF I, f
  <2>1. QED BY <1>5, <1>6, FS_Injection
<1>8. QED BY <1>0, <1>6, <1>7

(* The place of a ticket behind the counter. *)
Behind(i, h) == (Len(order) - i + 1) + (IF i <= h THEN 1 ELSE 0)

LEMMA BehindIs ==
    ASSUME TypeOK, Placed, InLine, NEW h \in 0..Len(order)
    PROVE  /\ \A i \in 1..Len(order) :
                 /\ Behind(i, h) \in 1..(TicketSize - 1)
                 /\ TicketAt(i, h) = (nextTicket - Behind(i, h)) % TicketSize
           /\ \A i, j \in 1..Len(order) :
                 Behind(i, h) - Behind(j, h) <= SlotCount /\ (Behind(i, h) > Behind(j, h) <=> i < j)
<1>1. Len(order) \in Nat /\ Len(order) <= SlotCount BY ShortLine
<1>2. SlotCount \in Nat \ {0} /\ TicketSize \in Nat /\ TicketSize > 2 * SlotCount + 1 /\ nextTicket \in Int
  BY FeatherAssumption DEF TypeOK
<1>3. ASSUME NEW i \in 1..Len(order)
      PROVE  /\ Behind(i, h) \in 1..(TicketSize - 1)
             /\ TicketAt(i, h) = (nextTicket - Behind(i, h)) % TicketSize
  <2>1. CASE i <= h BY <1>1, <1>2, <2>1 DEF Behind, TicketAt
  <2>2. CASE ~(i <= h) BY <1>1, <1>2, <2>2 DEF Behind, TicketAt
  <2>3. QED BY <2>1, <2>2
<1>4. ASSUME NEW i \in 1..Len(order), NEW j \in 1..Len(order)
      PROVE  Behind(i, h) - Behind(j, h) <= SlotCount /\ (Behind(i, h) > Behind(j, h) <=> i < j)
  BY <1>1, <1>2 DEF Behind
<1>5. QED BY <1>3, <1>4

(* Of two jobs in line the older one is the one before. *)
LEMMA OlderIs ==
    ASSUME TypeOK, Placed, InLine, Numbered, NEW s \in Slot, NEW t \in Slot, Ready(s), Ready(t),
           NEW a \in 1..Len(order), NEW b \in 1..Len(order),
           order[a] = job[s].req, order[b] = job[t].req
    PROVE  Older(job[s].ticket, job[t].ticket) <=> a < b
<1>1. PICK h \in 0..Len(order) :
         \A i \in 1..Len(order) : \A u \in Slot : Holds(u, order[i]) => job[u].ticket = TicketAt(i, h)
  BY DEF Numbered
<1>2. job[s].ticket = TicketAt(a, h) /\ job[t].ticket = TicketAt(b, h) BY <1>1 DEF Holds
<1>3. PICK x \in 1..(TicketSize - 1), y \in 1..(TicketSize - 1) :
           /\ x = Behind(a, h) /\ y = Behind(b, h)
           /\ job[s].ticket = (nextTicket - x) % TicketSize
           /\ job[t].ticket = (nextTicket - y) % TicketSize
           /\ x - y <= SlotCount /\ y - x <= SlotCount
           /\ x > y <=> a < b
  BY <1>2, BehindIs
<1>4. TicketSize \in Nat \ {0} /\ nextTicket \in 0..(TicketSize - 1) /\ SlotCount \in Nat
      /\ 2 * SlotCount + 1 < TicketSize
  BY FeatherAssumption DEF TypeOK
<1>5. ((((nextTicket - x) % TicketSize) - ((nextTicket - y) % TicketSize)) % TicketSize
         >= TicketSize \div 2) <=> x > y
  BY <1>3, <1>4, TicketsOrder
<1>6. QED BY <1>3, <1>5 DEF Older

-----------------------------------------------------------------------------
(* Steps that leave the line as it is. *)
LEMMA LineStays ==
    ASSUME TypeOK, Placed, InLine, Numbered, Found,
           UNCHANGED <<job, nextTicket, order, scan, seen>>,
           UNCHANGED callback \/ (~Handing /\ ~Handing'),
           \A r \in Request : client[r].st # "new" => client'[r].st # "new",
           \/ pc' = pc
           \/ ~Looking /\ pc' \in {"commands", "cancelled", "fill", "publish", "scan"}
           \/ pc = "execute" /\ pc' = "reply"
    PROVE  InLine' /\ Numbered' /\ Found'
<1>1. \A s \in Slot : (Ready(s)' <=> Ready(s)) /\ \A r : Holds(s, r)' <=> Holds(s, r)
  BY DEF Ready, Holds, Handing
<1>2. (callback'.at = "ready" => callback.at = "ready" /\ callback' = callback)
      /\ (callback'.at = "ticket" => callback.at = "ticket" /\ callback' = callback)
  BY DEF Handing
<1>3. Looking' <=> Looking
  <2>1. CASE ~Looking /\ pc' \in {"commands", "cancelled", "fill", "publish", "scan"}
    <3>1. scan.i = 1 BY <2>1 DEF Found
    <3>2. QED BY <2>1, <3>1 DEF Looking
  <2>2. QED BY <2>1 DEF Looking
<1>4. InLine'
  <2>1. \A i \in 1..Len(order) : order[i] \in Request BY DEF TypeOK
  <2>2. QED BY <1>1, <1>2, <2>1 DEF InLine, Handing
<1>5. Numbered'
  <2>1. PICK h \in 0..Len(order) :
         /\ \A i \in 1..Len(order) : \A s \in Slot : Holds(s, order[i]) => job[s].ticket = TicketAt(i, h)
         /\ callback.at = "ready" => h < Len(order)
         /\ Looking /\ seen = {} => h = 0
    BY DEF Numbered
  <2>2. \A i : TicketAt(i, h)' = TicketAt(i, h) BY DEF TicketAt
  <2>3. QED BY <1>1, <1>2, <1>3, <2>1, <2>2 DEF Numbered
<1>6. Found'
  <2>1. pc' = "scan" /\ Looking => pc = "scan" BY DEF Looking
  <2>2. Picked' = Picked /\ \A q, r : Before(q, r)' <=> Before(q, r) BY DEF Picked, Before
  <2>3. QED BY <1>1, <1>3, <2>1, <2>2 DEF Found
<1>7. QED BY <1>4, <1>5, <1>6

LEMMA LineEnqueued ==
    ASSUME TypeOK, Placed, InLine, Numbered, Found, NEW r \in Request, NEW k, NEW id, Enqueue(r, k, id)
    PROVE  InLine' /\ Numbered' /\ Found'
<1>0. UNCHANGED <<pc, scan, nextTicket, order, seen>> /\ client[r].st = "new" /\ callback.at = "none"
  BY NoCallbackIs DEF Enqueue, Idle, owner
<1>1. \A q \in Request : client[q].st # "new" => client'[q].st # "new" BY Enqueues, ClientIs
<1>2. CASE UNCHANGED <<job, callback>>
  BY <1>0, <1>1, <1>2, LineStays
<1>3. CASE ~UNCHANGED <<job, callback>>
  <2>1. PICK s \in Slot :
                 /\ job[s].st = "Free" /\ job'[s].st = "Filling"
                 /\ \A t \in Slot : t # s => job'[t] = job[t]
                 /\ callback'.at = "ticket" /\ callback'.slot = s /\ callback'.req = r
    BY <1>3, Enqueues
  <2>2. \A t \in Slot : (Ready(t)' <=> Ready(t)) /\ (Ready(t) => job'[t] = job[t]) BY <2>1 DEF Ready
  <2>3. \A t \in Slot : \A q : Holds(t, q)' <=> Holds(t, q) BY <1>0, <2>1, <2>2 DEF Holds
  <2>4. \A i \in 1..Len(order) : order[i] \in Request /\ order[i] # r
    BY <1>0 DEF TypeOK, InLine
  <2>5. \A t \in Slot : Ready(t) => job[t].req # r BY <1>0 DEF Placed
  <2>6. InLine'
    <3>1. \A i \in 1..Len(order) : client'[order[i]].st # "new" /\ \E t \in Slot : Holds(t, order[i])'
      BY <1>0, <1>1, <2>3, <2>4 DEF InLine
    <3>2. \A t \in Slot : Ready(t)' => \E i \in 1..Len(order) : order[i] = job'[t].req
      BY <2>2 DEF InLine
    <3>3. \A t, u \in Slot : Ready(t)' /\ Ready(u)' /\ job'[t].req = job'[u].req => t = u
      BY <2>2 DEF InLine
    <3>4. \A t \in Slot : Ready(t)' => job'[t].req # r BY <2>2, <2>5
    <3>5. \A i, j \in 1..Len(order) : order[i] = order[j] => i = j BY DEF InLine
    <3>6. QED BY <1>0, <2>1, <2>4, <3>1, <3>2, <3>3, <3>4, <3>5 DEF InLine
  <2>7. \A t \in Slot : \A q : Holds(t, q) => job'[t] = job[t] BY <1>0, <2>2 DEF Holds
  <2>8. Looking' <=> Looking BY <1>0 DEF Looking
  <2>9. Numbered'
    <3>1. PICK h \in 0..Len(order) :
         /\ \A i \in 1..Len(order) : \A t \in Slot : Holds(t, order[i]) => job[t].ticket = TicketAt(i, h)
         /\ Looking /\ seen = {} => h = 0
      BY DEF Numbered
    <3>2. \A i : TicketAt(i, h)' = TicketAt(i, h) BY <1>0 DEF TicketAt
    <3>3. \A i \in 1..Len(order) : \A t \in Slot :
             Holds(t, order[i])' => job'[t].ticket = TicketAt(i, h)'
      BY <1>0, <2>3, <2>7, <3>1, <3>2
    <3>4. (Looking /\ seen = {})' => h = 0 BY <1>0, <2>8, <3>1
    <3>5. callback'.at # "ready" BY <2>1
    <3>6. h \in 0..Len(order)' BY <1>0
    <3>7. QED BY <1>0, <3>3, <3>4, <3>5, <3>6 DEF Numbered
  <2>10. Found'
    <3>1. \A q, p : Before(q, p)' <=> Before(q, p) BY <1>0 DEF Before
    <3>2. scan.oldest # 0 => Picked' = Picked
      <4>1. scan.oldest # 0 => scan.oldest \in Slot /\ Ready(scan.oldest) BY SlotsAre DEF TypeOK, Placed
      <4>2. QED BY <1>0, <2>2, <4>1 DEF Picked
    <3>3. QED BY <1>0, <2>2, <2>8, <3>1, <3>2 DEF Found
  <2>11. QED BY <2>6, <2>9, <2>10
<1>4. QED BY <1>2, <1>3

LEMMA LineTicketed ==
    ASSUME TypeOK, Placed, InLine, Numbered, Found, TakeTicket
    PROVE  InLine' /\ Numbered' /\ Found'
<1> DEFINE r == callback.req
<1>a. PICK n \in Nat : n = Len(order) BY DEF TypeOK
<1>0. /\ UNCHANGED <<pc, scan, client, seen>> /\ callback.at = "ticket" /\ order' = Append(order, r)
      /\ nextTicket' = (nextTicket + 1) % TicketSize
  BY DEF TakeTicket, owner
<1>1. /\ callback.slot \in Slot /\ r \in Request
      /\ callback'.at = "ready" /\ callback'.slot = callback.slot /\ callback'.req = r
      /\ job'[callback.slot].st = "Filling" /\ job'[callback.slot].ticket = nextTicket
      /\ \A s \in Slot : s # callback.slot => job'[s] = job[s]
      /\ job[callback.slot].st = "Filling" /\ client[r].st # "new"
  BY TakesTicket DEF TakeTicket, Placed, Handing
<1>2. /\ n \in Nat /\ Len(order') = n + 1 /\ \A i \in 1..n : order'[i] = order[i] /\ order[i] \in Request
      /\ order'[n + 1] = r /\ \A i \in 1..n : order[i] # r
  BY <1>a, <1>0, <1>1 DEF TypeOK, InLine
<1>3. \A s \in Slot : (Ready(s)' <=> Ready(s)) /\ (Ready(s) => job'[s] = job[s] /\ job[s].req # r)
  BY <1>0, <1>1 DEF Ready, InLine, Handing
<1>4. \A s \in Slot : \A q : /\ Holds(s, q)' <=> Holds(s, q) \/ (s = callback.slot /\ q = r)
                             /\ Holds(s, q) => job'[s] = job[s]
  BY <1>0, <1>1, <1>3 DEF Holds
<1> HIDE DEF r
<1>5. InLine'
  <2>1. \A i, j \in 1..(n + 1) : order'[i] = order'[j] => i = j
    <3>1. \A i, j \in 1..n : order[i] = order[j] => i = j BY <1>a DEF InLine
    <3>2. \A i \in 1..(n + 1) : i \in 1..n \/ i = n + 1 BY <1>2
    <3>3. QED BY <1>2, <3>1, <3>2
  <2>2. ASSUME NEW i \in 1..(n + 1)
        PROVE  client'[order'[i]].st # "new" /\ \E s \in Slot : Holds(s, order[i])'
    <3>1. PICK q : q = order'[i] OBVIOUS
    <3>2. CASE i \in 1..n
      <4>1. q = order[i] BY <1>2, <3>1, <3>2
      <4>2. client[q].st # "new" /\ \E s \in Slot : Holds(s, q) BY <1>a, <3>2, <4>1 DEF InLine
      <4>3. \E s \in Slot : Holds(s, q)' BY <1>4, <4>2
      <4>4. QED BY <1>0, <3>1, <4>2, <4>3
    <3>3. CASE i = n + 1
      <4>1. q = r BY <1>2, <3>1, <3>3
      <4>2. Holds(callback.slot, q)' <=> Holds(callback.slot, q) \/ (callback.slot = callback.slot /\ q = r)
        BY <1>0, <1>1, <4>1 DEF Holds, Ready
      <4>3. \E s \in Slot : Holds(s, q)' BY <1>1, <1>4, <4>1
      <4>4. QED BY <1>0, <1>1, <3>1, <4>1, <4>3
    <3>4. QED BY <1>2, <3>2, <3>3
  <2>3. \A s \in Slot : Ready(s)' => \E i \in 1..(n + 1) : order'[i] = job'[s].req
    <3>1. \A s \in Slot : Ready(s) => \E i \in 1..n : order[i] = job[s].req BY <1>a DEF InLine
    <3>2. \A i \in 1..n : i \in 1..(n + 1) BY <1>2
    <3>3. QED BY <1>2, <1>3, <3>1, <3>2
  <2>4. \A s, t \in Slot : Ready(s)' /\ Ready(t)' /\ job'[s].req = job'[t].req => s = t
    BY <1>3 DEF InLine
  <2>5. QED BY <1>1, <1>2, <1>3, <2>1, <2>2, <2>3, <2>4 DEF InLine
<1>6. Looking' <=> Looking BY <1>0 DEF Looking
<1>7. Numbered'
  <2>1. PICK h \in 0..n :
         /\ \A i \in 1..n : \A s \in Slot : Holds(s, order[i]) => job[s].ticket = TicketAt(i, h)
         /\ Looking /\ seen = {} => h = 0
    BY <1>a DEF Numbered
  <2>2. nextTicket \in 0..(TicketSize - 1) /\ TicketSize \in Nat \ {0} BY SlotsAre DEF TypeOK
  <2>3. \A i \in 1..n : TicketAt(i, h)' = TicketAt(i, h)
    <3>1. SUFFICES ASSUME NEW i \in 1..n PROVE TicketAt(i, h)' = TicketAt(i, h) OBVIOUS
    <3>2. PICK x \in 1..(TicketSize - 1) :
               /\ x = (n - i + 1) + (IF i <= h THEN 1 ELSE 0)
               /\ TicketAt(i, h) = (nextTicket - x) % TicketSize
      BY <1>a, BehindIs DEF Behind
    <3>3. TicketAt(i, h)' = (((nextTicket + 1) % TicketSize) - (x + 1)) % TicketSize
      <4>1. PICK m \in Int : m = (nextTicket + 1) % TicketSize BY <2>2
      <4>2. TicketAt(i, h)' = (m - (n + 1 - i + 1) - (IF i <= h THEN 1 ELSE 0)) % TicketSize
        BY <1>a, <1>0, <1>2, <4>1 DEF TicketAt
      <4>3. m - (n + 1 - i + 1) - (IF i <= h THEN 1 ELSE 0) = m - (x + 1)
        BY <1>2, <3>2
      <4>4. QED BY <4>1, <4>2, <4>3
    <3>4. QED BY <2>2, <3>2, <3>3, TicketAfter
  <2>4. TicketAt(n + 1, h)' = nextTicket
    <3>1. PICK m \in Int : m = (nextTicket + 1) % TicketSize BY <2>2
    <3>2. TicketAt(n + 1, h)' = (m - (n + 1 - (n + 1) + 1) - (IF n + 1 <= h THEN 1 ELSE 0)) % TicketSize
        BY <1>a, <1>0, <1>2, <3>1 DEF TicketAt
    <3>3. m - (n + 1 - (n + 1) + 1) - (IF n + 1 <= h THEN 1 ELSE 0) = m - 1
      BY <1>2
    <3>4. TicketSize \in Nat \ {0} /\ 1 \in 1..(TicketSize - 1) BY FeatherAssumption
    <3>5. (((nextTicket + 1) % TicketSize) - 1) % TicketSize = nextTicket
      BY <2>2, <3>4, TicketAfter
    <3>6. QED BY <3>1, <3>2, <3>3, <3>5
  <2>5. ASSUME NEW i \in 1..(n + 1), NEW s \in Slot, Holds(s, order[i])'
        PROVE  job'[s].ticket = TicketAt(i, h)'
    <3>1. PICK q : q = order'[i] OBVIOUS
    <3>2. Holds(s, q) \/ (s = callback.slot /\ q = r) BY <1>4, <2>5, <3>1
    <3>3. CASE i \in 1..n
      <4>1. q = order[i] /\ q # r BY <1>2, <3>1, <3>3
      <4>2. Holds(s, order[i]) BY <3>2, <4>1
      <4>3. job'[s] = job[s] BY <1>4, <4>2
      <4>4. QED BY <2>1, <2>3, <3>3, <4>2, <4>3
    <3>4. CASE i = n + 1
      <4>1. q = r BY <1>2, <3>1, <3>4
      <4>2. ~Holds(s, q) BY <1>0, <1>3, <4>1 DEF Holds
      <4>3. QED BY <1>1, <2>4, <3>2, <3>4, <4>2
    <3>5. QED BY <1>2, <3>3, <3>4
  <2>6. h \in 0..(n + 1) /\ h < n + 1 BY <1>2
  <2>7. QED BY <1>0, <1>2, <1>6, <2>1, <2>5, <2>6 DEF Numbered
<1>8. Found'
  <2>1. scan.oldest # 0 => /\ scan.oldest \in Slot /\ Picked' = Picked /\ Picked.req # r
    <3>1. scan.oldest # 0 => scan.oldest \in Slot /\ Ready(scan.oldest) BY SlotsAre DEF TypeOK, Placed
    <3>2. QED BY <1>0, <1>3, <3>1 DEF Picked
  <2>2. \A q, p : q # r /\ p # r /\ Before(q, p) => Before(q, p)'
    <3>1. SUFFICES ASSUME NEW q, NEW p, q # r, p # r, Before(q, p) PROVE Before(q, p)' OBVIOUS
    <3>2. ASSUME NEW a \in 1..(n + 1), NEW b \in 1..(n + 1), order'[a] = q, order'[b] = p
          PROVE  a <= b
      <4>1. a \in 1..n /\ b \in 1..n BY <1>2, <3>1, <3>2
      <4>2. QED BY <1>a, <1>2, <3>1, <3>2, <4>1 DEF Before
    <3>3. \A a, b \in 1..Len(order') : order'[a] = q /\ order'[b] = p => a <= b BY <1>2, <3>2
    <3>4. QED BY <3>3 DEF Before
  <2>3. seen # {} /\ Looking => Len(order') > 0 /\ order'[1] \in seen
    <3>1. seen # {} /\ Looking => n > 0 /\ order[1] \in seen BY <1>a DEF Found
    <3>2. n > 0 => 1 \in 1..n BY <1>2
    <3>3. QED BY <1>2, <3>1, <3>2
  <2>4. QED BY <1>0, <1>3, <1>6, <2>1, <2>2, <2>3 DEF Found
<1>9. QED BY <1>5, <1>7, <1>8

LEMMA LineReady ==
    ASSUME TypeOK, Placed, InLine, Numbered, Found, MakeReady
    PROVE  InLine' /\ Numbered' /\ Found'
<1> DEFINE r == callback.req
           p == callback.slot
<1>0. /\ UNCHANGED <<pc, scan, client, seen, order, nextTicket>> /\ callback.at = "ready"
  BY DEF MakeReady, owner
<1>1. /\ p \in Slot /\ r \in Request /\ callback'.at = "none"
      /\ job'[p].st = "Ready" /\ job'[p].req = r /\ job'[p].ticket = job[p].ticket
      /\ \A s \in Slot : s # p => job'[s] = job[s]
      /\ ~Ready(p)
  BY MakesReady, CallbackIs, NoCallbackIs DEF MakeReady, Handing
<1>2. \A s \in Slot : Ready(s) => job[s].req # r BY <1>0 DEF InLine, Handing
<1>3. \A s \in Slot : (Ready(s)' <=> Ready(s) \/ s = p) /\ (Ready(s) => job'[s] = job[s])
  BY <1>1 DEF Ready
<1>4. \A s \in Slot : \A q : Holds(s, q)' <=> Holds(s, q) BY <1>0, <1>1, <1>3 DEF Holds, Ready
<1>5. \A s \in Slot : job'[s].ticket = job[s].ticket BY <1>1
<1>6. Looking' <=> Looking BY <1>0 DEF Looking
<1> HIDE DEF r, p
<1>7. InLine'
  <2>1. \A i \in 1..Len(order) : client'[order[i]].st # "new" /\ \E t \in Slot : Holds(t, order[i])'
    BY <1>0, <1>4 DEF InLine
  <2>2. \A t \in Slot : Ready(t)' => \E i \in 1..Len(order) : order[i] = job'[t].req
    <3>1. order \in Seq(Request) /\ Len(order) > 0 /\ order[Len(order)] = r BY <1>0 DEF InLine, TypeOK, r
    <3>2. Len(order) \in 1..Len(order) BY <3>1
    <3>3. \A t \in Slot : Ready(t) => \E i \in 1..Len(order) : order[i] = job[t].req BY DEF InLine
    <3>4. QED BY <1>1, <1>3, <3>1, <3>2, <3>3
  <2>3. \A t, u \in Slot : Ready(t)' /\ Ready(u)' /\ job'[t].req = job'[u].req => t = u
    <3>1. \A t, u \in Slot : Ready(t) /\ Ready(u) /\ job[t].req = job[u].req => t = u BY DEF InLine
    <3>2. QED BY <1>1, <1>2, <1>3, <3>1
  <2>4. \A i, j \in 1..Len(order) : order[i] = order[j] => i = j BY DEF InLine
  <2>5. QED BY <1>0, <1>1, <2>1, <2>2, <2>3, <2>4 DEF InLine, Handing
<1>8. Numbered'
  <2>1. PICK h \in 0..Len(order) :
         /\ \A i \in 1..Len(order) : \A s \in Slot : Holds(s, order[i]) => job[s].ticket = TicketAt(i, h)
         /\ Looking /\ seen = {} => h = 0
    BY DEF Numbered
  <2>2. \A i : TicketAt(i, h)' = TicketAt(i, h) BY <1>0 DEF TicketAt
  <2>3. \A i \in 1..Len(order) : \A s \in Slot : Holds(s, order[i])' => job'[s].ticket = TicketAt(i, h)'
    BY <1>0, <1>4, <1>5, <2>1, <2>2
  <2>4. QED BY <1>0, <1>1, <1>6, <2>1, <2>3 DEF Numbered
<1>9. Found'
  <2>1. scan.oldest # 0 => /\ scan.oldest \in Slot /\ Picked' = Picked
    <3>1. scan.oldest # 0 => scan.oldest \in Slot /\ Ready(scan.oldest) BY SlotsAre DEF TypeOK, Placed
    <3>2. QED BY <1>0, <1>3, <3>1 DEF Picked
  <2>2. \A q, m : Before(q, m)' <=> Before(q, m) BY <1>0 DEF Before
  <2>3. Looking => r \notin seen BY <1>2 DEF Found
  <2>4. \A s \in Slot : Looking /\ Ready(s)' /\ job'[s].req \in seen => Ready(s) /\ job'[s] = job[s]
    BY <1>1, <1>3, <2>3
  <2>5. QED BY <1>0, <1>3, <1>6, <2>1, <2>2, <2>4 DEF Found
<1>10. QED BY <1>7, <1>8, <1>9

(* The job picked is the first in line, or there was none when the scan began. *)
LEMMA PickedFirst ==
    ASSUME TypeOK, Placed, InLine, Found, pc \in {"execute", "reply"}, seen # {}
    PROVE  Rank(Picked.req) = 1 /\ order[1] = Picked.req
<1>0. Looking BY DEF Looking
<1>1. scan.oldest \in Slot /\ Ready(scan.oldest) BY PickedIs
<1>2. Len(order) > 0 /\ order[1] \in seen BY <1>0 DEF Found
<1>3. PICK s \in Slot : Ready(s) /\ job[s].req = order[1] BY <1>0, <1>2 DEF Found
<1>4. Before(Picked.req, order[1]) BY <1>0, <1>2, <1>3 DEF Found
<1>5. PICK k \in 1..Len(order) : order[k] = Picked.req BY <1>1 DEF InLine, Picked
<1>6. 1 \in 1..Len(order) /\ k <= 1
  <2>1. 1 \in 1..Len(order) BY <1>2 DEF TypeOK
  <2>2. QED BY <1>4, <1>5, <2>1 DEF Before
<1>7. k = 1 BY <1>6
<1>8. order[1] = Picked.req BY <1>5, <1>7
<1>9. Rank(Picked.req) \in 1..Len(order) /\ order[Rank(Picked.req)] = Picked.req BY <1>5, RankIs
<1>10. QED BY <1>6, <1>8, <1>9 DEF InLine

LEMMA LineReplied ==
    ASSUME TypeOK, Placed, InLine, Numbered, Found, Reply
    PROVE  InLine' /\ Numbered' /\ Found'
<1> DEFINE o == scan.oldest
           r == Picked.req
<1>0. /\ pc = "reply" /\ pc' = "top" /\ seen' = {} /\ UNCHANGED <<nextTicket, callback>>
      /\ order' = RemoveAt(order, Rank(r))
  BY DEF Reply, At
<1>1. /\ o \in Slot /\ Ready(o) /\ r \in Request /\ job[o].req = r
      /\ job'[o] = FreeJob /\ \A s \in Slot : s # o => job'[s] = job[s]
      /\ scan' = [i |-> 1, oldest |-> 0]
      /\ \A q \in Request : q # r => client'[q] = client[q]
  BY Replies DEF Picked
<1>2. PICK n \in Nat : n = Len(order) BY DEF TypeOK
<1>3. PICK k \in 1..n : k = Rank(r) /\ order[k] = r
  <2>1. \E i \in 1..Len(order) : order[i] = r BY <1>1 DEF InLine
  <2>2. QED BY <1>2, <2>1, RankIs
<1>4. /\ Len(order') = n - 1 /\ n > 0
      /\ \A i \in 1..(n - 1) : order'[i] = IF i < k THEN order[i] ELSE order[i + 1]
  <2>1. order \in Seq(Request) /\ k \in 1..Len(order) BY <1>2 DEF TypeOK
  <2>2. order' = RemoveAt(order, k) BY <1>0, <1>3
  <2>3. /\ Len(RemoveAt(order, k)) = Len(order) - 1
        /\ \A i \in 1..(Len(order) - 1) : RemoveAt(order, k)[i] = IF i < k THEN order[i] ELSE order[i + 1]
    BY <2>1, Without
  <2>4. QED BY <1>2, <2>2, <2>3
<1> HIDE DEF o, r
<1>5. \A i \in 1..n : order[i] = r => i = k BY <1>2, <1>3 DEF InLine
<1>6. \A i \in 1..n : order[i] \in Request BY <1>2 DEF TypeOK
<1>7. \A s \in Slot : (Ready(s)' <=> Ready(s) /\ s # o) /\ (Ready(s) /\ s # o => job'[s] = job[s] /\ job[s].req # r)
  <2>1. \A s \in Slot : Ready(s) /\ job[s].req = r => s = o BY <1>1 DEF InLine
  <2>2. job'[o].st = "Free" BY <1>1 DEF FreeJob
  <2>3. QED BY <1>1, <2>1, <2>2 DEF Ready
<1>8. callback.at = "ready" => /\ callback.slot \in Slot /\ callback.slot # o /\ callback.req # r
                               /\ order[n] = callback.req
  BY <1>1, <1>2, CallbackIs DEF Handing, InLine
<1>9. \A s \in Slot : \A q : q # r => /\ Holds(s, q)' <=> Holds(s, q)
                                      /\ Holds(s, q) => job'[s] = job[s]
  BY <1>0, <1>1, <1>7, <1>8 DEF Holds
<1>10. \A i \in 1..(n - 1) : order'[i] # r /\ order'[i] \in Request /\ \E j \in 1..n : order'[i] = order[j]
  <2>1. SUFFICES ASSUME NEW i \in 1..(n - 1)
                 PROVE  order'[i] # r /\ order'[i] \in Request /\ \E j \in 1..n : order'[i] = order[j]
    OBVIOUS
  <2>2. PICK j \in 1..n : order'[i] = order[j] /\ j # k
    <3>1. CASE i < k BY <1>4, <3>1
    <3>2. CASE ~(i < k) BY <1>4, <3>2
    <3>3. QED BY <3>1, <3>2
  <2>3. QED BY <1>5, <1>6, <2>2
<1>11. callback.at = "ready" => k < n /\ order'[n - 1] = callback.req
  <2>1. SUFFICES ASSUME callback.at = "ready" PROVE k < n /\ order'[n - 1] = callback.req OBVIOUS
  <2>2. k # n BY <1>3, <1>8, <2>1
  <2>3. n - 1 \in 1..(n - 1) /\ k < n /\ ~(n - 1 < k) BY <2>2
  <2>4. order'[n - 1] = order[(n - 1) + 1] BY <1>4, <2>3
  <2>5. QED BY <1>8, <2>1, <2>3, <2>4
<1>12. InLine'
  <2>1. \A i, j \in 1..(n - 1) : order'[i] = order'[j] => i = j
    <3>1. \A i, j \in 1..n : order[i] = order[j] => i = j BY <1>2 DEF InLine
    <3>2. SUFFICES ASSUME NEW i \in 1..(n - 1), NEW j \in 1..(n - 1), order'[i] = order'[j] PROVE i = j
      OBVIOUS
    <3>3. PICK a \in 1..n : order'[i] = order[a] /\ a = IF i < k THEN i ELSE i + 1 BY <1>4
    <3>4. PICK b \in 1..n : order'[j] = order[b] /\ b = IF j < k THEN j ELSE j + 1 BY <1>4
    <3>5. a = b BY <3>1, <3>2, <3>3, <3>4
    <3>6. QED BY <3>3, <3>4, <3>5
  <2>2. ASSUME NEW i \in 1..(n - 1)
        PROVE  client'[order'[i]].st # "new" /\ \E s \in Slot : Holds(s, order[i])'
    <3>1. PICK q \in Request : q = order'[i] /\ q # r BY <1>10
    <3>2. PICK j \in 1..n : q = order[j] BY <1>10, <3>1
    <3>3. client[q].st # "new" /\ \E s \in Slot : Holds(s, q) BY <1>2, <3>2 DEF InLine
    <3>4. client'[q] = client[q] /\ \E s \in Slot : Holds(s, q)' BY <1>1, <1>9, <3>1, <3>3
    <3>5. QED BY <3>1, <3>3, <3>4
  <2>3. \A s \in Slot : Ready(s)' => \E i \in 1..(n - 1) : order'[i] = job'[s].req
    <3>1. SUFFICES ASSUME NEW s \in Slot, Ready(s)' PROVE \E i \in 1..(n - 1) : order'[i] = job'[s].req
      OBVIOUS
    <3>2. Ready(s) /\ job'[s] = job[s] /\ job[s].req # r BY <1>7, <3>1
    <3>3. PICK j \in 1..n : order[j] = job[s].req BY <1>2, <3>2 DEF InLine
    <3>4. j # k BY <1>3, <3>2, <3>3
    <3>5. CASE j < k
      <4>1. j \in 1..(n - 1) /\ order'[j] = order[j] BY <1>4, <3>5
      <4>2. QED BY <3>2, <3>3, <4>1
    <3>6. CASE j > k
      <4>1. j - 1 \in 1..(n - 1) /\ ~(j - 1 < k) /\ (j - 1) + 1 = j BY <3>6
      <4>2. order'[j - 1] = order[j] BY <1>4, <4>1
      <4>3. QED BY <3>2, <3>3, <4>1, <4>2
    <3>7. QED BY <3>4, <3>5, <3>6
  <2>4. \A s, t \in Slot : Ready(s)' /\ Ready(t)' /\ job'[s].req = job'[t].req => s = t
    BY <1>7 DEF InLine
  <2>5. callback'.at = "ready" => Len(order') > 0 /\ order'[Len(order')] = callback'.req
    BY <1>0, <1>4, <1>11
  <2>6. Handing' => \A s \in Slot : Ready(s)' => job'[s].req # callback'.req
    BY <1>0, <1>7 DEF InLine, Handing
  <2>7. callback'.at = "ticket" => \A i \in 1..(n - 1) : order'[i] # callback'.req
    BY <1>0, <1>2, <1>10 DEF InLine
  <2>8. QED BY <1>4, <2>1, <2>2, <2>3, <2>4, <2>5, <2>6, <2>7 DEF InLine
<1>13. ~Looking' BY <1>0 DEF Looking
<1>14. Numbered'
  <2>1. PICK h \in 0..n :
         /\ \A i \in 1..n : \A s \in Slot : Holds(s, order[i]) => job[s].ticket = TicketAt(i, h)
         /\ callback.at = "ready" => h < n
         /\ seen = {} => h = 0
    BY <1>0, <1>2 DEF Numbered, Looking
  <2>2. seen # {} => k = 1 BY <1>0, <1>3, PickedFirst DEF r
  <2>3. PICK g \in 0..(n - 1) :
           /\ \A i \in 1..(n - 1) : IF i < k THEN (i <= g) /\ h = 0 ELSE (i <= g <=> i + 1 <= h)
           /\ callback.at = "ready" => g < n - 1
    <3>1. CASE seen = {}
      <4>1. /\ \A i \in 1..(n - 1) : IF i < k THEN (i <= k - 1) /\ h = 0 ELSE (i <= k - 1 <=> i + 1 <= h)
            /\ callback.at = "ready" => k - 1 < n - 1
        BY <1>11, <2>1, <3>1
      <4>2. k - 1 \in 0..(n - 1) OBVIOUS
      <4>3. QED BY <4>1, <4>2
    <3>2. CASE seen # {} /\ h = 0
      <4>1. k = 1 BY <2>2, <3>2
      <4>2. /\ \A i \in 1..(n - 1) : IF i < k THEN (i <= 0) /\ h = 0 ELSE (i <= 0 <=> i + 1 <= h)
            /\ callback.at = "ready" => 0 < n - 1
        BY <1>11, <3>2, <4>1
      <4>3. 0 \in 0..(n - 1) BY <1>4
      <4>4. QED BY <4>2, <4>3
    <3>3. CASE seen # {} /\ h > 0
      <4>1. k = 1 BY <2>2, <3>3
      <4>2. /\ \A i \in 1..(n - 1) : IF i < k THEN (i <= h - 1) /\ h = 0 ELSE (i <= h - 1 <=> i + 1 <= h)
            /\ callback.at = "ready" => h - 1 < n - 1
        BY <2>1, <3>3, <4>1
      <4>3. h - 1 \in 0..(n - 1) BY <3>3
      <4>4. QED BY <4>2, <4>3
    <3>4. QED BY <3>1, <3>2, <3>3
  <2>4. ASSUME NEW i \in 1..(n - 1), NEW s \in Slot, Holds(s, order[i])'
        PROVE  job'[s].ticket = TicketAt(i, g)'
    <3>1. PICK q : q = order'[i] /\ q # r BY <1>10
    <3>2. Holds(s, q) /\ job'[s] = job[s] BY <1>9, <2>4, <3>1
    <3>3. PICK m \in Int : m = nextTicket BY DEF TypeOK
    <3>4. TicketAt(i, g)' = (m - ((n - 1) - i + 1) - (IF i <= g THEN 1 ELSE 0)) % TicketSize
      BY <1>0, <1>4, <3>3 DEF TicketAt
    <3>5. CASE i < k
      <4>1. q = order[i] /\ i \in 1..n BY <1>4, <3>1, <3>5
      <4>2. job[s].ticket = TicketAt(i, h) BY <2>1, <3>2, <4>1
      <4>3. TicketAt(i, h) = (m - (n - i + 1) - (IF i <= h THEN 1 ELSE 0)) % TicketSize
        BY <1>2, <3>3 DEF TicketAt
      <4>4. m - (n - i + 1) - (IF i <= h THEN 1 ELSE 0) = m - ((n - 1) - i + 1) - (IF i <= g THEN 1 ELSE 0)
        <5>1. i <= g /\ h = 0 BY <2>3, <3>5
        <5>2. QED BY <5>1
      <4>5. QED BY <3>2, <3>4, <4>2, <4>3, <4>4
    <3>6. CASE ~(i < k)
      <4>1. q = order[i + 1] /\ i + 1 \in 1..n BY <1>4, <3>1, <3>6
      <4>2. job[s].ticket = TicketAt(i + 1, h) BY <2>1, <3>2, <4>1
      <4>3. TicketAt(i + 1, h) = (m - (n - (i + 1) + 1) - (IF i + 1 <= h THEN 1 ELSE 0)) % TicketSize
        BY <1>2, <3>3 DEF TicketAt
      <4>4. m - (n - (i + 1) + 1) - (IF i + 1 <= h THEN 1 ELSE 0)
              = m - ((n - 1) - i + 1) - (IF i <= g THEN 1 ELSE 0)
        <5>1. i <= g <=> i + 1 <= h BY <2>3, <3>6
        <5>2. QED BY <5>1
      <4>5. QED BY <3>2, <3>4, <4>2, <4>3, <4>4
    <3>7. QED BY <3>5, <3>6
  <2>5. QED BY <1>0, <1>4, <1>13, <2>3, <2>4 DEF Numbered
<1>15. Found' BY <1>1, <1>13 DEF Found
<1>16. QED BY <1>12, <1>14, <1>15

(* poll()'s scan: what it has found is the first in line of those it has looked at. *)
LEMMA LineScanned ==
    ASSUME TypeOK, Placed, InLine, Numbered, Found, ScanSlot
    PROVE  InLine' /\ Numbered' /\ Found'
<1>0. /\ scan.i \in Slot /\ pc = "scan" /\ UNCHANGED <<job, nextTicket, order, callback, client>>
      /\ scan.oldest \in 0..SlotCount /\ Slot = 1..SlotCount /\ SlotCount \in Nat
  BY Scans, SlotsAre DEF TypeOK
<1>1. InLine' BY <1>0 DEF InLine, Holds, Ready, Handing
<1>2. PICK h \in 0..Len(order) :
         /\ \A i \in 1..Len(order) : \A s \in Slot : Holds(s, order[i]) => job[s].ticket = TicketAt(i, h)
         /\ callback.at = "ready" => h < Len(order)
         /\ Looking /\ seen = {} => h = 0
  BY DEF Numbered
<1>3. ((Looking /\ seen = {})' => h = 0) => Numbered'
  BY <1>0, <1>2 DEF Numbered, Holds, Ready, TicketAt
<1>4. CASE job[scan.i].st = "Filling" /\ pc' = "top" /\ scan' = [i |-> 1, oldest |-> 0] /\ seen' = {}
  <2>1. ~Looking' BY <1>4 DEF Looking
  <2>2. QED BY <1>1, <1>3, <1>4, <2>1 DEF Found
<1>5. ASSUME NEW found \in {scan.i, scan.oldest},
             found = IF /\ Ready(scan.i)
                        /\ \/ scan.oldest = 0
                           \/ Older(job[scan.i].ticket, job[scan.oldest].ticket)
                     THEN scan.i ELSE scan.oldest,
             seen' = IF scan.i = 1 THEN {job[s].req : s \in {t \in Slot : Ready(t)}} ELSE seen,
             \/ scan.i < SlotCount /\ pc' = "scan" /\ scan' = [i |-> scan.i + 1, oldest |-> found]
             \/ /\ scan.i = SlotCount /\ scan' = [i |-> 1, oldest |-> found]
                /\ pc' = IF found = 0 THEN "top" ELSE "execute"
      PROVE  Numbered' /\ Found'
  <2>1. scan'.oldest = found /\ found \in 0..SlotCount /\ (found # 0 => found \in Slot /\ Ready(found))
    BY <1>0, <1>5, SlotsAre DEF Placed
  <2>2. CASE scan.i = 1
    <3>1. ~Looking /\ scan.oldest = 0
      <4>1. ~Looking BY <1>0, <2>2 DEF Looking
      <4>2. QED BY <4>1 DEF Found
    <3>2. seen' = {job[s].req : s \in {t \in Slot : Ready(t)}} BY <1>5, <2>2
    <3>3. seen' = {} => h = 0
      <4>1. SUFFICES ASSUME seen' = {}, Len(order) > 0 PROVE h = 0 BY <1>2 DEF TypeOK
      <4>2. \A s \in Slot : ~Ready(s) BY <3>2, <4>1
      <4>3. \A i \in 1..Len(order) : callback.at = "ready" /\ callback.req = order[i]
        BY <4>2 DEF InLine, Holds
      <4>4. Len(order) \in Nat /\ 1 \in 1..Len(order) /\ Len(order) \in 1..Len(order) BY <4>1 DEF TypeOK
      <4>5. Len(order) = 1 BY <4>3, <4>4 DEF InLine
      <4>6. QED BY <1>2, <4>3, <4>4, <4>5
    <3>4. seen' # {} => Len(order) > 0 /\ order[1] \in seen'
      <4>1. SUFFICES ASSUME NEW s \in Slot, Ready(s) PROVE Len(order) > 0 /\ order[1] \in seen'
        BY <3>2
      <4>2. PICK a \in 1..Len(order) : order[a] = job[s].req BY <4>1 DEF InLine
      <4>3. Len(order) \in Nat /\ Len(order) > 0 /\ 1 \in 1..Len(order) /\ Len(order) \in 1..Len(order)
        BY DEF TypeOK
      <4>4. PICK t \in Slot : Holds(t, order[1]) BY <4>3 DEF InLine
      <4>5. CASE Ready(t) /\ job[t].req = order[1] BY <3>2, <4>3, <4>5
      <4>6. CASE callback.at = "ready" /\ callback.req = order[1]
        <5>1. order[Len(order)] = order[1] BY <4>6 DEF InLine
        <5>2. Len(order) = 1 BY <4>3, <5>1 DEF InLine
        <5>3. a = 1 BY <4>3, <5>2
        <5>4. job[s].req = callback.req BY <4>2, <4>6, <5>3
        <5>5. job[s].req # callback.req BY <4>1, <4>6 DEF InLine, Handing
        <5>6. QED BY <5>4, <5>5
      <4>7. QED BY <4>4, <4>5, <4>6 DEF Holds
    <3>5. \A r \in seen' : \E s \in Slot : Ready(s) /\ job[s].req = r BY <3>2
    <3>6. \A s \in Slot : Ready(s) /\ (pc' = "scan" => s < scan'.i) /\ Looking' =>
             found # 0 /\ Before(job[found].req, job[s].req)
      <4>1. SUFFICES ASSUME NEW s \in Slot, Ready(s), pc' = "scan" => s < scan'.i, Looking'
                     PROVE  found # 0 /\ Before(job[found].req, job[s].req)
        OBVIOUS
      <4>2. s = 1
        <5>1. CASE pc' = "scan" /\ scan' = [i |-> scan.i + 1, oldest |-> found] BY <1>0, <2>2, <4>1, <5>1
        <5>2. CASE scan.i = SlotCount BY <1>0, <2>2, <5>2
        <5>3. QED BY <1>5, <5>1, <5>2
      <4>3. found = 1 BY <1>5, <2>2, <3>1, <4>1, <4>2
      <4>4. Before(job[s].req, job[s].req) BY DEF Before, InLine, TypeOK
      <4>5. QED BY <4>2, <4>3, <4>4
    <3>7. ~Looking' => scan' = [i |-> 1, oldest |-> 0]
      <4>1. CASE pc' = "scan" /\ scan' = [i |-> scan.i + 1, oldest |-> found] BY <1>0, <2>2, <4>1 DEF Looking
      <4>2. CASE scan' = [i |-> 1, oldest |-> found] /\ pc' = IF found = 0 THEN "top" ELSE "execute"
        BY <4>2 DEF Looking
      <4>3. QED BY <1>5, <4>1, <4>2
    <3>8. Found' BY <1>0, <2>1, <3>4, <3>5, <3>6, <3>7 DEF Found, Ready, Before, Picked
    <3>9. QED BY <1>3, <3>3, <3>8
  <2>3. CASE scan.i # 1
    <3>1. Looking /\ seen' = seen BY <1>0, <1>5, <2>3 DEF Looking
    <3>2. /\ seen # {} => Len(order) > 0 /\ order[1] \in seen
          /\ \A r \in seen : \E s \in Slot : Ready(s) /\ job[s].req = r
          /\ \A s \in Slot : Ready(s) /\ job[s].req \in seen /\ s < scan.i =>
                scan.oldest # 0 /\ Before(job[scan.oldest].req, job[s].req)
      BY <1>0, <3>1 DEF Found, Picked
    <3>3. \A s \in Slot : Ready(s) => \E a \in 1..Len(order) : order[a] = job[s].req BY DEF InLine
    <3>4. scan.oldest # 0 => scan.oldest \in Slot /\ Ready(scan.oldest) BY <1>0 DEF Placed
    <3>5. \A s \in Slot : Ready(s) /\ job[s].req \in seen /\ (s < scan.i \/ s = scan.i) =>
             found # 0 /\ Before(job[found].req, job[s].req)
      <4>1. SUFFICES ASSUME NEW s \in Slot, Ready(s), job[s].req \in seen, s < scan.i \/ s = scan.i
                     PROVE  found # 0 /\ Before(job[found].req, job[s].req)
        OBVIOUS
      <4>2. Before(job[s].req, job[s].req) BY DEF Before, InLine, TypeOK
      <4>3. CASE s = scan.i /\ (scan.oldest = 0 \/ Older(job[scan.i].ticket, job[scan.oldest].ticket))
        BY <1>0, <1>5, <4>1, <4>2, <4>3
      <4>4. CASE s = scan.i /\ ~(scan.oldest = 0 \/ Older(job[scan.i].ticket, job[scan.oldest].ticket))
        <5>1. found = scan.oldest /\ found # 0 /\ found \in Slot /\ Ready(found) BY <1>5, <3>4, <4>4
        <5>2. \A a, b \in 1..Len(order) : order[a] = job[s].req /\ order[b] = job[found].req => ~(a < b)
          BY <4>1, <4>4, <5>1, OlderIs
        <5>3. Before(job[found].req, job[s].req) BY <5>2 DEF Before, TypeOK
        <5>4. QED BY <5>1, <5>3
      <4>5. CASE s < scan.i
        <5>1. scan.oldest # 0 /\ Before(job[scan.oldest].req, job[s].req) BY <3>2, <4>1, <4>5
        <5>2. CASE found = scan.oldest BY <5>1, <5>2
        <5>3. CASE found = scan.i /\ found # scan.oldest
          <6>1. Ready(scan.i) /\ Older(job[scan.i].ticket, job[scan.oldest].ticket) BY <1>5, <5>1, <5>3
          <6>2. scan.oldest \in Slot /\ Ready(scan.oldest) BY <3>4, <5>1
          <6>3. PICK m \in 1..Len(order) : order[m] = job[scan.oldest].req BY <3>3, <6>2
          <6>4. SUFFICES ASSUME NEW a \in 1..Len(order), NEW b \in 1..Len(order),
                                order[a] = job[scan.i].req, order[b] = job[s].req
                         PROVE  a <= b
            BY <1>0, <5>3, SlotsAre DEF Before
          <6>5. a < m BY <1>0, <6>1, <6>2, <6>3, <6>4, OlderIs
          <6>6. m <= b BY <5>1, <6>3, <6>4 DEF Before
          <6>7. QED BY <6>5, <6>6
        <5>4. QED BY <1>5, <5>2, <5>3
      <4>6. QED BY <4>1, <4>3, <4>4, <4>5
    <3>6. \A s \in Slot : (pc' = "scan" => s < scan'.i) /\ Looking' => s < scan.i \/ s = scan.i
      <4>1. CASE pc' = "scan" /\ scan' = [i |-> scan.i + 1, oldest |-> found] BY <1>0, <4>1
      <4>2. CASE scan.i = SlotCount BY <1>0, <4>2
      <4>3. QED BY <1>5, <4>1, <4>2
    <3>7. ~Looking' => scan' = [i |-> 1, oldest |-> 0]
      <4>1. CASE pc' = "scan" /\ scan' = [i |-> scan.i + 1, oldest |-> found] BY <1>0, <4>1 DEF Looking
      <4>2. CASE scan' = [i |-> 1, oldest |-> found] /\ pc' = IF found = 0 THEN "top" ELSE "execute"
        BY <4>2 DEF Looking
      <4>3. QED BY <1>5, <4>1, <4>2
    <3>8. Found' BY <1>0, <2>1, <3>1, <3>2, <3>5, <3>6, <3>7 DEF Found, Ready, Before, Picked
    <3>9. QED BY <1>2, <1>3, <3>1, <3>8
  <2>4. QED BY <2>2, <2>3
<1>6. QED BY <1>1, <1>4, <1>5, Scans

LEMMA ClientsKnown ==
    ASSUME TypeOK, Placed, Buffered, Delivered, Recorded(rec, file, run),
           CheckFinished \/ \E r \in Request : Served(r)
    PROVE  \A q \in Request : client[q].st # "new" => client'[q].st # "new"
<1>1. CASE \E r \in Request, st \in {"answered", "short", "gone"} : client' = [client EXCEPT ![r] = Client(st)]
  BY <1>1, ClientIs
<1>2. CASE UNCHANGED client BY <1>2
<1>3. CASE CheckFinished
  <2>1. callback.req \in Request BY <1>3 DEF CheckFinished, Placed
  <2>2. CASE download.finished BY <1>1, <1>3, <2>1, <2>2, EndedClient DEF CheckFinished
  <2>3. CASE ~download.finished BY <1>2, <1>3, <2>3 DEF CheckFinished
  <2>4. QED BY <2>2, <2>3
<1>4. CASE \E r \in Request : LengthSent(r) BY <1>1, <1>4, EndedClient DEF LengthSent
<1>5. CASE \E r \in Request : Disconnect(r) BY <1>1, <1>5 DEF Disconnect
<1>6. CASE \E r \in Request : Consume(r)
  <2>1. PICK r \in Request : Consume(r) BY <1>6
  <2>2. CASE UNCHANGED client BY <1>2, <2>2
  <2>3. CASE ~UNCHANGED client
    <3>1. client'[r].st = client[r].st /\ \A q \in Request : q # r => client'[q] = client[q]
      BY <2>1, <2>3, ConsumeIs
    <3>2. QED BY <3>1
  <2>4. QED BY <2>2, <2>3
<1>7. QED BY <1>3, <1>4, <1>5, <1>6 DEF Served

LEMMA LineKept ==
    ASSUME FInv, Next
    PROVE  InLine' /\ Numbered' /\ Found'
<1> USE DEF FInv
<1>1. CASE LoopTop \/ LoopCommands \/ PollCancelled \/ PollFill \/ PollPublish \/ Execute
  <2>1. UNCHANGED <<job, nextTicket, order, scan, seen, callback, client>>
    BY <1>1 DEF LoopTop, LoopCommands, PollCancelled, PollFill, PollPublish, Execute, queue
  <2>2. \/ ~Looking /\ pc' \in {"commands", "cancelled", "fill", "publish", "scan"}
        \/ pc = "execute" /\ pc' = "reply"
    BY <1>1 DEF LoopTop, LoopCommands, PollCancelled, PollFill, PollPublish, Execute, At, Looking
  <2>3. QED BY <2>1, <2>2, LineStays
<1>2. CASE CheckFinished \/ \E r \in Request : Served(r)
  <2>1. UNCHANGED <<job, nextTicket, order, scan, seen, pc>>
    BY <1>2 DEF CheckFinished, Served, Consume, LengthSent, Disconnect, owner, queue
  <2>2. \A q \in Request : client[q].st # "new" => client'[q].st # "new" BY <1>2, ClientsKnown
  <2>3. UNCHANGED callback \/ (~Handing /\ ~Handing')
    <3>1. CASE CheckFinished BY <3>1, NoCallbackIs DEF CheckFinished, Handing
    <3>2. CASE \E r \in Request : Consume(r) BY <3>2, NoCallbackIs, ConsumeIs DEF Handing, Idle
    <3>3. CASE \E r \in Request : LengthSent(r) \/ Disconnect(r) BY <3>3 DEF LengthSent, Disconnect
    <3>4. QED BY <1>2, <3>1, <3>2, <3>3 DEF Served
  <2>4. QED BY <2>1, <2>2, <2>3, LineStays
<1>3. CASE \E r \in Request : \E k \in Kinds[r] : \E id \in Ids(k) : Enqueue(r, k, id)
  BY <1>3, LineEnqueued
<1>4. QED
  BY <1>1, <1>2, <1>3, LineTicketed, LineReady, LineReplied, LineScanned DEF Next, Loop, Handler

LEMMA InitInLine == Init => InLine /\ Numbered /\ Found
<1> SUFFICES ASSUME Init PROVE InLine /\ Numbered /\ Found OBVIOUS
<1>1. order = <<>> /\ callback.at = "none" /\ ~Looking /\ scan = [i |-> 1, oldest |-> 0]
  BY NoCallbackIs DEF Init, Looking
<1>2. \A s \in Slot : ~Ready(s) BY DEF Init, Ready, FreeJob
<1>3. Len(order) = 0 BY <1>1
<1>4. InLine BY <1>1, <1>2, <1>3 DEF InLine, Handing
<1>5. Numbered
  <2>1. 0 \in 0..Len(order) BY <1>3
  <2>2. \A i \in 1..Len(order) : FALSE BY <1>3
  <2>3. QED BY <1>1, <2>1, <2>2 DEF Numbered
<1>6. Found BY <1>1 DEF Found
<1>7. QED BY <1>4, <1>5, <1>6

(* On every step of the two tasks the invariant stays. *)
LEMMA FInvKept == FInv /\ [Next]_vars => FInv'
<1> SUFFICES ASSUME FInv, [Next]_vars PROVE FInv' OBVIOUS
<1>1. CASE Next
  <2>1. TypeOK' /\ Placed' /\ Buffered' /\ Delivered' /\ Recorded(rec, file, run)'
    BY <1>1, TypeKept, PlacedKept, BufferedKept, DeliveredKept, RecordedKept DEF FInv
  <2>2. QED BY <1>1, <2>1, LineKept DEF FInv
<1>2. CASE UNCHANGED vars
  <2>1. UNCHANGED <<rec, file, run, job, nextTicket, download, pc, scan, reply, callback, client, order, seen>>
    BY <1>2 DEF vars, owner, queue
  <2>2. InLine' /\ Numbered' /\ Found' BY <2>1, LineStays DEF FInv
  <2>3. TypeOK' /\ Placed' /\ Buffered' /\ Recorded(rec, file, run)'
    BY <2>1 DEF FInv, TypeOK, Placed, Handing, Ready, Streaming, Buffered, Recorded
  <2>4. Delivered' BY <2>1 DEF FInv, Delivered, Streaming, Gets, Picked
  <2>5. QED BY <2>2, <2>3, <2>4 DEF FInv
<1>3. QED BY <1>1, <1>2

(* The invariant of the Feather's two tasks: the run is the recorder's, every slot,
   flag and pointer is where its holder left it, the download is a part of the file,
   and the tickets number the line. *)
THEOREM FeatherInvariant == Spec => []FInv
<1>1. Init => FInv BY InitRecorded, InitTyped, InitPlaced, InitInLine DEF FInv
<1>2. QED BY <1>1, FInvKept, PTL DEF Spec

-----------------------------------------------------------------------------
(* RunIsRecorded: what RunManager calls the active run is what CsvRecorder records,
   under its id, whatever fails on the volume and whatever is downloaded or erased. *)
THEOREM RunBelongs == Spec => []RunIsRecorded
<1>1. FInv => RunIsRecorded BY DEF FInv, Recorded, RunIsRecorded
<1>2. QED BY <1>1, FeatherInvariant, PTL

LEMMA PrefixIs ==
    ASSUME NEW s \in Seq(Line), NEW t \in Seq(Line), NEW n \in Nat, n <= Len(t), s = SubSeq(t, 1, n)
    PROVE  IsPrefix(s, t)
<1>1. Len(s) = n /\ \A i \in 1..n : s[i] = t[i] BY PieceTyped
<1>2. SubSeq(s, 1, n) = s BY <1>1, SubSeqFull
<1>3. QED BY <1>1, <1>2 DEF IsPrefix

LEMMA PartIsPrefix ==
    ASSUME NEW g \in Seq(Line), NEW b \in Seq(Line), NEW q \in Seq(Line), NEW n \in Nat, NEW v \in Nat,
           n <= v, v <= Len(q), g \o b = SubSeq(q, 1, n)
    PROVE  IsPrefix(g, SubSeq(q, 1, v))
<1>0. ASSUME NEW k \in Nat, k <= v
      PROVE  \E p \in Seq(Line) : p = SubSeq(q, 1, k) /\ Len(p) = k /\ \A i \in 1..k : p[i] = q[i]
  <2>1. k <= Len(q) BY <1>0
  <2>2. SubSeq(q, 1, k) \in Seq(Line) /\ Len(SubSeq(q, 1, k)) = k
        /\ \A i \in 1..k : SubSeq(q, 1, k)[i] = q[i]
    BY <2>1
  <2>3. QED BY <2>2
<1>1. PICK p \in Seq(Line) : p = SubSeq(q, 1, n) /\ Len(p) = n /\ \A i \in 1..n : p[i] = q[i]
  BY <1>0
<1>2. PICK t \in Seq(Line) : t = SubSeq(q, 1, v) /\ Len(t) = v /\ \A i \in 1..v : t[i] = q[i]
  <2>1. v \in Nat /\ v <= v OBVIOUS
  <2>2. \E x \in Seq(Line) : x = SubSeq(q, 1, v) /\ Len(x) = v /\ \A i \in 1..v : x[i] = q[i] BY <1>0, <2>1
  <2>3. QED BY <2>2
<1>3. Len(g) \in Nat /\ Len(g) <= n /\ \A i \in 1..Len(g) : g[i] = p[i]
  <2>1. Len(g \o b) = Len(g) + Len(b) /\ Len(g) \in Nat /\ Len(b) \in Nat OBVIOUS
  <2>2. \A i \in 1..Len(g) : (g \o b)[i] = g[i] OBVIOUS
  <2>3. QED BY <1>1, <2>1, <2>2
<1>4. PICK m \in Nat : m = Len(g) /\ m <= n BY <1>3
<1>5. \A i \in 1..m : g[i] = t[i] BY <1>1, <1>2, <1>3, <1>4
<1>6. SubSeq(t, 1, m) \in Seq(Line) /\ Len(SubSeq(t, 1, m)) = m
      /\ \A i \in 1..m : SubSeq(t, 1, m)[i] = t[i]
  <2>1. m <= Len(t) BY <1>2, <1>4
  <2>2. QED BY <2>1
<1>7. g = SubSeq(t, 1, m) BY <1>4, <1>5, <1>6, SeqEqual
<1>8. m <= Len(t) BY <1>2, <1>4
<1>9. QED BY <1>2, <1>7, <1>8, PrefixIs

(* DownloadIsExact: what a client has received is at any time a first part of the file
   behind its head, all of it when the response ends, while the file stays as it is. *)
THEOREM DownloadDelivers == Spec => []DownloadIsExact
<1>1. FInv => DownloadIsExact
  <2> SUFFICES ASSUME FInv PROVE DownloadIsExact OBVIOUS
  <2>0. TypeOK /\ Placed /\ Buffered /\ Delivered /\ Recorded(rec, file, run) BY DEF FInv
  <2>1. SUFFICES ASSUME NEW r \in Request
                 PROVE  /\ IsPrefix(client[r].got, client[r].of)
                        /\ client[r].st # "short"
                        /\ client[r].of # <<>> => IsHead(client[r].of[1])
                        /\ Streaming(r) => /\ rec.reader /\ download.req = r
                                           /\ file # NoFile /\ IsPrefix(client[r].of, file.lines)
    BY DEF DownloadIsExact
  <2>2. client[r].st # "short" BY <2>0 DEF Delivered
  <2>3. CASE ~Streaming(r)
    <3>1. client[r].got = <<>> /\ client[r].of = <<>> BY <2>0, <2>3 DEF Delivered
    <3>2. <<>> \in Seq(Line) /\ 0 \in Nat /\ 0 <= Len(<<>>) /\ <<>> = SubSeq(<<>>, 1, 0) OBVIOUS
    <3>3. IsPrefix(<<>>, <<>>) BY <3>2, PrefixIs
    <3>4. QED BY <2>2, <2>3, <3>1, <3>3
  <2>4. CASE Streaming(r)
    <3>1. Gets(r) /\ download # None BY <2>0, <2>4, OneReader
    <3>2. PICK q \in Seq(Line), v \in Nat, n \in Nat :
               /\ q = file.lines /\ v = rec.valid /\ n = rec.sent
               /\ v > 0 /\ n <= v /\ v <= Len(q) /\ IsHead(q[1])
      BY <2>0, <3>1, BufferIs
    <3>3. PICK g \in Seq(Line), b \in Seq(Line), o \in Seq(Line) :
               g = client[r].got /\ b = download.bytes /\ o = client[r].of
      BY <2>0, <3>1, ClientTyped, BufferIs
    <3>4. o = SubSeq(q, 1, v) /\ g \o b = SubSeq(q, 1, n) BY <3>1, <3>2, <3>3 DEF Gets
    <3>5. IsPrefix(g, o) BY <3>2, <3>4, PartIsPrefix
    <3>6. IsPrefix(o, q) BY <3>2, <3>4, PrefixIs
    <3>7. o[1] = q[1] BY <3>2, <3>4, PieceTyped
    <3>8. rec.reader BY <2>0, <3>1, BufferIs
    <3>9. file # NoFile BY <2>0, <3>2 DEF Recorded, Fits
    <3>10. download.req = r BY <3>1 DEF Gets
    <3>11. QED BY <2>2, <3>2, <3>3, <3>5, <3>6, <3>7, <3>8, <3>9, <3>10
  <2>5. QED BY <2>3, <2>4
<1>2. QED BY <1>1, FeatherInvariant, PTL

(* OldestFirst: the job LoopRequestQueue's poll() executes is the first in line of those
   that were ready when it began to look, wherever the counter wraps, if its range is
   more than twice the slots and one. *)
THEOREM OldestIsExecuted == Spec => []OldestFirst
<1>1. FInv => OldestFirst
  <2> SUFFICES ASSUME FInv PROVE OldestFirst OBVIOUS
  <2>1. SUFFICES ASSUME pc = "execute", NEW r \in seen PROVE Rank(Picked.req) <= Rank(r)
    BY DEF OldestFirst
  <2>2. Looking BY <2>1 DEF Looking
  <2>3. Rank(Picked.req) = 1 BY <2>1, PickedFirst DEF FInv
  <2>4. PICK s \in Slot : Ready(s) /\ job[s].req = r BY <2>2 DEF FInv, Found
  <2>5. \E i \in 1..Len(order) : order[i] = r BY <2>4 DEF FInv, InLine
  <2>6. Rank(r) \in 1..Len(order) BY <2>5, RankIs
  <2>7. QED BY <2>3, <2>6
<1>2. QED BY <1>1, FeatherInvariant, PTL
=============================================================================
