----------------------------- MODULE CsvRecorder ---------------------------
(***************************************************************************)
(* lib/SingleRunCsv: the Feather's recorder of one run in one CSV file.    *)
(* The recorder's fields are one record c and the file is f; a call is the *)
(* set of its outcomes [rec, file, ok], one for every way the storage may  *)
(* answer.  SingleRunCsv runs the recorder alone under every sequence of   *)
(* calls and power losses, FeatherRequests inside the firmware.            *)
(*                                                                         *)
(* A line of the file is what it says: the metadata block with the column  *)
(* header (written in one piece), a row, or a footer.  Bytes behind the    *)
(* last complete line are torn.  A length in bytes is a number of lines;   *)
(* of the sensor's fault bits one is kept.                                 *)
(***************************************************************************)
EXTENDS Naturals, Sequences, SequencesExt

CONSTANTS
    NoFile,           \* model value
    AcquireInterval,  \* acquireIntervalMs
    LogInterval,      \* logIntervalMs
    MaxDuration       \* maxDurationMs

(* The lines of a file, and a file. *)
Line ==
    [kind : {"head"}, runId : Nat]
    \cup [kind : {"row"}, runId : Nat, logSeq : Nat, acqSeq : Nat, ms : Nat,
          intervalFault : BOOLEAN, terminal : BOOLEAN, gap : BOOLEAN]
    \cup [kind : {"end"}, reason : {"complete", "duration_limit"}, rows : Nat, elapsed : Nat]
CsvFile == [lines : Seq(Line), torn : BOOLEAN, synced : Nat]

ASSUME CsvAssumption ==
    /\ AcquireInterval \in Nat \ {0} /\ LogInterval \in Nat \ {0} /\ MaxDuration \in Nat
    /\ NoFile \notin CsvFile

(* recordLimit: as many rows as the duration and the cadence allow, and two. *)
RecordLimit == MaxDuration \div LogInterval + 2

NoSample == [runId |-> 0, seq |-> 0, ms |-> 0, fault |-> FALSE]
HeadOf(id) == [kind |-> "head", runId |-> id]
Footer(why, n, elapsed) == [kind |-> "end", reason |-> why, rows |-> n, elapsed |-> elapsed]
EmptyFile == [lines |-> <<>>, torn |-> FALSE, synced |-> 0]

(* The members a start, an erase and a format reset. *)
Fresh(c) ==
    [c EXCEPT !.runId = 0, !.count = 0, !.valid = 0, !.lastAcq = 0, !.lastMs = 0,
              !.latest = NoSample, !.fault = FALSE, !.gap = FALSE, !.error = FALSE,
              !.state = "idle"]
Unmounted == [mounted |-> FALSE, hasRun |-> FALSE, recording |-> FALSE, reader |-> FALSE,
              sent |-> 0, runId |-> 0, count |-> 0, valid |-> 0, lastAcq |-> 0, lastMs |-> 0,
              latest |-> NoSample, fault |-> FALSE, gap |-> FALSE, error |-> FALSE, state |-> "idle"]

Outcome(c, f, ok) == [rec |-> c, file |-> f, ok |-> ok]
FailStop(c) == [c EXCEPT !.error = TRUE, !.state = "error", !.recording = FALSE]

-----------------------------------------------------------------------------
(* Storage (FeatherCsvStorage): a write that fails may leave a part of the line;
   fsync makes everything before it durable. *)
Wrote(f, line) == [f EXCEPT !.lines = Append(@, line)]
HalfWrote(f) == {f, [f EXCEPT !.torn = TRUE]}
Synced(f) == [f EXCEPT !.synced = Len(f.lines)]

(* The common end of start, logRow and endRun: the line is written, counted, and
   synced.  counted is the recorder once the line is in the file, done once it is
   durable.  Mutant: a line counts only once it is durable. *)
PutLineLate(c, f, line, counted, done) ==
    {Outcome(FailStop(c), g, FALSE) : g \in HalfWrote(f) \cup {Wrote(f, line)}}
    \cup {Outcome(done, Synced(Wrote(f, line)), TRUE)}
PutLine(c, f, line, counted, done) ==
    {Outcome(FailStop(c), g, FALSE) : g \in HalfWrote(f)}
    \cup {Outcome(FailStop(counted), Wrote(f, line), FALSE),
          Outcome(done, Synced(Wrote(f, line)), TRUE)}

-----------------------------------------------------------------------------
(* The boot scan.  A row is valid by what stands before it. *)
IsHead(l) == l.kind = "head" /\ l.runId > 0
RowsBefore(f, k) == k - 2
ValidRow(f, k) ==
    LET r == f.lines[k]  before == f.lines[k - 1]
    IN  /\ r.kind = "row" /\ k > 1
        /\ RowsBefore(f, k) < RecordLimit
        /\ r.runId = f.lines[1].runId /\ r.logSeq = RowsBefore(f, k) + 1
        /\ r.acqSeq # 0 /\ r.ms <= MaxDuration
        /\ k > 2 => before.acqSeq < r.acqSeq /\ before.ms < r.ms /\ ~before.terminal

ValidFooter(f, k) ==
    LET e == f.lines[k]
    IN  /\ e.kind = "end" /\ k > 1 /\ e.rows = RowsBefore(f, k)
        /\ k > 2 => e.elapsed >= f.lines[k - 1].ms
        /\ e.elapsed <= MaxDuration
        /\ e.reason = "duration_limit" => e.elapsed = MaxDuration

(* Lines up to the first that is neither the head in its place nor a valid row. *)
ValidLine(f, k) == IF k = 1 THEN IsHead(f.lines[1]) ELSE ValidRow(f, k)
ContentEnd(f) ==
    CHOOSE n \in 0..Len(f.lines) :
       /\ \A k \in 1..n : ValidLine(f, k)
       /\ n < Len(f.lines) => ~ValidLine(f, n + 1)

(* scanSavedRun: the footer counts if it is the last byte of the file. *)
Scan(f) ==
    LET n == ContentEnd(f)
        ended == n > 0 /\ n + 1 = Len(f.lines) /\ ~f.torn /\ ValidFooter(f, n + 1)
    IN  IF n = 0 THEN [runId |-> 0, rows |-> 0, valid |-> 0, state |-> "error"]
        ELSE [runId |-> f.lines[1].runId, rows |-> n - 1,
              valid |-> IF ended THEN n + 1 ELSE n,
              state |-> IF ended THEN f.lines[n + 1].reason ELSE "interrupted"]

(* begin(): mounts unless mounted, and reads what is there; either may fail. *)
Begin(c, f) ==
    LET up == [Unmounted EXCEPT !.mounted = TRUE]
        lost == [up EXCEPT !.hasRun = TRUE, !.error = TRUE, !.state = "error"]
        s == Scan(f)
        last == f.lines[s.rows + 1]
    IN  IF c.recording \/ c.reader THEN {Outcome(c, f, FALSE)}
        ELSE (IF c.mounted THEN {} ELSE {Outcome([c EXCEPT !.error = TRUE, !.state = "error"], f, FALSE)})
             \cup IF f = NoFile THEN {Outcome(up, f, TRUE)}
                  ELSE {Outcome(lost, f, FALSE),
                        Outcome([up EXCEPT !.hasRun = TRUE, !.runId = s.runId, !.count = s.rows,
                                           !.valid = s.valid, !.state = s.state,
                                           !.error = s.runId = 0,
                                           !.lastAcq = IF s.rows = 0 THEN 0 ELSE last.acqSeq,
                                           !.lastMs = IF s.rows = 0 THEN 0 ELSE last.ms], f, TRUE)}

-----------------------------------------------------------------------------
CanStart(c) == c.mounted /\ ~c.recording /\ ~c.reader /\ ~c.hasRun /\ ~c.error

(* start(): the exclusive create refuses a file that is there after all. *)
StartRun(c, f, id) ==
    LET made == [Fresh(c) EXCEPT !.hasRun = TRUE, !.runId = id]
        counted == [made EXCEPT !.valid = 1]
    IN  IF id = 0 \/ ~CanStart(c) THEN {Outcome(c, f, FALSE)}
        ELSE {Outcome(c, f, FALSE),  \* no space
              Outcome(IF f = NoFile THEN [c EXCEPT !.error = TRUE, !.state = "error"]
                      ELSE [c EXCEPT !.hasRun = TRUE, !.runId = 0, !.count = 0, !.valid = 0,
                                     !.error = TRUE, !.state = "error"], f, FALSE)}
             \cup (IF f # NoFile THEN {}
                   ELSE PutLine(made, EmptyFile, HeadOf(id), counted,
                                [counted EXCEPT !.recording = TRUE, !.state = "recording"]))

(* logRow(): a row that does not fit the order, the limit or the space ends the
   recording. *)
Row(c, s, isTerminal) ==
    [kind |-> "row", runId |-> c.runId, logSeq |-> c.count + 1, acqSeq |-> s.seq, ms |-> s.ms,
     intervalFault |-> c.fault, terminal |-> isTerminal, gap |-> c.gap]
Loggable(c, s) ==
    /\ c.count < RecordLimit /\ s.seq # 0 /\ s.ms <= MaxDuration
    /\ c.count > 0 => s.ms > c.lastMs /\ s.seq > c.lastAcq
LogRow(c, f, s, isTerminal) ==
    LET counted == [c EXCEPT !.valid = @ + 1, !.count = @ + 1, !.lastAcq = s.seq,
                             !.lastMs = s.ms, !.fault = FALSE, !.gap = FALSE]
    IN  {Outcome(FailStop(c), f, FALSE)}  \* no space, or not loggable
        \cup IF Loggable(c, s) THEN PutLine(c, f, Row(c, s, isTerminal), counted, counted) ELSE {}

(* endRun() *)
EndRun(c, f, why, elapsed) ==
    LET counted == [c EXCEPT !.valid = @ + 1]
    IN  PutLine(c, f, Footer(why, c.count, elapsed), counted,
                [counted EXCEPT !.recording = FALSE, !.state = why])

(* finishRun(): the latest acquisition first, unless it is the last row already.
   Mutant: the footer goes behind whatever was logged. *)
Unselected(c) ==
    c.latest.seq # 0 /\ c.latest.ms <= MaxDuration
    /\ (c.count = 0 \/ c.latest.seq # c.lastAcq) /\ c.count < RecordLimit
FinishRunAtOnce(c, f, why, elapsed) == EndRun(c, f, why, elapsed)
FinishRun(c, f, why, elapsed) ==
    IF ~Unselected(c) THEN EndRun(c, f, why, elapsed)
    ELSE UNION {IF o.ok THEN EndRun(o.rec, o.file, why, elapsed) ELSE {o} :
                o \in LogRow(c, f, c.latest, TRUE)}

(* onSample().  Mutant: a hole, or a fault, is noted only for the sample logged. *)
IsGap(c, s) ==
    /\ c.latest.seq # 0
    /\ \/ s.ms - c.latest.ms > AcquireInterval + AcquireInterval \div 2
       \/ s.seq # c.latest.seq + 1
NotedForgetful(c, s) == [c EXCEPT !.fault = s.fault, !.gap = IsGap(c, s), !.latest = s]
Noted(c, s) == [c EXCEPT !.fault = @ \/ s.fault, !.gap = @ \/ IsGap(c, s), !.latest = s]
InOrder(c, s) == s.seq # 0 /\ (c.latest.seq # 0 => s.seq > c.latest.seq /\ s.ms > c.latest.ms)
OnSample(c, f, s) ==
    IF ~c.recording \/ s.runId # c.runId THEN {Outcome(c, f, FALSE)}
    ELSE IF s.ms > MaxDuration THEN FinishRun(c, f, "duration_limit", MaxDuration)
    ELSE IF ~InOrder(c, s) THEN {Outcome(FailStop(c), f, FALSE)}
    ELSE IF s.ms = MaxDuration THEN FinishRun(Noted(c, s), f, "duration_limit", MaxDuration)
    ELSE IF c.count = 0 \/ s.ms - c.lastMs >= LogInterval THEN LogRow(Noted(c, s), f, s, FALSE)
    ELSE {Outcome(Noted(c, s), f, TRUE)}

(* stop(elapsedMs) *)
StopRun(c, f, elapsed) ==
    IF ~c.recording THEN {Outcome(c, f, FALSE)}
    ELSE IF c.latest.seq # 0 /\ elapsed < c.latest.ms THEN {Outcome(FailStop(c), f, FALSE)}
    ELSE IF elapsed >= MaxDuration THEN FinishRun(c, f, "duration_limit", MaxDuration)
    ELSE FinishRun(c, f, "complete", elapsed)

-----------------------------------------------------------------------------
(* erase(expectedRunId), and format() *)
Erasable(c, id) == ~c.recording /\ ~c.reader /\ c.mounted /\ c.hasRun /\ id = c.runId
EraseRun(c, f, id) ==
    IF ~Erasable(c, id) THEN {Outcome(c, f, FALSE)}
    ELSE {Outcome([c EXCEPT !.error = TRUE, !.state = "error"], f, FALSE)}
         \cup IF f = NoFile THEN {} ELSE {Outcome([Fresh(c) EXCEPT !.hasRun = FALSE], NoFile, TRUE)}

FormatVolume(c, f) ==
    IF c.recording \/ c.reader \/ c.hasRun THEN {Outcome(c, f, FALSE)}
    ELSE {Outcome([c EXCEPT !.mounted = FALSE, !.error = TRUE, !.state = "error"], g, FALSE) :
             g \in {f, NoFile}}
         \cup {Outcome([Fresh(c) EXCEPT !.mounted = TRUE], NoFile, TRUE)}

(* openDownload, readDownload of n lines, closeDownload *)
Downloadable(c, id) ==
    ~c.recording /\ ~c.reader /\ c.mounted /\ c.hasRun /\ id = c.runId /\ c.valid # 0
Opened(c) == [c EXCEPT !.reader = TRUE, !.sent = 0]
Advanced(c, n) == [c EXCEPT !.sent = @ + n]
Closed(c) == [c EXCEPT !.reader = FALSE, !.sent = 0]
=============================================================================
