---------------------------- MODULE SingleRunCsv ---------------------------
(***************************************************************************)
(* The recorder of lib/SingleRunCsv run alone, as its native tests run it: *)
(* its methods called in any order with any argument, on a volume that may *)
(* refuse any operation, and a supply that may fail at any time.           *)
(***************************************************************************)
EXTENDS CsvRecorder

CONSTANTS
    Run,      \* run identities a caller passes
    MaxSeq,   \* bound: acquisitions numbered 0..MaxSeq
    MaxMs     \* bound: timestamps and stop times

ASSUME BoundAssumption == Run \subseteq Nat \ {0} /\ {MaxSeq, MaxMs} \subseteq Nat

VARIABLES
    rec,       \* the recorder
    file,      \* the saved file, or NoFile
    accepted   \* history: the samples the run of the file consumed

vars == <<rec, file, accepted>>

Init == rec = Unmounted /\ file = NoFile /\ accepted = <<>>

(* A call, and the samples the run has consumed after it. *)
Call(outcomes, consumed) ==
    \E o \in outcomes : rec' = o.rec /\ file' = o.file /\ accepted' = consumed

Consumes(s) == /\ rec.recording /\ s.runId = rec.runId /\ s.ms <= MaxDuration
               /\ InOrder(rec, s)

Mount == Call(Begin(rec, file), accepted)
Start(id) == Call(StartRun(rec, file, id), IF file = NoFile THEN <<>> ELSE accepted)
Sample(s) ==
    Call(OnSample(rec, file, s), IF Consumes(s) THEN Append(accepted, s) ELSE accepted)
Stop(elapsed) == Call(StopRun(rec, file, elapsed), accepted)
Erase(id) == Call(EraseRun(rec, file, id), accepted)
Format == Call(FormatVolume(rec, file), accepted)
OpenDownload(id) == Downloadable(rec, id) /\ rec' = Opened(rec) /\ UNCHANGED <<file, accepted>>
CloseDownload == rec.reader /\ rec' = Closed(rec) /\ UNCHANGED <<file, accepted>>

(* The supply fails: what was synced stays, what was written since may be there
   in part, up to the middle of a line; a file never synced may be gone. *)
AfterLoss(f) ==
    IF f = NoFile THEN {NoFile}
    ELSE {g \in {[lines |-> SubSeq(f.lines, 1, n), torn |-> t, synced |-> n] :
                    n \in f.synced..Len(f.lines), t \in BOOLEAN} :
             g.torn => g.synced < Len(f.lines) \/ f.torn}
         \cup IF f.synced = 0 THEN {NoFile} ELSE {}

PowerLoss == rec' = Unmounted /\ file' \in AfterLoss(file) /\ UNCHANGED accepted

Next ==
    \/ Mount \/ Format \/ CloseDownload \/ PowerLoss
    \/ \E id \in Run \cup {0} : Start(id) \/ Erase(id) \/ OpenDownload(id)
    \/ \E id \in Run, n \in 0..MaxSeq, t \in 0..MaxMs, b \in BOOLEAN :
          Sample([runId |-> id, seq |-> n, ms |-> t, fault |-> b])
    \/ \E t \in 0..MaxMs : Stop(t)

Spec == Init /\ [][Next]_vars

-----------------------------------------------------------------------------
(* Nothing the recorder writes is refused by the boot scan, and what a reboot would
   recover is what is reported now: after any calls and losses every complete line
   of the file, the footer included, belongs to the validated prefix, and status
   reports exactly that prefix, also when the sync behind a line is what failed. *)
EveryLineCounts ==
    /\ file # NoFile => Scan(file).valid = Len(file.lines)
    /\ rec.hasRun /\ rec.runId # 0 => /\ rec.valid = Scan(file).valid
                                     /\ rec.count = Scan(file).rows

(* A file that says how its run ended holds the run to its end: its last row is
   the last acquisition of the run, the footer stands at or behind it, and the
   cut-off reason is the cut-off time. *)
EndedMeansWhole ==
    file # NoFile /\ Scan(file).state \in {"complete", "duration_limit"} =>
        LET footer == Last(file.lines)
            before == file.lines[Len(file.lines) - 1]
        IN  /\ accepted # <<>> => /\ before.kind = "row"
                                 /\ before.acqSeq = Last(accepted).seq
                                 /\ footer.elapsed >= Last(accepted).ms
            /\ (footer.reason = "duration_limit") <=> (footer.elapsed = MaxDuration)

(* Every acquisition is accounted for by the row that follows it: a fault or a
   hole anywhere since the row before marks this row, and nothing else does; rows
   keep the cadence, and no acquisition a full interval past a row is passed over.
   Row k of the file f tells this of the acquisitions a. *)
HoleIn(a, i) == \/ a[i].seq # a[i - 1].seq + 1
                \/ a[i].ms - a[i - 1].ms > AcquireInterval + AcquireInterval \div 2
Window(a, from, upto) == {i \in 1..Len(a) : a[i].seq > from /\ a[i].seq <= upto}
From(f, k) == IF k = 2 THEN 0 ELSE f.lines[k - 1].acqSeq
Told(f, k, a) ==
    LET row == f.lines[k]
        W == Window(a, From(f, k), row.acqSeq)
    IN  /\ \E i \in W : a[i].seq = row.acqSeq /\ a[i].ms = row.ms
        /\ row.intervalFault <=> \E i \in W : a[i].fault
        /\ row.gap <=> \E i \in W \ {1} : HoleIn(a, i)
        /\ k > 2 /\ ~row.terminal => row.ms - f.lines[k - 1].ms >= LogInterval
        /\ k > 2 => \A i \in W : a[i].ms - f.lines[k - 1].ms >= LogInterval
                                     => a[i].seq = row.acqSeq
Accounts(f, a) == \A k \in 2..Len(f.lines) : f.lines[k].kind = "row" => Told(f, k, a)
RowsTellAll == file # NoFile => Accounts(file, accepted)
=============================================================================
