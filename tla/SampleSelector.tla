--------------------------- MODULE SampleSelector ---------------------------
(***************************************************************************)
(* lib/RunLog/RunRecorder.cpp: the selector that turns the 1 Hz            *)
(* acquisition stream of one run into the sparser logged stream.  The      *)
(* selector's fields are one record, and reset / select / finish / emit    *)
(* are operators on it: RunRecorder runs the selector alone against every  *)
(* input stream, RunLogService runs it inside the logging service.         *)
(* A fault byte is a set of bits: its bitwise OR is a union.               *)
(***************************************************************************)
EXTENDS Naturals, Sequences

CONSTANTS
    RunId,            \* run identities a sample may carry; 0 is "idle"
    FaultBit,         \* bits of the thermocouple fault byte
    AcquireInterval,  \* runlog::kAcquireIntervalMs
    LogInterval,      \* runlog::kLogIntervalMs
    MaxDuration       \* runlog::kMaxDurationMs

ASSUME RecorderAssumption ==
    /\ RunId \subseteq Nat \ {0}
    /\ AcquireInterval \in Nat \ {0}
    /\ LogInterval \in Nat \ {0}
    /\ MaxDuration \in Nat

Sample == [runId : RunId \cup {0}, seq : Nat, ms : Nat, fault : SUBSET FaultBit]
Record == [logSeq : Nat, acqSeq : Nat, ms : Nat, fault : SUBSET FaultBit,
           intervalFault : SUBSET FaultBit, gap : BOOLEAN, terminal : BOOLEAN]

(* Acquisition numbers start at 1, so a sample numbered 0 stands for "none":
   haveAcq_ and haveLatest_ are acq.seq # 0 and latest.seq # 0, and haveLogged_
   is nextLogSeq > 1. *)
NoSample == [runId |-> 0, seq |-> 0, ms |-> 0, fault |-> {}]

GapThreshold == AcquireInterval + AcquireInterval \div 2

Reset(r) ==
    [runId |-> r, active |-> r # 0, acq |-> NoSample, latest |-> NoSample,
     gapPending |-> FALSE, lastLoggedMs |-> 0, nextLogSeq |-> 1,
     intervalFault |-> {}]

(* The samples select() consumes; every other one leaves the selector alone. *)
Accepts(rec, s) ==
    /\ rec.active
    /\ s.runId = rec.runId
    /\ s.seq # 0
    /\ s.ms <= MaxDuration
    /\ rec.acq.seq # 0 => s.seq > rec.acq.seq /\ s.ms > rec.acq.ms

IsGap(rec, s) == rec.acq.seq # 0 /\ s.ms - rec.acq.ms > GapThreshold

(* Mutant: a later acquisition wipes out the hole noted before. *)
ConsumeForgetsGap(rec, s) ==
    [rec EXCEPT !.acq = s, !.gapPending = IsGap(rec, s),
                !.intervalFault = rec.intervalFault \cup s.fault]

(* The first half of select(): note the acquisition. *)
Consume(rec, s) ==
    [rec EXCEPT !.acq = s,
                !.gapPending = rec.gapPending \/ IsGap(rec, s),
                !.intervalFault = rec.intervalFault \cup s.fault]

(* Mutant: a sample exactly one interval after the last record is held. *)
HeldTooLong(rec, s) == rec.nextLogSeq > 1 /\ s.ms - rec.lastLoggedMs <= LogInterval

(* Too soon after the last record: the sample is only held for finish(). *)
Held(rec, s) == rec.nextLogSeq > 1 /\ s.ms - rec.lastLoggedMs < LogInterval

Emitted(rec, s, isTerminal) ==
    [logSeq |-> rec.nextLogSeq, acqSeq |-> s.seq, ms |-> s.ms, fault |-> s.fault,
     intervalFault |-> rec.intervalFault, gap |-> rec.gapPending,
     terminal |-> isTerminal]

AfterEmit(rec, s) ==
    [rec EXCEPT !.nextLogSeq = rec.nextLogSeq + 1, !.gapPending = FALSE,
                !.intervalFault = {}, !.lastLoggedMs = s.ms,
                !.latest = NoSample]

(* Mutant: the first held sample is kept, not the last. *)
SelectKeepsFirst(rec, s) ==
    IF ~Accepts(rec, s) THEN rec
    ELSE IF Held(rec, s)
         THEN [Consume(rec, s) EXCEPT !.latest = IF rec.latest.seq = 0 THEN s ELSE rec.latest]
    ELSE AfterEmit(Consume(rec, s), s)

(* select(): the selector after s, and the records (none or one) it returns. *)
Select(rec, s) ==
    IF ~Accepts(rec, s) THEN rec
    ELSE IF Held(rec, s) THEN [Consume(rec, s) EXCEPT !.latest = s]
    ELSE AfterEmit(Consume(rec, s), s)
Selected(rec, s) ==
    IF Accepts(rec, s) /\ ~Held(rec, s)
    THEN <<Emitted(Consume(rec, s), s, FALSE)>> ELSE <<>>

(* finish(): closes the selector; a held acquisition leaves as the terminal
   record, an already selected one is never logged twice. *)
MustFinish(rec) == rec.active /\ rec.latest.seq # 0
Finish(rec) ==
    LET closed == [rec EXCEPT !.active = FALSE]
    IN  IF MustFinish(rec) THEN AfterEmit(closed, rec.latest) ELSE closed
Finished(rec) ==
    IF MustFinish(rec) THEN <<Emitted(rec, rec.latest, TRUE)>> ELSE <<>>
=============================================================================
