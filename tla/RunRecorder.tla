---------------------------- MODULE RunRecorder ----------------------------
(***************************************************************************)
(* The selector of lib/RunLog/RunRecorder.cpp run alone: reset, select and *)
(* finish called in any order with any sample.                             *)
(***************************************************************************)
EXTENDS SampleSelector

CONSTANTS
    MaxSeq,           \* bound: acquisitions numbered 0..MaxSeq
    MaxMs             \* bound: timestamps offered to the selector

ASSUME BoundAssumption == {MaxSeq, MaxMs} \subseteq Nat

VARIABLES
    rec,       \* the selector
    log,       \* history: the records returned since the last reset
    accepted,  \* history: the samples consumed since the last reset
    mark,      \* history: mark[k] = Len(accepted) when record k was returned
    finished   \* history: finish() was called since the last reset

vars == <<rec, log, accepted, mark, finished>>

Restart(r) ==
    /\ rec' = Reset(r)
    /\ log' = <<>> /\ accepted' = <<>> /\ mark' = <<>> /\ finished' = FALSE

Init == /\ rec = Reset(0)
        /\ log = <<>> /\ accepted = <<>> /\ mark = <<>> /\ finished = FALSE

Returned(records) ==
    /\ log' = log \o records
    /\ mark' = mark \o [i \in 1..Len(records) |-> Len(accepted')]

SelectStep(s) ==
    /\ accepted' = IF Accepts(rec, s) THEN Append(accepted, s) ELSE accepted
    /\ rec' = Select(rec, s)
    /\ Returned(Selected(rec, s))
    /\ UNCHANGED finished

FinishStep ==
    /\ UNCHANGED accepted
    /\ rec' = Finish(rec)
    /\ Returned(Finished(rec))
    /\ finished' = TRUE

(* Every sample the acquisition path could hand over, in any order: numbers and
   timestamps that repeat, go back, jump, or belong to another run. *)
Next ==
    \/ \E r \in RunId \cup {0} : Restart(r)
    \/ \E r \in RunId \cup {0}, n \in 0..MaxSeq, t \in 0..MaxMs, f \in SUBSET FaultBit :
          SelectStep([runId |-> r, seq |-> n, ms |-> t, fault |-> f])
    \/ FinishStep

Spec == Init /\ [][Next]_vars

-----------------------------------------------------------------------------
(* The acquisitions record k answers for: those after record k-1's. *)
Window(k) == ((IF k = 1 THEN 0 ELSE mark[k - 1]) + 1)..mark[k]

(* Each record is, bit for bit, the last acquisition of its window and lies in
   the run's duration: select() returns the sample at hand and finish() the one
   it held.  A fault seen anywhere in the window, and a hole in the acquisition
   stream before any of its acquisitions, is carried by this record and no other,
   however many acquisitions are held between it and the record. *)
RecordsTellAll ==
    /\ Len(mark) = Len(log)
    /\ \A k \in 1..Len(log) :
          /\ Window(k) # {} /\ mark[k] <= Len(accepted)
          /\ log[k].logSeq = k
          /\ log[k].acqSeq = accepted[mark[k]].seq
          /\ log[k].ms = accepted[mark[k]].ms /\ log[k].ms <= MaxDuration
          /\ log[k].fault = accepted[mark[k]].fault
          /\ log[k].intervalFault = UNION {accepted[i].fault : i \in Window(k)}
          /\ log[k].gap <=> \E i \in Window(k) \ {1} :
                               accepted[i].ms - accepted[i - 1].ms > GapThreshold

(* Selection keeps the log cadence: consecutive records are at least one log
   interval apart unless the later one is terminal, and every acquisition
   passed over lies within a log interval of the record before it. *)
Cadence ==
    \A k \in 1..Len(log) :
        /\ k > 1 /\ ~log[k].terminal => log[k].ms - log[k - 1].ms >= LogInterval
        /\ \A i \in (mark[k] + 1)..(IF k < Len(log) THEN mark[k + 1] - 1 ELSE Len(accepted)) :
               accepted[i].ms - log[k].ms < LogInterval

(* After finish() nothing acquired is left out of the tail of the log: its last
   record is the last acquisition, and only it can be terminal. *)
NothingHeldBack ==
    /\ finished /\ accepted # <<>> => /\ log # <<>>
                                      /\ log[Len(log)].acqSeq = accepted[Len(accepted)].seq
    /\ \A k \in 1..Len(log) : log[k].terminal => finished /\ k = Len(log)

=============================================================================
