---------------------------- MODULE EventJournal ----------------------------
(***************************************************************************)
(* The event journal (events.bin) of one run, the RAM cache that marker    *)
(* requests are answered from, and the owner-loop step that answers them:  *)
(* appendEventInternal, preserveInvalidTail, warmMarkerCacheStep and       *)
(* finalize of lib/RunLog/RunArchiveStore.cpp, and mutateMarkerStep of     *)
(* lib/RunLog/RunLogService.cpp.                                           *)
(*                                                                         *)
(* The journal is its valid frames and, after a short write, a torn tail.  *)
(* Reading a long journal takes several owner-loop turns (warm), and the   *)
(* run may be finalized between two of them. A failing write or fsync      *)
(* leaves any part of the frame behind, so a power loss inside an append   *)
(* is a failing append followed by PowerLoss.                              *)
(***************************************************************************)
EXTENDS MarkerReducer

CONSTANTS
    Budget,        \* kEventBudgetBytes
    Reserve,       \* kLifecycleReserveBytes
    FramesPerStep, \* frames one warm step reads; one step ingests as many
    MaxBase,       \* bound: base revisions clients ask for
    MaxFaults,     \* bound: failing file-system calls
    MaxLosses      \* bound: power losses

ASSUME JournalAssumption ==
    /\ {Budget, Reserve, MaxBase, MaxFaults, MaxLosses} \subseteq Nat
    /\ FramesPerStep \in Nat \ {0}
    \* The reserve holds run.ended, the rest of the budget run.started.
    /\ Reserve >= 1 /\ Reserve < Budget

VARIABLES
    frames,   \* the valid frames a reader of events.bin sees
    synced,   \* how many of them survive a power loss
    torn,     \* an invalid suffix follows them
    active,   \* the run is st.activeRunId
    metaRev,  \* st.activeMeta.eventRevision
    warm,     \* the warm cache: st.warm*, st.journalCache and the reducer
    job,      \* the marker mutation at the head of the job queue, or NoJob
    faults, losses,
    acked,    \* history: the frame each operation, and the end of the run
              \* (NoOp), was last acknowledged with
    conflict  \* history: finalize() was refused with REVISION_CONFLICT

vars == <<frames, synced, torn, active, metaRev, warm, job, faults, losses, acked, conflict>>

NoJob == [kind |-> "none", op |-> NoOp, id |-> NoMarker, base |-> 0]
NotAcked == [rev |-> 0, frame |-> NoJob]
AckedWith(o, i, f) == acked' = [acked EXCEPT ![o] = [rev |-> i, frame |-> f]]

(* Sizes: a frame without a note and a torn tail are one unit, a note is one more. *)
HasNote(f) == f.kind \in {"created", "updated"}
Bytes(f) == IF HasNote(f) THEN 2 ELSE 1
SizeOf(journal) == Len(journal) + Cardinality({i \in 1..Len(journal) : HasNote(journal[i])})
FileSize == SizeOf(frames) + (IF torn THEN 1 ELSE 0)

IdleWarm == [phase |-> "idle", cache |-> <<>>, reduced |-> 0, size |-> 0, tail |-> FALSE]

Init ==
    /\ frames = <<Started>> /\ synced = 1 /\ torn = FALSE
    /\ active = TRUE /\ metaRev = 1
    /\ warm = IdleWarm /\ job = NoJob
    /\ faults = 0 /\ losses = 0
    /\ acked = [o \in Op \cup {NoOp} |-> NotAcked] /\ conflict = FALSE

Fault == faults < MaxFaults /\ faults' = faults + 1

-----------------------------------------------------------------------------
(* appendEventInternal() of a frame built for revision rev: the torn tail is
   copied aside and cut off, the file fsynced, and only then the revision and
   the budget are looked at. *)

(* Mutant of Fits: the reserve is forgotten. *)
FitsWithoutReserve(f) == SizeOf(frames) + Bytes(f) <= Budget
Fits(f) ==
    SizeOf(frames) + Bytes(f) <= IF f.op = NoOp THEN Budget ELSE Budget - Reserve

(* Mutant of AppendWorks: the warm cache outlives the append. *)
AppendKeepsCache(f, rev) ==
    /\ torn' = FALSE
    /\ rev = Len(frames) + 1 /\ Fits(f)
    /\ frames' = Append(frames, f) /\ synced' = Len(frames')
    /\ UNCHANGED <<warm, faults>>

AppendWorks(f, rev) ==
    /\ torn' = FALSE
    /\ \/ /\ rev = Len(frames) /\ frames[rev] = f
          /\ UNCHANGED <<frames, warm>>
       \/ /\ rev = Len(frames) + 1 /\ Fits(f)
          /\ frames' = Append(frames, f) /\ warm' = IdleWarm
    /\ synced' = Len(frames')
    /\ UNCHANGED faults

Rejected(f, rev) ==
    \/ rev < Len(frames)
    \/ rev = Len(frames) /\ frames[rev] # f
    \/ rev = Len(frames) + 1 /\ ~Fits(f)
    \/ rev > Len(frames) + 1

AppendRejected(f, rev) ==
    /\ Rejected(f, rev)
    /\ torn' = FALSE /\ synced' = Len(frames)
    /\ UNCHANGED <<frames, warm, faults>>

(* In order: the tail could not be set aside; the fsync before the append
   failed; there was no room; the frame was not written or not fsynced. *)
AppendFails(f, rev) ==
    /\ Fault
    /\ \/ torn /\ torn' \in BOOLEAN /\ UNCHANGED <<frames, synced, warm>>
       \/ /\ torn' = FALSE /\ synced' = (IF torn THEN Len(frames) ELSE synced)
          /\ warm' = IdleWarm /\ UNCHANGED frames
       \/ /\ ~Rejected(f, rev) /\ torn' = FALSE /\ synced' = Len(frames)
          /\ UNCHANGED <<frames, warm>>
       \/ /\ ~Rejected(f, rev) /\ synced' = Len(frames) /\ warm' = IdleWarm
          /\ \/ frames' = Append(frames, f) /\ torn' = FALSE
             \/ UNCHANGED frames /\ torn' \in BOOLEAN

-----------------------------------------------------------------------------
(* finalize(): run.ended at the revision after the one the writer believes is
   the last; the writer is closed whatever the outcome. *)
FinalizeRun ==
    /\ active /\ active' = FALSE
    /\ LET rev == metaRev + 1
       IN  \/ /\ AppendWorks(Ended, rev) /\ AckedWith(NoOp, rev, Ended)
              /\ metaRev' = rev /\ UNCHANGED conflict
           \/ /\ AppendRejected(Ended, rev)
              /\ conflict' = (rev <= Len(frames)) /\ UNCHANGED <<acked, metaRev>>
           \/ AppendFails(Ended, rev) /\ UNCHANGED <<acked, metaRev, conflict>>
    /\ UNCHANGED <<job, losses>>

-----------------------------------------------------------------------------
(* warmMarkerCacheStep(): one owner-loop turn of the job at the head. *)

Untouched == UNCHANGED <<frames, synced, torn, metaRev, faults, job>>

(* The frames this step reads, and whether it met the tail. *)
ReadOn(w) ==
    LET far == Len(w.cache) + FramesPerStep
        to == IF far < Len(frames) THEN far ELSE Len(frames)
    IN  [w EXCEPT !.phase = "reading", !.size = FileSize,
                  !.cache = SubSeq(frames, 1, to),
                  !.tail = torn /\ to = Len(frames)]

(* Mutant of MoreToRead: a tail is waited for as if it were still growing. *)
WaitsForTail(w) == SizeOf(w.cache) < FileSize

MoreToRead(w) == ~w.tail /\ SizeOf(w.cache) < FileSize

Ingested(w) ==
    LET far == w.reduced + FramesPerStep
    IN  [w EXCEPT !.phase = "reducing",
                  !.reduced = IF far < Len(w.cache) THEN far ELSE Len(w.cache)]

Reducible(journal) == \A i \in 1..Len(journal) : Accepts(SubSeq(journal, 1, i - 1), journal[i])

(* The whole cache is ingested: the file is compared with the size it was read
   at, its tail is set aside and cut off, and what is left is fsynced. *)
Conclude(w) ==
    \/ FileSize < w.size /\ warm' = IdleWarm /\ Untouched
    \/ ~w.tail /\ FileSize > w.size
       /\ warm' = [w EXCEPT !.phase = "reading", !.size = FileSize] /\ Untouched
    \/ /\ FileSize >= w.size /\ (w.tail \/ FileSize = w.size)
       /\ \/ /\ frames' = IF w.tail THEN w.cache ELSE frames
             /\ torn' = (torn /\ ~w.tail)
             /\ synced' = Len(frames')
             /\ warm' = [w EXCEPT !.phase = "ready", !.tail = FALSE,
                                  !.size = IF w.tail THEN SizeOf(w.cache) ELSE w.size]
             /\ metaRev' = IF active THEN Len(w.cache) ELSE metaRev
             /\ UNCHANGED <<faults, job>>
          \/ /\ Fault /\ warm' = IdleWarm /\ job' = NoJob
             /\ torn' \in {torn, torn /\ ~w.tail}
             /\ UNCHANGED <<frames, synced, metaRev>>

(* warmReduceStep(). An error of the reducer or of the look at the file answers
   the request, and stays in the cache until somebody resets it. *)
Reduce(w) ==
    LET v == Ingested(w)
        accepted == Reducible(SubSeq(v.cache, 1, v.reduced))
    IN  \/ accepted /\ v.reduced < Len(v.cache) /\ warm' = v /\ Untouched
        \/ accepted /\ v.reduced = Len(v.cache) /\ Conclude(v)
        \/ /\ accepted => v.reduced = Len(v.cache) /\ faults < MaxFaults
           /\ faults' = IF accepted THEN faults + 1 ELSE faults
           /\ warm' = [v EXCEPT !.phase = "error"] /\ job' = NoJob
           /\ UNCHANGED <<frames, synced, torn, metaRev>>

(* The cache is taken to be current when the file still has its size. *)
Current == warm.phase = "ready" /\ FileSize = warm.size

(* It runs for the mutation at the head, or for a read of the events. *)
WarmStep ==
    /\ ~Current /\ warm.phase # "error"
    /\ \/ warm.phase = "ready" /\ FileSize < warm.size /\ warm' = IdleWarm /\ Untouched
       \/ warm.phase = "reducing" /\ Reduce(warm)
       \/ /\ warm.phase \in {"idle", "reading"} \/ (warm.phase = "ready" /\ FileSize > warm.size)
          /\ \/ MoreToRead(ReadOn(warm)) /\ warm' = ReadOn(warm) /\ Untouched
             \/ ~MoreToRead(ReadOn(warm)) /\ Reduce(ReadOn(warm))
    /\ UNCHANGED <<active, losses, acked, conflict>>

(* Another job warms the cache for another run, or a Start takes its buffer. *)
Displace ==
    /\ job = NoJob /\ warm # IdleWarm /\ warm' = IdleWarm
    /\ Untouched /\ UNCHANGED <<active, losses, acked, conflict>>

-----------------------------------------------------------------------------
(* A marker route hands over a mutation; the same one may come again. *)
Ask(m) ==
    /\ job = NoJob /\ job' = m
    /\ UNCHANGED <<frames, synced, torn, active, metaRev, warm, faults, losses, acked, conflict>>

Answer == job # NoJob /\ job' = NoJob

(* Mutant of Replay: it answers with the journal's latest revision. *)
ReplayLatest ==
    /\ Answer /\ Current
    /\ \E i \in Recorded(warm.cache, job.op) :
          IF warm.cache[i] = job THEN AckedWith(job.op, Len(warm.cache), job) ELSE UNCHANGED acked
    /\ UNCHANGED <<frames, synced, torn, active, metaRev, warm, faults, losses, conflict>>

(* mutateMarkerStep() on a current cache. An operation the journal records is
   answered from it, before any other check. *)
Replay ==
    /\ Answer /\ Current
    /\ \E i \in Recorded(warm.cache, job.op) :
          IF warm.cache[i] = job THEN AckedWith(job.op, i, job) ELSE UNCHANGED acked
    /\ UNCHANGED <<frames, synced, torn, active, metaRev, warm, faults, losses, conflict>>

Fresh == Current /\ Recorded(warm.cache, job.op) = {}

(* The marker is unknown or deleted, its revision is not the base, or (which
   this module does not tell apart) the time or the text is out of range. *)
Refuse ==
    /\ Answer /\ Fresh
    /\ UNCHANGED <<frames, synced, torn, active, metaRev, warm, faults, losses, acked, conflict>>

(* The writer learns the revision of a frame appended to its own run. *)
RevisionAfter(rev) == IF active THEN rev ELSE metaRev

Mutate ==
    /\ Answer /\ Fresh /\ Applicable(warm.cache, job)
    /\ LET rev == Len(warm.cache) + 1
       IN  \/ /\ AppendWorks(job, rev) /\ AckedWith(job.op, rev, job)
              /\ metaRev' = RevisionAfter(rev)
           \/ AppendRejected(job, rev) /\ UNCHANGED <<acked, metaRev>>
           \/ AppendFails(job, rev) /\ UNCHANGED <<acked, metaRev>>
    /\ UNCHANGED <<active, losses, conflict>>

(* A call fails while the run, its metadata or its journal is looked at, or
   the cache is in error: the request is answered with the error. *)
AnswerError ==
    /\ Answer
    /\ \/ warm.phase = "error" /\ UNCHANGED <<warm, faults>>
       \/ Fault /\ warm.phase # "idle" /\ UNCHANGED warm
       \/ Fault /\ warm.phase = "idle" /\ warm' \in {warm, [warm EXCEPT !.phase = "error"]}
    /\ UNCHANGED <<frames, synced, torn, active, metaRev, losses, acked, conflict>>

-----------------------------------------------------------------------------
(* The power fails: of what was not fsynced the file keeps any part. No run is
   active after a boot. A cut that was not fsynced and comes undone is a tail
   that was not cut: nothing is acknowledged between the two. *)
PowerLoss ==
    /\ losses < MaxLosses /\ losses' = losses + 1
    /\ \E kept \in synced..Len(frames) :
          /\ frames' = SubSeq(frames, 1, kept)
          /\ synced' = kept
          /\ torn' \in IF kept < Len(frames) \/ torn THEN BOOLEAN ELSE {FALSE}
    /\ active' = FALSE /\ metaRev' = 0
    /\ warm' = IdleWarm /\ job' = NoJob
    /\ UNCHANGED <<faults, acked, conflict>>

AskAny ==
    \E kind \in {"created", "updated", "deleted"}, op \in Op, id \in Marker, base \in 0..MaxBase :
        Ask([kind |-> kind, op |-> op, id |-> id, base |-> base])

Step == WarmStep \/ Replay \/ Refuse \/ Mutate \/ AnswerError
Next == AskAny \/ Step \/ FinalizeRun \/ Displace \/ PowerLoss

Spec == Init /\ [][Next]_vars

(* loop() runs archiveRoutes.poll() every turn, and the job at the head stays
   there until it is answered. *)
FairSpec == Spec /\ WF_vars(job # NoJob /\ Step)

-----------------------------------------------------------------------------
(* A mutation or an end of run that was acknowledged stays in the journal, at
   its revision and on the medium, through torn tails, their repair by either
   of the two repairers, and power losses; and what the writer appends its own
   reducer accepts when it next reads it: base revisions match, nothing is created
   twice, the run ends once.  Otherwise the markers of the run could never be read
   or changed again (CORRUPT_RUN). *)
AckedFramesSurvive ==
    /\ Reducible(frames)
    /\ \A o \in DOMAIN acked :
           LET a == acked[o] IN a.rev # 0 => a.rev <= synced /\ frames[a.rev] = a.frame

(* However often a client repeats an operation, and whatever became of the
   first try, the journal records it once. *)
AppliedOnce ==
    \A i, j \in 1..Len(frames) : frames[i].op = frames[j].op /\ frames[i].op # NoOp => i = j

(* While the run is being recorded it can end: markers cannot use up the bytes
   reserved for run.ended, and while no call fails the writer numbers its frames
   after the last one in the file, whoever appended or repaired it, so run.ended
   is not refused. *)
EndFits == /\ active => Fits(Ended)
           /\ faults = 0 => ~conflict

(* A repeated request is answered with the revision of the first answer. *)
AnswersAgree == [][\A o \in DOMAIN acked : acked[o].rev # 0 => acked'[o] = acked[o]]_vars

(* Every marker request is answered. *)
RequestAnswered == job # NoJob ~> job = NoJob

(* docs/n16r8-migration-plan.md:125: after an annotation's failed fsync no
   further append "until owner recovery validates actual prefix"; "only then
   rebuild reducer/durable revision". So run.ended is never refused because the
   writer's revision is behind the journal. *)
EndIsNotStale == ~conflict
=============================================================================
