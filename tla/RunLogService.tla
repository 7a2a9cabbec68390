--------------------------- MODULE RunLogService ---------------------------
(***************************************************************************)
(* The logging service of the N16R8 target (lib/RunLog/RunLogService) with *)
(* the parts it drives: the run identity (lib/RunManager), the selector    *)
(* (lib/RunLog/RunRecorder), the acquisition tick (lib/SensorService) and  *)
(* the archive it writes to (RunArchive).                                  *)
(*                                                                         *)
(* Everything runs on one owner loop, src/main.cpp loop(): enforceLimit,   *)
(* sensor tick, poll, then at most one network command. A handler that     *)
(* makes several file-system calls is several steps here (job), because    *)
(* power may be lost between any two of them; no other handler runs in     *)
(* between. Power lost inside one operation of the store, which leaves it  *)
(* half done though no call failed, is PowerCut. With LoopOrder FALSE the  *)
(* service's calls come in any order, which is its contract as a component.*)
(*                                                                         *)
(* Time is the run's elapsed time in acquisition intervals: the code only  *)
(* ever uses nowMs - startMs, in uint32 arithmetic. A logged record is     *)
(* represented by its timestamp, an acquisition number by its timestamp    *)
(* plus one, since only their order matters.                               *)
(***************************************************************************)
EXTENDS RunArchive, SampleSelector

CONSTANTS
    QueueCap,    \* RUN_SAMPLE_QUEUE_CAPACITY
    Flush,       \* RUN_LOG_FLUSH_MS
    Complete,    \* the verdict of a run its user stopped
    LimitHit,    \* the verdict of a run the duration limit stopped
    LoopOrder,   \* TRUE: calls come in the order of loop()
    MaxStep,     \* bound: how far the clock moves between two loop turns
    MaxLag,      \* bound: how far it moves before a command is handled
    MaxFaults,   \* bound: failing file-system and NVS calls
    MaxBoots     \* bound: boots

ASSUME ServiceAssumption ==
    /\ RunId = Run /\ Reading = 0..MaxDuration
    /\ Verdict = {Complete, LimitHit, StorageError}
    /\ QueueCap \in Nat \ {0} /\ Flush \in Nat \ {0}
    /\ LoopOrder \in BOOLEAN
    /\ {MaxStep, MaxLag, MaxFaults, MaxBoots} \subseteq Nat
    /\ MaxDuration < (RawCapacity - 1) * LogInterval  \* 43202 records hold a full window

VARIABLES
    \* --- RunManager and RunLogService ---
    recording,    \* recording_; RunManager::running changes in the same steps
    elapsed,      \* the clock as last read, since the run's origin
    due,          \* SensorService: a sample has not been taken at this clock yet
    rec,          \* recorder_
    queue,        \* queue_
    overflowed,   \* overflowed_
    storeFailure, \* storeFailure_
    hasDirty,     \* hasDirty_
    dirtySince,   \* dirtySinceMs_
    lastSelected, \* lastSelectedLogSeq_
    svcDurable,   \* durableLogSeq_
    state,        \* state_
    published,    \* published_: what other tasks read
    \* --- the owner loop ---
    turn,         \* the next call of loop()
    job,          \* the handler under way
    \* --- environment and history ---
    boot,         \* bootId
    faults,       \* failed calls so far
    sent,         \* the Start commands clients have sent; they are never lost for good
    reply,        \* the last reply of this loop turn
    activatedBy,  \* which Start request activated each run, deleted ones included
    ran,          \* the last run activated in this boot, 0 if none
    newest        \* its last sample handed to enqueueSample, NoSample if none

loopVars == <<turn, job, boot, faults>>
serviceVars == <<recording, elapsed, due, rec, queue, overflowed, storeFailure, hasDirty,
                 dirtySince, lastSelected, svcDurable, state, published>>
historyVars == <<sent, reply, activatedBy, ran, newest>>
vars == <<archiveVars, serviceVars, loopVars, historyVars>>

NoJob == [step |-> "idle", caller |-> "none", status |-> Complete,
          late |-> FALSE, target |-> 0, request |-> NoRequest]
NoReply == [kind |-> "none", ok |-> FALSE, target |-> 0]
Unsent == [boot |-> 0, after |-> 0]

ServiceInit ==
    /\ Init
    /\ recording = FALSE /\ elapsed = 0 /\ due = FALSE
    /\ rec = Reset(0) /\ queue = <<>>
    /\ overflowed = FALSE /\ storeFailure = FALSE
    /\ hasDirty = FALSE /\ dirtySince = 0 /\ lastSelected = 0 /\ svcDurable = 0
    /\ state = "idle"
    /\ published = [runId |-> 0, active |-> FALSE, durable |-> 0]
    /\ turn = "limit" /\ job = NoJob /\ boot = 1 /\ faults = 0
    /\ sent = [q \in Request |-> Unsent] /\ reply = NoReply
    /\ activatedBy = [r \in Run |-> NoRequest]
    /\ ran = 0 /\ newest = NoSample

At(call) == job = NoJob /\ (LoopOrder => turn = call)

(* A failing call spends one unit of the fault budget. *)
Spend(failing) ==
    /\ failing => faults < MaxFaults
    /\ faults' = IF failing THEN faults + 1 ELSE faults

(* refreshPublishedStatus(), for the fields other tasks rely on. *)
Publish == published' = [runId |-> id', active |-> recording', durable |-> svcDurable']

(* The clock is not followed further than MaxStep past the window. *)
Advance(most) ==
    \E d \in 0..most :
        /\ elapsed + d <= MaxDuration + MaxStep
        /\ elapsed' = IF recording THEN elapsed + d ELSE 0
        /\ due' = (recording /\ (due \/ d > 0))

-----------------------------------------------------------------------------
(* Mutant: the limit is noticed only when the clock hits it exactly. *)
EnforceLimitExactly ==
    /\ At("limit") /\ turn' = "tick"
    /\ Advance(MaxStep)
    /\ job' = IF recording /\ elapsed' = MaxDuration
              THEN [NoJob EXCEPT !.step = "drain", !.caller = "limit"] ELSE NoJob
    /\ reply' = NoReply
    /\ UNCHANGED <<archiveVars, recording, rec, queue, overflowed, storeFailure, hasDirty,
                   dirtySince, lastSelected, svcDurable, state, published, boot, faults,
                   sent, activatedBy, ran, newest>>

(* enforceLimit(): past the window the queue is drained and the run finalized. *)
EnforceLimit ==
    /\ At("limit") /\ turn' = "tick"
    /\ Advance(MaxStep)
    /\ job' = IF recording /\ elapsed' >= MaxDuration
              THEN [NoJob EXCEPT !.step = "drain", !.caller = "limit"] ELSE NoJob
    /\ reply' = NoReply
    /\ UNCHANGED <<archiveVars, recording, rec, queue, overflowed, storeFailure, hasDirty,
                   dirtySince, lastSelected, svcDurable, state, published, boot, faults,
                   sent, activatedBy, ran, newest>>

(* SensorService::tick() and, through SampleRouter, enqueueSample(). The loop
   hands tick() the clock it gave enforceLimit(); another caller may be later. *)
Tick ==
    /\ At("tick") /\ turn' = "poll"
    /\ elapsed' \in {elapsed} \cup {t \in {elapsed + 1} : ~LoopOrder /\ recording
                                                         /\ elapsed <= MaxDuration}
    /\ IF recording /\ (due \/ elapsed' > elapsed)
       THEN LET s == [runId |-> id, seq |-> elapsed' + 1, ms |-> elapsed', fault |-> {}]
                full == Len(queue) >= QueueCap
            IN  /\ due' = FALSE
                /\ IF overflowed \/ storeFailure \/ full
                   THEN /\ overflowed' = (overflowed \/ (full /\ ~storeFailure))
                        /\ UNCHANGED queue
                   ELSE queue' = Append(queue, s) /\ UNCHANGED overflowed
                /\ newest' = IF elapsed' <= MaxDuration THEN s ELSE newest
       ELSE UNCHANGED <<due, queue, overflowed, newest>>
    /\ UNCHANGED <<archiveVars, recording, rec, storeFailure, hasDirty, dirtySince,
                   lastSelected, svcDurable, state, published, job, boot, faults,
                   sent, reply, activatedBy, ran>>

(* poll(): everything it does happens while recording. *)
Poll ==
    /\ At("poll") /\ turn' = "net"
    /\ job' = IF recording THEN [NoJob EXCEPT !.step = "drain", !.caller = "poll"] ELSE NoJob
    /\ UNCHANGED <<archiveVars, serviceVars, boot, faults, historyVars>>

-----------------------------------------------------------------------------
(* Mutants: a refused record is not noticed; every record restarts the flush timer. *)
Append1Continues(record) ==
    \/ /\ AppendSelected(record.logSeq, record.ms)
       /\ lastSelected' = record.logSeq /\ hasDirty' = TRUE
       /\ dirtySince' = IF hasDirty THEN dirtySince ELSE record.ms
       /\ Spend(FALSE) /\ UNCHANGED storeFailure
    \/ /\ AppendRefused
       /\ Spend(~writerFailed)
       /\ UNCHANGED <<lastSelected, hasDirty, dirtySince, storeFailure>>
Append1Restarts(record) ==
    \/ /\ AppendSelected(record.logSeq, record.ms)
       /\ lastSelected' = record.logSeq /\ hasDirty' = TRUE /\ dirtySince' = record.ms
       /\ Spend(FALSE) /\ UNCHANGED storeFailure
    \/ /\ AppendRefused
       /\ storeFailure' = TRUE /\ Spend(~writerFailed)
       /\ UNCHANGED <<lastSelected, hasDirty, dirtySince>>

(* appendSelected() on the store, by drainQueue() or finalizeRun(). *)
Append1(record) ==
    \/ /\ AppendSelected(record.logSeq, record.ms)
       /\ lastSelected' = record.logSeq
       /\ hasDirty' = TRUE
       /\ dirtySince' = IF hasDirty THEN dirtySince ELSE record.ms
       /\ Spend(FALSE) /\ UNCHANGED storeFailure
    \/ /\ AppendRefused
       /\ storeFailure' = TRUE
       /\ Spend(~writerFailed)
       /\ UNCHANGED <<lastSelected, hasDirty, dirtySince>>

NoAppend == UNCHANGED <<archiveVars, lastSelected, hasDirty, dirtySince, storeFailure, faults>>

(* One turn of drainQueue's loop. At the limit, samples beyond it are skipped. *)
Drain ==
    /\ job.step = "drain" /\ ~storeFailure /\ queue # <<>>
    /\ queue' = Tail(queue)
    /\ LET s == Head(queue)
           skipped == job.caller = "limit" /\ ~overflowed /\ s.ms > MaxDuration
       IN  IF skipped THEN NoAppend /\ UNCHANGED rec
           ELSE /\ rec' = Select(rec, s)
                /\ IF Selected(rec, s) = <<>> THEN NoAppend
                   ELSE Append1(Selected(rec, s)[1])
    /\ UNCHANGED <<recording, elapsed, due, overflowed, svcDurable, state, published,
                   turn, job, boot, historyVars>>

(* finalizeRun() is entered with a status; endMs is judged here. *)
Finalizing(status) ==
    [job EXCEPT !.step = "finish", !.status = status,
                !.late = (status # LimitHit /\ elapsed > MaxDuration)]

DrainDone ==
    /\ job.step = "drain" /\ (storeFailure \/ queue = <<>>)
    /\ job' = IF overflowed \/ storeFailure THEN Finalizing(StorageError)
              ELSE IF job.caller = "limit" THEN Finalizing(LimitHit)
              ELSE IF job.caller = "stop" THEN Finalizing(Complete)
              ELSE IF hasDirty /\ elapsed - dirtySince >= Flush
                   THEN [job EXCEPT !.step = "flush"] ELSE NoJob
    /\ UNCHANGED <<archiveVars, serviceVars, turn, boot, faults, historyVars>>

(* syncPending() from poll(). *)
FlushDue ==
    /\ job.step = "flush"
    /\ \E ok \in BOOLEAN :
          /\ Sync(ok)
          /\ Spend(~ok /\ ~writerFailed)
          /\ IF ok
             THEN svcDurable' = lastSelected /\ hasDirty' = FALSE /\ job' = NoJob
                  /\ UNCHANGED storeFailure
             ELSE storeFailure' = TRUE /\ job' = Finalizing(StorageError)
                  /\ UNCHANGED <<svcDurable, hasDirty>>
          /\ IF ok THEN published' = [published EXCEPT !.durable = svcDurable']
                   ELSE UNCHANGED published
    /\ UNCHANGED <<recording, elapsed, due, rec, queue, overflowed, dirtySince, lastSelected,
                   state, turn, boot, historyVars>>

(* finalizeRun(), first part: the held acquisition becomes the terminal record. *)
FinishSelection ==
    /\ job.step = "finish"
    /\ IF storeFailure THEN NoAppend /\ UNCHANGED rec
       ELSE /\ rec' = Finish(rec)
            /\ IF MustFinish(rec) THEN Append1(Finished(rec)[1]) ELSE NoAppend
    /\ job' = [job EXCEPT !.step = "sync",
                          !.status = IF storeFailure' THEN StorageError ELSE job.status]
    /\ UNCHANGED <<recording, elapsed, due, queue, overflowed, svcDurable, state, published,
                   turn, boot, historyVars>>

(* Second part: the dirty records are synced. *)
SyncTail ==
    /\ job.step = "sync"
    /\ hasDirty' = FALSE
    /\ IF ~hasDirty THEN UNCHANGED <<archiveVars, svcDurable, faults>> /\ job' = [job EXCEPT !.step = "end"]
       ELSE \E ok \in BOOLEAN :
              /\ Sync(ok)
              /\ Spend(~ok /\ ~writerFailed)
              /\ svcDurable' = IF ok THEN lastSelected ELSE svcDurable
              /\ job' = [job EXCEPT !.step = "end",
                                    !.status = IF ok THEN job.status ELSE StorageError]
    /\ UNCHANGED <<recording, elapsed, due, rec, queue, overflowed, storeFailure, dirtySince,
                   lastSelected, state, published, turn, boot, historyVars>>

(* Mutant: the state reported is the one asked for, not the one achieved. *)
EndRunOptimistic ==
    /\ job.step = "end"
    /\ \E synced, journaled \in BOOLEAN :
          /\ Finalize(job.status, synced, journaled)
          /\ Spend((~synced /\ ~writerFailed) \/ ~journaled)
    /\ state' = IF job.status = StorageError THEN "error" ELSE "idle"
    /\ recording' = FALSE
    /\ rec' = Reset(0) /\ queue' = <<>>
    /\ overflowed' = FALSE /\ storeFailure' = FALSE /\ hasDirty' = FALSE
    /\ elapsed' = 0 /\ due' = FALSE
    /\ job' = NoJob
    /\ UNCHANGED <<dirtySince, lastSelected, svcDurable, turn, boot, historyVars>>
    /\ Publish

(* Last part: run.ended, then the service forgets the run whatever the store
   said. The store rejects an end past the window before it closes the writer. *)
EndRun ==
    /\ job.step = "end"
    /\ \E synced, journaled \in BOOLEAN :
          /\ IF job.late
             THEN ~synced /\ ~journaled /\ UNCHANGED <<archiveVars, faults>>
             ELSE /\ Finalize(job.status, synced, journaled)
                  /\ Spend((~synced /\ ~writerFailed) \/ ~journaled)
          /\ LET status == IF synced /\ journaled THEN job.status ELSE StorageError
             IN  /\ state' = IF status = StorageError THEN "error" ELSE "idle"
                 /\ reply' = IF job.caller = "stop"
                             THEN [kind |-> "stop", ok |-> status # StorageError,
                                   target |-> job.target]
                             ELSE reply
    /\ recording' = FALSE
    /\ rec' = Reset(0) /\ queue' = <<>>
    /\ overflowed' = FALSE /\ storeFailure' = FALSE /\ hasDirty' = FALSE
    /\ elapsed' = 0 /\ due' = FALSE
    /\ job' = NoJob
    /\ UNCHANGED <<dirtySince, lastSelected, svcDurable, turn, boot,
                   sent, activatedBy, ran, newest>>
    /\ Publish

-----------------------------------------------------------------------------
(* A client sends a Start with the boot and the latest run id it knows. *)
Send(q) ==
    /\ At("net") /\ sent[q] = Unsent
    /\ sent' = [sent EXCEPT ![q] = [boot |-> boot, after |-> published.runId]]
    /\ UNCHANGED <<archiveVars, serviceVars, loopVars, reply, activatedBy, ran, newest>>

(* The runs findStartRequest() can answer with. *)
Persisted(q) == {r \in Run : Kept(r) /\ request[r] = q}

(* Mutant: any Start of this boot is accepted, whatever run it was to follow. *)
StartableInBoot(q) ==
    /\ ready /\ Persisted(q) = {} /\ catalogValid /\ ~recording
    /\ sent[q].boot = boot /\ activeRun = 0

(* Start: checks up to the allocation of an identity. *)
Startable(q) ==
    /\ ready /\ Persisted(q) = {}
    /\ catalogValid /\ ~recording
    /\ sent[q] = [boot |-> boot, after |-> id]
    /\ activeRun = 0

Received(q) == At("net") /\ sent[q] # Unsent /\ turn' = "limit"

StartReplayed(q) ==
    /\ Received(q) /\ ready
    /\ \E r \in Persisted(q) : reply' = [kind |-> "start", ok |-> TRUE, target |-> r]
    /\ UNCHANGED <<archiveVars, recording, elapsed, due, rec, queue, overflowed, storeFailure,
                   hasDirty, dirtySince, lastSelected, svcDurable, state, job, boot, faults,
                   sent, activatedBy, ran, newest>>
    /\ Publish

(* Start: STALE_COMMAND, BUSY or unavailable; or a failing call: the catalogue
   could not be read, space ran out, the new id could not be saved. *)
StartRefused(q) ==
    /\ Received(q)
    /\ \/ /\ ~(ready /\ Persisted(q) # {}) /\ ~(Startable(q) /\ id + 1 \in Run)
          /\ Spend(FALSE) /\ UNCHANGED archiveVars
       \/ /\ Spend(TRUE)
          /\ UNCHANGED archiveVars \/ (Startable(q) /\ AllocateId(FALSE))
    /\ reply' = [kind |-> "start", ok |-> FALSE, target |-> 0]
    /\ UNCHANGED <<recording, elapsed, due, rec, queue, overflowed, storeFailure, hasDirty,
                   dirtySince, lastSelected, svcDurable, state, job, boot,
                   sent, activatedBy, ran, newest>>
    /\ Publish

StartAllocated(q) ==
    /\ Received(q) /\ Startable(q)
    /\ AllocateId(TRUE)
    /\ job' = [NoJob EXCEPT !.step = "stage", !.caller = "start", !.request = q]
    /\ UNCHANGED <<serviceVars, boot, faults, historyVars>>

(* Start: the store could not prepare the run; the identity stays consumed. That
   power can go in the middle of prepareRun instead is PowerCut. *)
StartAbandoned ==
    /\ job.step = "stage"
    /\ \E where \in Place \ {"deleting"}, done \in 0..AllFiles :
          StageFails(job.request, where, done)
    /\ Spend(TRUE)
    /\ job' = NoJob
    /\ reply' = [kind |-> "start", ok |-> FALSE, target |-> 0]
    /\ UNCHANGED <<recording, elapsed, due, rec, queue, overflowed, storeFailure, hasDirty,
                   dirtySince, lastSelected, svcDurable, state, turn, boot,
                   sent, activatedBy, ran, newest>>
    /\ Publish

(* Mutant: the durable count of the previous run is still there. *)
StartActivatedStale ==
    /\ job.step = "stage"
    /\ StageCompletes(job.request)
    /\ recording' = TRUE /\ elapsed' = 0 /\ due' = TRUE
    /\ rec' = Reset(id) /\ queue' = <<>>
    /\ overflowed' = FALSE /\ storeFailure' = FALSE
    /\ hasDirty' = FALSE /\ dirtySince' = 0 /\ lastSelected' = 0
    /\ state' = "recording" /\ job' = NoJob
    /\ reply' = [kind |-> "start", ok |-> TRUE, target |-> id]
    /\ activatedBy' = [activatedBy EXCEPT ![id] = job.request]
    /\ ran' = id /\ newest' = NoSample
    /\ UNCHANGED <<svcDurable, turn, boot, faults, sent>>
    /\ Publish

StartActivated ==
    /\ job.step = "stage"
    /\ StageCompletes(job.request)
    /\ recording' = TRUE /\ elapsed' = 0 /\ due' = TRUE
    /\ rec' = Reset(id) /\ queue' = <<>>
    /\ overflowed' = FALSE /\ storeFailure' = FALSE
    /\ hasDirty' = FALSE /\ dirtySince' = 0 /\ lastSelected' = 0 /\ svcDurable' = 0
    /\ state' = "recording"
    /\ job' = NoJob
    /\ reply' = [kind |-> "start", ok |-> TRUE, target |-> id]
    /\ activatedBy' = [activatedBy EXCEPT ![id] = job.request]
    /\ ran' = id /\ newest' = NoSample
    /\ UNCHANGED <<turn, boot, faults, sent>>
    /\ Publish

(* Stop of the current run, sent in this boot or an earlier one. The command
   has its own clock reading, later than the loop's. *)
StopCurrent(target, sentNow) ==
    /\ At("net") /\ turn' = "limit"
    /\ recording /\ target = id
    /\ IF sentNow
       THEN /\ Advance(MaxLag)
            /\ job' = [NoJob EXCEPT !.step = "drain", !.caller = "stop", !.target = target]
            /\ UNCHANGED reply
       ELSE /\ reply' = [kind |-> "stop", ok |-> FALSE, target |-> target]
            /\ UNCHANGED <<elapsed, due, job>>
    /\ UNCHANGED <<archiveVars, recording, rec, queue, overflowed, storeFailure, hasDirty,
                   dirtySince, lastSelected, svcDurable, state, published, boot, faults,
                   sent, activatedBy, ran, newest>>

(* Stop of any other run: success if the archive knows it with a status other
   than active, which the run of an open writer has until a write fails. *)
StopOther(target) ==
    /\ At("net") /\ turn' = "limit"
    /\ ~(recording /\ target = id)
    /\ reply' = [kind |-> "stop", target |-> target,
                 ok |-> ready /\ Kept(target) /\ (target = activeRun => writerFailed)]
    /\ UNCHANGED <<archiveVars, recording, elapsed, due, rec, queue, overflowed, storeFailure,
                   hasDirty, dirtySince, lastSelected, svcDurable, state, job, boot, faults,
                   sent, activatedBy, ran, newest>>
    /\ Publish

(* The archive routes: a snapshot of the active run syncs it, a marker settles
   a journal, a run is deleted. Or no command at all. *)
Route ==
    /\ At("net") /\ turn' = "limit"
    /\ \/ \E ok \in BOOLEAN : Sync(ok) /\ Spend(~ok /\ ~writerFailed)
       \/ \E r \in Run : SettleJournal(r) /\ Spend(FALSE)
       \/ \E r \in Run, removed \in BOOLEAN : DeleteRun(r, removed) /\ Spend(~removed)
       \/ UNCHANGED <<archiveVars, faults>>
    /\ UNCHANGED <<serviceVars, job, boot, historyVars>>

-----------------------------------------------------------------------------
(* What the service has in RAM is gone; the store's part goes in Reboot. *)
RamLost ==
    /\ recording' = FALSE /\ elapsed' = 0 /\ due' = FALSE
    /\ rec' = Reset(0) /\ queue' = <<>>
    /\ overflowed' = FALSE /\ storeFailure' = FALSE
    /\ hasDirty' = FALSE /\ dirtySince' = 0 /\ lastSelected' = 0 /\ svcDurable' = 0
    /\ turn' = "limit" /\ reply' = NoReply
    /\ UNCHANGED <<sent, activatedBy>>
    /\ Publish

(* A sync of the store is under way: syncPending(), the forced one of an append,
   the one of a snapshot. *)
Syncing ==
    \/ job.step = "flush" \/ (job.step = "sync" /\ hasDirty) \/ At("net")
    \/ /\ Len(pending) = PendingCap /\ ~storeFailure
       /\ \/ job.step = "drain" /\ queue # <<>> /\ Selected(rec, Head(queue)) # <<>>
          \/ job.step = "finish" /\ MustFinish(rec)

(* An operation that makes several file-system calls, cut between two of them or in
   the middle of one: flash is left as by a call that fails there.  prepareRun: the
   directory, the files written so far, the rename; deleteRun: renamed, not removed. *)
HalfDone ==
    \/ /\ job.step = "stage"
       /\ \E where \in Place \ {"deleting"}, done \in 0..AllFiles :
             StageFails(job.request, where, done)
    \/ Syncing /\ Sync(FALSE)
    \/ At("net") /\ \E r \in Run : DeleteRun(r, FALSE)

(* Power is lost inside a handler, with no failing call; Restart follows. A cut of
   any other operation leaves what one of the steps around it leaves. *)
PowerCut ==
    /\ boot < MaxBoots
    /\ HalfDone
    /\ RamLost
    /\ job' = [NoJob EXCEPT !.step = "dead"]
    /\ UNCHANGED <<state, boot, faults, ran, newest>>

(* A reset at any point, and setup() up to RunLogService::begin(). *)
Restart ==
    /\ boot < MaxBoots /\ boot' = boot + 1
    /\ \E mounted, scanned, loaded \in BOOLEAN :
          /\ Reboot(mounted, scanned, loaded)
          /\ Spend(~(mounted /\ scanned /\ loaded))
          /\ state' = IF ~mounted THEN "unavailable" ELSE IF ~scanned THEN "error" ELSE "idle"
    /\ RamLost
    /\ job' = NoJob /\ ran' = 0 /\ newest' = NoSample

Handler == Drain \/ DrainDone \/ FlushDue \/ FinishSelection \/ SyncTail \/ EndRun
           \/ StartAbandoned \/ StartActivated

Command ==
    \/ \E q \in Request : StartReplayed(q) \/ StartRefused(q) \/ StartAllocated(q)
    \/ \E target \in Run : StopOther(target) \/ \E sentNow \in BOOLEAN : StopCurrent(target, sentNow)
    \/ Route

ServiceNext ==
    \/ EnforceLimit \/ Tick \/ Poll \/ Command \/ Handler
    \/ \E q \in Request : Send(q)
    \/ PowerCut \/ Restart

ServiceSpec == ServiceInit /\ [][ServiceNext]_vars

(* The owner loop keeps turning and the clock keeps moving between its turns;
   nothing is assumed of clients, of commands or of resets. *)
LoopTurns == EnforceLimit \/ Tick \/ Poll \/ Route \/ Handler
FairService ==
    /\ ServiceSpec
    /\ WF_vars(LoopTurns)
    /\ SF_vars(EnforceLimit /\ elapsed' > elapsed)

-----------------------------------------------------------------------------
(* One Start request never activates two runs, however often it is delivered,
   with failures, resets and deletions of the run in between: the lookup by
   requestId covers the runs present, the compare-and-set the deleted ones. *)
StartOnce ==
    \A r, s \in Run : activatedBy[r] # NoRequest /\ activatedBy[r] = activatedBy[s] => r = s

(* The service's, the selector's and the store's pictures of the run agree
   whenever a handler is not at work: one writer on the current run, and a next
   logSeq that the store accepts and has room for. The branches of
   appendSelected() that reject a call are unreachable.  In loop() order the sample
   queue never holds more than one sample, so it cannot overflow either. *)
InStep ==
    /\ LoopOrder => Len(queue) <= 1 /\ ~overflowed
    /\ recording => /\ activeRun = id /\ rec.runId = id
                    /\ (rec.active /\ ~storeFailure) =>
                           /\ rec.nextLogSeq = durable + Len(pending) + 1
                           /\ rec.nextLogSeq <= RawCapacity
                    /\ ~storeFailure => lastSelected = durable + Len(pending)

(* The Start in the run's meta.json is the one that began to record it. *)
Begun(r) == request[r] # NoRequest /\ activatedBy[r] = request[r]

(* What is said is true and stays true through a power loss.  The published
   identity is current and the published durable count is on flash.  A Start that
   once began its run, however often it is sent again, over reboots and whatever
   fails, is acknowledged with a run that has all its files; and while no call
   fails, the verdict of an acknowledged Stop is durable.  Not promised is that
   every acknowledged Start began its run: one cut short in prepareRun, by a failing
   call or by power alone, is acknowledged when it is sent again, with whatever files
   it has (StartAckIsDurable below); nor what a failed fsync makes of a repeated
   Stop (StopAckIsDurable). *)
SaidIsDurable ==
    /\ job = NoJob => published.runId = id /\ published.active = recording
    /\ published.active /\ recording => published.durable <= Len(acked[published.runId])
    /\ reply.kind = "start" /\ reply.ok /\ Begun(reply.target) =>
          files[reply.target] = AllFiles
    /\ faults = 0 /\ reply.kind = "stop" /\ reply.ok /\ verdict[reply.target] # Unended =>
          verdictSynced[reply.target]

(* A power loss costs a recording run at most Flush of its logged readings:
   after poll() no unsynced record is that old. *)
BoundedLoss ==
    LoopOrder /\ turn = "net" /\ job = NoJob /\ recording =>
        \A i \in 1..Len(pending) : elapsed - pending[i] < Flush

(* Logging is never reported healthy after a failure: once idle again, the last
   run of this boot has its verdict on flash, and not storage_error, and it holds
   the last sample acquired inside its window, durably: whatever was queued, or
   held back by the selector. *)
HealthyMeansSettled ==
    state = "idle" /\ ran # 0 /\ Kept(ran) =>
        /\ verdictSynced[ran] /\ verdict[ran] \in {Complete, LimitHit}
        /\ \/ newest = NoSample
           \/ /\ acked[ran] # <<>> /\ acked[ran][Len(acked[ran])] = newest.ms

(* A run that was started ends: the limit is enforced whatever fails. *)
RunsEnd == recording ~> ~recording

(* docs/n16r8-migration-plan.md:89: Stop "closes writer, then acknowledges". *)
WriterFollowsService == job = NoJob /\ activeRun # 0 => recording

(* docs/protocol-v3.md:62: Stop is acknowledged durable "only after persistence". *)
StopAckIsDurable ==
    reply.kind = "stop" /\ reply.ok /\ verdict[reply.target] # Unended =>
        verdictSynced[reply.target]

(* docs/protocol-v3.md:62, for Start: an acknowledged one has the three files of its
   run. Power lost in prepareRun once meta.json is written refutes it: the staging
   directory is kept, and the Start sent again is answered from its meta.json. *)
StartAckIsDurable == reply.kind = "start" /\ reply.ok => files[reply.target] = AllFiles
=============================================================================
