--------------------------- MODULE FeatherRequests --------------------------
(***************************************************************************)
(* The Feather target: LoopRequestQueue and CsvDownloadBuffer between the  *)
(* AsyncTCP task, which queues requests and sends a download, and the      *)
(* owner loop, which executes them on the CSV recorder it also records     *)
(* with.  Between any two steps of one task the other may take any number  *)
(* of steps: a slot's state, the ticket counter and the four flags of the  *)
(* buffer are the atomics they meet at.  The callbacks of AsyncTCP run one *)
(* after the other.  A request is made once; the boot has been done.       *)
(***************************************************************************)
EXTENDS CsvRecorder, Integers

CONSTANTS
    Request,     \* HTTP requests to the Feather's CSV routes
    Kinds,       \* Kinds[r]: what request r may be for
    SlotCount,   \* slotCount
    TicketSize,  \* tickets wrap here (2^32)
    FirstTicket, \* where the counter stands: it counts on from the first request
    BlockSize,   \* CsvDownloadBuffer::capacity, in lines
    None,        \* model value
    SavedRun,    \* the lines of the run saved before the boot, if any
    MaxRun       \* bound: run ids

(* The state a download keeps between its two tasks. *)
Buffer == [req : Request, bytes : Seq(Line), remaining : Nat, ready : BOOLEAN,
           finished : BOOLEAN, failed : BOOLEAN, cancelled : BOOLEAN]

ASSUME FeatherAssumption ==
    /\ Kinds \in [Request -> SUBSET {"info", "download", "erase", "format"}]
    /\ {SlotCount, BlockSize, MaxRun} \subseteq Nat \ {0}
    /\ TicketSize \in Nat /\ TicketSize > 2 * SlotCount + 1 /\ FirstTicket \in 0..(TicketSize - 1)
    /\ SavedRun \in Seq(Line) /\ None \notin Buffer

VARIABLES
    rec, file,   \* csvRecorder, and the file on its volume
    run,         \* RunManager: [id, active, seq, ms], ms the elapsed time last seen
    job,         \* jobs[s]: [st, req, kind, ticket, runId]
    nextTicket,
    download,    \* the download's buffer, or None: [req, bytes, remaining, ready,
                 \*   finished, failed, cancelled], bytes those not yet consumed
    pc,          \* where the loop is
    scan,        \* poll()'s loop: [i, oldest]
    reply,       \* what execute() will answer
    callback,    \* the AsyncTCP callback under way: [at, req, kind, slot, runId]
    client,      \* client[r]: [st, got, of], got the lines received of those of the file
    order,       \* history: the requests not yet executed in the order of their tickets
    seen         \* history: the requests that were Ready when the scan began

owner == <<rec, file, run, pc, scan, reply>>
queue == <<job, nextTicket, order>>
vars == <<owner, queue, download, callback, client, seen>>

Slot == 1..SlotCount
FreeJob == [st |-> "Free", req |-> None, kind |-> None, ticket |-> 0, runId |-> 0]
NoCallback == [at |-> "none", req |-> None, kind |-> None, slot |-> 0, runId |-> 0]

Client(st) == [st |-> st, got |-> <<>>, of |-> <<>>]

(* Torn bytes and syncs matter to the next boot, which is SingleRunCsv's. *)
Kept(f) == IF f = NoFile THEN f ELSE [EmptyFile EXCEPT !.lines = f.lines]

(* After setup(). *)
Init ==
    /\ file = IF SavedRun = <<>> THEN NoFile ELSE [EmptyFile EXCEPT !.lines = SavedRun]
    /\ rec \in {o.rec : o \in Begin(Unmounted, file)}
    /\ \E stored \in 0..1 :
          run = [id |-> IF stored < rec.runId THEN rec.runId ELSE stored,
                 active |-> FALSE, seq |-> 0, ms |-> 0]
    /\ job = [s \in Slot |-> FreeJob] /\ nextTicket = FirstTicket /\ order = <<>>
    /\ download = None /\ pc = "top" /\ scan = [i |-> 1, oldest |-> 0] /\ reply = "none"
    /\ callback = NoCallback /\ seen = {}
    /\ client = [r \in Request |-> Client("new")]

-----------------------------------------------------------------------------
(* AsyncTCP: a route's handler. *)
Idle == callback = NoCallback

(* parseRunId: a run id must be there, zero only to erase. *)
Ids(kind) == CASE kind = "download" -> 1..MaxRun
               [] kind = "erase" -> 0..MaxRun
               [] OTHER -> {0}

Enqueue(r, kind, id) ==
    /\ Idle /\ client[r].st = "new"
    /\ UNCHANGED <<owner, nextTicket, order, download, seen>>
    /\ \/ /\ \A s \in Slot : job[s].st # "Free"      \* 503 BUSY
          /\ client' = [client EXCEPT ![r] = Client("answered")]
          /\ UNCHANGED <<job, callback>>
       \/ \E s \in Slot :
             /\ job[s].st = "Free" /\ \A t \in 1..(s - 1) : job[t].st # "Free"
             /\ job' = [job EXCEPT ![s].st = "Filling"]
             /\ callback' = [at |-> "ticket", req |-> r, kind |-> kind, slot |-> s, runId |-> id]
             /\ client' = [client EXCEPT ![r] = Client("waiting")]

TakeTicket ==
    /\ callback.at = "ticket"
    /\ job' = [job EXCEPT ![callback.slot].ticket = nextTicket]
    /\ nextTicket' = (nextTicket + 1) % TicketSize
    /\ order' = Append(order, callback.req)
    /\ callback' = [callback EXCEPT !.at = "ready"]
    /\ UNCHANGED <<owner, download, client, seen>>

MakeReady ==
    /\ callback.at = "ready"
    /\ job' = [job EXCEPT ![callback.slot].st = "Ready", ![callback.slot].req = callback.req,
                          ![callback.slot].kind = callback.kind,
                          ![callback.slot].runId = callback.runId]
    /\ callback' = NoCallback
    /\ UNCHANGED <<owner, nextTicket, order, download, client, seen>>

(* AsyncTCP: the response of a download.  Its destruction cancels the download;
   it ends when the announced length is sent, when its source says so, and when
   the connection goes. *)
Destroyed(r) == download' = IF download # None /\ download.req = r
                            THEN [download EXCEPT !.cancelled = TRUE] ELSE download
Streaming(r) == client[r].st = "streaming"
Ended(r) ==
    /\ client' = [client EXCEPT ![r] = Client(IF client[r].got = client[r].of THEN "answered"
                                              ELSE "short")]
    /\ Destroyed(r)

Consume(r) ==
    /\ Idle /\ Streaming(r) /\ ~download.failed
    /\ UNCHANGED <<owner, queue, seen>>
    /\ IF download.ready
       THEN \E n \in 1..Len(download.bytes) :
              /\ client' = [client EXCEPT ![r].got = @ \o SubSeq(download.bytes, 1, n)]
              /\ download' = [download EXCEPT !.bytes = SubSeq(@, n + 1, Len(@)),
                                              !.ready = n # Len(download.bytes)]
              /\ UNCHANGED callback
       ELSE /\ callback' = [NoCallback EXCEPT !.at = "empty", !.req = r]
            /\ UNCHANGED <<download, client>>

CheckFinished ==
    LET r == callback.req
    IN  /\ callback.at = "empty" /\ callback' = NoCallback
        /\ UNCHANGED <<owner, queue, seen>>
        /\ IF download.finished
           THEN Ended(r)
           ELSE UNCHANGED <<download, client>>

LengthSent(r) ==
    /\ Idle /\ Streaming(r) /\ Len(client[r].got) = Len(client[r].of)
    /\ Ended(r)
    /\ UNCHANGED <<owner, queue, callback, seen>>

(* Mutant: the response is destroyed without a word. *)
DisconnectUnsaid(r) ==
    /\ Idle /\ client[r].st \in {"waiting", "streaming"}
    /\ client' = [client EXCEPT ![r] = Client("gone")]
    /\ UNCHANGED <<owner, queue, download, callback, seen>>
Disconnect(r) ==
    /\ Idle /\ client[r].st \in {"waiting", "streaming"}
    /\ client' = [client EXCEPT ![r] = Client("gone")]
    /\ IF Streaming(r) THEN Destroyed(r) ELSE UNCHANGED download
    /\ UNCHANGED <<owner, queue, callback, seen>>

-----------------------------------------------------------------------------
(* The owner loop: the duration limit, and the sensor's sample; a recorder that
   has stopped ends the run. *)
At(from, to) == pc = from /\ pc' = to
Recording(outcomes, after) ==
    \E o \in outcomes : rec' = o.rec /\ file' = Kept(o.file)
                        /\ run' = [after EXCEPT !.active = after.active /\ o.rec.recording]

(* Mutant: a recorder that stops in the middle of a run goes unnoticed. *)
SampledUnnoticed(t) ==
    LET taken == [run EXCEPT !.seq = @ + 1, !.ms = t]
        s == [runId |-> run.id, seq |-> taken.seq, ms |-> t, fault |-> FALSE]
    IN  \E o \in OnSample(rec, file, s) : rec' = o.rec /\ file' = Kept(o.file) /\ run' = taken
Sampled(t) ==
    LET taken == [run EXCEPT !.seq = @ + 1, !.ms = t]
        s == [runId |-> run.id, seq |-> taken.seq, ms |-> t, fault |-> FALSE]
    IN  Recording(OnSample(rec, file, s), taken)

LoopTop ==
    /\ At("top", "commands")
    /\ UNCHANGED <<queue, download, scan, reply, callback, client, seen>>
    /\ \/ UNCHANGED <<rec, file, run>>
       \/ /\ run.active
          /\ Recording(StopRun(rec, file, MaxDuration), [run EXCEPT !.active = FALSE])
       \/ \E t \in 0..(MaxDuration - 1) :
             run.active /\ (run.seq > 0 => t > run.ms) /\ Sampled(t)

(* handleCommand(): Start and Stop. *)
StartCommand ==
    LET made == [id |-> run.id + 1, active |-> TRUE, seq |-> 0, ms |-> 0]
    IN  /\ ~run.active /\ run.id < MaxRun /\ CanStart(rec)
        /\ Recording(StartRun(rec, file, made.id), made)
StopCommand ==
    \E t \in run.ms..MaxDuration :
       run.active /\ Recording(StopRun(rec, file, t), [run EXCEPT !.active = FALSE])

LoopCommands ==
    /\ At("commands", IF download = None THEN "scan" ELSE "cancelled")
    /\ UNCHANGED <<queue, download, scan, reply, callback, client, seen>>
    /\ \/ UNCHANGED <<rec, file, run>>
       \/ StartCommand
       \/ StopCommand

-----------------------------------------------------------------------------
(* The owner loop: pollDownload().  The flags are read one after the other. *)
Block == IF download.remaining < BlockSize THEN download.remaining ELSE BlockSize
NextBlock(n) == SubSeq(file.lines, rec.sent + 1, rec.sent + n)

PollCancelled ==
    /\ UNCHANGED <<file, run, queue, reply, callback, client, scan, seen>>
    /\ \/ At("cancelled", "scan") /\ download.cancelled /\ rec' = Closed(rec) /\ download' = None
       \/ At("cancelled", "fill") /\ ~download.cancelled /\ UNCHANGED <<rec, download>>

(* Mutant: a block is read over the one not yet sent. *)
CanFillAlways == ~download.failed
CanFill == ~download.failed /\ ~download.ready

(* The block is in the buffer; publish() follows. *)
PollFill ==
    /\ pc = "fill"
    /\ UNCHANGED <<file, run, queue, reply, callback, client, scan, seen>>
    /\ \/ ~CanFill /\ pc' = "scan" /\ UNCHANGED <<rec, download>>
       \/ /\ CanFill /\ download.remaining = 0 /\ pc' = "scan"
          /\ download' = [download EXCEPT !.finished = TRUE] /\ UNCHANGED rec
       \/ /\ CanFill /\ download.remaining > 0 /\ pc' = "scan"
          /\ download' = [download EXCEPT !.failed = TRUE] /\ UNCHANGED rec
       \/ /\ CanFill /\ download.remaining > 0 /\ pc' = "publish"
          /\ \E n \in 1..Block :
                /\ download' = [download EXCEPT !.remaining = @ - n, !.bytes = NextBlock(n)]
                /\ rec' = Advanced(rec, n)

PollPublish ==
    /\ At("publish", "scan")
    /\ download' = [download EXCEPT !.ready = TRUE]
    /\ UNCHANGED <<rec, file, run, queue, reply, callback, client, scan, seen>>

-----------------------------------------------------------------------------
(* The owner loop: poll() looks for the oldest job.  Mutant: tickets are compared
   as numbers. *)
OlderPlainly(t, u) == t < u
Older(t, u) == (t - u) % TicketSize >= TicketSize \div 2

ScanSlot ==
    /\ pc = "scan"
    /\ UNCHANGED <<rec, file, run, queue, download, reply, callback, client>>
    /\ IF job[scan.i].st = "Filling" THEN pc' = "top" /\ scan' = [i |-> 1, oldest |-> 0] /\ seen' = {}
       ELSE LET found == IF /\ job[scan.i].st = "Ready"
                            /\ \/ scan.oldest = 0
                               \/ Older(job[scan.i].ticket, job[scan.oldest].ticket)
                         THEN scan.i ELSE scan.oldest
                waiting == {job[s].req : s \in {t \in Slot : job[t].st = "Ready"}}
            IN  /\ seen' = IF scan.i = 1 THEN waiting ELSE seen
                /\ IF scan.i < SlotCount
                   THEN pc' = pc /\ scan' = [i |-> scan.i + 1, oldest |-> found]
                   ELSE /\ scan' = [i |-> 1, oldest |-> found]
                        /\ pc' = IF found = 0 THEN "top" ELSE "execute"

(* Where a job stands among those that took a ticket. *)
Rank(r) == CHOOSE i \in 1..Len(order) : order[i] = r

(* execute(): the recorder's part; the connection is looked at before and after. *)
Picked == job[scan.oldest]
Connected == client[Picked.req].st = "waiting"

Opening ==
    LET n == rec.valid
        buffer == [req |-> Picked.req, bytes |-> <<>>, remaining |-> n, ready |-> FALSE,
                   finished |-> FALSE, failed |-> FALSE, cancelled |-> FALSE]
    IN  \/ /\ reply' = "error" /\ UNCHANGED <<rec, file, download>>  \* read failed
        \/ \E k \in 1..(IF n < BlockSize THEN n ELSE BlockSize) :
              /\ rec' = Advanced(Opened(rec), k) /\ reply' = "stream" /\ UNCHANGED file
              /\ download' = [buffer EXCEPT !.ready = TRUE, !.remaining = n - k,
                                            !.bytes = SubSeq(file.lines, 1, k)]

Execute ==
    LET k == Picked.kind
        busy == rec.recording \/ download # None
        Refused(wrong) == wrong /\ reply' = "error" /\ UNCHANGED <<rec, file, download>>
        mine == rec.mounted /\ rec.hasRun /\ rec.runId = Picked.runId /\ ~busy
    IN  /\ At("execute", "reply")
        /\ UNCHANGED <<run, queue, callback, client, scan, seen>>
        /\ \/ /\ k \in {"info", "download"} /\ ~Connected
              /\ reply' = "none" /\ UNCHANGED <<rec, file, download>>
           \/ /\ k = "info" /\ Connected
              /\ reply' = "ok" /\ UNCHANGED <<rec, file, download>>
           \/ /\ k = "download" /\ Connected
              /\ \/ Refused(~mine \/ rec.valid = 0)
                 \/ mine /\ rec.valid > 0 /\ Opening
           \/ /\ k = "erase"
              /\ \/ Refused(~mine)
                 \/ /\ mine /\ UNCHANGED download
                    /\ \E o \in EraseRun(rec, file, Picked.runId) :
                          rec' = o.rec /\ file' = o.file /\ reply' = IF o.ok THEN "ok" ELSE "error"
           \/ /\ k = "format"
              /\ \/ Refused(TRUE)  \* not confirmed
                 \/ /\ ~rec.hasRun /\ ~busy /\ UNCHANGED download
                    /\ \E o \in FormatVolume(rec, file) :
                          rec' = o.rec /\ file' = o.file /\ reply' = IF o.ok THEN "ok" ELSE "error"

(* The answer goes out if the connection is still there; the job is over. *)
Reply ==
    LET r == Picked.req
    IN  /\ At("reply", "top") /\ reply' = "none" /\ scan' = [i |-> 1, oldest |-> 0]
        /\ job' = [job EXCEPT ![scan.oldest] = FreeJob]
        /\ order' = RemoveAt(order, Rank(r)) /\ seen' = {}
        /\ UNCHANGED <<file, run, nextTicket, callback>>
        /\ \/ /\ Connected /\ reply = "stream" /\ UNCHANGED <<rec, download>>
              /\ client' = [client EXCEPT ![r].st = "streaming",
                                          ![r].of = SubSeq(file.lines, 1, rec.valid)]
           \/ /\ Connected /\ reply # "stream" /\ UNCHANGED <<rec, download>>
              /\ client' = [client EXCEPT ![r] = Client("answered")]
           \/ /\ ~Connected /\ reply = "stream" /\ rec' = Closed(rec) /\ download' = None
              /\ UNCHANGED client
           \/ ~Connected /\ reply # "stream" /\ UNCHANGED <<rec, download, client>>

-----------------------------------------------------------------------------
Loop == LoopTop \/ LoopCommands \/ PollCancelled \/ PollFill \/ PollPublish
        \/ ScanSlot \/ Execute \/ Reply
Handler == TakeTicket \/ MakeReady \/ CheckFinished
Served(r) == Consume(r) \/ LengthSent(r) \/ Disconnect(r)

Next == \/ Loop \/ Handler
        \/ \E r \in Request : Served(r) \/ \E k \in Kinds[r] : \E id \in Ids(k) : Enqueue(r, k, id)

Spec == Init /\ [][Next]_vars

(* The loop turns and handlers return; a connection is served or lost. *)
FairSpec == Spec /\ WF_vars(Loop) /\ WF_vars(Handler)
                 /\ \A r \in Request : WF_vars(Served(r))

-----------------------------------------------------------------------------
(* The job executed is the oldest of those that were waiting when poll() began to
   look, whatever is queued while it looks and wherever the counter wraps. *)
OldestFirst ==
    pc = "execute" => \A r \in seen : Rank(Picked.req) <= Rank(r)

(* A download delivers the run that was asked for: at any time its first lines as
   they are in the file, in the end all of the validated prefix, while the run
   behind it can be neither replaced nor erased. *)
DownloadIsExact ==
    \A r \in Request :
        /\ IsPrefix(client[r].got, client[r].of)
        /\ client[r].st # "short"
        /\ client[r].of # <<>> => IsHead(client[r].of[1])
        /\ Streaming(r) => /\ rec.reader /\ download.req = r
                           /\ file # NoFile /\ IsPrefix(client[r].of, file.lines)

(* A run the device says is active is being recorded under its id, a recording
   belongs to it, and the run id does not fall behind the saved run's. *)
RunIsRecorded ==
    /\ run.active <=> rec.recording
    /\ rec.recording => rec.runId = run.id
    /\ rec.hasRun => rec.runId <= run.id

(* A reader does not stay open, so that the run can be erased and another started;
   and a request that was given a slot is executed, its client there or not. *)
RequestsEnd ==
    /\ rec.reader ~> ~rec.reader
    /\ \A s \in Slot : job[s].st = "Filling" ~> job[s].st = "Free"
=============================================================================
