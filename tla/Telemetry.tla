------------------------------ MODULE Telemetry ----------------------------
(***************************************************************************)
(* Live telemetry and history replay: the device's owner loop and          *)
(* NetworkManager on one side, the browser's DeviceTransport and AppStore  *)
(* on the other, a WebSocket and the HTTP state requests between them.     *)
(*                                                                         *)
(* The owner loop, the AsyncTCP callbacks and the browser's event loop are *)
(* three processes.  One sample is taken per unit of time, so a sample's   *)
(* ms is its number.  A message carries, besides the run it is labelled    *)
(* with, the run its samples were taken in (`in`), which is not on the     *)
(* wire.  The displayed reading and its freshness are left out.            *)
(***************************************************************************)
EXTENDS HistoryWindow

CONSTANTS
    None,           \* model value
    RawPageSize,    \* samples per raw chunk (12)
    CoarsePageSize, \* buckets per coarse chunk (8)
    QueueCap,       \* messages a client's queue holds
    FailedStarts,   \* a Start may fail after its run id was allocated
    MaxRun,         \* bound: run ids
    MaxSeq,         \* bound: samples of a run
    MaxExtra,       \* bound: idle readings and commands without effect
    MaxConn,        \* bound: sockets the browser opens
    MaxHttp         \* bound: HTTP state requests

ASSUME TelemetryAssumption ==
    /\ {RawPageSize, CoarsePageSize, QueueCap} \subseteq Nat \ {0}
    /\ {MaxRun, MaxSeq, MaxExtra, MaxConn, MaxHttp} \subseteq Nat
    /\ FailedStarts \in BOOLEAN
    /\ None \notin [snap : Nat, run : Nat, raw : SUBSET [seq : Nat, in : Nat],
                   coarse : SUBSET [ms : Nat, of : SUBSET Nat, in : Nat]]
    /\ Resolution <= RawCap    \* a bucket's samples fit the raw ring

VARIABLES
    \* device: the owner loop
    pc,        \* the next part of loop(): tick, routes, publish, replay
    run,       \* RunManager: [id, active, seq]
    hist,      \* HistoryStore
    latest,    \* HistoryStore.latestPhysicalSample: None, idle (run 0) or [run, seq]
    replay,    \* NetworkManager.replay
    snapshots, \* nextSnapshotId
    extra,     \* bound: idle readings and commands without effect
    overrun,   \* history: the ring dropped a sample the replay had not sent
    \* device: shared with the callbacks
    published, \* the status and reading the callbacks answer with
    pending,   \* pendingReplayClient, 0 for none
    clients,   \* the WebSocket clients the server holds
    wire,      \* messages on their way to the browser's socket
    \* browser: DeviceTransport
    sock,      \* [id, st]: the socket, st closed, connecting or open
    timer,     \* reconnectTimer is set
    polling,   \* pollTimer is set
    http,      \* the state requests under way, by who asked
    requests,  \* bound: state requests made
    \* browser: AppStore
    app,       \* store.run: [id, active]
    tel,       \* store.telemetry: [run, raw, coarse]
    tx,        \* store.snapshot.transaction, or None
    phase      \* store.connection.phase

owner == <<pc, run, hist, latest, replay, snapshots, extra, overrun>>
transport == <<sock, timer, polling, http, requests>>
store == <<app, tel, tx, phase>>
vars == <<owner, published, pending, clients, wire, transport, store>>

Requester == {"poll", "sync"}
NoRequest == [st |-> "none", answer |-> None]
IdleReplay == [phase |-> "idle", client |-> 0, snap |-> 0, run |-> 0, through |-> 0,
               throughMs |-> 0, from |-> 0, after |-> 0]

Init ==
    /\ pc = "tick" /\ run = [id |-> 0, active |-> FALSE, seq |-> 0]
    /\ hist = Empty(0) /\ latest = None
    /\ replay = IdleReplay /\ snapshots = 0 /\ extra = 0 /\ overrun = FALSE
    /\ published = [id |-> 0, active |-> FALSE, reading |-> None]
    /\ pending = 0 /\ clients = {} /\ wire = <<>>
    /\ sock = [id |-> 0, st |-> "closed"] /\ timer = TRUE /\ polling = FALSE
    /\ http = [r \in Requester |-> NoRequest] /\ requests = 0
    /\ app = [id |-> 0, active |-> FALSE]
    /\ tel = [run |-> 0, raw |-> {}, coarse |-> {}] /\ tx = None
    /\ phase = "disconnected"

-----------------------------------------------------------------------------
(* Messages, and how the device sends them. *)

Hello == [type |-> "hello", run |-> published.id, active |-> published.active]

Hears(client) == client \in clients /\ client = sock.id /\ sock.st # "closed"

Sent(messages, client) == IF Hears(client) THEN wire \o messages ELSE wire
SentToAll(messages) == Sent(messages, sock.id)

(* The library closes a client whose queue is full; as a bound, a message is
   not sent then, except that replay sees the queue and waits. *)
Room(n) == Len(wire) + n <= QueueCap

-----------------------------------------------------------------------------
(* The owner loop. *)

Goes(from, to) == pc = from /\ pc' = to

(* broadcastRunState, of the run the step leaves. *)
Broadcast ==
    /\ Room(1)
    /\ published' = [id |-> run'.id, active |-> run'.active, reading |-> latest]
    /\ wire' = SentToAll(<<[type |-> "state", run |-> run'.id, active |-> run'.active]>>)

(* SampleRouter::onSample of a sample of the run. *)
Sampled ==
    LET seq == run.seq + 1
        oldest == hist.raw[1].seq
    IN  /\ run.active /\ run.seq < MaxSeq /\ Room(1)
        /\ run' = [run EXCEPT !.seq = seq]
        /\ hist' = Pushed(hist, [runId |-> run.id, seq |-> seq, ms |-> seq,
                                 finite |-> TRUE, fault |-> FALSE])
        /\ latest' = [run |-> run.id, seq |-> seq]
        /\ overrun' = (overrun \/ /\ replay.phase \in {"coarse", "raw"}
                                  /\ Len(hist.raw) = RawCap
                                  /\ oldest > replay.after /\ oldest <= replay.through)
        /\ wire' = SentToAll(<<[type |-> "sample", run |-> run.id, seq |-> seq,
                                in |-> run.id]>>)
        /\ UNCHANGED <<published, extra>>

(* SampleRouter::onSample of an idle reading, which belongs to run 0. *)
IdleSampled ==
    /\ ~run.active /\ extra < MaxExtra /\ Room(1)
    /\ extra' = extra + 1
    /\ latest' = [run |-> 0, seq |-> 0]
    /\ wire' = SentToAll(<<[type |-> "sample", run |-> 0, seq |-> 0, in |-> 0]>>)
    /\ UNCHANGED <<run, hist, overrun, published>>

(* The first part of loop(): the duration limit, then the sensor, then the
   state if the run ended. *)
LoopTick ==
    /\ Goes("tick", "routes")
    /\ UNCHANGED <<replay, snapshots, pending, clients, transport, store>>
    /\ \/ UNCHANGED <<run, hist, latest, extra, overrun, published, wire>>
       \/ Sampled
       \/ IdleSampled
       \/ /\ run.active
          /\ run' = [run EXCEPT !.active = FALSE]
          /\ hist' \in {hist, Finalize(hist)}    \* Feather flushes, N16R8 does not
          /\ Broadcast
          /\ UNCHANGED <<latest, extra, overrun>>

(* archiveRoutes.poll: one queued command, and the state it leaves, which is
   broadcast whether the command succeeded or not. *)
LoopRoutes ==
    /\ Goes("routes", "publish")
    /\ UNCHANGED <<latest, replay, snapshots, overrun, pending, clients, transport, store>>
    /\ \/ UNCHANGED <<run, hist, published, wire, extra>>
       \/ /\ extra' = extra + 1 /\ extra < MaxExtra
          /\ UNCHANGED <<run, hist>>
          /\ Broadcast
       \/ /\ ~run.active /\ run.id < MaxRun
          /\ run' = [id |-> run.id + 1, active |-> TRUE, seq |-> 0]
          /\ hist' = Empty(run.id + 1)
          /\ Broadcast /\ UNCHANGED extra
       \/ /\ FailedStarts /\ ~run.active /\ run.id < MaxRun
          /\ run' = [run EXCEPT !.id = @ + 1]
          /\ Broadcast /\ UNCHANGED <<hist, extra>>
       \/ /\ run.active
          /\ run' = [run EXCEPT !.active = FALSE]
          /\ hist' \in {hist, Finalize(hist)}
          /\ Broadcast /\ UNCHANGED extra

LoopPublish ==
    /\ Goes("publish", "replay")
    /\ published' = [id |-> run.id, active |-> run.active, reading |-> latest]
    /\ UNCHANGED <<run, hist, latest, replay, snapshots, extra, overrun, pending, clients,
                   wire, transport, store>>

(* startReplay: nothing happens for a client that has gone. *)
StartReplay(client) ==
    IF client \notin clients THEN UNCHANGED <<replay, snapshots, overrun, wire>>
    ELSE LET n == Len(hist.coarse)
             last == IF n = 0 THEN 0 ELSE hist.coarse[n].ms
         IN  /\ snapshots' = snapshots + 1
             /\ replay' = [IdleReplay EXCEPT
                             !.phase = IF n = 0 THEN "raw" ELSE "coarse",
                             !.client = client, !.snap = snapshots + 1, !.run = run.id,
                             !.through = LatestRawSeq(hist), !.throughMs = last]
             /\ overrun' = FALSE
             /\ wire' = Sent(<<Hello, [type |-> "begin", snap |-> snapshots + 1,
                                       run |-> run.id]>>, client)

Chunk(coarse, raw) ==
    [type |-> "history", snap |-> replay.snap, run |-> replay.run,
     coarse |-> coarse, raw |-> raw]

SendCoarse ==
    LET page == CoarsePage(hist, replay.from, replay.throughMs, CoarsePageSize)
        n == Len(page)
        done == n < CoarsePageSize \/ page[n].ms >= replay.throughMs
    IN  IF n = 0
        THEN replay' = [replay EXCEPT !.phase = "raw"] /\ UNCHANGED wire
        ELSE /\ replay' = [replay EXCEPT !.from = page[n].ms + Resolution,
                                         !.phase = IF done THEN "raw" ELSE @]
             /\ wire' = Sent(<<Chunk({[ms |-> page[i].ms, of |-> page[i].of,
                                       in |-> page[i].runId] : i \in 1..n}, {})>>,
                             replay.client)

SendRaw ==
    LET page == RawPage(hist, replay.after, replay.through, RawPageSize)
        n == Len(page)
        done == n < RawPageSize \/ page[n].seq >= replay.through
    IN  IF n = 0
        THEN replay' = [replay EXCEPT !.phase = "end"] /\ UNCHANGED wire
        ELSE /\ replay' = [replay EXCEPT !.after = page[n].seq,
                                         !.phase = IF done THEN "end" ELSE @]
             /\ wire' = Sent(<<Chunk({}, {[seq |-> page[i].seq, in |-> page[i].runId]
                                          : i \in 1..n})>>, replay.client)

(* The mutant ends the replay without its message. *)
SendEndUnsaid == replay' = [replay EXCEPT !.phase = "idle"] /\ UNCHANGED wire
SendEnd ==
    /\ replay' = [replay EXCEPT !.phase = "idle"]
    /\ wire' = Sent(<<[type |-> "end", snap |-> replay.snap, run |-> replay.run]>>,
                    replay.client)

(* The run a replay was started for is over; the mutant goes on with it. *)
OutdatedNever == FALSE
Outdated == replay.run # run.id

(* pollReplay *)
LoopReplay ==
    /\ Goes("replay", "tick")
    /\ pending' = 0
    /\ UNCHANGED <<run, hist, latest, extra, published, clients, transport, store>>
    /\ \/ pending # 0 /\ StartReplay(pending)
       \/ /\ pending = 0 /\ replay.phase = "idle"
          /\ UNCHANGED <<replay, snapshots, overrun, wire>>
       \/ /\ pending = 0 /\ replay.phase # "idle" /\ replay.client \notin clients
          /\ replay' = [replay EXCEPT !.phase = "idle"]
          /\ UNCHANGED <<snapshots, overrun, wire>>
       \/ /\ pending = 0 /\ replay.phase # "idle" /\ replay.client \in clients
          /\ IF Outdated THEN StartReplay(replay.client)
             ELSE /\ UNCHANGED <<snapshots, overrun>>
                  /\ IF ~Room(1) THEN UNCHANGED <<replay, wire>>
                     ELSE CASE replay.phase = "coarse" -> SendCoarse
                            [] replay.phase = "raw" -> SendRaw
                            [] replay.phase = "end" -> SendEnd

-----------------------------------------------------------------------------
(* AsyncTCP callbacks. *)

(* WS_EVT_CONNECT: one client only; another is told BUSY and closed.  The
   handshake is on the wire first. *)
Accept ==
    /\ sock.st = "connecting" /\ wire = <<>> /\ sock.id \notin clients
    /\ IF clients # {}
       THEN wire' = <<[type |-> "open"], [type |-> "close"]>> /\ UNCHANGED <<clients, pending>>
       ELSE /\ wire' = <<[type |-> "open"]>>
            /\ clients' = {sock.id} /\ pending' = sock.id
    /\ UNCHANGED <<owner, published, transport, store>>

(* The server gives a client up; one that still listens is told. *)
ServerLoses ==
    \E c \in clients :
       /\ clients' = clients \ {c}
       /\ wire' = Sent(<<[type |-> "close"]>>, c)
       /\ UNCHANGED <<owner, published, pending, transport, store>>

(* sendDeviceState: /api/info answers the published hello, /api/now the
   published reading, or the state before there is one. *)
Answer(r) ==
    /\ \/ /\ http[r].st = "info"
          /\ http' = [http EXCEPT ![r] = [st |-> "hello", answer |-> Hello]]
       \/ /\ http[r].st = "now"
          /\ http' = [http EXCEPT ![r] =
                [st |-> "reading",
                 answer |-> IF published.reading = None
                            THEN [Hello EXCEPT !.type = "state"]
                            ELSE [type |-> "sample", run |-> published.reading.run,
                                  seq |-> published.reading.seq,
                                  in |-> published.reading.run]]]
    /\ UNCHANGED <<owner, published, pending, clients, wire, sock, timer, polling,
                   requests, store>>

-----------------------------------------------------------------------------
(* The browser: AppStore. *)

(* updateRun; the mutant keeps the telemetry and relabels it. *)
RunUpdatedRelabels(id, active) ==
    app' = [id |-> id, active |-> active] /\ tel' = [tel EXCEPT !.run = id]
RunUpdated(id, active) ==
    /\ app' = [id |-> id, active |-> active]
    /\ tel' = IF app.id # id THEN [run |-> id, raw |-> {}, coarse |-> {}] ELSE tel

PutRaw(raw, s) == {x \in raw : x.seq # s.seq} \cup {s}
Merged(raw, s) == IF \E x \in raw : x.seq = s.seq THEN raw ELSE raw \cup {s}
AllPut(raw, chunk) ==
    {x \in raw : \A s \in chunk : s.seq # x.seq} \cup chunk

(* A sample of the run shown. *)
IsShown(m) == m.run # 0 /\ app.active /\ m.run = app.id

(* The sample goes to the snapshot while one is open; the mutant drops it then. *)
LiveSampleDropped(m) ==
    /\ UNCHANGED tx
    /\ tel' = IF IsShown(m) /\ tx = None
              THEN [tel EXCEPT !.raw = Merged(@, [seq |-> m.seq, in |-> m.in])] ELSE tel
LiveSample(m) ==
    LET s == [seq |-> m.seq, in |-> m.in]
    IN  \/ ~IsShown(m) /\ UNCHANGED <<tel, tx>>
        \/ /\ IsShown(m) /\ tx # None
           /\ tx' = [tx EXCEPT !.raw = PutRaw(@, s)] /\ UNCHANGED tel
        \/ /\ IsShown(m) /\ tx = None
           /\ tel' = [tel EXCEPT !.raw = Merged(@, s)] /\ UNCHANGED tx

InTransaction(m) == tx # None /\ tx.snap = m.snap /\ tx.run = m.run

(* handle(): what each message does to the store. *)
Handle(m) ==
    CASE m.type = "hello" ->
            RunUpdated(m.run, m.active) /\ tx' = None /\ UNCHANGED phase
      [] m.type = "state" ->
            /\ RunUpdated(m.run, m.active) /\ UNCHANGED phase
            /\ tx' = IF app.id # m.run THEN None ELSE tx
      [] m.type = "begin" ->
            /\ UNCHANGED <<app, tel>>
            /\ IF m.run # app.id THEN UNCHANGED <<tx, phase>>
               ELSE /\ tx' = [snap |-> m.snap, run |-> m.run, raw |-> {}, coarse |-> {}]
                    /\ phase' = "replaying"
      [] m.type = "history" ->
            /\ UNCHANGED <<app, tel, phase>>
            /\ tx' = IF ~InTransaction(m) THEN tx
                     ELSE [tx EXCEPT !.raw = AllPut(@, m.raw), !.coarse = @ \cup m.coarse]
      [] m.type = "end" ->
            /\ UNCHANGED app
            /\ IF ~InTransaction(m) THEN UNCHANGED <<tel, tx, phase>>
               ELSE /\ tel' = [run |-> tx.run, raw |-> tx.raw, coarse |-> tx.coarse]
                    /\ tx' = None
                    /\ phase' = IF app.active THEN "live-active" ELSE "live-idle"
      [] m.type = "sample" ->
            LiveSample(m) /\ UNCHANGED <<app, phase>>

-----------------------------------------------------------------------------
(* The browser: DeviceTransport. *)

(* pollOnce skips its turn while a poll is under way. *)
Asked(r) ==
    /\ requests < MaxHttp /\ http[r].st = "none"
    /\ http' = [http EXCEPT ![r] = [st |-> "info", answer |-> None]]
    /\ requests' = requests + 1

(* startPolling polls at once unless its timer runs already. *)
StartPolling ==
    /\ polling' = TRUE
    /\ IF polling \/ requests = MaxHttp \/ http["poll"].st # "none"
       THEN UNCHANGED <<http, requests>>
       ELSE Asked("poll")

(* onclose, before the socket opened or after. *)
Closed ==
    /\ sock' = [sock EXCEPT !.st = "closed"]
    /\ wire' = <<>>
    /\ phase' = "polling-degraded"
    /\ timer' = TRUE
    /\ StartPolling

OpenSocket ==
    /\ timer /\ sock.st = "closed" /\ sock.id < MaxConn
    /\ timer' = FALSE
    /\ sock' = [id |-> sock.id + 1, st |-> "connecting"]
    /\ phase' = "connecting"
    /\ UNCHANGED <<owner, published, pending, clients, wire, polling, http, requests,
                   app, tel, tx>>

SocketLost ==
    /\ sock.st # "closed" /\ sock.id < MaxConn
    /\ Closed
    /\ UNCHANGED <<owner, published, pending, clients, app, tel, tx>>

(* The socket's next event. *)
Receive ==
    /\ wire # <<>>
    /\ UNCHANGED <<owner, published, pending, clients>>
    /\ LET m == Head(wire)
       IN  \/ /\ m.type = "open"
              /\ wire' = Tail(wire)
              /\ sock' = [sock EXCEPT !.st = "open"]
              /\ polling' = FALSE /\ phase' = "awaiting-state"
              /\ UNCHANGED <<timer, http, requests, app, tel, tx>>
           \/ m.type = "close" /\ Closed /\ UNCHANGED <<app, tel, tx>>
           \/ /\ m.type \notin {"open", "close"}
              /\ wire' = Tail(wire)
              /\ Handle(m)
              /\ UNCHANGED transport

(* The polling interval, and a state request the app makes on its own (after a
   command that is slow to show or has failed). *)
Ask(r) ==
    /\ r = "poll" => polling
    /\ Asked(r)
    /\ UNCHANGED <<owner, published, pending, clients, wire, sock, timer, polling, store>>

(* requestState goes on after an answer: from /api/info to /api/now. *)
Answered(r) ==
    /\ http[r].st \in {"hello", "reading"}
    /\ Handle(http[r].answer)
    /\ http' = [http EXCEPT ![r] = IF @.st = "hello" THEN [st |-> "now", answer |-> None]
                                   ELSE NoRequest]
    /\ UNCHANGED <<owner, published, pending, clients, wire, sock, timer, polling, requests>>

RequestFails(r) ==
    /\ http[r].st # "none"
    /\ http' = [http EXCEPT ![r] = NoRequest]
    /\ UNCHANGED <<owner, published, pending, clients, wire, sock, timer, polling,
                   requests, store>>

-----------------------------------------------------------------------------
Loop == LoopTick \/ LoopRoutes \/ LoopPublish \/ LoopReplay

Next ==
    \/ Loop
    \/ Accept \/ ServerLoses
    \/ OpenSocket \/ SocketLost \/ Receive
    \/ \E r \in Requester : Ask(r) \/ Answer(r) \/ Answered(r) \/ RequestFails(r)

Spec == Init /\ [][Next]_vars

(* The loop turns, the network delivers, a dead client is given up and the
   reconnect timer fires. *)
LiveSpec ==
    /\ Spec
    /\ WF_vars(Loop)
    /\ WF_vars(Accept) /\ WF_vars(Receive) /\ WF_vars(OpenSocket)
    /\ WF_vars(sock.st = "closed" /\ ServerLoses)

-----------------------------------------------------------------------------
(* Nothing is on its way: the browser's socket is served, its replay is over,
   every message and every answer has been handled. *)
Quiet ==
    /\ pc = "tick"
    /\ sock.st = "open" /\ sock.id \in clients /\ wire = <<>>
    /\ pending = 0 /\ replay.phase = "idle"
    /\ \A r \in Requester : http[r].st = "none"

(* The graph, the snapshot being assembled and the run shown change together: they
   are of one run, and never mix what was measured in two; when nothing is on its
   way and the device's history is of the run it names, that is the run it was
   measured in.  (After a Start that failed the history is of the run before.) *)
ShownUnderItsRun ==
    LET shown == tel.raw \cup tel.coarse
    IN  /\ tel.run = app.id /\ (tx # None => tx.run = app.id)
        /\ \A p, q \in shown : p.in = q.in
        /\ Quiet /\ hist.runId = run.id => \A p \in shown : p.in = tel.run

(* Nothing is ever shown as a run's that was measured in another, also when an HTTP
   answer sets the browser back for a while to a run that is over; Starts that fail
   after their id was allocated are the exception. *)
MeasuredInItsRun == \A p \in tel.raw \cup tel.coarse : p.in = tel.run

(* When nothing is on its way the browser shows the device's run. *)
RunAgreed == Quiet => app = [id |-> run.id, active |-> run.active]

(* When nothing is on its way the snapshot is no longer waited for. *)
SnapshotOver == Quiet => phase \in {"live-active", "live-idle"}

(* When nothing is on its way the browser has caught up: both of the above. *)
CaughtUp == RunAgreed /\ SnapshotOver

(* When nothing is on its way the graph has no hole: from its first point to the
   newest sample, every sample is there or in a bucket, and so is everything
   the device's ring still holds.  Samples the ring lost to a slow replay are
   the exception. *)
NoHole ==
    LET shown == {s.seq : s \in tel.raw} \cup UNION {c.of : c \in tel.coarse}
        held == {hist.raw[i].seq : i \in 1..Len(hist.raw)}
    IN  Quiet /\ ~overrun /\ hist.runId = run.id =>
           /\ held \subseteq shown
           /\ \A n \in 1..run.seq : (\E k \in shown : k <= n) => n \in shown

(* A socket that opens gets its snapshot, or closes. *)
SnapshotArrives ==
    sock.st = "open" ~> (phase \in {"live-active", "live-idle"} \/ sock.st # "open")
=============================================================================
