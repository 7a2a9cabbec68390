# PyroVue, in TLA+

PyroVue is a kiln temperature monitor: an ESP32 or ESP8266 board reads a thermocouple, keeps
a recent history in RAM, and serves a browser page over its own Wi-Fi network. On the N16R8
board it also records *runs* (firings) durably in flash, with annotations (*markers*), and
serves them through an HTTP API. This directory specifies that program: what its parts keep
and do, what they promise, which promises hold in every small configuration (TLC), and which
are theorems (TLAPS). Paths below are relative to `PyroVue/` in the repository.

## 1. Inventory

| component | state | operations | what makes it correct |
|---|---|---|---|
| `lib/SensorService` | last sample time, started | `tick` | one sample per interval, stamped with the run it belongs to |
| `lib/RunManager` | run id, its copy in NVS, prepared, running, origin | `begin`, `prepareRun`, `activatePreparedRun`, `abandonPreparedRun`, `stopRun` | an id never names two runs, also after a reset |
| `lib/RunLog/RunRecorder` | the selector: last acquisition, held acquisition, pending gap and faults, numbering | `reset`, `select`, `finish` | every logged record is an acquisition; faults and gaps in between are carried, once; the tail is not lost |
| `lib/RunLog/RunArchiveStore` | flash: a directory per run with `meta.json`, `samples.bin`, `events.bin`; RAM: the open writer, its pending records, the marker cache | `begin`, `checkStart`, `prepareRun`, `appendSelected`, `sync`, `finalize`, `captureSnapshot`, `deleteRun`, `appendEventAndSync`, `warmMarkerCacheStep`, reads | what was acknowledged survives a power loss; a verdict is final; a journal is never left unreadable |
| `lib/RunLog/MarkerReducer` | the reduced journal: operations and markers, by hash index | `ingestNext`, `lookupOperation`, `lookupMarker` | one journal, one meaning; it accepts what the writer appends |
| `lib/RunLog/RunLogService` | sample queue, dirty timer, recording, status, published copy | `begin`, `enqueueSample`, `enforceLimit`, `poll`, `handleCommand`, `mutateMarkerStep`, `copyPublishedStatus` | a Start acts once; a run ends; a failure is never reported healthy |
| `lib/NetworkManager/ArchiveRoutes`, `ArchiveResponse` | response slots with generations, the job queue | AsyncTCP handlers fill a slot and queue a job; `poll` executes one step of one job | a response goes to its own request; no slot leaks |
| `lib/NetworkManager/NetworkManager` | published status, the replay cursor | `loop`, `pollReplay`, `startReplay`, `onNewSample` | a client's history is complete and not mixed with another run's |
| `lib/NetworkManager/LoopRequestQueue`, `CsvDownloadBuffer` (Feather) | four job slots, tickets, a 1 KiB buffer | callbacks reserve and publish a slot, `poll` executes the oldest | jobs run in order of arrival, a download is not torn |
| `lib/HistoryStore` | raw and coarse rings, an open bucket | `push`, `clear`, `flush`, `restoreCoarse`, `copyRawAfter`, `copyCoarseFrom` | rings hold the latest, pages are exact, buckets summarise all of theirs |
| `lib/HistoryStore/LittleFsHistoryPersistence` | an append-only file of coarse samples | `begin`, `startRun`, `append`, `flush` | what reached the file is restored, and nothing torn or of another run |
| `lib/SingleRunCsv` (Feather) | one CSV file in flash | `begin`, `start`, `onSample`, `stop`, `erase`, downloads | rows are durable, recovery keeps whole rows |
| `src/main.cpp` | nothing of its own | `setup`, `loop`, `handleCommand` | the order of calls |
| codecs (`RawLogCodec`, `EventJournalCodec`, `CoarseHistoryCodec`, `Crc32`) | none | encode, decode | round trip, detection of torn frames |
| `PresetManager`, `DisplayManager`, `StatusManager` | a string in NVS, a screen, a LED | set, draw | - |
| `web/src/js` | telemetry store, snapshot assembler, connection, markers | `transport.js`, `state.js`, `protocol.js`, `run-protocol.js`, `markers.js`, `csv.js`, and views | the picture is the device's, also after reconnecting |

Interaction. Everything that changes device state runs on one *owner loop*
(`src/main.cpp`, `loop()`): `enforceLimit`, the sensor tick (whose sample goes to the RAM
history, the logging service's queue and the live WebSocket), the service's `poll`, then
`NetworkManager::loop`, which executes at most one step of one queued HTTP job. AsyncTCP
callbacks run beside it: they only fill slots and read published copies. The browser is a
third party that retries what it got no answer for. What is hard here is therefore not
locking, but

* power loss between any two file-system calls, in particular inside a handler;
* writes and fsyncs that fail, leave something behind, and are then retried;
* commands delivered twice, late, in another boot, or after what they acted on was deleted;
* work that spans many loop turns (warming the marker cache, replaying history) while
  the thing it works on changes;
* budgets and limits met exactly: the duration limit, the sample file, the journal.

`PROJECT.json` lists these hazards at their lines with the properties that watch them.

## 2. Modules

    SampleSelector <- RunRecorder                     <- MCRunRecorder, RunRecorderProofs
          ^
    RunArchive     <- RunLogService                   <- MCRunLogService
       |    ^              ^------- RunLogProofs
       |    ^------- MCRunArchive
       +-- INSTANCE RunLedger (abstract specification)
    MarkerReducer  <- EventJournal                    <- MCEventJournal, EventJournalProofs
    HistoryWindow  <- HistoryPromise (abstract specification)
       ^  ^  ^------- HistoryStore, INSTANCE HistoryPromise
       |  |       ^                                   <- MCHistoryStore
       |  |       +------- HistoryProofs
       |  |       v
       |  +---------- CoarseHistoryFile               <- MCCoarseHistoryFile
       +------------- Telemetry                       <- MCTelemetry, TelemetryProofs
    JobLine (abstract specification)
       ^------------- ArchiveSlots, INSTANCE JobLine  <- MCArchiveSlots, ArchiveSlotsProofs
    CsvRecorder    <- SingleRunCsv                    <- MCSingleRunCsv, SingleRunCsvProofs
       ^------------- FeatherRequests                 <- MCFeatherRequests, FeatherRequestsProofs

An arrow points from a module to the one it EXTENDS. `RunLogProofs` holds the theorems about the
archive and those about the service, because every call of the service is a step of the archive
and the second rest on the first. `HistoryProofs` holds those about the history in RAM and those
about the file it is kept in, which share the lemmas on lists cut to their newest entries; to let it
extend both, `CoarseHistoryFile` calls its specification `FileSpec`.

**SampleSelector / RunRecorder** (`RunRecorder.cpp`). The selector is a record and its
methods are operators on it, so that the logging service can run the very same definitions.
`RunRecorder` calls them in any order with any sample and keeps the history of what was
consumed and returned. The fault byte is a set of bits; temperatures are left out, since
acquisition numbers already tell samples apart.

**RunArchive** (`RunArchiveStore.cpp` and the identity half of `RunManager.cpp`). Flash is
seen as the code uses it: a reader sees all bytes written (`raw`, `verdict`), fsync makes a
prefix of them survive (`rawSynced`, `verdictSynced`), mkdir and rename are atomic. Variables
are named after the fields they stand for; `place` says which of the names `<id>`,
`.creating-<id>`, `.deleting-<id>` a run's directory has, and `files` how many of its three
files are complete. Each operation is one action with its failures as parameters: `SyncFiles`
leaves any prefix of the pending records visible and any prefix of those durable,
`StageFails` stops `prepareRun` after any file or after the rename, `DeleteRun` may fail after
the rename, `Reboot` loses anything not fsynced, and its own recovery may be incomplete. The
caller is arbitrary. `acked` and `born` are history variables.

**RunLedger** is what the archive promises to somebody who reads it after a power loss: at
most one open run, its log only grows, it is concluded once, a healthy conclusion freezes it,
new runs are numbered above those present, and a run leaves as a whole.
`RunArchive!ImplementsLedger` maps a run's log to the fsynced prefix of its records and its
outcome to the fsynced verdict. That a verdict never changes and that the log of a run that
ended well never grows again are part of what it says.

**RunLogService** (`RunLogService.cpp`, `RunManager.cpp`, the command job of
`ArchiveRoutes.cpp`, `setup()` and `loop()`). It EXTENDS `RunArchive`, so that every store
call of a handler is the store's own action. Because power may fail inside a handler, a
handler is a sequence of steps (`job`): `drain` (one queued sample per step), `flush`, then
`finish`, `sync`, `end` for `finalizeRun`, and `stage` for the second half of a Start. A step is
one operation of the store, which makes several file-system calls; `PowerCut` loses power in the
middle of one, and leaves what the store's own failing variants leave (`HalfDone`): `prepareRun`
stopped after any file or after the rename, a sync that made part of the records durable, a
directory renamed and not removed. No failing call is needed for it. `turn` is the position in `loop()`. Time is elapsed time of the run in acquisition intervals; a Stop
reads a clock of its own, up to `MaxLag` later, as the code does.

**MarkerReducer / EventJournal** (`MarkerReducer.cpp`, the journal half of
`RunArchiveStore.cpp`, `mutateMarkerStep` of `RunLogService.cpp`). `MarkerReducer` defines what
a journal means; the hash indexes are lookups over its frames. `EventJournal` has the file
(valid frames, a torn tail, what is fsynced), the warm cache, which is filled and reduced over
several loop turns, the mutation at the head of the job queue, and the end of the run, which
may come between two of those turns. Note text and time are left out: `base` already makes two
mutations under one operation id differ. A frame with a note is twice as long as one without.

**HistoryWindow / HistoryPromise / HistoryStore** (`HistoryStore.cpp`). `HistoryWindow` defines
the RAM history as a value: the newest samples of the current run, the newest finished buckets,
the open bucket, and the operators that replay and restore use on it; entries are in the order of
their numbers and times, so a page read after some point is a contiguous piece of the list. `HistoryPromise` is the
abstract specification: whatever the calls, the history is the window they have built.
`HistoryStore` is the implementation, two fixed rings with heads and sizes, the binary search
of the page reads, and the order in which the firmware makes the calls. A Start clears the rings
(`main.cpp:203` on the monitors, `RunLogService.cpp:563` on the N16R8; `StartRun`); the store does
not rely on it, since `push` empties rings that hold another run, and is checked without it too
(`StartRunUncleared`). A value is finite or not and faulty or not; minimum, maximum and mean are the set of the finite readings.

**CoarseHistoryFile** (`LittleFsHistoryPersistence.cpp`, `CoarseHistoryCodec.cpp`, and the
monitors' `handleCommand` and `SampleRouter` of `main.cpp`). The file is a header and records,
of which one that does not decode is `Torn`. Power may be lost at any write; any
open, remove, write, flush or close may fail, and a boot may find no file system or not be able to
read the file. `append` and `startRun` take their result from `write` alone, so both may report
what is not in the file: `persisted` moves on while the file stays as it was, and a run becomes
known to the persistence whose header is missing, so that its first record stands where the header
should. `acked` has the buckets that did reach a file with a header.

**Telemetry** (`NetworkManager.cpp`, `transport.js`, `state.js`). Three processes: the owner
loop (`pc`: tick, routes, publish, replay), the AsyncTCP callbacks (`Accept`, `ServerLoses`,
`Answer`) and the browser's event loop (`Receive`, `OpenSocket`, `SocketLost`, `Ask`,
`Answered`, `RequestFails`). `wire` is the queue of the browser's client; messages arrive in
order or, when the socket is lost, not at all. State requests travel by HTTP beside it, so an
answer may be older or newer than what the socket brings. `in` records, for a sample under way, the run it was
taken in, which is not on the wire; `ShownUnderItsRun` compares the two. One sample is taken
per unit of time, so a sample's time is its number.

**ArchiveSlots / JobLine** (`ArchiveRoutes.cpp`, `ArchiveResponse.cpp`). A request is one HTTP
exchange of a kind: a command or marker mutation with a body, a deletion, a read. It reserves a
response slot, which is known by its index and the *generation* of that reservation, and is put
into a ring of jobs. AsyncTCP's callbacks are one action each (`BodyStarts`, `BodyGoesWrong`,
`BodyComplete`, `BodylessRequest`, `Disconnect`, `Deliver`, and `TurnDown` for what is refused
before a slot is touched); the owner loop's `poll` is cut wherever it gives the lock back or
looks at shared state again (`PollAgain`, `PollDrops`, `PollExecutes`, `WriteAnswer`, `MarkReady`,
`TakeSlot`, `SendSlot`, `FinishJob`). What a job does to the device is its place in `ran`; that
part is `RunLogService` and `EventJournal`. A buffer is told apart by whose body or answer it
holds. `JobLine` is what this promises clients: accepted requests stand in one line, each is
carried out once in its turn, only a read may leave the line undone, and a client is told the
outcome of its own request or that it was not accepted. A change is carried out even when
its client has gone.

**CsvRecorder / SingleRunCsv** (`SingleRunCsv.cpp`, `FeatherCsvStorage.cpp`). The Feather keeps one
run in one CSV file and nothing beside it: what the run was is read from the file by the boot scan
(`Scan`). The recorder's fields are one record, and a method is the set of its outcomes, one for
every way the storage may answer: nothing written, a part of a line, the line without its fsync,
all of it. `begin` mounts the volume, and a mount that fails leaves whatever the file was
(`FeatherCsvStorage.cpp:21`) with a recorder that will not record. `SingleRunCsv` calls the methods in any order, with power losses that keep any
prefix not yet synced and may end in the middle of a line.

**FeatherRequests** (`LoopRequestQueue.cpp`, `CsvDownloadBuffer.h`, and the Feather's part of
`main.cpp`). It EXTENDS `CsvRecorder`, so that the loop records with the same operators. The
AsyncTCP task is the route handlers (`Enqueue`, `TakeTicket`, `MakeReady`: a slot is taken, gets its
ticket and becomes ready in three steps) and the response of the download (`Consume`, `CheckFinished`,
`LengthSent`, `Disconnect`); the loop is `LoopTop` (limit or sample), `LoopCommands`, the
download's `PollCancelled`, `PollFill`, `PollPublish`, the scan for the oldest ticket one slot at a
time, `Execute` and `Reply`. Tickets wrap.

The eight modules `*Proofs` hold the theorems, section 5.

Modules `MC*` only add model values and symmetry. Operators whose comment says *mutant* are
deliberately wrong variants of the definition they precede; no specification uses them. They
document, for every property, one plausible mistake in the code that the property would catch.

## 3. Runs

| run | instance | shows |
|---|---|---|
| `selector` | 2 runs, 1 fault bit, numbers 0..4, times 0..10, window 9, log interval 6, acquire interval 3 | records tell all that was consumed, keep the cadence and hold nothing back, for every such stream, with repeated, reversed, late and foreign samples |
| `archive` | 2 runs, 1 request, 2 readings (symmetric), 3 records per file, buffer 2, NVS unreliable | types, store safety and the refinement of `RunLedger` |
| `service` | 2 runs, 2 requests, window 4, log interval 2, flush 2, 1 failing call, 2 boots, NVS working | the service's promises on the owner loop; what it says is durable, ids are unique, runs end |
| `journal` | 3 operations, 1 marker, budget 7, reserve 1, base revisions to 3, 1 fault, 1 power loss | journal safety; a marker request is answered |
| `history` | raw ring 3, coarse ring 2, resolution 2, 2 runs, 4 samples, times to 5 | the rings implement `HistoryPromise`, pages are exact, nothing falls between rings |
| `coarse_file` | 2 runs, 6 samples, 2 power losses, ring 2 | what reached the file is restored, and only what was measured |
| `telemetry` | 2 runs, 3 samples, raw ring 2, coarse ring 1, pages of 1, queue 2, 2 sockets, failing Starts | once quiet, the browser shows the device's run, its snapshot is over and its graph has no hole; it changes run as a whole; a socket gets its snapshot |
| `telemetry_http` | 2 runs, 2 samples, 1 socket, 1 HTTP state request, 1 idle reading | nothing is shown as a run's that was measured in another, also while an HTTP answer is older or newer than the socket's news |
| `slots` | a command, a read and a deletion, 2 slots, 2 jobs, 1 poll of preparation, 1 response that cannot be allocated | the transport implements `JobLine`; answers do not cross; accepted requests are answered and slots come back |
| `csv` | 2 runs, acquire 1, log 3, window 5, numbers 0..4, times 0..6 | what the recorder wrote is what a boot recovers, an ended file is whole, rows account for every acquisition |
| `feather` | 3 requests, 2 slots, tickets modulo 8 from 7, blocks of 2 lines, a saved run of 3 lines, 2 runs, window 1 | oldest job first, downloads are exact, the run and its recording agree, requests and readers end |
| `service_late_stop` | as `service`, 1 request, 1 boot, no failing call, a Stop read up to 2 later | a counterexample, section 4 |

Why the bounds are enough. Two runs are needed for anything about identities or "another
run"; the third would only repeat the second, since no operation relates more than the open
run to one other. Three records with a buffer of two reach: an empty, a partial and a full
buffer, a forced sync, a full file. A window of two log intervals reaches a logged, a held
and a terminal record and both sides of the limit; the clock may jump by two intervals, so a
limit or a gap can be stepped over. One failing call per behaviour finds the failure that
matters in each handler; the archive run has no such bound, and losses of power are not
counted among them. Two boots give one recovery; in
the archive run there are as many as one likes. A journal of seven units holds the start, a
created, an updated or a deleted marker and the end, and refuses the second note that only
the reserve keeps out; a marker created, updated and deleted fills it exactly up to the
reserve. A second marker, whose
frame may stand between two of the other, is too much for the liveness check; the safety
properties of the journal are also checked with two (symmetric) markers and room for three notes
by `MCEventJournalMarkers.cfg`. Rings
of three and two entries are overwritten and wrap within the four samples of a run, and every
page size up to the ring is asked for. Three requests through two slots are the case of a full
table, and the third takes a slot, with a new generation, whose last holder may still have a job,
a response or a disconnection to come; a ring of two wraps. The CSV's window of five with a row
every three holds a row, acquisitions between rows, a terminal row and both sides of the limit.
In `feather` the ticket counter wraps at the second job (the code's has 32 bits; only
differences are compared), a saved run of three lines takes two blocks, and a window of one keeps
the recorder, whose own run covers longer ones, small. In `telemetry` a third sample overwrites a ring of two while replay is
at any of its phases, pages of one make every snapshot of two chunks or more, and a second
socket is a reconnection. Every bound is a named CONSTANT (`Max...`) that stops only the
environment; `QueueCap` is also one: where the library would close a client with a full queue,
the model sends nothing more to it.

`telemetry` runs without HTTP and `telemetry_http` with Starts that do not fail, because outside
these limits their invariants do not hold: section 4. Two further configurations check existing
properties under other bounds and hold: `MCRunLogServiceCalls.cfg` (the service's calls in any
order, so that the sample queue overflows, which it cannot on the owner loop) and
`MCEventJournalMarkers.cfg`.

Fairness. `RunsEnd` assumes that the owner loop keeps turning (`WF` on its calls and on the
handler under way, which nothing preempts) and that the clock moves infinitely often between
turns (`SF` on a loop turn with time passing); nothing is assumed of clients or of faults.
`RequestAnswered` assumes that the loop keeps executing the job at the head of the queue, which
`ArchiveRoutes::poll` does every turn until it is answered. `SnapshotArrives` assumes that the
loop turns, that a message sent on an open socket is delivered and a connection accepted unless
the socket is lost, that the server gives up a client that is gone (its keep-alive timer), and
that the browser's reconnect timer fires; it does not assume that sockets stay open.
`AcceptedAnswered` assumes that the loop turns, that the TCP task sends what it was given, and that
a client in the middle of its body completes it or the server's timeout closes its connection.
`RequestsEnd` assumes that the loop turns, that a handler once called returns, and that a
connection is served or lost.

## 4. What the counterexamples show

**A late Stop leaves the writer open** (`service_late_stop`). `enforceLimit` sees a clock just
below the limit; the Stop handled in the same loop turn reads `millis()` again, past it.
`finalize` rejects the end time (`RunArchiveStore.cpp:2105`) before closing the writer; the
service stops recording anyway. Until a reboot every Start is BUSY, the run cannot be deleted,
and it has no `run.ended`.

Other statements of the documents or plausible expectations that do not hold have a definition
and a small configuration of their own, which are not part of the regular runs:

| statement | configuration | what happens |
|---|---|---|
| `SnapshotOver` with HTTP | `MCTelemetryHello.cfg` | an `/api/info` answer is handled like the socket's own hello and drops the open snapshot (`state.js:277`); the rest of the replay is ignored and the page stays in "Syncing history" until the next reconnection |
| `StartAckIsDurable` (`docs/protocol-v3.md:62`: "N16R8 Start/Stop acknowledge durable work only after persistence") | `MCRunLogServiceStartAck.cfg`, with no failing call | power is lost in `prepareRun` after `meta.json` and before the other files; the boot keeps `.creating-<id>` (`RunArchiveStore.cpp:1634-1643`), `findStartRequest` finds the requestId in its `meta.json` (1829-1861), and the Start sent again is answered ok with `durable=true` (`RunLogService.cpp:465-473`) for a run that was never activated and lacks files |
| `StopAckIsDurable` | `MCRunLogServiceStopAck.cfg` | the first Stop wrote `run.ended` but its fsync failed; the retry sees the frame and answers durable without an fsync |
| `EndIsNotStale` | `MCEventJournalStaleEnd.cfg` | after a marker's failed fsync the writer's revision lags the journal; `run.ended` is refused and the run reads as interrupted |
| `PersistedIsStored` | `MCCoarseHistoryFileFlush.cfg` | `append` ignores what flush and close return (`LittleFsHistoryPersistence.cpp:65-66`) and reports done; `main.cpp:113` moves on and the bucket is never offered again |
| `OneRecordPerBucket` | `MCCoarseHistoryFileRepeat.cfg` | the first reading after a boot appends the newest restored bucket again |
| `HistoryIsOfNamedRun` | `MCCoarseHistoryFileRun.cfg` | power lost between saving the run id and removing the old file: the old buckets are sent under the new id |
| `RunAgreed` | `MCTelemetryStale.cfg` | an HTTP answer older than the socket's news sets the browser back to a run that is over |
| `MeasuredInItsRun` with failing Starts | `MCTelemetryFailedStart.cfg` | a Start that fails after its id was allocated: the old run's samples are sent under the new id |

`SaidIsDurable` holds the part of the acknowledgements that is true: for a Start that once began its
run, whatever fails afterwards and however often it is sent again, and for a Stop while no call
fails. `AppendedSurvive` likewise speaks of the buckets that reached the file, not of all that
`append` reports. Seen while modelling and not turned into runs: a deletion that fails after the rename is
answered `deleted: false` when retried; samples queued when the store fails are not counted as
dropped; a failed look at the journal file leaves the marker cache in its error phase until
another run's job displaces it; if NVS loses the saved id and the run with the highest id had been
deleted, that id is used again; on the monitor targets, whose runs have no limit, elapsed time
wraps after 49.7 days and the samples after that are kept out of the buckets. On the Feather, a
Stop whose footer cannot be written answers `WRITE_FAILED` and its retry answers ok, because the run
is no longer active (`main.cpp:216`); the file is not taken for a complete one (`EndedMeansWhole`).
The Feather's scan for the oldest job may pass a slot that is filled behind it, so a job can be
executed before one with an older ticket that was not yet visible when the scan began; nothing
states the order more strictly than `OldestFirst` does.

## 5. Proofs

Each theorem holds for every value of the constants that its module's named assumptions allow:
any number of runs, requests, samples, slots and sockets, any window, buffer, ring and file size.
The pattern is the same everywhere: a conjunction of named parts holds initially, every step
keeps it (one lemma per action or operation), and the stated property follows.

| module | theorem | what it states |
|---|---|---|
| `RunLogProofs` | `TypeCorrect`, `AcknowledgedSurvive`, `WriterAgrees`, `PreparedIsFree`, `IdsUnique` | `TypeOK`, `AckedSurvive`, `WriterOnOpenRun`, `PreparedIdIsFree`, `IdsNeverReused` |
| | `ArchiveImplementsLedger` | the store implements `RunLedger` (`ImplementsLedger`) |
| | `ServiceUsesArchive`, `ServiceKeepsLedger` | the service implements `ArchiveSpec`, and with it the ledger |
| | `OneStartOneRun`, `PicturesAgree`, `LossIsBounded`, `HealthIsEarned` | `StartOnce`, `InStep`, `BoundedLoss`, `HealthyMeansSettled` |
| | `SayingsAreDurable` | `SaidIsDurable`, when calls come in the order of `loop()` |
| `EventJournalProofs` | `AcknowledgedFramesSurvive`, `OperationsAppliedOnce`, `RunCanEnd` | `AckedFramesSurvive`, `AppliedOnce`, `EndFits` |
| | `RepeatedAnswersAgree` | the action property `AnswersAgree` |
| `ArchiveSlotsProofs` | `AnswersStayApart` | `AnswersDoNotCross` |
| | `TransportImplementsLine` | slots, jobs and callbacks implement `JobLine` (`ImplementsLine`) |
| `RunRecorderProofs` | `RecordsTellTheirWindow`, `CadenceIsKept`, `TailIsComplete` | `RecordsTellAll`, `Cadence`, `NothingHeldBack` |
| `HistoryProofs` | `RingsImplementPromise` | the rings implement `HistoryPromise` (`RingsKeepTheWindow`) |
| | `BucketsAreWhole` | `BucketsSummarise` |
| | `PagesOfTheWindow` | `PagesAreExact` |
| | `AppendedAreKept`, `RestoredWasMeasured` | `AppendedSurvive`, `RestoredIsTrue` |
| `SingleRunCsvProofs` | `EveryLineRecovered`, `EndedRunsAreWhole`, `RowsAccountForAll` | `EveryLineCounts`, `EndedMeansWhole`, `RowsTellAll` |
| `TelemetryProofs` | `GraphIsOfOneRun` | graph, snapshot and run shown are of one run, whatever answers come late and Starts fail |
| | `MeasuredWhereShown` | `MeasuredInItsRun`, when no Start fails after taking its id |
| | `BrowserCatchesUp`, `ShownIsOfItsRun` | `CaughtUp`, `ShownUnderItsRun`, while no late HTTP answer is handled |
| | `NothingMissing` | `NoHole`, under the same hypothesis |
| `FeatherRequestsProofs` | `RunBelongs`, `DownloadDelivers`, `OldestIsExecuted` | `RunIsRecorded`, `DownloadIsExact`, `OldestFirst` |

### The arguments

**The store.** `AckedSurvive` speaks only of runs that are present; after a failed deletion and a
recovery the same number may have a directory again, so the invariant `IInv` needs
`AbsentIsEmpty` (a run without a directory has left nothing behind) and the unconditional
`FilesInOrder`. That acknowledged records are not overwritten needs `WriterOnOpenRun`: the offset
the writer will write at is the number of acknowledged records. `PreparedIdIsFree` needs
`PreparedIsRun`, and that recovery starts above every directory it finds. The refinement maps a
run to what a power loss would leave of it: its directory (`PhaseOf`), the synced prefix
(`LogOf`) and the synced verdict (`OutcomeOf`). Each operation is then one of appears, grows,
settles, departs, or leaves all three; `HealthyIsSynced` gives that a run concluded without loss
has nothing left to grow by.

**The service** uses the store's own actions, so each of its steps is an `ArchiveNext` step or
leaves the store alone (`ServiceUsesArchive`), and every theorem about the store holds of it. Its
invariant `SInv` has in addition: where a handler may be and what it has established on its way
(`HandlerAt`), what is left when nothing is recorded (`Resting`), the selector and the
queue of the run being recorded (`SelectorOn`, `QueueInOrder`), and that the newest sample is in
the queue, held by the selector or logged (`NewestIsKnown`), from which `HealthyMeansSettled`
follows. `StartOnce` rests on `OneRunPerStart`: a request activates only the run after the one its
client knew. `InStep` needs that a logged record is a log interval after the one before, so that a
window cannot fill the file. `SaidIsDurable` is about a status that is published at one point of
the loop and an acknowledgement given at another, and which is read in the turn it was given in;
hence the order of calls as its hypothesis. Of a Start it says that the run it began
(`Begun`: the request the directory names is the one that activated it) has all its files. The
invariant behind it is `RunsAreWhole`. A directory that is cut short in `prepareRun` is none that its
Start began, since a Start is obeyed only in the boot it was sent in, and the id of that directory
is above those of all runs begun in that boot (`StagingIsNotBegun`); and a power loss takes no file
from a run that keeps its directory (`PowerCutKeeps`).

**The journal.** The heart of `JInv` is `CacheIsJournal`: the warm cache is filled and reduced over
several turns of the loop while the journal may be written in between; since every write drops
the cache and every turn looks at the size again, one being reduced or ready is the whole journal,
and the journal of a ready one is on the medium. So what a
lookup answers is what the file says, and an operation is recognised when it is repeated.
`AckedIsKept` ties every acknowledgement to its frame, `WriterCanEnd` says that a writer still has
room for `run.ended`, since markers leave the reserve alone; that it has so from the beginning
needs `Reserve < Budget`.

**Slots and the line.** `SInv` says of each slot who holds it: a lease is good while its
generation is the slot's, a slot whose lease is good is reserved for that very request
(`ClientOK`, `JobOK`), a job at the head has its slot in the state which that point of `poll()`
expects (`JobsHold`), and a slot that is not free has somebody who will give it back (`SlotsHeld`).
That the answer reaches its own request is then that what the slot holds is what its job's request
asked for (`OwnAnswer`). The line is the ring from its head, without the job under way; each
step accepts, refuses, carries out, drops or tells, or leaves the line as it is.

**The selector.** The ghost variables `accepted` and `mark` cut the stream into the windows the
records end. `RInv` says that a record tells of its window what it should (`Tells`) and that the
fields of the selector are exactly the faults, holes and last acquisition of the window still open
(`Remembers`); each is needed for the other.

**The rings.** The refinement maps each ring to the list of its entries from the oldest on.
Writing at the head is appending and keeping the newest (`PutAt`), whether or not the ring is full,
which is arithmetic of remainders. For the buckets, `HInv` has that finished buckets ascend with
the open one last (`Ascending`), that the open one is the latest sample's (`Sampling`), and that no
sample falls between them (`Placed`); then a bucket never reopens, and each is complete when sealed.

That the pages are exact rests on the binary search finding the first entry not older than what
was asked for (`SearchFinds`), in a ring that rises from its head on (`Stamped`: sequence numbers
and bucket times, an invariant of its own because an overwritten entry leaves the order). The
search is a recursive function over pairs of bounds, which to the prover is a choice among the functions that
satisfy the equation. One exists, since it can be written down without recursion (`Clamped`,
`SearchExists`); and no two can differ, for the shortest interval where one gave another answer than
the least index would, half of it would be a shorter one (`SearchFinds`, with `LeastNumber`, the well-foundedness of the natural
numbers stated for a set).

**The coarse file.** A torn record hides all records behind it, and a boot forgets what was already
appended. `FInv` says which appends can then do harm: none. `FileOK` has that the records before
the first torn one are of the file's run, were measured and rise in time (`RecordsRise`), and that
what reached the file is among them, under a header that a boot accepts. An append that changed
nothing (`NotAppended`) keeps it, whatever was reported; one behind a missing header spoils a file
that holds nothing. `Link` says of every moment at which `append` would write
(`Writes`) how the ring and the file stand to each other: either no record is torn, and the newest
bucket of the ring is no earlier than any of them, so that it belongs behind them (`Own`); or the ring
is what a boot read back before a torn record, no run is active, and the bucket offered is the last
of those records (`Restores`), so that writing it once more, where nobody will read it, adds
nothing to `acked` that is not kept. A new sample cannot come in the second case because a run starts only
with a new file, or with a persistence that knows another run. What `begin` puts into the ring,
record by record, is the newest entries of the valid prefix (`ReadBackIs`): the recursive function
satisfies an equation that one function does, and by the least index where two would differ, only
one; and cutting after each record is cutting once (`NewestAgain`).

**The CSV file.** `Sound` relates three things: the recorder's fields, the lines of the file and the
acquisitions taken. What a boot would recover is stated without the recorder (`Saved`), what its
status says is stated of any recorder that knows a run (`Reports`), and for one that records: the file
ends where it believes (`Stands`), rows keep the cadence so that the next always fits (`Paced`), and
the flags are those of the acquisitions since the last row (`Flagged`). A write that fails ends
recording, so the last part is given up exactly where it stops being true.

**Telemetry.** `TInv` collects everything the browser was or may yet be told, wherever it is: on
the socket, in an HTTP answer, in the published reading, in the snapshot being assembled, in the
graph (`Told`), as pairs of the run a sample is labelled with and the run it was measured in.
`Labelled` says these pairs are a function of the label, and under the current label the run of the
history. No step looks at more than one of those places, but all of them have to agree, and a late HTTP
answer may bring back an old label; `GraphIsOfOneRun` holds because that label still means one run.
`MeasuredWhereShown` adds that label and run are equal (`LabelIsRun`), which a Start that fails
after taking its id breaks. For `CaughtUp`, `CInv` says that the last news on its way is the device's
run (`RunTold`) and that a replay over on the device is, or will be once the messages before it are
handled, over in the browser (`ReplayOnItsWay`). Its hypothesis is `[][~LateAnswer]_vars`: no answer to a state request
is handled after the socket was greeted. It always holds in the instance `telemetry`, which has no
HTTP requests; where it fails, so do the properties (section 4: `RunAgreed`, `SnapshotOver`).

`NoHole` speaks of a moment when nothing is on its way; before it, the samples of the graph are in many
places. The invariant `Delivers` adds them up: if the replay is idle, there is a message on the wire (or
none, and then what the browser shows) from which the graph is settled, and its base together with what the
messages behind it bring is `Whole`, which is everything the ring holds, and no hole above the oldest
(`Results`). While a replay runs, the same is said of the snapshot it fills, with what the replay has still
to send added (`Replays`, `Sends`): the raw samples between its cursor and its end, and the buckets not yet
sent. `Kept` says what ring and buckets hold: the newest samples in order, and consecutive buckets up to the
newest sample. A live sample sent in the middle is in the gathered part, so the three parts overlap and no
step has to count. The steps then fall into four kinds: a message is put behind the others (the lemmas on
`Behind`), the first is handled (`Takes`, one lemma per message type), the ring and the buckets move on
(`Follows`), and the replay sends a page (`SendsCoarse`, `RawDelivers`), for which a page has to be exactly
what the cursor passes over.

The delicate point is a run that ends while its replay sends buckets: the open bucket is then put behind the
others and may push out the first. `InTime` says why no hole results. Without an overrun the ring has lost
nothing since the replay began that was not sent, so during the buckets it either still holds every sample
of the run, or no sample has come since the replay began; and in that case the first bucket has been sent,
or nothing of the replay has been gathered yet and the graph just begins one bucket later. That the raw
samples reach back to the last finished bucket needs `Resolution <= RawCap`.

**The Feather's requests.** `FInv` has two halves that meet in the slot being executed. The first
is about the one download: what has reached the client, what is in the block and what the file's
reader has yet to give are, one behind the other, the validated lines (`Delivered`, `Buffered`),
and a recorder that is being read neither records nor starts nor erases, so that those lines stay
what they were when the length was announced. That the next download does not read from
the last one's block needs that the last one's client has ended by then, which is why a response is
`Streaming` only while its buffer is not cancelled (`Gets`). The second half is about the line.
`InLine` says that the requests with a ticket are those in some slot; `Numbered` that their tickets
count down from the next one, with at most one gap. The gap is the point: a job may be
executed before one with an older ticket that was not yet visible when the scan began, and then
leaves a hole behind those before it. A second job cannot do so before they are all executed,
since the next scan begins with them ready. So no two tickets in line are more than the number of slots
apart, and `poll()`'s signed difference orders them as the line does (`Found`, over one slot of the scan
at a time).

### Assumptions

Type-like facts are not repeated here. Those that say something about the code:

| assumption | why the code has it |
|---|---|
| `RunLogService`: `MaxDuration < (RawCapacity - 1) * LogInterval` | a record every two seconds for a day (`include/RunLogTypes.h:12`), and the file has room for 43202 (`RunArchiveStore.cpp:47`) |
| `EventJournal`: `1 <= Reserve < Budget` | the journal's reserve is that of the end frame; the start frame has to fit into the rest |
| `HistoryWindow`: rings and resolution positive; `Telemetry`: `Resolution <= RawCap` | fixed array sizes; a bucket spans fewer samples than the raw ring |
| `FeatherRequests`: `TicketSize > 2 * SlotCount + 1` | tickets have 32 bits and there are four slots (`LoopRequestQueue.h:29`) |
| `LoopOrder` (hypothesis of `SayingsAreDurable`) | `loop()` makes the service's calls in one order |
| `None`, `NoFile`, `NoRequest`, `Torn` differ from the values they stand beside | an absent value (a null pointer, an empty file name) is not a record, and bytes that fail their checksum are not a bucket |

### What the proof work changed in the models

The attempt to prove `EveryLineRecovered` showed that a failed mount was modelled the wrong way
round: it was possible for a recorder that was already mounted and not for one that was not.
`CsvRecorder!Begin` now follows `FeatherCsvStorage::mount()`. The journal needed `Reserve < Budget`, without
which the first frame does not leave room for the last. The order of the Feather's jobs was assumed to need tickets of more
than twice the number of slots; the proof asked for one more, because of the gap a job leaves that overtakes
another, and TLC finds `OldestFirst` violated at the old bound. Four definitions got another form
with the same meaning, which TLC and the prover both accept: the journal's size counts noted
frames, the pages of `HistoryWindow` are subsequences, the properties of `SingleRunCsv` speak
of rows by their position in the file, and the boot of `CoarseHistoryFile` is a recursive function
(`ReadBack`) where it was a fold.

### What is only model-checked

* Liveness: `RunsEnd`, `RequestAnswered`, `SnapshotArrives`, `AcceptedAnswered`, `RequestsEnd`. The
  prover has no fairness reasoning with ENABLED.

Every safety property of the regular runs has a theorem; those of the counterexamples of section 4
have none, being false.

## 6. Not modelled

Byte layouts, JSON and checksums: a frame decodes or it does not. The read routes and their
bounded pages, the metadata cache, and `checkStart`'s space accounting (a Start may always be
refused for it). The parsing of routes, headers and bodies: a request may always be turned down.
Of the CSV the formatting and splitting of lines and the sensor's fault bits beyond one. The
WebSocket monitors' command ids. The browser's run protocol, markers and exports: planned,
below. In `Telemetry` the
displayed reading and its freshness, reconnect delays, and clients other than the one browser. Display, LED,
preset string, presentation and floating-point analysis: output only. The wrap of `millis()`
after 49 days: time is the difference the code computes. The root `lib/SensorService` is not
part of the PyroVue build.

Narrower than the code, within what is modelled:

* In `HistoryStore` a run's samples are later than one another, as `SensorService` takes them, so
  the branch of `push` for a sample of an earlier bucket (`HistoryStore.cpp:97`) is never taken.
  Only the wrap of the elapsed time would take it.
* `CoarseHistoryFile` takes it that an open that empties a file has emptied it (the core commits
  that at once), that a write that fails while the power is on leaves nothing (LittleFS commits
  a file when it is synced), and that a file that opens reads to its end.
* In `CsvRecorder`, an exclusive create that fails leaves no file, and a file that is present can be
  looked at. Nothing checked here depends on either.
* `FeatherRequests!Enqueue` takes the lowest free slot in one step, where `reserve()` tries them one
  after the other; which slot a request has matters only to the scan, which looks at tickets.

## 7. Plan

Done: the selector, the store with its ledger and proofs, the service, the journal, the RAM
history with its promise, the coarse file, telemetry and replay, the HTTP slots with the line
they implement, the Feather's recorder, request queue and download, and the theorems of
section 5. Next, in order:

1. The hash index of `MarkerReducer` as an implementation of its lookups, and the frame scan of
   `RawLogCodec`.
2. `run-protocol.js` against `MarkerReducer`: the browser's strict validator accepts every
   journal the device serves, page by page.
3. The answer of a deletion, and the read routes' pages, on top of `ArchiveSlots`.
