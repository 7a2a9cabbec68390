----------------------------- MODULE RunArchive -----------------------------
(***************************************************************************)
(* The durable run archive of the N16R8 target: lib/RunLog/RunArchiveStore *)
(* (run directories, the active writer, recovery at boot) together with    *)
(* the identity half of lib/RunManager (the run id kept in NVS).           *)
(*                                                                         *)
(* The store is modelled under an arbitrary caller: any operation may be   *)
(* called whenever the store's own checks admit it, any write or fsync may *)
(* fail leaving any prefix behind, and power may be lost between any two   *)
(* file-system calls.  RunLogService is one such caller.                   *)
(*                                                                         *)
(* LittleFS is seen as src/ uses it: a read shows every byte written so    *)
(* far (raw, verdict); fsync makes them survive a power loss (rawSynced,   *)
(* verdictSynced); mkdir and rename are atomic and survive.                *)
(***************************************************************************)
EXTENDS Naturals, Sequences, FiniteSets, FiniteSetsExt

CONSTANTS
    Run,          \* run ids: 1..MaxRunId, the largest standing for UINT32_MAX
    Request,      \* requestId tokens of Start commands
    Reading,      \* what one logged record holds besides its logSeq
    Verdict,      \* terminal statuses: complete, duration_limit, storage_error
    StorageError, \* the one of them that admits lost records
    Unended,      \* no run.ended frame in the journal
    NoRequest,    \* no parsable meta.json
    PendingCap,   \* kPendingCapacity: records buffered before a forced sync
    RawCapacity,  \* records that fit kRawLogicalMaxBytes
    NvsReliable   \* FALSE: the saved run id may fail to load at boot

ASSUME ArchiveAssumption ==
    /\ Run \subseteq Nat \ {0}
    /\ IsFiniteSet(Run)
    /\ StorageError \in Verdict /\ Unended \notin Verdict
    /\ NoRequest \notin Request
    /\ PendingCap \in Nat \ {0} /\ RawCapacity \in Nat
    /\ NvsReliable \in BOOLEAN

Place == {"none", "creating", "final", "deleting"}

(* meta.json, samples.bin and events.bin, in the order prepareRun writes them. *)
AllFiles == 3

VARIABLES
    \* --- flash ---
    nvs,            \* the run id saved by IRunIdStore
    place,          \* which directory name holds the run
    files,          \* how many of the run's three files are complete
    request,        \* startRequestId in meta.json
    raw,            \* records of samples.bin a reader sees
    rawSynced,      \* how many of them survive a power loss
    verdict,        \* status of the run.ended frame a reader sees
    verdictSynced,  \* that frame survives a power loss
    \* --- RAM ---
    id,             \* RunManager::id
    prepared,       \* RunManager::prepared
    ready,          \* Impl::archiveReady
    catalogValid,   \* RunLogService::catalogValid_
    activeRun,      \* Impl::activeRunId, 0 when no writer is open
    durable,        \* Impl::durableLogSeq
    pending,        \* Impl::pending[0..pendingCount)
    writerFailed,   \* Impl::activeError # NONE
    \* --- history ---
    acked,          \* the records of each run the store has reported durable
    born            \* every id that ever had a directory

flash == <<nvs, place, files, request, raw, rawSynced, verdict, verdictSynced>>
ram   == <<id, prepared, ready, catalogValid, activeRun, durable, pending, writerFailed>>
archiveVars == <<flash, ram, acked, born>>

(* Mutant: directories being created or deleted are not counted. *)
ListedFinalOnly == {r \in Run : place[r] = "final"}

(* The ids the catalogue counts, .deleting- directories included. *)
Listed == {r \in Run : place[r] # "none"}
IsMaxRunId(top) == top \in Listed \cup {0} /\ \A r \in Listed : r <= top

Prefix(s, n) == SubSeq(s, 1, n)

Init ==
    /\ nvs = 0
    /\ place = [r \in Run |-> "none"]
    /\ files = [r \in Run |-> 0]
    /\ request = [r \in Run |-> NoRequest]
    /\ raw = [r \in Run |-> <<>>]
    /\ rawSynced = [r \in Run |-> 0]
    /\ verdict = [r \in Run |-> Unended]
    /\ verdictSynced = [r \in Run |-> FALSE]
    /\ id = 0 /\ prepared = FALSE
    /\ ready = TRUE /\ catalogValid = TRUE
    /\ activeRun = 0 /\ durable = 0 /\ pending = <<>> /\ writerFailed = FALSE
    /\ acked = [r \in Run |-> <<>>] /\ born = {}

-----------------------------------------------------------------------------
(* Mutant: no check that the last id is used up. *)
AllocateIdUnbounded(saved) ==
    /\ ready /\ catalogValid /\ activeRun = 0 /\ ~prepared
    /\ IF saved
       THEN nvs' = id + 1 /\ id' = id + 1 /\ prepared' = TRUE
       ELSE nvs' \in {nvs, id + 1} /\ UNCHANGED <<id, prepared>>
    /\ UNCHANGED <<place, files, request, raw, rawSynced, verdict, verdictSynced,
                   ready, catalogValid, activeRun, durable, pending, writerFailed, acked, born>>

(* Mutant: the id is used before it is saved. *)
AllocateIdInRam(saved) ==
    /\ ready /\ catalogValid /\ activeRun = 0 /\ ~prepared
    /\ id + 1 \in Run /\ saved
    /\ id' = id + 1 /\ prepared' = TRUE
    /\ UNCHANGED <<flash, ready, catalogValid, activeRun, durable, pending, writerFailed,
                   acked, born>>

(* RunManager::prepareRun after checkStart(): the id is consumed in NVS before
   anything is written to the archive. A failed save leaves the RAM id alone. *)
AllocateId(saved) ==
    /\ ready /\ catalogValid /\ activeRun = 0
    /\ ~prepared
    /\ id + 1 \in Run
    /\ IF saved
       THEN nvs' = id + 1 /\ id' = id + 1 /\ prepared' = TRUE
       ELSE nvs' \in {nvs, id + 1} /\ UNCHANGED <<id, prepared>>
    /\ UNCHANGED <<place, files, request, raw, rawSynced, verdict, verdictSynced,
                   ready, catalogValid, activeRun, durable, pending, writerFailed, acked, born>>

(* RunArchiveStore::prepareRun up to a failure: mkdir of the staging directory,
   then the files in order, then the rename, then re-opening samples.bin. The
   service answers with abandonPreparedRun(); nothing is rolled back. *)
StageFails(q, where, done) ==
    /\ prepared /\ prepared' = FALSE
    /\ \/ where = "none"
       \/ where = "creating" /\ place[id] = "none"
       \/ where = "final" /\ place[id] = "none" /\ done = AllFiles
    /\ IF where = "none"
       THEN UNCHANGED <<place, files, request, born>>
       ELSE /\ born' = born \cup {id}
            /\ place' = [place EXCEPT ![id] = where]
            /\ files' = [files EXCEPT ![id] = done]
            /\ request' = [request EXCEPT ![id] = IF done > 0 THEN q ELSE NoRequest]
    /\ UNCHANGED <<nvs, raw, rawSynced, verdict, verdictSynced, id, ready,
                   catalogValid, activeRun, durable, pending, writerFailed, acked>>

(* prepareRun in full, followed by activatePreparedRun(): the writer is open. *)
StageCompletes(q) ==
    /\ prepared /\ prepared' = FALSE
    /\ activeRun = 0 /\ place[id] = "none"
    /\ place' = [place EXCEPT ![id] = "final"]
    /\ files' = [files EXCEPT ![id] = AllFiles]
    /\ request' = [request EXCEPT ![id] = q]
    /\ born' = born \cup {id}
    /\ activeRun' = id
    /\ durable' = 0 /\ pending' = <<>> /\ writerFailed' = FALSE
    /\ UNCHANGED <<nvs, raw, rawSynced, verdict, verdictSynced, id, ready,
                   catalogValid, acked>>

-----------------------------------------------------------------------------
(* Mutant: the result of fsync is not looked at. *)
SyncFilesUnchecked(ok) ==
    \/ /\ (ok <=> ~writerFailed) /\ (pending = <<>> \/ writerFailed)
       /\ UNCHANGED <<raw, rawSynced, durable, writerFailed, acked>>
    \/ /\ ok /\ ~writerFailed /\ pending # <<>>
       /\ raw' = [raw EXCEPT ![activeRun] = raw[activeRun] \o pending]
       /\ \E hard \in 0..Len(pending) :
              rawSynced' = [rawSynced EXCEPT ![activeRun] = durable + hard]
       /\ durable' = durable + Len(pending)
       /\ acked' = [acked EXCEPT ![activeRun] = raw'[activeRun]]
       /\ UNCHANGED writerFailed

(* syncInternal on the open writer, but for pendingCount: the pending records go
   to the file at the offset of the durable prefix. A short write or a failed
   fsync leaves some of them visible, perhaps some of them durable, and the
   writer refuses everything from then on. *)
SyncFiles(ok) ==
    \/ /\ (ok <=> ~writerFailed) /\ (pending = <<>> \/ writerFailed)
       /\ UNCHANGED <<raw, rawSynced, durable, writerFailed, acked>>
    \/ /\ ~writerFailed /\ pending # <<>>
       /\ \E kept \in (IF ok THEN {Len(pending)} ELSE 0..Len(pending)) :
            /\ raw' = [raw EXCEPT ![activeRun] =
                           Prefix(raw[activeRun], durable) \o Prefix(pending, kept)]
            /\ \E hard \in (IF ok THEN {kept} ELSE 0..kept) :
                   rawSynced' = [rawSynced EXCEPT ![activeRun] = durable + hard]
       /\ IF ok
          THEN /\ durable' = durable + Len(pending)
               /\ acked' = [acked EXCEPT ![activeRun] = raw'[activeRun]]
               /\ UNCHANGED writerFailed
          ELSE writerFailed' = TRUE /\ UNCHANGED <<durable, acked>>

(* sync(), and captureSnapshot() of the active run, which syncs the same way. *)
Sync(ok) ==
    /\ activeRun # 0
    /\ SyncFiles(ok)
    /\ pending' = IF ok THEN <<>> ELSE pending
    /\ UNCHANGED <<nvs, place, files, request, verdict, verdictSynced, id,
                   prepared, ready, catalogValid, activeRun, born>>

(* appendSelected() of the next record: buffered, after a forced sync if the
   buffer is full. logSeq must continue the stream. *)
AppendSelected(logSeq, x) ==
    /\ activeRun # 0 /\ ~writerFailed
    /\ logSeq = durable + Len(pending) + 1 /\ logSeq <= RawCapacity
    /\ IF Len(pending) = PendingCap
       THEN SyncFiles(TRUE) /\ pending' = <<x>>
       ELSE /\ pending' = Append(pending, x)
            /\ UNCHANGED <<raw, rawSynced, durable, writerFailed, acked>>
    /\ UNCHANGED <<nvs, place, files, request, verdict, verdictSynced, id,
                   prepared, ready, catalogValid, activeRun, born>>

(* appendSelected() refused: the forced sync failed, or had failed before. *)
AppendRefused ==
    /\ activeRun # 0
    /\ writerFailed \/ Len(pending) = PendingCap
    /\ SyncFiles(FALSE)
    /\ UNCHANGED <<nvs, place, files, request, verdict, verdictSynced, id,
                   prepared, ready, catalogValid, activeRun, pending, born>>

(* Mutant: the writer stays open after a failed sync. *)
FinalizeReturnsEarly(v, synced, journaled) ==
    /\ activeRun # 0
    /\ SyncFiles(synced)
    /\ verdict' = [verdict EXCEPT ![activeRun] =
                       IF ~journaled THEN @ ELSE IF synced THEN v ELSE StorageError]
    /\ verdictSynced' = [verdictSynced EXCEPT ![activeRun] = @ \/ journaled]
    /\ activeRun' = IF synced THEN 0 ELSE activeRun
    /\ pending' = <<>>
    /\ UNCHANGED <<nvs, place, files, request, id, prepared, ready, catalogValid, born>>

(* finalize() once endMs and requestId are accepted: sync, append run.ended,
   close the writer whatever happened. journaled says that the frame was
   appended and fsynced; if not, it may still be visible in the journal. A
   failed sync turns any verdict into storage_error. *)
Finalize(v, synced, journaled) ==
    /\ activeRun # 0
    /\ SyncFiles(synced)
    /\ LET written == IF synced THEN v ELSE StorageError
       IN  IF journaled
           THEN /\ verdict' = [verdict EXCEPT ![activeRun] = written]
                /\ verdictSynced' = [verdictSynced EXCEPT ![activeRun] = TRUE]
           ELSE /\ \E seen \in {verdict[activeRun], written} :
                       verdict' = [verdict EXCEPT ![activeRun] = seen]
                /\ UNCHANGED verdictSynced
    /\ activeRun' = 0 /\ pending' = <<>>
    /\ UNCHANGED <<nvs, place, files, request, id, prepared, ready, catalogValid, born>>

-----------------------------------------------------------------------------
(* Opening the journal of a run for a marker fsyncs whatever frames it holds
   (appendEventInternal, warmReduceStep), a run.ended frame included. *)
SettleJournal(r) ==
    /\ ready /\ place[r] \in {"creating", "final"} /\ files[r] = AllFiles
    /\ verdict[r] # Unended
    /\ verdictSynced' = [verdictSynced EXCEPT ![r] = TRUE]
    /\ UNCHANGED <<nvs, place, files, request, raw, rawSynced, verdict, ram, acked, born>>

(* The run's files are gone. *)
Forget(gone) ==
    /\ files' = [r \in Run |-> IF r \in gone THEN 0 ELSE files[r]]
    /\ request' = [r \in Run |-> IF r \in gone THEN NoRequest ELSE request[r]]
    /\ acked' = [r \in Run |-> IF r \in gone THEN <<>> ELSE acked[r]]

(* Mutant: the run being recorded can be deleted. *)
DeleteRunActive(r, removed) ==
    /\ ready /\ place[r] \in {"creating", "final"}
    /\ place' = [place EXCEPT ![r] = IF removed THEN "none" ELSE "deleting"]
    /\ Forget({r})
    /\ raw' = [raw EXCEPT ![r] = <<>>]
    /\ rawSynced' = [rawSynced EXCEPT ![r] = 0]
    /\ verdict' = [verdict EXCEPT ![r] = Unended]
    /\ verdictSynced' = [verdictSynced EXCEPT ![r] = FALSE]
    /\ UNCHANGED <<nvs, ram, born>>

(* deleteRun(): rename to .deleting-<id>, then remove. The removal may fail
   after the rename. *)
DeleteRun(r, removed) ==
    /\ ready /\ r # activeRun
    /\ place[r] \in {"creating", "final"}
    /\ place' = [place EXCEPT ![r] = IF removed THEN "none" ELSE "deleting"]
    /\ Forget({r})
    /\ raw' = [raw EXCEPT ![r] = <<>>]
    /\ rawSynced' = [rawSynced EXCEPT ![r] = 0]
    /\ verdict' = [verdict EXCEPT ![r] = Unended]
    /\ verdictSynced' = [verdictSynced EXCEPT ![r] = FALSE]
    /\ UNCHANGED <<nvs, ram, born>>

-----------------------------------------------------------------------------
(* The record counts and the run.ended frames a power loss can leave: at least
   what was fsynced, at most what was written. *)
LongestFile == Max({Len(raw[r]) : r \in Run} \cup {0})
Survivors == {kept \in [Run -> 0..LongestFile] :
                 \A r \in Run : kept[r] \in rawSynced[r]..Len(raw[r])}
Doubtful == {r \in Run : verdict[r] # Unended /\ ~verdictSynced[r]}

(* begin() on the directories: .deleting- ones are removed, staging ones with
   valid headers are renamed; removed and renamed are those it succeeds for. *)
RecoverDirectories(mounted) ==
    \E removed \in SUBSET {r \in Run : mounted /\ place[r] = "deleting"},
       renamed \in SUBSET {r \in Run : mounted /\ place[r] = "creating" /\ files[r] = AllFiles} :
        place' = [r \in Run |-> IF r \in removed THEN "none"
                                ELSE IF r \in renamed THEN "final" ELSE place[r]]

(* A reset of the chip at any point, and setup() up to RunManager::begin.
   scanned: the catalogue was enumerated; loaded: NVS gave the saved id. *)
Reboot(mounted, scanned, loaded) ==
    /\ scanned => mounted
    /\ NvsReliable => loaded
    /\ \E kept \in Survivors, lost \in SUBSET Doubtful :
          /\ raw' = [r \in Run |-> Prefix(raw[r], kept[r])]
          /\ rawSynced' = kept
          /\ verdict' = [r \in Run |-> IF r \in lost THEN Unended ELSE verdict[r]]
    /\ verdictSynced' = [r \in Run |-> verdict'[r] # Unended]
    /\ RecoverDirectories(mounted)
    /\ ready' = mounted /\ catalogValid' = scanned
    /\ \E top \in Run \cup {0}, stored \in {IF loaded THEN nvs ELSE 0} :
          /\ IF scanned THEN IsMaxRunId(top)' ELSE top = 0
          /\ id' = IF stored < top THEN top ELSE stored
    /\ prepared' = FALSE
    /\ activeRun' = 0 /\ durable' = 0 /\ pending' = <<>> /\ writerFailed' = FALSE
    /\ UNCHANGED <<nvs, files, request, acked, born>>

ArchiveNext ==
    \/ \E ok \in BOOLEAN : AllocateId(ok) \/ Sync(ok)
    \/ \E q \in Request : \/ StageCompletes(q)
                          \/ \E where \in Place \ {"deleting"}, done \in 0..AllFiles :
                                StageFails(q, where, done)
    \/ \E n \in 1..RawCapacity, x \in Reading : AppendSelected(n, x)
    \/ AppendRefused
    \/ \E v \in Verdict, synced, journaled \in BOOLEAN : Finalize(v, synced, journaled)
    \/ \E r \in Run : SettleJournal(r) \/ \E removed \in BOOLEAN : DeleteRun(r, removed)
    \/ \E mounted, scanned, loaded \in BOOLEAN : Reboot(mounted, scanned, loaded)

ArchiveSpec == Init /\ [][ArchiveNext]_archiveVars

-----------------------------------------------------------------------------
FlashTypeOK ==
    /\ nvs \in Run \cup {0}
    /\ place \in [Run -> Place]
    /\ files \in [Run -> 0..AllFiles]
    /\ request \in [Run -> Request \cup {NoRequest}]
    /\ raw \in [Run -> Seq(Reading)]
    /\ rawSynced \in [Run -> Nat]
    /\ verdict \in [Run -> Verdict \cup {Unended}]
    /\ verdictSynced \in [Run -> BOOLEAN]

RamTypeOK ==
    /\ id \in Run \cup {0}
    /\ prepared \in BOOLEAN /\ ready \in BOOLEAN /\ catalogValid \in BOOLEAN
    /\ activeRun \in Run \cup {0}
    /\ durable \in Nat
    /\ pending \in Seq(Reading)
    /\ writerFailed \in BOOLEAN

HistoryTypeOK == acked \in [Run -> Seq(Reading)] /\ born \subseteq Run

TypeOK == FlashTypeOK /\ RamTypeOK /\ HistoryTypeOK

Kept(r) == place[r] \in {"creating", "final"}

(* Every record the store has once reported durable is in the part of the file
   that survives a power loss, at the place it was reported, for as long as the
   run has not been deleted: across failed syncs, other runs and reboots. *)
AckedSurvive ==
    \A r \in Run :
        Kept(r) => /\ Len(acked[r]) <= rawSynced[r] /\ rawSynced[r] <= Len(raw[r])
                   /\ \A i \in 1..Len(acked[r]) : raw[r][i] = acked[r][i]

(* The writer's RAM picture and the flash agree: it writes one existing, unended
   run, and the offset it will write at is the end of what was acknowledged. *)
WriterOnOpenRun ==
    activeRun # 0 => /\ place[activeRun] = "final" /\ verdict[activeRun] = Unended
                     /\ durable = Len(acked[activeRun])
                     /\ ~writerFailed => Len(raw[activeRun]) = durable

(* An id offered to prepareRun never names a directory that exists, whatever
   name the directory has and even if NVS lost the saved id: RUN_ID_CONFLICT
   cannot happen. *)
PreparedIdIsFree ==
    /\ catalogValid => \A r \in Listed : r <= id
    /\ prepared => catalogValid /\ place[id] = "none"

(* While NVS keeps the saved id, an id never names two runs, deleted ones
   included, however many Starts failed half way. *)
IdsNeverReused ==
    NvsReliable => (prepared => id \notin born) /\ \A r \in born : r <= nvs /\ r <= id

-----------------------------------------------------------------------------
(* The archive implements the ledger: what the ledger holds of a run is what a
   power loss at this instant would certainly leave of it. *)
Ledger == INSTANCE RunLedger WITH
    phase   <- [r \in Run |-> IF ~Kept(r) THEN "absent"
                              ELSE IF r = activeRun THEN "open" ELSE "closed"],
    log     <- [r \in Run |-> Prefix(raw[r], rawSynced[r])],
    outcome <- [r \in Run |-> IF verdictSynced[r] THEN verdict[r] ELSE Unended]

ImplementsLedger == Ledger!LedgerSpec
=============================================================================
