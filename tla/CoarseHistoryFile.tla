-------------------------- MODULE CoarseHistoryFile ------------------------
(***************************************************************************)
(* The coarse history of the ESP8266 monitor: LittleFsHistoryPersistence   *)
(* and its codec, the run id in EEPROM, and main.cpp's commands and        *)
(* sampling that drive them, over power losses and failing writes.         *)
(*                                                                         *)
(* A record of the file is a bucket, or Torn: bytes that fail its CRC or   *)
(* are fewer than a record.  Power loss may tear the record being          *)
(* appended.  With the power on, a write, flush or close that fails leaves *)
(* nothing of what was written, which is how LittleFS commits a file; an   *)
(* open that was to empty the file has emptied it, since the core commits  *)
(* that at once; and a file that opens reads to its end.                   *)
(***************************************************************************)
EXTENDS HistoryWindow, SequencesExt

CONSTANTS
    Torn, None,    \* model values
    MaxStarts,     \* bound: runs started
    MaxSamples,    \* bound: samples of a run
    MaxBoots       \* bound: power losses

(* A coarse history file, read up to where its bytes make sense. *)
CoarseFile == [header : {"short", "bad", "good"}, runId : Nat,
               recs : Seq(CoarseSample \cup {Torn})]

ASSUME FileAssumption ==
    /\ {MaxStarts, MaxSamples, MaxBoots} \subseteq Nat
    /\ Torn \notin CoarseSample /\ None \notin CoarseFile

VARIABLES
    nvs,        \* EEPROM: the last run id saved
    file,       \* /pyrovue-history.bin: None or [header, runId, recs]
    up,         \* the firmware is running
    mounted,    \* LittleFsHistoryPersistence.mounted
    activeRun,  \* LittleFsHistoryPersistence.activeRun
    persisted,  \* persistedBucketMs, None for 0xffffffff
    manager,    \* RunManager: [id, active, seq]
    hist,       \* HistoryStore
    boots,      \* bound: power losses so far
    acked,      \* history: the buckets of the file whose append worked, its
                \* flush and close included, in a file whose header did
    made        \* history: every bucket ever finished

ram == <<up, mounted, activeRun, persisted, manager, hist>>
fileVars == <<nvs, file, ram, boots, acked, made>>

NewFile(header, id) == [header |-> header, runId |-> id, recs |-> <<>>]

(* The records the decoder keeps: those before the first that is torn. *)
ValidPrefix(recs) ==
    LET Good(n) == \A i \in 1..n : recs[i] # Torn
    IN  SubSeq(recs, 1, CHOOSE n \in 0..Len(recs) :
                            Good(n) /\ (n = Len(recs) \/ recs[n + 1] = Torn))

(* begin() puts what the records give into the ring, one by one, under the file's
   run id. *)
ReadBack(id, recs) ==
    LET ring[n \in 0..Len(recs)] ==
            IF n = 0 THEN Empty(id)
            ELSE Restored(ring[n - 1], [recs[n] EXCEPT !.runId = id])
    IN  ring[Len(recs)]

FileInit ==
    /\ nvs = 0 /\ file = None
    /\ up = FALSE /\ mounted = FALSE /\ activeRun = 0 /\ persisted = None
    /\ manager = [id |-> 0, active |-> FALSE, seq |-> 0]
    /\ hist = Empty(0)
    /\ boots = 0 /\ acked = {} /\ made = {}

-----------------------------------------------------------------------------
(* setup(): RunManager::begin, then LittleFsHistoryPersistence::begin.  It ends
   with an empty ring when nothing is mounted, when there is no file or it does
   not open, when the header is short, and when it is bad: then the file goes,
   unless the remove fails too. *)
Boot ==
    /\ ~up /\ up' = TRUE
    /\ manager' = [id |-> nvs, active |-> FALSE, seq |-> 0]
    /\ persisted' = None
    /\ mounted' \in BOOLEAN
    /\ \/ activeRun' = 0 /\ hist' = Empty(0) /\ UNCHANGED file
       \/ /\ mounted' /\ file # None /\ file.header = "bad"
          /\ activeRun' = 0 /\ hist' = Empty(0) /\ file' = None
       \/ /\ mounted' /\ file # None /\ file.header = "good"
          /\ activeRun' = file.runId
          /\ hist' = ReadBack(file.runId, ValidPrefix(file.recs))
          /\ UNCHANGED file
    /\ UNCHANGED <<nvs, boots, acked, made>>

(* startRun() of the persistence: the old file goes, a header is written, and
   only then does the persistence know the run.  The remove and the open may
   fail and leave the old file, or no file; the write may fail, and then the run
   stays unknown; or the flush or close, which startRun does not look at.
   Mutant: the old file stays. *)
StartFileAppends(id) ==
    \/ ~mounted /\ UNCHANGED <<file, activeRun, acked>>
    \/ mounted /\ file = None /\ file' = NewFile("good", id) /\ activeRun' = id /\ acked' = {}
    \/ mounted /\ file # None /\ activeRun' = id /\ UNCHANGED <<file, acked>>
StartFile(id) ==
    \/ UNCHANGED <<file, activeRun, acked>>
    \/ /\ mounted /\ acked' = {}
       /\ \/ file' = None /\ UNCHANGED activeRun
          \/ file' = NewFile("short", id) /\ activeRun' \in {activeRun, id}
          \/ file' = NewFile("good", id) /\ activeRun' = id

(* handleCommand, run.start: the id is saved before anything else. *)
Start ==
    /\ up /\ ~manager.active /\ manager.id < MaxStarts
    /\ nvs' = manager.id + 1
    /\ manager' = [id |-> manager.id + 1, active |-> TRUE, seq |-> 0]
    /\ hist' = Empty(manager.id + 1)
    /\ persisted' = None
    /\ StartFile(manager.id + 1)
    /\ UNCHANGED <<up, mounted, boots, made>>

(* append() of one bucket: refused, or open or write failed; or the write worked
   and the flush or close did not, which append does not look at; or the record is
   in the file, where it takes the place of a header that is missing.
   Mutant: a write that fails leaves bytes behind. *)
Appends(c) == mounted /\ c.runId = activeRun
PutRecord(c) ==
    file' = [file EXCEPT !.recs = Append(@, c),
                         !.header = IF @ = "short" THEN "bad" ELSE @]
Kept(c) == acked' = IF file.header = "good" THEN acked \cup {c} ELSE acked
AppendLeavesBytes(c) ==
    \/ UNCHANGED <<file, persisted, acked>>
    \/ Appends(c) /\ PutRecord(Torn) /\ UNCHANGED <<persisted, acked>>
    \/ Appends(c) /\ persisted' = c.ms /\ PutRecord(c) /\ Kept(c)
AppendBucket(c) ==
    \/ UNCHANGED <<file, persisted, acked>>
    \/ /\ Appends(c) /\ persisted' = c.ms
       /\ \/ UNCHANGED <<file, acked>>
          \/ PutRecord(c) /\ Kept(c)

(* persistLatestCoarse: called after every sample, an idle one too. *)
PersistLatest(w) ==
    IF w.coarse = <<>> \/ Last(w.coarse).ms = persisted
    THEN UNCHANGED <<file, persisted, acked>>
    ELSE AppendBucket(Last(w.coarse))

Stored(w) ==
    /\ hist' = w
    /\ made' = made \cup ToSet(w.coarse)
    /\ PersistLatest(w)

(* SampleRouter::onSample *)
OnSample ==
    /\ up
    /\ \/ ~manager.active /\ Stored(hist) /\ UNCHANGED manager
       \/ /\ manager.active /\ manager.seq < MaxSamples
          /\ manager' = [manager EXCEPT !.seq = @ + 1]
          /\ Stored(Pushed(hist, [runId |-> manager.id, seq |-> manager.seq + 1,
                                  ms |-> manager.seq + 1, finite |-> TRUE, fault |-> FALSE]))
    /\ UNCHANGED <<nvs, up, mounted, activeRun, boots>>

(* handleCommand, run.stop *)
Stop ==
    /\ up /\ manager.active
    /\ manager' = [manager EXCEPT !.active = FALSE]
    /\ Stored(Finalize(hist))
    /\ UNCHANGED <<nvs, up, mounted, activeRun, boots>>

(* Power goes: between two steps, in a Start before or after the file was
   touched, or in the append of the newest bucket. *)
PowerLoss ==
    /\ up /\ boots < MaxBoots
    /\ up' = FALSE /\ boots' = boots + 1
    /\ \/ UNCHANGED <<nvs, file, acked>>
       \/ /\ ~manager.active /\ manager.id < MaxStarts
          /\ nvs' = manager.id + 1
          /\ \/ UNCHANGED <<file, acked>>
             \/ /\ mounted /\ acked' = {}
                /\ file' \in {None} \cup {NewFile(h, manager.id + 1) : h \in {"short", "bad"}}
       \/ /\ hist.coarse # <<>> /\ Last(hist.coarse).ms # persisted
          /\ Appends(Last(hist.coarse))
          /\ PutRecord(Torn)
          /\ UNCHANGED <<nvs, acked>>
    /\ UNCHANGED <<mounted, activeRun, persisted, manager, hist, made>>

FileNext == Boot \/ Start \/ OnSample \/ Stop \/ PowerLoss

FileSpec == FileInit /\ [][FileNext]_fileVars

-----------------------------------------------------------------------------
(* A bucket that reached the file is read back at every later boot, whatever
   power losses tear behind it, until the next run replaces the file: no later
   append, failed start or boot takes the file, its header or a record before it
   away.  append() also reports buckets that did not reach it (PersistedIsStored). *)
AppendedSurvive ==
    acked # {} =>
       /\ file # None /\ file.header = "good"
       /\ acked \subseteq ToSet(ValidPrefix(file.recs))

(* What a boot restores was measured, in the run it is labelled with: no torn
   record, no bucket of the previous run under the new run's id.  The coarse ring,
   restored or not, is in time order, which its binary search relies on: buckets
   of two runs, or of two lives of one, never mix in it. *)
RestoredIsTrue ==
    /\ up => ToSet(hist.coarse) \subseteq made
    /\ \A i \in 1..(Len(hist.coarse) - 1) : hist.coarse[i].ms <= hist.coarse[i + 1].ms

(* CoarseHistoryCodec.h calls the records "appended at low cadence, one bucket
   each": no bucket is in the file twice. *)
OneRecordPerBucket ==
    file # None =>
    \A i, j \in DOMAIN file.recs :
       i < j /\ file.recs[i] # Torn => file.recs[i] # file.recs[j]

(* main.cpp takes persistedBucketMs from what append() returned and never offers
   that bucket again: it is in the file, under a header that can be read. *)
PersistedIsStored ==
    up /\ persisted # None =>
       /\ file # None /\ file.header = "good"
       /\ \E c \in ToSet(ValidPrefix(file.recs)) : c.ms = persisted

(* The history shown is that of the run the device names: startReplay sends the
   buckets under runManager.runId() without looking at theirs. *)
HistoryIsOfNamedRun == up /\ hist.coarse # <<>> => hist.runId = manager.id
=============================================================================
