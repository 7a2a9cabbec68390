----------------------------- MODULE RunLogProofs ---------------------------
(***************************************************************************)
(* Proofs about RunArchive and about RunLogService, which drives it, for   *)
(* any number of runs and requests, any readings and verdicts, any buffer, *)
(* file, window and queue size, any fault and any reset.                   *)
(*                                                                         *)
(* First the store by itself: IInv is its inductive invariant, the safety  *)
(* properties that TLC checks on small instances follow from it, and the   *)
(* store implements RunLedger.  Then the service, which is shown to call   *)
(* the store only as the store allows (every step of it is a step of       *)
(* RunArchive), so the store's theorems hold of it; SInv is the inductive  *)
(* invariant of what the service adds.                                     *)
(***************************************************************************)
EXTENDS RunLogService, SequenceTheorems, TLAPS

(* What the acknowledged records, the durable prefix and the visible file of a
   run have to do with each other. *)
FilesInOrder ==
    \A r \in Run :
        /\ Len(acked[r]) <= rawSynced[r] /\ rawSynced[r] <= Len(raw[r])
        /\ \A i \in 1..Len(acked[r]) : raw[r][i] = acked[r][i]

(* A run without a directory has left nothing behind. *)
AbsentIsEmpty ==
    \A r \in Run : ~Kept(r) => /\ raw[r] = <<>> /\ acked[r] = <<>> /\ rawSynced[r] = 0
                               /\ verdict[r] = Unended /\ verdictSynced[r] = FALSE

SyncedIsVisible == \A r \in Run : verdictSynced[r] => verdict[r] # Unended

(* A run whose verdict admits no loss has every visible record on flash. *)
HealthyIsSynced ==
    \A r \in Run : verdict[r] \notin {Unended, StorageError} => rawSynced[r] = Len(raw[r])

(* A prepared id is a run id, NVS holds it, and no writer is open. *)
PreparedIsRun == prepared => id \in Run /\ nvs = id /\ activeRun = 0

IInv == /\ TypeOK
        /\ FilesInOrder /\ AbsentIsEmpty /\ SyncedIsVisible /\ HealthyIsSynced
        /\ WriterOnOpenRun
        /\ PreparedIsRun /\ PreparedIdIsFree /\ IdsNeverReused

-----------------------------------------------------------------------------
(* An empty flash and a fresh writer are well typed. *)
LEMMA InitTypeOK == Init => TypeOK
<1> SUFFICES ASSUME Init PROVE TypeOK OBVIOUS
<1> USE DEF Init
<1>1. raw \in [Run -> Seq(Reading)] /\ acked \in [Run -> Seq(Reading)] /\ pending \in Seq(Reading)
  OBVIOUS
<1>2. nvs \in Run \cup {0} /\ id \in Run \cup {0} /\ activeRun \in Run \cup {0} /\ durable \in Nat
  OBVIOUS
<1>3. place \in [Run -> Place]
  BY DEF Place
<1>3a. files \in [Run -> 0..AllFiles] /\ rawSynced \in [Run -> Nat]
  BY DEF AllFiles
<1>4. request \in [Run -> Request \cup {NoRequest}] /\ verdict \in [Run -> Verdict \cup {Unended}]
  OBVIOUS
<1>5. verdictSynced \in [Run -> BOOLEAN]
  OBVIOUS
<1>6. prepared \in BOOLEAN /\ ready \in BOOLEAN /\ catalogValid \in BOOLEAN /\ writerFailed \in BOOLEAN
  OBVIOUS
<1>7. born \subseteq Run
  OBVIOUS
<1>8. QED
  BY <1>1, <1>2, <1>3, <1>3a, <1>4, <1>5, <1>6, <1>7 DEF TypeOK, FlashTypeOK, RamTypeOK, HistoryTypeOK

(* A prefix of a file is a sequence of the same records, shorter by what was cut. *)
LEMMA PrefixType ==
    ASSUME NEW S, NEW s \in Seq(S), NEW n \in 0..Len(s)
    PROVE  /\ Prefix(s, n) \in Seq(S)
           /\ Len(Prefix(s, n)) = n
           /\ \A i \in 1..n : Prefix(s, n)[i] = s[i]
  BY DEF Prefix

(* The invariant holds on an empty flash. *)
LEMMA InitIInv == Init => IInv
<1> SUFFICES ASSUME Init PROVE IInv OBVIOUS
<1>1. TypeOK BY InitTypeOK
<1>2. FilesInOrder BY DEF Init, FilesInOrder
<1>3. AbsentIsEmpty /\ SyncedIsVisible /\ HealthyIsSynced
  BY DEF Init, AbsentIsEmpty, SyncedIsVisible, HealthyIsSynced
<1>4. WriterOnOpenRun BY DEF Init, WriterOnOpenRun
<1>5. PreparedIsRun /\ PreparedIdIsFree /\ IdsNeverReused
  BY DEF Init, PreparedIsRun, PreparedIdIsFree, IdsNeverReused, Listed
<1>6. QED BY <1>1, <1>2, <1>3, <1>4, <1>5 DEF IInv

(* What a sync does to the files, whether it succeeds or not: only the open run
   changes, nothing that was certain to survive is touched, and the writer's
   durable count stays the length of what was acknowledged. *)
LEMMA SyncFilesEffect ==
    ASSUME IInv, activeRun # 0, NEW ok \in BOOLEAN, SyncFiles(ok)
    PROVE  /\ raw' \in [Run -> Seq(Reading)] /\ acked' \in [Run -> Seq(Reading)]
           /\ rawSynced' \in [Run -> Nat] /\ durable' \in Nat /\ writerFailed' \in BOOLEAN
           /\ FilesInOrder'
           /\ \A r \in Run \ {activeRun} : /\ raw'[r] = raw[r] /\ acked'[r] = acked[r]
                                           /\ rawSynced'[r] = rawSynced[r]
           /\ rawSynced[activeRun] <= rawSynced'[activeRun]
           /\ \A i \in 1..rawSynced[activeRun] : raw'[activeRun][i] = raw[activeRun][i]
           /\ durable' = Len(acked'[activeRun])
           /\ ~writerFailed' => Len(raw'[activeRun]) = durable'
           /\ ok <=> ~writerFailed'
<1> DEFINE a == activeRun
<1>0. /\ FilesInOrder /\ WriterOnOpenRun /\ a # 0
      /\ raw \in [Run -> Seq(Reading)] /\ acked \in [Run -> Seq(Reading)]
      /\ rawSynced \in [Run -> Nat] /\ durable \in Nat /\ writerFailed \in BOOLEAN
  BY DEF IInv, TypeOK, FlashTypeOK, RamTypeOK, HistoryTypeOK
<1>1. a \in Run /\ raw[a] \in Seq(Reading) /\ acked[a] \in Seq(Reading) /\ pending \in Seq(Reading)
      /\ durable \in Nat /\ rawSynced[a] \in Nat /\ durable = Len(acked[a])
  BY <1>0 DEF IInv, TypeOK, FlashTypeOK, RamTypeOK, HistoryTypeOK, WriterOnOpenRun
<1>2. CASE UNCHANGED <<raw, rawSynced, durable, writerFailed, acked>> /\ (ok <=> ~writerFailed)
  <2>1. FilesInOrder' BY <1>0, <1>2 DEF FilesInOrder
  <2>2. ~writerFailed' => Len(raw'[a]) = durable' BY <1>0, <1>2 DEF WriterOnOpenRun
  <2>3. QED BY <1>0, <1>1, <1>2, <2>1, <2>2
<1>3. CASE ~writerFailed /\ pending # <<>>
           /\ \E kept \in (IF ok THEN {Len(pending)} ELSE 0..Len(pending)) :
                /\ raw' = [raw EXCEPT ![activeRun] =
                               Prefix(raw[activeRun], durable) \o Prefix(pending, kept)]
                /\ \E hard \in (IF ok THEN {kept} ELSE 0..kept) :
                       rawSynced' = [rawSynced EXCEPT ![activeRun] = durable + hard]
           /\ IF ok
              THEN /\ durable' = durable + Len(pending)
                   /\ acked' = [acked EXCEPT ![activeRun] = raw'[activeRun]]
                   /\ UNCHANGED writerFailed
              ELSE writerFailed' = TRUE /\ UNCHANGED <<durable, acked>>
  <2>1. Len(raw[a]) = durable /\ rawSynced[a] = durable
    BY <1>0, <1>1, <1>3 DEF WriterOnOpenRun, FilesInOrder
  <2>2. PICK kept \in 0..Len(pending) :
           /\ ok => kept = Len(pending)
           /\ raw' = [raw EXCEPT ![a] = Prefix(raw[a], durable) \o Prefix(pending, kept)]
           /\ \E hard \in (IF ok THEN {kept} ELSE 0..kept) :
                  rawSynced' = [rawSynced EXCEPT ![a] = durable + hard]
    <3>1. Len(pending) \in 0..Len(pending) BY <1>1
    <3>2. QED BY <1>3, <3>1
  <2>3. PICK hard \in 0..kept :
           /\ ok => hard = kept
           /\ rawSynced' = [rawSynced EXCEPT ![a] = durable + hard]
    BY <2>2
  <2> DEFINE head == Prefix(raw[a], durable)
             tail == Prefix(pending, kept)
  <2>4. head \in Seq(Reading) /\ Len(head) = durable /\ \A i \in 1..durable : head[i] = raw[a][i]
    <3>1. durable \in 0..Len(raw[a]) BY <1>1, <2>1
    <3>2. QED BY <1>1, <3>1, PrefixType
  <2>5. tail \in Seq(Reading) /\ Len(tail) = kept
    BY <1>1, PrefixType
  <2>6. /\ head \o tail \in Seq(Reading)
        /\ Len(head \o tail) = durable + kept
        /\ \A i \in 1..durable : (head \o tail)[i] = raw[a][i]
    <3> HIDE DEF head, tail
    <3>1. /\ head \o tail \in Seq(Reading)
          /\ Len(head \o tail) = Len(head) + Len(tail)
          /\ \A i \in 1..Len(head) + Len(tail) : (head \o tail)[i] =
                 IF i <= Len(head) THEN head[i] ELSE tail[i - Len(head)]
      BY <2>4, <2>5, ConcatProperties
    <3>2. QED BY <1>1, <2>4, <2>5, <3>1
  <2>7. raw' = [raw EXCEPT ![a] = head \o tail]
    BY <2>2
  <2> HIDE DEF head, tail
  <2>8. /\ raw'[a] = head \o tail /\ rawSynced'[a] = durable + hard
        /\ \A r \in Run \ {a} : raw'[r] = raw[r] /\ rawSynced'[r] = rawSynced[r]
        /\ raw' \in [Run -> Seq(Reading)] /\ rawSynced' \in [Run -> Nat]
    BY <1>0, <1>1, <2>3, <2>6, <2>7
  <2>9. CASE ok
    <3>1. kept = Len(pending) /\ hard = kept /\ durable' = durable + Len(pending)
          /\ acked' = [acked EXCEPT ![a] = raw'[a]] /\ writerFailed' = writerFailed
      BY <1>3, <2>2, <2>3, <2>9
    <3>2. /\ acked'[a] = raw'[a] /\ acked' \in [Run -> Seq(Reading)]
          /\ \A r \in Run \ {a} : acked'[r] = acked[r]
      BY <1>0, <1>1, <2>6, <2>8, <3>1
    <3>3. Len(raw'[a]) = durable' /\ durable' \in Nat /\ rawSynced'[a] = durable'
      BY <1>1, <2>6, <2>8, <3>1
    <3>4. FilesInOrder'
      <4> SUFFICES ASSUME NEW r \in Run
                   PROVE  /\ Len(acked'[r]) <= rawSynced'[r] /\ rawSynced'[r] <= Len(raw'[r])
                          /\ \A i \in 1..Len(acked'[r]) : raw'[r][i] = acked'[r][i]
        BY DEF FilesInOrder
      <4>1. CASE r = a BY <4>1, <3>2, <3>3
      <4>2. CASE r # a BY <1>0, <4>2, <2>8, <3>2 DEF FilesInOrder
      <4>3. QED BY <4>1, <4>2
    <3>5. rawSynced[a] <= rawSynced'[a] /\ \A i \in 1..rawSynced[a] : raw'[a][i] = raw[a][i]
      BY <1>1, <2>1, <2>6, <2>8, <3>3, <3>1
    <3>6. ~writerFailed' /\ durable' = Len(acked'[a])
      BY <1>3, <3>1, <3>2, <3>3
    <3>7. ok <=> ~writerFailed'
      BY <2>9, <3>6
    <3>8. writerFailed' \in BOOLEAN
      BY <1>0, <3>1
    <3>9. QED BY <2>8, <3>2, <3>3, <3>4, <3>5, <3>6, <3>7, <3>8
  <2>10. CASE ~ok
    <3>1. writerFailed' = TRUE /\ durable' = durable /\ acked' = acked
      BY <1>3, <2>10
    <3>2. FilesInOrder'
      <4> SUFFICES ASSUME NEW r \in Run
                   PROVE  /\ Len(acked'[r]) <= rawSynced'[r] /\ rawSynced'[r] <= Len(raw'[r])
                          /\ \A i \in 1..Len(acked'[r]) : raw'[r][i] = acked'[r][i]
        BY DEF FilesInOrder
      <4>1. CASE r = a
        <5>1. Len(acked'[a]) = durable /\ rawSynced'[a] = durable + hard
              /\ Len(raw'[a]) = durable + kept
          BY <1>1, <2>6, <2>8, <3>1
        <5>2. \A i \in 1..durable : raw'[a][i] = acked'[a][i]
          BY <1>0, <1>1, <2>6, <2>8, <3>1 DEF FilesInOrder
        <5>3. QED BY <1>1, <4>1, <5>1, <5>2
      <4>2. CASE r # a BY <1>0, <4>2, <2>8, <3>1 DEF FilesInOrder
      <4>3. QED BY <4>1, <4>2
    <3>3. QED BY <1>0, <1>1, <2>1, <2>6, <2>8, <2>10, <3>1, <3>2
  <2>11. QED BY <2>9, <2>10
<1>4. QED BY <1>2, <1>3 DEF SyncFiles

-----------------------------------------------------------------------------
(* Each operation preserves IInv. *)

(* RunManager::prepareRun: the new id is above every id ever used, so it is free. *)
LEMMA AllocateIdStep ==
    ASSUME IInv, NEW saved \in BOOLEAN, AllocateId(saved) PROVE IInv'
<1> USE DEF IInv, AllocateId
<1>1. TypeOK'
  BY DEF TypeOK, FlashTypeOK, RamTypeOK, HistoryTypeOK
<1>2. FilesInOrder' BY DEF FilesInOrder
<1>3. AbsentIsEmpty' /\ SyncedIsVisible' /\ HealthyIsSynced'
  BY DEF AbsentIsEmpty, SyncedIsVisible, HealthyIsSynced, Kept
<1>4. WriterOnOpenRun' BY DEF WriterOnOpenRun
<1>5. id \in Nat /\ id + 1 \in Run
  BY ArchiveAssumption DEF TypeOK, FlashTypeOK, RamTypeOK, HistoryTypeOK
<1>6. CASE saved
  <2>1. PreparedIsRun' BY <1>5, <1>6 DEF PreparedIsRun
  <2>2. place[id + 1] = "none"
    BY <1>5, ArchiveAssumption DEF PreparedIdIsFree, Listed
  <2>3. PreparedIdIsFree'
    BY <1>5, <1>6, <2>2, ArchiveAssumption DEF PreparedIdIsFree, Listed
  <2>4. IdsNeverReused'
    BY <1>5, <1>6, ArchiveAssumption DEF IdsNeverReused, TypeOK, FlashTypeOK, RamTypeOK, HistoryTypeOK
  <2>5. QED BY <1>1, <1>2, <1>3, <1>4, <2>1, <2>3, <2>4
<1>7. CASE ~saved
  <2>1. PreparedIsRun' /\ PreparedIdIsFree'
    BY <1>7 DEF PreparedIsRun, PreparedIdIsFree, Listed
  <2>2. IdsNeverReused'
    BY <1>5, <1>7, ArchiveAssumption, SMTT(60) DEF IdsNeverReused, TypeOK, FlashTypeOK, RamTypeOK, HistoryTypeOK
  <2>3. QED BY <1>1, <1>2, <1>3, <1>4, <2>1, <2>2
<1>8. QED BY <1>6, <1>7

(* A prepareRun that fails half way uses up its id and touches no other run. *)
LEMMA StageFailsStep ==
    ASSUME IInv, NEW q \in Request, NEW where \in Place \ {"deleting"},
           NEW done \in 0..AllFiles, StageFails(q, where, done)
    PROVE  IInv'
<1> USE DEF IInv, StageFails
<1>1. id \in Run /\ place[id] = "none" /\ activeRun # id
  <2>1. id \in Run BY DEF PreparedIsRun
  <2>2. place[id] = "none" BY DEF PreparedIdIsFree
  <2>3. QED BY <2>1, <2>2, ArchiveAssumption DEF WriterOnOpenRun
<1>2. TypeOK'
  <2>0. /\ place' \in [Run -> Place] /\ files' \in [Run -> 0..AllFiles]
        /\ request' \in [Run -> Request \cup {NoRequest}]
    <3>1. CASE where = "none" BY <3>1 DEF TypeOK, FlashTypeOK
    <3>2. CASE where # "none"
      <4>1. where \in Place OBVIOUS
      <4>2. place' \in [Run -> Place] BY <3>2, <4>1 DEF TypeOK, FlashTypeOK
      <4>3. files' \in [Run -> 0..AllFiles] BY <3>2 DEF TypeOK, FlashTypeOK
      <4>4. request' \in [Run -> Request \cup {NoRequest}] BY <3>2 DEF TypeOK, FlashTypeOK
      <4>5. QED BY <4>2, <4>3, <4>4
    <3>3. QED BY <3>1, <3>2
  <2>1. FlashTypeOK' BY <2>0 DEF TypeOK, FlashTypeOK
  <2>2. RamTypeOK' BY DEF TypeOK, RamTypeOK
  <2>3. HistoryTypeOK' BY <1>1 DEF TypeOK, HistoryTypeOK
  <2>4. QED BY <2>1, <2>2, <2>3 DEF TypeOK
<1>3. FilesInOrder' BY DEF FilesInOrder
<1>4. AbsentIsEmpty'
  BY <1>1 DEF AbsentIsEmpty, Kept, TypeOK, FlashTypeOK, RamTypeOK, HistoryTypeOK
<1>5. SyncedIsVisible' /\ HealthyIsSynced' BY DEF SyncedIsVisible, HealthyIsSynced
<1>6. WriterOnOpenRun' BY <1>1 DEF WriterOnOpenRun, TypeOK, FlashTypeOK, RamTypeOK, HistoryTypeOK
<1>7. PreparedIsRun' BY DEF PreparedIsRun
<1>8. PreparedIdIsFree'
  BY <1>1, ArchiveAssumption DEF PreparedIdIsFree, Listed, TypeOK, FlashTypeOK, RamTypeOK, HistoryTypeOK
<1>9. IdsNeverReused'
  <2>1. id \in Nat /\ nvs = id
    BY <1>1, ArchiveAssumption DEF PreparedIsRun
  <2>2. born' \subseteq born \cup {id} /\ ~prepared'
    OBVIOUS
  <2>3. nvs' = nvs /\ id' = id
    OBVIOUS
  <2>4. QED BY <2>1, <2>2, <2>3 DEF IdsNeverReused
<1>10. QED BY <1>2, <1>3, <1>4, <1>5, <1>6, <1>7, <1>8, <1>9

(* A prepareRun that succeeds opens the writer on an empty, unended run. *)
LEMMA StageCompletesStep ==
    ASSUME IInv, NEW q \in Request, StageCompletes(q) PROVE IInv'
<1> USE DEF IInv, StageCompletes
<1>1. id \in Run /\ place[id] = "none"
  BY DEF PreparedIsRun, PreparedIdIsFree
<1>2. TypeOK'
  <2>1. FlashTypeOK' BY <1>1 DEF TypeOK, FlashTypeOK, Place, AllFiles
  <2>0. <<>> \in Seq(Reading) OBVIOUS
  <2>2. RamTypeOK' BY <1>1, <2>0 DEF TypeOK, RamTypeOK
  <2>3. HistoryTypeOK' BY <1>1 DEF TypeOK, HistoryTypeOK
  <2>4. QED BY <2>1, <2>2, <2>3 DEF TypeOK
<1>3. FilesInOrder' BY DEF FilesInOrder
<1>4. AbsentIsEmpty'
  BY <1>1 DEF AbsentIsEmpty, Kept, TypeOK, FlashTypeOK, RamTypeOK, HistoryTypeOK
<1>5. SyncedIsVisible' /\ HealthyIsSynced' BY DEF SyncedIsVisible, HealthyIsSynced
<1>6. WriterOnOpenRun'
  BY <1>1, ArchiveAssumption DEF WriterOnOpenRun, AbsentIsEmpty, Kept, TypeOK, FlashTypeOK, RamTypeOK, HistoryTypeOK
<1>7. PreparedIsRun' BY DEF PreparedIsRun
<1>8. PreparedIdIsFree'
  BY <1>1, ArchiveAssumption DEF PreparedIdIsFree, Listed, TypeOK, FlashTypeOK, RamTypeOK, HistoryTypeOK
<1>9. IdsNeverReused'
  <2>1. id \in Nat /\ nvs = id
    BY <1>1, ArchiveAssumption DEF PreparedIsRun
  <2>2. born' \subseteq born \cup {id} /\ ~prepared'
    OBVIOUS
  <2>3. nvs' = nvs /\ id' = id
    OBVIOUS
  <2>4. QED BY <2>1, <2>2, <2>3 DEF IdsNeverReused
<1>10. QED BY <1>2, <1>3, <1>4, <1>5, <1>6, <1>7, <1>8, <1>9

(* What the operations of the open writer leave alone. *)
DirectoriesUnchanged == UNCHANGED <<nvs, place, files, request, id, prepared, ready,
                                    catalogValid, born>>

(* A step that leaves directories and identity alone keeps what is said of ids. *)
LEMMA IdentityUnchanged ==
    ASSUME IInv, DirectoriesUnchanged, activeRun' \in {activeRun, 0}
    PROVE  PreparedIsRun' /\ PreparedIdIsFree' /\ IdsNeverReused'
  BY DEF IInv, DirectoriesUnchanged, PreparedIsRun, PreparedIdIsFree, IdsNeverReused, Listed

(* The invariant after a sync, given what became of the writer and the verdict. *)
LEMMA WriterStep ==
    ASSUME IInv, activeRun # 0, NEW ok \in BOOLEAN, SyncFiles(ok), DirectoriesUnchanged,
           pending' \in Seq(Reading), activeRun' \in {activeRun, 0},
           verdict' \in [Run -> Verdict \cup {Unended}],
           verdictSynced' \in [Run -> BOOLEAN],
           SyncedIsVisible',
           verdict'[activeRun] \notin {Unended, StorageError} => ok,
           \A r \in Run \ {activeRun} :
               verdict'[r] = verdict[r] /\ verdictSynced'[r] = verdictSynced[r],
           activeRun' # 0 => verdict'[activeRun] = Unended
    PROVE  IInv'
<1>1. activeRun \in Run /\ place[activeRun] = "final"
  BY DEF IInv, TypeOK, RamTypeOK, WriterOnOpenRun
<1>2. /\ raw' \in [Run -> Seq(Reading)] /\ acked' \in [Run -> Seq(Reading)]
      /\ rawSynced' \in [Run -> Nat] /\ durable' \in Nat /\ writerFailed' \in BOOLEAN
      /\ FilesInOrder'
      /\ \A r \in Run \ {activeRun} : /\ raw'[r] = raw[r] /\ acked'[r] = acked[r]
                                      /\ rawSynced'[r] = rawSynced[r]
      /\ durable' = Len(acked'[activeRun])
      /\ ~writerFailed' => Len(raw'[activeRun]) = durable'
      /\ ok <=> ~writerFailed'
  BY SyncFilesEffect
<1>3. FlashTypeOK'
  BY <1>2 DEF IInv, TypeOK, FlashTypeOK, DirectoriesUnchanged
<1>4. RamTypeOK'
  BY <1>2 DEF IInv, TypeOK, RamTypeOK, DirectoriesUnchanged
<1>5. HistoryTypeOK'
  BY <1>2 DEF IInv, TypeOK, HistoryTypeOK, DirectoriesUnchanged
<1>6. AbsentIsEmpty'
  BY <1>1, <1>2 DEF IInv, AbsentIsEmpty, Kept, DirectoriesUnchanged
<1>7. WriterOnOpenRun'
  BY <1>1, <1>2 DEF WriterOnOpenRun, DirectoriesUnchanged
<1>8. HealthyIsSynced'
  <2> SUFFICES ASSUME NEW r \in Run, verdict'[r] \notin {Unended, StorageError}
               PROVE  rawSynced'[r] = Len(raw'[r])
    BY DEF HealthyIsSynced
  <2>1. CASE r = activeRun
    <3>1. Len(raw'[r]) = Len(acked'[r]) BY <1>2, <2>1
    <3>2. Len(acked'[r]) <= rawSynced'[r] /\ rawSynced'[r] <= Len(raw'[r])
      BY <1>2 DEF FilesInOrder
    <3>3. rawSynced'[r] \in Nat /\ Len(raw'[r]) \in Nat BY <1>2
    <3>4. QED BY <3>1, <3>2, <3>3
  <2>2. CASE r # activeRun BY <1>2, <2>2 DEF IInv, HealthyIsSynced
  <2>3. QED BY <2>1, <2>2
<1>9. QED
  BY <1>2, <1>3, <1>4, <1>5, <1>6, <1>7, <1>8, IdentityUnchanged DEF IInv, TypeOK

(* sync() preserves the invariant. *)
LEMMA SyncStep ==
    ASSUME IInv, NEW ok \in BOOLEAN, Sync(ok) PROVE IInv'
<1>1. DirectoriesUnchanged /\ activeRun # 0 /\ SyncFiles(ok)
  BY DEF Sync, DirectoriesUnchanged
<1>2. pending' \in Seq(Reading)
  BY DEF Sync, IInv, TypeOK, RamTypeOK
<1>3. SyncedIsVisible'
  BY DEF Sync, IInv, SyncedIsVisible
<1>4. activeRun' = activeRun /\ verdict' = verdict /\ verdictSynced' = verdictSynced
  BY DEF Sync
<1>5. verdict[activeRun] = Unended
  BY <1>1 DEF IInv, WriterOnOpenRun
<1>6. QED
  BY <1>1, <1>2, <1>3, <1>4, <1>5, WriterStep DEF IInv, TypeOK, FlashTypeOK

(* A refused appendSelected() preserves the invariant. *)
LEMMA AppendRefusedStep ==
    ASSUME IInv, AppendRefused PROVE IInv'
<1>1. DirectoriesUnchanged /\ activeRun # 0 /\ SyncFiles(FALSE)
  BY DEF AppendRefused, DirectoriesUnchanged
<1>2. pending' \in Seq(Reading)
  BY DEF AppendRefused, IInv, TypeOK, RamTypeOK
<1>3. SyncedIsVisible'
  BY DEF AppendRefused, IInv, SyncedIsVisible
<1>4. activeRun' = activeRun /\ verdict' = verdict /\ verdictSynced' = verdictSynced
  BY DEF AppendRefused
<1>5. verdict[activeRun] = Unended
  BY <1>1 DEF IInv, WriterOnOpenRun
<1>6. QED
  BY <1>1, <1>2, <1>3, <1>4, <1>5, WriterStep DEF IInv, TypeOK, FlashTypeOK

(* appendSelected(), with or without a forced sync, preserves the invariant. *)
LEMMA AppendSelectedStep ==
    ASSUME IInv, NEW n \in 1..RawCapacity, NEW x \in Reading, AppendSelected(n, x)
    PROVE  IInv'
<1>1. DirectoriesUnchanged /\ activeRun # 0
  BY DEF AppendSelected, DirectoriesUnchanged
<1>2. activeRun' = activeRun /\ verdict' = verdict /\ verdictSynced' = verdictSynced
  BY DEF AppendSelected
<1>3. pending' \in Seq(Reading)
  <2>1. pending \in Seq(Reading) BY DEF IInv, TypeOK, RamTypeOK
  <2>2. <<x>> \in Seq(Reading) /\ Append(pending, x) \in Seq(Reading) BY <2>1
  <2>3. pending' \in {<<x>>, Append(pending, x)} BY DEF AppendSelected
  <2>4. QED BY <2>2, <2>3
<1>4. SyncedIsVisible'
  BY <1>2 DEF IInv, SyncedIsVisible
<1>5. verdict[activeRun] = Unended
  BY <1>1 DEF IInv, WriterOnOpenRun
<1>6. CASE SyncFiles(TRUE)
  BY <1>1, <1>2, <1>3, <1>4, <1>5, <1>6, WriterStep DEF IInv, TypeOK, FlashTypeOK
<1>7. CASE UNCHANGED <<raw, rawSynced, durable, writerFailed, acked>>
  <2>1. TypeOK'
    BY <1>1, <1>2, <1>3, <1>7 DEF IInv, TypeOK, FlashTypeOK, RamTypeOK, HistoryTypeOK,
                                  DirectoriesUnchanged
  <2>2. FilesInOrder' BY <1>7 DEF IInv, FilesInOrder
  <2>3. AbsentIsEmpty' BY <1>1, <1>2, <1>7 DEF IInv, AbsentIsEmpty, Kept, DirectoriesUnchanged
  <2>4. WriterOnOpenRun' BY <1>1, <1>2, <1>7 DEF IInv, WriterOnOpenRun, DirectoriesUnchanged
  <2>5. HealthyIsSynced' BY <1>2, <1>7 DEF IInv, HealthyIsSynced
  <2>6. QED BY <1>1, <1>2, <1>4, <2>1, <2>2, <2>3, <2>4, <2>5, IdentityUnchanged DEF IInv
<1>8. QED BY <1>6, <1>7 DEF AppendSelected

(* finalize() preserves the invariant: a healthy verdict is only written after a
   successful sync, so the whole visible file is on flash. *)
LEMMA FinalizeStep ==
    ASSUME IInv, NEW v \in Verdict, NEW synced \in BOOLEAN, NEW journaled \in BOOLEAN,
           Finalize(v, synced, journaled)
    PROVE  IInv'
<1> DEFINE written == IF synced THEN v ELSE StorageError
<1>1. DirectoriesUnchanged /\ activeRun # 0 /\ SyncFiles(synced)
      /\ activeRun' = 0 /\ pending' = <<>>
  BY DEF Finalize, DirectoriesUnchanged
<1>2. written \in Verdict /\ written # Unended
  BY ArchiveAssumption
<1>3. activeRun \in Run /\ verdict[activeRun] = Unended
      /\ verdict \in [Run -> Verdict \cup {Unended}] /\ verdictSynced \in [Run -> BOOLEAN]
      /\ SyncedIsVisible
  BY <1>1 DEF IInv, TypeOK, FlashTypeOK, RamTypeOK, WriterOnOpenRun
<1>4. PICK seen \in {verdict[activeRun], written} :
         /\ verdict' = [verdict EXCEPT ![activeRun] = seen]
         /\ \/ seen = written /\ verdictSynced' = [verdictSynced EXCEPT ![activeRun] = TRUE]
            \/ verdictSynced' = verdictSynced
  BY DEF Finalize
<1> HIDE DEF written
<1>5. verdict' \in [Run -> Verdict \cup {Unended}] /\ verdictSynced' \in [Run -> BOOLEAN]
      /\ \A r \in Run \ {activeRun} :
            verdict'[r] = verdict[r] /\ verdictSynced'[r] = verdictSynced[r]
  BY <1>2, <1>3, <1>4
<1>6. SyncedIsVisible'
  BY <1>2, <1>3, <1>4 DEF SyncedIsVisible
<1>7. pending' \in Seq(Reading)
  BY <1>1
<1>8. verdict'[activeRun] \notin {Unended, StorageError} => synced
  BY <1>3, <1>4 DEF written
<1>9. QED
  BY <1>1, <1>5, <1>6, <1>7, <1>8, WriterStep

(* Fsyncing a journal that holds run.ended preserves the invariant. *)
LEMMA SettleJournalStep ==
    ASSUME IInv, NEW r \in Run, SettleJournal(r) PROVE IInv'
<1> USE DEF SettleJournal, ram
<1>1. TypeOK'
  BY DEF IInv, TypeOK, FlashTypeOK, RamTypeOK, HistoryTypeOK
<1>2. FilesInOrder' BY DEF IInv, FilesInOrder
<1>3. AbsentIsEmpty' BY DEF IInv, AbsentIsEmpty, Kept
<1>4. SyncedIsVisible' BY DEF IInv, SyncedIsVisible, TypeOK, FlashTypeOK
<1>5. WriterOnOpenRun' BY DEF IInv, WriterOnOpenRun
<1>6. HealthyIsSynced' BY DEF IInv, HealthyIsSynced
<1>7. DirectoriesUnchanged BY DEF DirectoriesUnchanged
<1>8. QED BY <1>1, <1>2, <1>3, <1>4, <1>5, <1>6, <1>7, IdentityUnchanged DEF IInv

(* deleteRun() leaves nothing of the run, even if only the rename succeeded. *)
LEMMA DeleteRunStep ==
    ASSUME IInv, NEW r \in Run, NEW removed \in BOOLEAN, DeleteRun(r, removed) PROVE IInv'
<1> USE DEF DeleteRun, Forget, ram
<1>0. <<>> \in Seq(Reading) OBVIOUS
<1>1. TypeOK'
  <2>1. place' \in [Run -> Place] BY DEF IInv, TypeOK, FlashTypeOK, Place
  <2>2. files' \in [Run -> 0..AllFiles] /\ request' \in [Run -> Request \cup {NoRequest}]
    BY DEF IInv, TypeOK, FlashTypeOK, AllFiles
  <2>3. raw' \in [Run -> Seq(Reading)] /\ rawSynced' \in [Run -> Nat]
        /\ verdict' \in [Run -> Verdict \cup {Unended}] /\ verdictSynced' \in [Run -> BOOLEAN]
    BY <1>0 DEF IInv, TypeOK, FlashTypeOK
  <2>4. FlashTypeOK' BY <2>1, <2>2, <2>3 DEF IInv, TypeOK, FlashTypeOK
  <2>5. RamTypeOK' BY DEF IInv, TypeOK, RamTypeOK
  <2>6. HistoryTypeOK' BY <1>0 DEF IInv, TypeOK, HistoryTypeOK
  <2>7. QED BY <2>4, <2>5, <2>6 DEF TypeOK
<1>2. /\ raw'[r] = <<>> /\ acked'[r] = <<>> /\ rawSynced'[r] = 0
      /\ verdict'[r] = Unended /\ verdictSynced'[r] = FALSE /\ ~Kept(r)'
  BY DEF IInv, TypeOK, FlashTypeOK, Kept
<1>3. \A s \in Run \ {r} : /\ raw'[s] = raw[s] /\ acked'[s] = acked[s]
                           /\ rawSynced'[s] = rawSynced[s] /\ place'[s] = place[s]
                           /\ verdict'[s] = verdict[s] /\ verdictSynced'[s] = verdictSynced[s]
  BY DEF IInv, TypeOK, FlashTypeOK
<1>4. FilesInOrder' BY <1>2, <1>3 DEF IInv, FilesInOrder
<1>5. AbsentIsEmpty' BY <1>2, <1>3 DEF IInv, AbsentIsEmpty, Kept
<1>6. SyncedIsVisible' BY <1>2, <1>3 DEF IInv, SyncedIsVisible
<1>7. WriterOnOpenRun' BY <1>3 DEF IInv, TypeOK, RamTypeOK, WriterOnOpenRun
<1>8. place[r] # "none" /\ Listed' \subseteq Listed
  <2>1. place[r] # "none" OBVIOUS
  <2>2. QED BY <1>3, <2>1 DEF Listed
<1>9. PreparedIsRun' BY DEF IInv, PreparedIsRun
<1>10. PreparedIdIsFree'
  BY <1>3, <1>8 DEF IInv, PreparedIsRun, PreparedIdIsFree
<1>11. IdsNeverReused' BY DEF IInv, IdsNeverReused
<1>12. HealthyIsSynced' BY <1>2, <1>3 DEF IInv, HealthyIsSynced
<1>13. QED BY <1>1, <1>4, <1>5, <1>6, <1>7, <1>9, <1>10, <1>11, <1>12 DEF IInv

(* A power loss and the recovery of begin() preserve the invariant: what survives is
   at least what was fsynced, and the id starts above every directory found. *)
LEMMA RebootStep ==
    ASSUME IInv, NEW mounted \in BOOLEAN, NEW scanned \in BOOLEAN, NEW loaded \in BOOLEAN,
           Reboot(mounted, scanned, loaded)
    PROVE  IInv'
<1>1. PICK kept \in Survivors, lost \in SUBSET Doubtful :
          /\ raw' = [r \in Run |-> Prefix(raw[r], kept[r])]
          /\ rawSynced' = kept
          /\ verdict' = [r \in Run |-> IF r \in lost THEN Unended ELSE verdict[r]]
  BY DEF Reboot
<1>2. \A r \in Run : /\ kept[r] \in rawSynced[r]..Len(raw[r])
                     /\ rawSynced[r] \in Nat /\ raw[r] \in Seq(Reading)
                     /\ acked[r] \in Seq(Reading)
  BY DEF Survivors, IInv, TypeOK, FlashTypeOK, HistoryTypeOK
<1>3. \A r \in Run : /\ raw'[r] \in Seq(Reading) /\ Len(raw'[r]) = kept[r]
                     /\ \A i \in 1..kept[r] : raw'[r][i] = raw[r][i]
  <2>1. SUFFICES ASSUME NEW r \in Run
                 PROVE  /\ Prefix(raw[r], kept[r]) \in Seq(Reading)
                        /\ Len(Prefix(raw[r], kept[r])) = kept[r]
                        /\ \A i \in 1..kept[r] : Prefix(raw[r], kept[r])[i] = raw[r][i]
    BY <1>1
  <2>2. kept[r] \in 0..Len(raw[r]) BY <1>2
  <2>3. QED BY <1>2, <2>2, PrefixType
<1>4. rawSynced' \in [Run -> Nat] /\ \A r \in Run : rawSynced'[r] = kept[r]
  <2>1. kept \in [Run -> Nat]
    <3>1. kept \in [Run -> 0..LongestFile] BY DEF Survivors
    <3>2. \A r \in Run : kept[r] \in Nat BY <1>2
    <3>3. QED BY <3>1, <3>2
  <2>2. QED BY <1>1, <2>1
<1>5. FilesInOrder'
  <2> SUFFICES ASSUME NEW r \in Run
               PROVE  /\ Len(acked'[r]) <= rawSynced'[r] /\ rawSynced'[r] <= Len(raw'[r])
                      /\ \A i \in 1..Len(acked'[r]) : raw'[r][i] = acked'[r][i]
    BY DEF FilesInOrder
  <2>1. acked' = acked BY DEF Reboot
  <2>2. Len(acked[r]) <= rawSynced[r] /\ \A i \in 1..Len(acked[r]) : raw[r][i] = acked[r][i]
    BY DEF IInv, FilesInOrder
  <2>3. Len(acked[r]) \in Nat /\ kept[r] \in Nat /\ rawSynced[r] <= kept[r] BY <1>2
  <2>4. QED BY <1>2, <1>3, <1>4, <2>1, <2>2, <2>3
<1>6. verdict' \in [Run -> Verdict \cup {Unended}] /\ verdictSynced' \in [Run -> BOOLEAN]
      /\ \A r \in Run : verdictSynced'[r] <=> verdict'[r] # Unended
  BY <1>1 DEF Reboot, IInv, TypeOK, FlashTypeOK
<1>7. PICK removed \in SUBSET {r \in Run : mounted /\ place[r] = "deleting"},
           renamed \in SUBSET {r \in Run : mounted /\ place[r] = "creating" /\ files[r] = AllFiles} :
        place' = [r \in Run |-> IF r \in removed THEN "none"
                                ELSE IF r \in renamed THEN "final" ELSE place[r]]
  BY DEF Reboot, RecoverDirectories
<1>8. place' \in [Run -> Place] /\ \A r \in Run : Kept(r)' <=> Kept(r)
  BY <1>7 DEF Kept, Place, IInv, TypeOK, FlashTypeOK
<1>9. PICK top \in Run \cup {0}, stored \in {IF loaded THEN nvs ELSE 0} :
          /\ IF scanned THEN IsMaxRunId(top)' ELSE top = 0
          /\ id' = IF stored < top THEN top ELSE stored
  BY DEF Reboot
<1>10. id' \in Run \cup {0} /\ top <= id' /\ (loaded => nvs <= id') /\ id' \in Nat
  <2>1. stored \in Run \cup {0} /\ stored \in Nat /\ top \in Nat
    BY <1>9, ArchiveAssumption DEF IInv, TypeOK, FlashTypeOK
  <2>2. QED BY <1>9, <2>1
<1>11. TypeOK'
  <2>1. raw' \in [Run -> Seq(Reading)] BY <1>1, <1>3
  <2>2. FlashTypeOK'
    BY <1>4, <1>6, <1>8, <2>1 DEF Reboot, IInv, TypeOK, FlashTypeOK
  <2>3. <<>> \in Seq(Reading) OBVIOUS
  <2>4. RamTypeOK' BY <1>10, <2>3 DEF Reboot, IInv, TypeOK, RamTypeOK
  <2>5. HistoryTypeOK' BY DEF Reboot, IInv, TypeOK, HistoryTypeOK
  <2>6. QED BY <2>2, <2>4, <2>5 DEF TypeOK
<1>12. AbsentIsEmpty'
  <2> SUFFICES ASSUME NEW r \in Run, ~Kept(r)'
               PROVE  /\ raw'[r] = <<>> /\ acked'[r] = <<>> /\ rawSynced'[r] = 0
                      /\ verdict'[r] = Unended /\ verdictSynced'[r] = FALSE
    BY DEF AbsentIsEmpty
  <2>1. raw[r] = <<>> /\ acked[r] = <<>> /\ rawSynced[r] = 0 /\ verdict[r] = Unended
    BY <1>8 DEF IInv, AbsentIsEmpty
  <2>2. kept[r] = 0 /\ Len(raw'[r]) = 0 /\ raw'[r] \in Seq(Reading)
    BY <1>2, <1>3, <2>1
  <2>3. verdict'[r] = Unended BY <1>1, <2>1
  <2>4. QED BY <1>4, <1>6, <2>1, <2>2, <2>3 DEF Reboot
<1>13. SyncedIsVisible' BY <1>6 DEF SyncedIsVisible
<1>14. WriterOnOpenRun' BY DEF Reboot, WriterOnOpenRun
<1>15. PreparedIsRun' BY DEF Reboot, PreparedIsRun
<1>16. PreparedIdIsFree'
  <2>1. ~prepared' /\ catalogValid' = scanned BY DEF Reboot
  <2>2. CASE scanned
    <3>1. \A r \in Listed' : r <= top BY <1>9, <2>2 DEF IsMaxRunId
    <3>2. \A r \in Listed' : r \in Nat BY ArchiveAssumption DEF Listed
    <3>3. top \in Nat BY ArchiveAssumption
    <3>4. \A r \in Listed' : r <= id' BY <1>10, <3>1, <3>2, <3>3
    <3>5. QED BY <2>1, <3>4 DEF PreparedIdIsFree
  <2>3. QED BY <2>1, <2>2 DEF PreparedIdIsFree
<1>17. IdsNeverReused'
  <2> SUFFICES ASSUME NvsReliable
               PROVE  (prepared' => id' \notin born') /\ \A r \in born' : r <= nvs' /\ r <= id'
    BY DEF IdsNeverReused
  <2>1. loaded /\ nvs' = nvs /\ born' = born /\ ~prepared' BY DEF Reboot
  <2>2. \A r \in born : r <= nvs /\ r \in Nat
    BY ArchiveAssumption DEF IInv, IdsNeverReused, TypeOK, HistoryTypeOK
  <2>3. nvs \in Nat BY ArchiveAssumption DEF IInv, TypeOK, FlashTypeOK
  <2>4. QED BY <1>10, <2>1, <2>2, <2>3
<1>18. HealthyIsSynced' BY <1>3, <1>4 DEF HealthyIsSynced
<1>19. QED BY <1>5, <1>11, <1>12, <1>13, <1>14, <1>15, <1>16, <1>17, <1>18 DEF IInv

-----------------------------------------------------------------------------
(* Every step of the store preserves the invariant. *)
THEOREM InvariantStep == IInv /\ [ArchiveNext]_archiveVars => IInv'
<1> SUFFICES ASSUME IInv, [ArchiveNext]_archiveVars PROVE IInv' OBVIOUS
<1>1. CASE UNCHANGED archiveVars
  BY <1>1 DEF archiveVars, flash, ram, IInv, TypeOK, FlashTypeOK, RamTypeOK, HistoryTypeOK,
              FilesInOrder, AbsentIsEmpty, SyncedIsVisible, HealthyIsSynced, WriterOnOpenRun,
              PreparedIsRun,
              PreparedIdIsFree, IdsNeverReused, Kept, Listed
<1>2. CASE \E ok \in BOOLEAN : AllocateId(ok) \/ Sync(ok)
  BY <1>2, AllocateIdStep, SyncStep
<1>3. CASE \E q \in Request : \/ StageCompletes(q)
                              \/ \E where \in Place \ {"deleting"}, done \in 0..AllFiles :
                                    StageFails(q, where, done)
  BY <1>3, StageCompletesStep, StageFailsStep
<1>4. CASE \E n \in 1..RawCapacity, x \in Reading : AppendSelected(n, x)
  BY <1>4, AppendSelectedStep
<1>5. CASE AppendRefused
  BY <1>5, AppendRefusedStep
<1>6. CASE \E v \in Verdict, synced, journaled \in BOOLEAN : Finalize(v, synced, journaled)
  BY <1>6, FinalizeStep
<1>7. CASE \E r \in Run : SettleJournal(r) \/ \E removed \in BOOLEAN : DeleteRun(r, removed)
  BY <1>7, SettleJournalStep, DeleteRunStep
<1>8. CASE \E mounted, scanned, loaded \in BOOLEAN : Reboot(mounted, scanned, loaded)
  BY <1>8, RebootStep
<1>9. QED
  BY <1>1, <1>2, <1>3, <1>4, <1>5, <1>6, <1>7, <1>8 DEF ArchiveNext

(* The invariant holds in every reachable state of the store. *)
THEOREM ArchiveInvariant == ArchiveSpec => []IInv
<1>1. Init => IInv BY InitIInv
<1>2. IInv /\ [ArchiveNext]_archiveVars => IInv' BY InvariantStep
<1>3. QED BY <1>1, <1>2, PTL DEF ArchiveSpec

(* The state and the flash have the types the model gives them. *)
THEOREM TypeCorrect == ArchiveSpec => []TypeOK
  BY ArchiveInvariant, PTL DEF IInv

(* An acknowledged record outlives every failure and reboot. *)
THEOREM AcknowledgedSurvive == ArchiveSpec => []AckedSurvive
<1>1. IInv => AckedSurvive BY DEF IInv, FilesInOrder, AckedSurvive
<1>2. QED BY <1>1, ArchiveInvariant, PTL

(* The writer's RAM state describes the open run's files. *)
THEOREM WriterAgrees == ArchiveSpec => []WriterOnOpenRun
  BY ArchiveInvariant, PTL DEF IInv

(* A prepared id never collides with a directory. *)
THEOREM PreparedIsFree == ArchiveSpec => []PreparedIdIsFree
  BY ArchiveInvariant, PTL DEF IInv

(* With a dependable NVS no id is ever used twice. *)
THEOREM IdsUnique == ArchiveSpec => []IdsNeverReused
  BY ArchiveInvariant, PTL DEF IInv

-----------------------------------------------------------------------------
(* What the ledger holds of one run. *)
PhaseOf(r) == IF ~Kept(r) THEN "absent" ELSE IF r = activeRun THEN "open" ELSE "closed"
LogOf(r) == Prefix(raw[r], rawSynced[r])
OutcomeOf(r) == IF verdictSynced[r] THEN verdict[r] ELSE Unended

(* The ledger's steps, said of the archive's state. *)
Stays(r) == PhaseOf(r)' = PhaseOf(r) /\ LogOf(r)' = LogOf(r) /\ OutcomeOf(r)' = OutcomeOf(r)
Appears(r) ==
    /\ PhaseOf(r) = "absent" /\ PhaseOf(r)' \in {"open", "closed"}
    /\ \A s \in Run : PhaseOf(s) # "absent" => s < r
    /\ \A s \in Run : PhaseOf(s) # "open"
    /\ LogOf(r)' = <<>> /\ OutcomeOf(r)' = Unended
Grows(r) ==
    /\ PhaseOf(r) = "open" /\ PhaseOf(r)' \in {"open", "closed"}
    /\ Ledger!IsPrefix(LogOf(r), LogOf(r)')
    /\ OutcomeOf(r)' # Unended => PhaseOf(r)' = "closed"
Settles(r) ==
    /\ PhaseOf(r) = "closed" /\ PhaseOf(r)' = "closed"
    /\ Ledger!IsPrefix(LogOf(r), LogOf(r)')
    /\ OutcomeOf(r) # Unended => OutcomeOf(r)' = OutcomeOf(r)
    /\ OutcomeOf(r) \notin {Unended, StorageError} => LogOf(r)' = LogOf(r)
Departs(r) ==
    /\ PhaseOf(r) = "closed" /\ PhaseOf(r)' = "absent"
    /\ LogOf(r)' = <<>> /\ OutcomeOf(r)' = Unended

(* They are the ledger's steps. *)
LEMMA LedgerSteps ==
    ASSUME NEW r \in Run
    PROVE  /\ Stays(r) => Ledger!Same(r)
           /\ Appears(r) => Ledger!Create(r)
           /\ Grows(r) => Ledger!Write(r)
           /\ Settles(r) => Ledger!Settle(r)
           /\ Departs(r) => Ledger!Depart(r)
<1> USE DEF PhaseOf, LogOf, OutcomeOf
<1>1. Stays(r) => Ledger!Same(r) BY DEF Stays, Ledger!Same
<1>2. Appears(r) => Ledger!Create(r) BY DEF Appears, Ledger!Create
<1>3. Grows(r) => Ledger!Write(r) BY DEF Grows, Ledger!Write
<1>4. Settles(r) => Ledger!Settle(r) BY DEF Settles, Ledger!Settle
<1>5. Departs(r) => Ledger!Depart(r) BY DEF Departs, Ledger!Depart
<1>6. QED BY <1>1, <1>2, <1>3, <1>4, <1>5

(* A longer prefix of a file that agrees on the shorter one extends it. *)
LEMMA PrefixGrows ==
    ASSUME NEW S, NEW f \in Seq(S), NEW g \in Seq(S), NEW n \in 0..Len(f), NEW m \in n..Len(g),
           \A i \in 1..n : f[i] = g[i]
    PROVE  Ledger!IsPrefix(Prefix(f, n), Prefix(g, m))
<1>1. /\ Prefix(f, n) \in Seq(S) /\ Len(Prefix(f, n)) = n
      /\ \A i \in 1..n : Prefix(f, n)[i] = f[i]
  BY PrefixType
<1>2. /\ Prefix(g, m) \in Seq(S) /\ Len(Prefix(g, m)) = m
      /\ \A i \in 1..m : Prefix(g, m)[i] = g[i]
  <2>1. m \in 0..Len(g) OBVIOUS
  <2>2. QED BY <2>1, PrefixType
<1> DEFINE p == Prefix(f, n)  q == Prefix(g, m)
<1>3. SubSeq(p, 1, n) = SubSeq(q, 1, n)
  <2> HIDE DEF p, q
  <2>1. p \in Seq(S) /\ q \in Seq(S) /\ Len(p) = n /\ Len(q) = m BY <1>1, <1>2 DEF p, q
  <2>2. \A i \in 1..n : p[i] = q[i] BY <1>1, <1>2 DEF p, q
  <2>3. SubSeq(p, 1, n) \in Seq(S) /\ Len(SubSeq(p, 1, n)) = n
        /\ \A i \in 1..n : SubSeq(p, 1, n)[i] = p[i]
    BY ONLY <2>1, n \in Nat, SMT
  <2>4. SubSeq(q, 1, n) \in Seq(S) /\ Len(SubSeq(q, 1, n)) = n
        /\ \A i \in 1..n : SubSeq(q, 1, n)[i] = q[i]
    BY ONLY <2>1, n \in Nat, m \in n..Len(g), m \in Nat, SMT
  <2>5. QED BY ONLY <2>2, <2>3, <2>4, SeqEqual
<1>4. QED BY <1>1, <1>2, <1>3 DEF Ledger!IsPrefix

(* A run nothing was done to stays as it was. *)
LEMMA StaysIfUntouched ==
    ASSUME NEW r \in Run,
           place'[r] = place[r], raw'[r] = raw[r], rawSynced'[r] = rawSynced[r],
           verdict'[r] = verdict[r], verdictSynced'[r] = verdictSynced[r],
           r = activeRun' <=> r = activeRun
    PROVE  Stays(r)
  BY DEF Stays, PhaseOf, LogOf, OutcomeOf, Kept

(* Allocating an id is no step of the ledger. *)
LEMMA AllocateIdMove ==
    ASSUME NEW saved \in BOOLEAN, AllocateId(saved), NEW r \in Run PROVE Stays(r)
  BY StaysIfUntouched DEF AllocateId

(* A new directory is a new run: no run is open, and every run present is older. *)
LEMMA DirectoryAppears ==
    ASSUME IInv, prepared, place[id] = "none", place' = [place EXCEPT ![id] = "creating"]
                              \/ place' = [place EXCEPT ![id] = "final"],
           activeRun' \in {0, id},
           raw' = raw, rawSynced' = rawSynced, verdict' = verdict, verdictSynced' = verdictSynced,
           NEW r \in Run
    PROVE  Stays(r) \/ Appears(r)
<1>1. id \in Run /\ activeRun = 0 /\ id # 0 /\ 0 \notin Run
  BY ArchiveAssumption DEF IInv, PreparedIsRun
<1>2. place \in [Run -> Place] /\ raw[id] = <<>> /\ rawSynced[id] = 0 /\ verdict[id] = Unended
      /\ verdictSynced[id] = FALSE
  BY <1>1 DEF IInv, TypeOK, FlashTypeOK, AbsentIsEmpty, Kept
<1>3. CASE r # id
  <2>1. place'[r] = place[r] /\ (r = activeRun' <=> r = activeRun) BY <1>1, <1>2, <1>3
  <2>2. QED BY <2>1, StaysIfUntouched
<1>4. CASE r = id
  <2>1. PhaseOf(r) = "absent" /\ PhaseOf(r)' \in {"open", "closed"}
    BY <1>1, <1>2, <1>4 DEF PhaseOf, Kept
  <2>2. \A s \in Run : PhaseOf(s) # "absent" => s < r
    <3> SUFFICES ASSUME NEW s \in Run, PhaseOf(s) # "absent" PROVE s < r OBVIOUS
    <3>1. place[s] # "none" /\ s # id BY <1>2, <1>4 DEF PhaseOf, Kept
    <3>2. s <= id BY <3>1 DEF IInv, PreparedIdIsFree, Listed
    <3>3. s \in Nat /\ id \in Nat BY <1>1, ArchiveAssumption
    <3>4. QED BY <1>4, <3>1, <3>2, <3>3
  <2>3. \A s \in Run : PhaseOf(s) # "open" BY <1>1 DEF PhaseOf
  <2>4. LogOf(r)' = <<>> BY <1>2, <1>4 DEF LogOf, Prefix
  <2>5. OutcomeOf(r)' = Unended BY <1>2, <1>4 DEF OutcomeOf
  <2>6. QED BY <2>1, <2>2, <2>3, <2>4, <2>5 DEF Appears
<1>5. QED BY <1>3, <1>4

(* prepareRun, whole or cut short, adds one run or none. *)
LEMMA StageMove ==
    ASSUME IInv, NEW r \in Run, NEW q \in Request,
           \/ StageCompletes(q)
           \/ \E where \in Place \ {"deleting"}, done \in 0..AllFiles : StageFails(q, where, done)
    PROVE  Stays(r) \/ Appears(r)
<1>1. CASE StageCompletes(q)
  BY <1>1, DirectoryAppears DEF StageCompletes
<1>2. ASSUME NEW where \in Place \ {"deleting"}, NEW done \in 0..AllFiles,
             StageFails(q, where, done)
      PROVE  Stays(r) \/ Appears(r)
  <2>1. CASE where = "none" BY <1>2, <2>1, StaysIfUntouched DEF StageFails
  <2>2. CASE where # "none"
    <3>1. prepared /\ activeRun = 0 BY <1>2 DEF StageFails, IInv, PreparedIsRun
    <3>2. where \in {"creating", "final"} BY <2>2 DEF Place
    <3>3. QED BY <1>2, <3>1, <3>2, DirectoryAppears DEF StageFails
  <2>3. QED BY <2>1, <2>2
<1>3. QED BY <1>1, <1>2

(* A sync, a forced sync or finalize(): the open run grows, the others stay. *)
LEMMA WriterMove ==
    ASSUME IInv, activeRun # 0, NEW ok \in BOOLEAN, SyncFiles(ok),
           place' = place, activeRun' \in {0, activeRun},
           verdictSynced' \in [Run -> BOOLEAN],
           \A s \in Run \ {activeRun} : verdict'[s] = verdict[s] /\ verdictSynced'[s] = verdictSynced[s],
           activeRun' = activeRun => verdict' = verdict,
           NEW r \in Run
    PROVE  Stays(r) \/ Grows(r)
<1>1. activeRun \in Run /\ place[activeRun] = "final" /\ verdict[activeRun] = Unended
      /\ 0 \notin Run
  BY ArchiveAssumption DEF IInv, TypeOK, RamTypeOK, WriterOnOpenRun
<1>2. CASE r # activeRun
  <2>1. raw'[r] = raw[r] /\ rawSynced'[r] = rawSynced[r] BY <1>2, SyncFilesEffect
  <2>2. QED BY <1>1, <1>2, <2>1, StaysIfUntouched
<1>3. CASE r = activeRun
  <2>1. PhaseOf(r) = "open" /\ PhaseOf(r)' = IF activeRun' = 0 THEN "closed" ELSE "open"
    BY <1>1, <1>3 DEF PhaseOf, Kept
  <2>2. /\ raw[r] \in Seq(Reading) /\ raw'[r] \in Seq(Reading)
        /\ rawSynced[r] \in 0..Len(raw[r])
        /\ rawSynced'[r] \in rawSynced[r]..Len(raw'[r])
        /\ \A i \in 1..rawSynced[r] : raw[r][i] = raw'[r][i]
    <3>1. /\ raw' \in [Run -> Seq(Reading)] /\ rawSynced' \in [Run -> Nat]
          /\ FilesInOrder'
          /\ rawSynced[r] <= rawSynced'[r]
          /\ \A i \in 1..rawSynced[r] : raw'[r][i] = raw[r][i]
      BY <1>3, SyncFilesEffect
    <3>2. rawSynced[r] <= Len(raw[r]) /\ rawSynced[r] \in Nat /\ raw[r] \in Seq(Reading)
      BY DEF IInv, FilesInOrder, TypeOK, FlashTypeOK
    <3>3. rawSynced'[r] <= Len(raw'[r]) BY <3>1 DEF FilesInOrder
    <3>4. QED BY <3>1, <3>2, <3>3
  <2>3. Ledger!IsPrefix(LogOf(r), LogOf(r)') BY <2>2, PrefixGrows DEF LogOf
  <2>4. OutcomeOf(r)' # Unended => PhaseOf(r)' = "closed"
    <3>1. SUFFICES ASSUME activeRun' = activeRun, activeRun # 0 PROVE OutcomeOf(r)' = Unended
      BY <2>1
    <3>2. verdict'[r] = Unended BY <1>1, <1>3, <3>1
    <3>3. QED BY <3>2 DEF OutcomeOf
  <2>5. QED BY <2>1, <2>3, <2>4 DEF Grows
<1>4. QED BY <1>2, <1>3
(* Every operation of the open writer is such a step. *)
LEMMA WriterOperationsMove ==
    ASSUME IInv, NEW r \in Run,
           \/ \E ok \in BOOLEAN : Sync(ok)
           \/ \E n \in 1..RawCapacity, x \in Reading : AppendSelected(n, x)
           \/ AppendRefused
           \/ \E v \in Verdict, synced, journaled \in BOOLEAN : Finalize(v, synced, journaled)
    PROVE  Stays(r) \/ Grows(r)
<1>0. verdictSynced \in [Run -> BOOLEAN] /\ verdict \in [Run -> Verdict \cup {Unended}]
  BY DEF IInv, TypeOK, FlashTypeOK
<1>1. ASSUME NEW ok \in BOOLEAN, Sync(ok) PROVE Stays(r) \/ Grows(r)
  BY <1>0, <1>1, WriterMove DEF Sync
<1>2. ASSUME NEW n \in 1..RawCapacity, NEW x \in Reading, AppendSelected(n, x)
      PROVE  Stays(r) \/ Grows(r)
  <2>1. CASE Len(pending) = PendingCap
    <3>1. activeRun # 0 /\ SyncFiles(TRUE) BY <1>2, <2>1 DEF AppendSelected
    <3>2. QED BY <1>0, <1>2, <3>1, WriterMove DEF AppendSelected
  <2>2. CASE Len(pending) # PendingCap
    BY <1>2, <2>2, StaysIfUntouched DEF AppendSelected
  <2>3. QED BY <2>1, <2>2
<1>3. CASE AppendRefused
  BY <1>0, <1>3, WriterMove DEF AppendRefused
<1>4. ASSUME NEW v \in Verdict, NEW synced \in BOOLEAN, NEW journaled \in BOOLEAN,
             Finalize(v, synced, journaled)
      PROVE  Stays(r) \/ Grows(r)
  <2>1. activeRun # 0 /\ SyncFiles(synced) /\ place' = place /\ activeRun' = 0
    BY <1>4 DEF Finalize
  <2>2. \E seen : verdict' = [verdict EXCEPT ![activeRun] = seen]
    BY <1>4 DEF Finalize
  <2>3. verdictSynced' \in [Run -> BOOLEAN]
        /\ \A s \in Run \ {activeRun} : verdictSynced'[s] = verdictSynced[s]
    BY <1>0, <1>4 DEF Finalize
  <2>4. \A s \in Run \ {activeRun} : verdict'[s] = verdict[s]
    BY <1>0, <2>2
  <2>5. QED BY <2>1, <2>3, <2>4, WriterMove
<1>5. QED BY <1>1, <1>2, <1>3, <1>4

(* Fsyncing the journal of an ended run settles its verdict. *)
LEMMA SettleJournalMove ==
    ASSUME IInv, NEW s \in Run, SettleJournal(s), NEW r \in Run
    PROVE  Stays(r) \/ Settles(r)
<1>0. verdictSynced \in [Run -> BOOLEAN] /\ raw[r] \in Seq(Reading)
      /\ rawSynced[r] \in 0..Len(raw[r])
  BY DEF IInv, TypeOK, FlashTypeOK, FilesInOrder
<1>1. CASE r # s BY <1>0, <1>1, StaysIfUntouched DEF SettleJournal, ram
<1>2. CASE r = s
  <2>1. PhaseOf(r) = "closed" /\ PhaseOf(r)' = "closed"
    <3>1. r # 0 /\ Kept(r) /\ verdict[r] # Unended
      BY <1>2, ArchiveAssumption DEF Kept, SettleJournal
    <3>2. r # activeRun BY <3>1 DEF IInv, WriterOnOpenRun
    <3>3. place' = place /\ activeRun' = activeRun BY DEF SettleJournal, ram
    <3>4. QED BY <3>1, <3>2, <3>3 DEF PhaseOf, Kept
  <2>2. LogOf(r)' = LogOf(r) BY DEF LogOf, SettleJournal
  <2>3. Ledger!IsPrefix(LogOf(r), LogOf(r)')
    BY <1>0, PrefixGrows DEF LogOf, SettleJournal
  <2>4. OutcomeOf(r) # Unended => OutcomeOf(r)' = OutcomeOf(r)
    BY <1>0, <1>2 DEF OutcomeOf, SettleJournal
  <2>5. QED BY <2>1, <2>2, <2>3, <2>4 DEF Settles
<1>3. QED BY <1>1, <1>2

(* deleteRun() takes one closed run out of the ledger. *)
LEMMA DeleteRunMove ==
    ASSUME IInv, NEW s \in Run, NEW removed \in BOOLEAN, DeleteRun(s, removed), NEW r \in Run
    PROVE  Stays(r) \/ Departs(r)
<1>0. /\ place \in [Run -> Place] /\ raw \in [Run -> Seq(Reading)]
      /\ rawSynced \in [Run -> Nat] /\ verdict \in [Run -> Verdict \cup {Unended}]
      /\ verdictSynced \in [Run -> BOOLEAN]
  BY DEF IInv, TypeOK, FlashTypeOK
<1>1. CASE r # s BY <1>0, <1>1, StaysIfUntouched DEF DeleteRun, ram
<1>2. CASE r = s
  <2>1. PhaseOf(r) = "closed" /\ PhaseOf(r)' = "absent"
    BY <1>0, <1>2 DEF PhaseOf, Kept, DeleteRun, ram
  <2>2. LogOf(r)' = <<>> /\ OutcomeOf(r)' = Unended
    BY <1>0, <1>2 DEF LogOf, OutcomeOf, Prefix, DeleteRun
  <2>3. QED BY <2>1, <2>2 DEF Departs
<1>3. QED BY <1>1, <1>2

(* A power loss closes the open run; any run may turn out to hold more than was
   promised, a healthy one never. *)
LEMMA RebootMove ==
    ASSUME IInv, NEW mounted \in BOOLEAN, NEW scanned \in BOOLEAN, NEW loaded \in BOOLEAN,
           Reboot(mounted, scanned, loaded), NEW r \in Run
    PROVE  Stays(r) \/ Grows(r) \/ Settles(r)
<1>1. PICK kept \in Survivors, lost \in SUBSET Doubtful :
          /\ raw' = [s \in Run |-> Prefix(raw[s], kept[s])]
          /\ rawSynced' = kept
          /\ verdict' = [s \in Run |-> IF s \in lost THEN Unended ELSE verdict[s]]
  BY DEF Reboot
<1>2. /\ kept[r] \in rawSynced[r]..Len(raw[r]) /\ rawSynced[r] \in 0..Len(raw[r])
      /\ raw[r] \in Seq(Reading) /\ verdictSynced[r] \in BOOLEAN /\ 0 \notin Run
      /\ verdictSynced[r] => verdict[r] # Unended
  BY <1>1, ArchiveAssumption
     DEF Survivors, IInv, TypeOK, FlashTypeOK, FilesInOrder, SyncedIsVisible
<1>3. Kept(r)' <=> Kept(r)
  BY DEF Reboot, RecoverDirectories, Kept, IInv, TypeOK, FlashTypeOK, Place
<1>4. activeRun' = 0 /\ verdictSynced'[r] = (verdict'[r] # Unended)
  BY DEF Reboot
<1>5. LogOf(r)' = Prefix(raw[r], kept[r])
  <2>1. /\ Prefix(raw[r], kept[r]) \in Seq(Reading) /\ Len(Prefix(raw[r], kept[r])) = kept[r]
    <3>1. kept[r] \in 0..Len(raw[r]) BY <1>2
    <3>2. QED BY <1>2, <3>1, PrefixType
  <2>2. raw'[r] = Prefix(raw[r], kept[r]) /\ rawSynced'[r] = kept[r] BY <1>1
  <2>3. \A t \in Seq(Reading) : SubSeq(t, 1, Len(t)) = t OBVIOUS
  <2>4. QED BY <2>1, <2>2, <2>3 DEF LogOf, Prefix
<1>6. Ledger!IsPrefix(LogOf(r), LogOf(r)')
  BY <1>2, <1>5, PrefixGrows DEF LogOf
<1>7. CASE ~Kept(r)
  <2>1. raw[r] = <<>> /\ rawSynced[r] = 0 /\ verdict[r] = Unended /\ verdictSynced[r] = FALSE
    BY <1>7 DEF IInv, AbsentIsEmpty
  <2>2. kept[r] = 0 BY <1>2, <2>1
  <2>3. LogOf(r)' = LogOf(r) BY <1>5, <2>1, <2>2 DEF LogOf
  <2>4. verdict'[r] = Unended BY <1>1, <2>1
  <2>5. OutcomeOf(r)' = OutcomeOf(r) BY <2>1, <2>4 DEF OutcomeOf
  <2>6. PhaseOf(r)' = PhaseOf(r) BY <1>3, <1>7 DEF PhaseOf
  <2>7. QED BY <2>3, <2>5, <2>6 DEF Stays
<1>8. CASE Kept(r) /\ r = activeRun
  <2>1. PhaseOf(r) = "open" /\ PhaseOf(r)' = "closed" BY <1>2, <1>3, <1>4, <1>8 DEF PhaseOf
  <2>2. QED BY <1>6, <2>1 DEF Grows
<1>9. CASE Kept(r) /\ r # activeRun
  <2>1. PhaseOf(r) = "closed" /\ PhaseOf(r)' = "closed" BY <1>2, <1>3, <1>4, <1>9 DEF PhaseOf
  <2>2. OutcomeOf(r) # Unended => OutcomeOf(r)' = OutcomeOf(r)
    <3>1. SUFFICES ASSUME verdictSynced[r] PROVE OutcomeOf(r)' = OutcomeOf(r)
      BY DEF OutcomeOf
    <3>2. r \notin lost BY <3>1 DEF Doubtful
    <3>3. verdict'[r] = verdict[r] /\ verdict[r] # Unended BY <1>1, <1>2, <3>1, <3>2
    <3>4. QED BY <1>4, <3>1, <3>3 DEF OutcomeOf
  <2>3. OutcomeOf(r) \notin {Unended, StorageError} => LogOf(r)' = LogOf(r)
    <3>1. SUFFICES ASSUME verdict[r] \notin {Unended, StorageError} PROVE LogOf(r)' = LogOf(r)
      BY DEF OutcomeOf
    <3>2. rawSynced[r] = Len(raw[r]) BY <3>1 DEF IInv, HealthyIsSynced
    <3>3. kept[r] = rawSynced[r] BY <1>2, <3>2
    <3>4. QED BY <1>5, <3>3 DEF LogOf
  <2>4. QED BY <1>6, <2>1, <2>2, <2>3 DEF Settles
<1>10. QED BY <1>7, <1>8, <1>9

(* A step of the archive is a step of the ledger, or leaves it alone. *)
LEMMA LedgerStep == IInv /\ [ArchiveNext]_archiveVars => [Ledger!LedgerNext]_(Ledger!ledgerVars)
<1> SUFFICES ASSUME IInv, [ArchiveNext]_archiveVars PROVE Ledger!LedgerNext
  OBVIOUS
<1> SUFFICES ASSUME NEW r \in Run
             PROVE  Stays(r) \/ Appears(r) \/ Grows(r) \/ Settles(r) \/ Departs(r)
  BY LedgerSteps DEF Ledger!LedgerNext
<1>1. CASE UNCHANGED archiveVars
  BY <1>1, StaysIfUntouched DEF archiveVars, flash, ram
<1>2. CASE \E saved \in BOOLEAN : AllocateId(saved)
  BY <1>2, AllocateIdMove
<1>3. CASE \E q \in Request : \/ StageCompletes(q)
                              \/ \E where \in Place \ {"deleting"}, done \in 0..AllFiles :
                                    StageFails(q, where, done)
  BY <1>3, StageMove
<1>4. CASE \/ \E ok \in BOOLEAN : Sync(ok)
           \/ \E n \in 1..RawCapacity, x \in Reading : AppendSelected(n, x)
           \/ AppendRefused
           \/ \E v \in Verdict, synced, journaled \in BOOLEAN : Finalize(v, synced, journaled)
  BY <1>4, WriterOperationsMove
<1>5. CASE \E s \in Run : SettleJournal(s) \/ \E removed \in BOOLEAN : DeleteRun(s, removed)
  BY <1>5, SettleJournalMove, DeleteRunMove
<1>6. CASE \E mounted, scanned, loaded \in BOOLEAN : Reboot(mounted, scanned, loaded)
  BY <1>6, RebootMove
<1>7. QED
  BY <1>1, <1>2, <1>3, <1>4, <1>5, <1>6 DEF ArchiveNext

(* The empty flash is the empty ledger. *)
LEMMA LedgerStart == Init => Ledger!LedgerInit
  BY DEF Init, Ledger!LedgerInit, Kept, Prefix

(* What would certainly survive a power loss evolves as a ledger: at most one run
   is open, logs only grow, a healthy verdict freezes its run, and a new run is
   numbered above every run present. *)
THEOREM ArchiveImplementsLedger == ArchiveSpec => ImplementsLedger
<1>1. Init => Ledger!LedgerInit BY LedgerStart
<1>2. IInv /\ [ArchiveNext]_archiveVars => [Ledger!LedgerNext]_(Ledger!ledgerVars)
  BY LedgerStep
<1>3. QED BY <1>1, <1>2, ArchiveInvariant, PTL DEF ArchiveSpec, ImplementsLedger, Ledger!LedgerSpec
-----------------------------------------------------------------------------
(***************************************************************************)
(* The logging service.                                                    *)
(***************************************************************************)

Step == {"idle", "drain", "flush", "finish", "sync", "end", "stage", "dead"}
Runs0 == Run \cup {0}
Selector == [runId : Runs0, active : BOOLEAN, acq : Sample, latest : Sample,
             gapPending : BOOLEAN, lastLoggedMs : Nat, nextLogSeq : Nat \ {0},
             intervalFault : SUBSET FaultBit]
Job == [step : Step, caller : {"none", "limit", "poll", "stop", "start"}, status : Verdict,
        late : BOOLEAN, target : Runs0, request : Request \cup {NoRequest}]

ServiceTypeOK ==
    /\ recording \in BOOLEAN /\ due \in BOOLEAN /\ overflowed \in BOOLEAN
    /\ storeFailure \in BOOLEAN /\ hasDirty \in BOOLEAN
    /\ elapsed \in Nat /\ dirtySince \in Nat /\ lastSelected \in Nat /\ svcDurable \in Nat
    /\ rec \in Selector
    /\ queue \in Seq(Sample)
    /\ state \in {"idle", "recording", "error", "unavailable"}
    /\ published \in [runId : Runs0, active : BOOLEAN, durable : Nat]
    /\ turn \in {"limit", "tick", "poll", "net"}
    /\ job \in Job
    /\ boot \in Nat \ {0} /\ faults \in Nat
    /\ sent \in [Request -> [boot : Nat, after : Runs0]]
    /\ reply \in [kind : {"none", "start", "stop"}, ok : BOOLEAN, target : Runs0]
    /\ activatedBy \in [Run -> Request \cup {NoRequest}]
    /\ ran \in Runs0 /\ newest \in Sample

Draining == job.step \in {"idle", "drain", "flush", "finish"}
Healthy == ~storeFailure /\ ~overflowed

(* Where a handler may be, and what it has established on its way. *)
HandlerAt ==
    /\ job.step = "idle" => job = NoJob
    /\ job.step = "stage" <=> prepared
    /\ job.step = "stage" => ~recording /\ job.request \in Request
    /\ job.step = "dead" => ~recording
    /\ job.step \notin {"idle", "stage", "dead"} =>
          recording /\ job.caller \in {"limit", "poll", "stop"}
    /\ job.caller = "stop" => job.target = id
    /\ job.step \in {"idle", "flush"} => ~storeFailure
    /\ job.step = "flush" => queue = <<>>
    /\ job.step = "finish" /\ job.status # StorageError => Healthy /\ queue = <<>>
    /\ job.step \in {"sync", "end"} /\ job.status # StorageError => Healthy

(* Nothing of a run is left when none is recorded. *)
Resting ==
    ~recording => /\ queue = <<>> /\ ~overflowed /\ ~storeFailure /\ ~hasDirty /\ ~due

(* In the order of loop() a sample is drained before the next is taken, and a
   reply is read before the next command. *)
TurnsInOrder ==
    LoopOrder => /\ Len(queue) <= 1 /\ ~overflowed
                 /\ turn \in {"limit", "tick"} \/ (turn = "net" /\ job = NoJob) => queue = <<>>
                 /\ turn = "poll" => job = NoJob
                 /\ reply # NoReply => job = NoJob /\ turn = "limit"
                 /\ job.step = "stage" \/ job.caller = "stop" => turn = "limit"

(* The selector of the run being recorded. *)
SelectorOn ==
    recording =>
        /\ rec.runId = id
        /\ Draining => rec.active
        /\ rec.acq.seq = 0 => rec.acq = NoSample /\ rec.nextLogSeq = 1
        /\ rec.acq.seq # 0 => /\ rec.acq.seq = rec.acq.ms + 1
                              /\ rec.acq.ms <= MaxDuration /\ rec.acq.ms <= elapsed
                              /\ due => rec.acq.ms < elapsed
                              /\ rec.lastLoggedMs <= rec.acq.ms
        /\ rec.latest.seq # 0 => rec.latest = rec.acq
        /\ rec.active /\ rec.nextLogSeq > 1 =>
               (rec.nextLogSeq - 2) * LogInterval <= rec.lastLoggedMs

(* The samples waiting in the queue are newer than the one consumed last. *)
QueueInOrder ==
    \A i \in 1..Len(queue) :
        /\ queue[i].runId = id /\ queue[i].seq = queue[i].ms + 1 /\ queue[i].ms <= elapsed
        /\ due => queue[i].ms < elapsed
        /\ rec.acq.seq # 0 => rec.acq.ms < queue[i].ms
        /\ \A j \in 1..(i - 1) : queue[j].ms < queue[i].ms

(* The service's picture of the writer. *)
WriterKnown ==
    recording =>
        /\ activeRun = id /\ id \in Run
        /\ ~storeFailure => /\ lastSelected = durable + Len(pending)
                            /\ rec.active => rec.nextLogSeq = lastSelected + 1
        /\ storeFailure => writerFailed
        /\ svcDurable <= durable
        /\ ~storeFailure /\ job.step # "end" /\ ~hasDirty => pending = <<>>
        /\ ~storeFailure /\ hasDirty =>
               /\ rec.acq.seq # 0 /\ dirtySince <= rec.acq.ms
               /\ \A i \in 1..Len(pending) : dirtySince <= pending[i]

(* The last logged reading, buffered or acknowledged, is t. *)
LoggedLast(t) ==
    IF pending # <<>> THEN pending[Len(pending)] = t
    ELSE acked[id] # <<>> /\ acked[id][Len(acked[id])] = t

(* While nothing has failed the newest sample of the window is in the queue, held
   by the selector or logged. *)
NewestIsKnown ==
    recording /\ Healthy =>
        /\ Draining /\ rec.acq.seq # 0 /\ rec.latest.seq = 0 => LoggedLast(rec.acq.ms)
        /\ Draining => \/ newest = rec.acq /\ \A i \in 1..Len(queue) : queue[i].ms > MaxDuration
                       \/ \E i \in 1..Len(queue) :
                              /\ newest = queue[i] /\ newest.ms <= MaxDuration
                              /\ \A j \in (i + 1)..Len(queue) : queue[j].ms > MaxDuration
        /\ ~Draining /\ job.status # StorageError => newest = NoSample \/ LoggedLast(newest.ms)

(* What other tasks read. *)
StatusIsTrue ==
    /\ published.active = recording
    /\ job.step # "stage" => published.runId = id
    /\ recording => published.durable <= durable

(* A Start request activates only the run after the one its client knew, and only in
   the boot it was sent in. *)
OneRunPerStart ==
    /\ \A q \in Request : sent[q].boot <= boot
    /\ \A r \in Run : activatedBy[r] # NoRequest =>
           /\ sent[activatedBy[r]] # Unsent /\ r = sent[activatedBy[r]].after + 1
           /\ sent[activatedBy[r]].boot = boot => r <= ran
    /\ job.step = "stage" => /\ sent[job.request] # Unsent /\ id = sent[job.request].after + 1
                             /\ sent[job.request].boot = boot

(* The last run of this boot: new ids are larger, and a writer still open on it
   after its end means that the end failed. *)
LastRun ==
    /\ ran <= id /\ (prepared => ran < id)
    /\ recording => ran = id
    /\ activeRun # 0 => activeRun = ran /\ state # "idle"

(* A run that was begun by the Start it is filed under has its files, and without a
   failed call no verdict is in doubt. *)
RunsAreWhole ==
    \A r \in Run : /\ Kept(r) /\ Begun(r) => files[r] = AllFiles
                   /\ faults = 0 /\ verdict[r] # Unended => verdictSynced[r]

(* An acknowledgement not yet overwritten by the next turn is true. *)
RepliesAreTrue ==
    LoopOrder =>
        /\ reply.kind = "start" /\ reply.ok /\ Begun(reply.target) =>
               files[reply.target] = AllFiles
        /\ faults = 0 /\ reply.kind = "stop" /\ reply.ok /\ verdict[reply.target] # Unended =>
               verdictSynced[reply.target]

SInv == /\ ServiceTypeOK /\ HandlerAt /\ Resting /\ TurnsInOrder /\ SelectorOn /\ QueueInOrder
        /\ WriterKnown /\ NewestIsKnown /\ StatusIsTrue /\ OneRunPerStart /\ LastRun
        /\ RunsAreWhole /\ RepliesAreTrue /\ BoundedLoss /\ HealthyMeansSettled

-----------------------------------------------------------------------------
(* The window, the buffers and the file are those of the code. *)
LEMMA Parameters ==
    /\ RunId = Run /\ Reading = 0..MaxDuration /\ MaxDuration \in Nat
    /\ Run \subseteq Nat \ {0} /\ 0 \notin Run
    /\ LogInterval \in Nat \ {0} /\ AcquireInterval \in Nat \ {0}
    /\ RawCapacity \in Nat /\ PendingCap \in Nat \ {0}
    /\ QueueCap \in Nat \ {0} /\ Flush \in Nat \ {0}
    /\ MaxDuration < (RawCapacity - 1) * LogInterval
    /\ Verdict = {Complete, LimitHit, StorageError} /\ Unended \notin Verdict
    /\ NoRequest \notin Request
  BY ServiceAssumption, ArchiveAssumption, RecorderAssumption

(* reset() gives a selector of the right shape, idle for run 0. *)
LEMMA ResetIs ==
    ASSUME NEW r \in Runs0
    PROVE  /\ Reset(r) \in Selector /\ NoSample \in Sample /\ NoSample.seq = 0
           /\ Reset(r).runId = r /\ (Reset(r).active <=> r # 0)
           /\ Reset(r).acq = NoSample /\ Reset(r).latest = NoSample /\ Reset(r).nextLogSeq = 1
<1>1. NoSample \in Sample /\ NoSample.seq = 0 BY DEF NoSample, Sample
<1>2. (r # 0) \in BOOLEAN /\ {} \in SUBSET FaultBit /\ 1 \in Nat \ {0} OBVIOUS
<1>3. /\ Reset(r).runId = r /\ Reset(r).active = (r # 0) /\ Reset(r).nextLogSeq = 1
      /\ Reset(r).acq = NoSample /\ Reset(r).latest = NoSample
  BY DEF Reset
<1>4. Reset(r) \in Selector BY <1>1, <1>2 DEF Reset, Selector
<1>5. QED BY <1>1, <1>3, <1>4

(* What select() does to the fields the service depends on. *)
LEMMA SelectIs ==
    ASSUME NEW c \in Selector, NEW s \in Sample, NEW d, d = Select(c, s)
    PROVE  /\ d \in Selector /\ d.runId = c.runId /\ d.active = c.active
           /\ ~Accepts(c, s) => d = c /\ Selected(c, s) = <<>>
           /\ Accepts(c, s) => d.acq = s
           /\ Accepts(c, s) /\ Held(c, s) =>
                 /\ Selected(c, s) = <<>> /\ d.latest = s
                 /\ d.lastLoggedMs = c.lastLoggedMs /\ d.nextLogSeq = c.nextLogSeq
           /\ Accepts(c, s) /\ ~Held(c, s) =>
                 /\ Selected(c, s) # <<>> /\ Selected(c, s)[1].logSeq = c.nextLogSeq
                 /\ Selected(c, s)[1].ms = s.ms /\ d.latest = NoSample
                 /\ d.lastLoggedMs = s.ms /\ d.nextLogSeq = c.nextLogSeq + 1
<1>0. NoSample \in Sample /\ s.ms \in Nat /\ s.fault \in SUBSET FaultBit /\ c.gapPending \in BOOLEAN
      /\ c.nextLogSeq \in Nat \ {0} /\ c.intervalFault \in SUBSET FaultBit
  BY ResetIs DEF Runs0, Sample, Selector
<1>1. CASE ~Accepts(c, s) BY <1>1 DEF Select, Selected
<1>2. CASE Accepts(c, s)
  <2> DEFINE e == Consume(c, s)
  <2>1. (c.gapPending \/ IsGap(c, s)) \in BOOLEAN BY <1>0, Zenon DEF IsGap
  <2>2. /\ e \in Selector /\ e.acq = s /\ e.runId = c.runId /\ e.active = c.active
        /\ e.lastLoggedMs = c.lastLoggedMs /\ e.nextLogSeq = c.nextLogSeq
    BY <1>0, <2>1 DEF Consume, Selector
  <2> HIDE DEF e
  <2>3. CASE Held(c, s)
    <3>1. d = [e EXCEPT !.latest = s] BY <1>2, <2>3 DEF Select, e
    <3>2. Selected(c, s) = <<>> BY <1>2, <2>3 DEF Selected
    <3>3. d \in Selector /\ d.latest = s /\ d.acq = s /\ d.runId = e.runId /\ d.active = e.active
          /\ d.lastLoggedMs = e.lastLoggedMs /\ d.nextLogSeq = e.nextLogSeq
      BY <2>2, <3>1 DEF Selector
    <3>4. QED BY <1>2, <2>2, <2>3, <3>2, <3>3
  <2>4. CASE ~Held(c, s)
    <3>1. d = AfterEmit(e, s) BY <1>2, <2>4 DEF Select, e
    <3>2. Selected(c, s) = <<Emitted(e, s, FALSE)>> BY <1>2, <2>4 DEF Selected, e
    <3>3. Selected(c, s) # <<>> /\ Selected(c, s)[1].logSeq = e.nextLogSeq
          /\ Selected(c, s)[1].ms = s.ms
      BY <3>2 DEF Emitted
    <3>4. e.nextLogSeq + 1 \in Nat \ {0} BY <2>2 DEF Selector
    <3>5. d \in Selector BY <1>0, <2>2, <3>1, <3>4 DEF AfterEmit, Selector
    <3>6. d.latest = NoSample /\ d.acq = e.acq /\ d.runId = e.runId
          /\ d.active = e.active /\ d.lastLoggedMs = s.ms /\ d.nextLogSeq = e.nextLogSeq + 1
      BY <2>2, <3>1 DEF AfterEmit, Selector
    <3>7. QED BY <1>2, <2>2, <2>4, <3>3, <3>5, <3>6
  <2>5. QED BY <2>3, <2>4
<1>3. QED BY <1>1, <1>2

(* What finish() does to them. *)
LEMMA FinishIs ==
    ASSUME NEW c \in Selector, NEW d, d = Finish(c)
    PROVE  /\ d \in Selector /\ d.runId = c.runId /\ ~d.active /\ d.acq = c.acq
           /\ ~MustFinish(c) => d.latest = c.latest /\ d.lastLoggedMs = c.lastLoggedMs
                                /\ d.nextLogSeq = c.nextLogSeq
           /\ MustFinish(c) => /\ Finished(c)[1].logSeq = c.nextLogSeq
                               /\ Finished(c)[1].ms = c.latest.ms
                               /\ d.latest = NoSample /\ d.lastLoggedMs = c.latest.ms
                               /\ d.nextLogSeq = c.nextLogSeq + 1
<1> DEFINE e == [c EXCEPT !.active = FALSE]
<1>0. NoSample \in Sample /\ c.latest.ms \in Nat BY ResetIs DEF Runs0, Sample, Selector
<1>1. /\ e \in Selector /\ e.runId = c.runId /\ ~e.active /\ e.acq = c.acq
      /\ e.latest = c.latest /\ e.lastLoggedMs = c.lastLoggedMs /\ e.nextLogSeq = c.nextLogSeq
  BY DEF Selector
<1>2. d = IF MustFinish(c) THEN AfterEmit(e, c.latest) ELSE e BY DEF Finish
<1> HIDE DEF e
<1>3. CASE ~MustFinish(c) BY <1>1, <1>2, <1>3
<1>4. CASE MustFinish(c)
  <2>1. Finished(c)[1].logSeq = c.nextLogSeq /\ Finished(c)[1].ms = c.latest.ms
    BY <1>4 DEF Finished, Emitted
  <2>2. e.nextLogSeq + 1 \in Nat \ {0} BY <1>1 DEF Selector
  <2>3. AfterEmit(e, c.latest) \in Selector BY <1>0, <1>1, <2>2 DEF AfterEmit, Selector
  <2>4. d.runId = e.runId /\ d.active = e.active /\ d.acq = e.acq /\ d.latest = NoSample
        /\ d.lastLoggedMs = c.latest.ms /\ d.nextLogSeq = e.nextLogSeq + 1
    BY <1>1, <1>2, <1>4 DEF AfterEmit, Selector
  <2>5. QED BY <1>1, <1>2, <1>4, <2>1, <2>3, <2>4
<1>5. QED BY <1>3, <1>4

(* A file followed by what is written after it ends as that does. *)
LEMMA JoinEnds ==
    ASSUME NEW S, NEW f \in Seq(S), NEW g \in Seq(S), NEW m \in Nat, Len(f) = m,
           NEW n \in Nat \ {0}, Len(g) = n
    PROVE  Len(f \o g) = m + n /\ (f \o g)[m + n] = g[n]
  OBVIOUS

(* What a sync tells its caller: the buffer has been acknowledged, or the writer
   has failed and nothing was. *)
LEMMA SyncEffect ==
    ASSUME IInv, activeRun # 0, NEW ok \in BOOLEAN, SyncFiles(ok)
    PROVE  /\ activeRun \in Run
           /\ ok => /\ ~writerFailed /\ ~writerFailed' /\ durable' = durable + Len(pending)
                    /\ pending = <<>> => acked' = acked
                    /\ pending # <<>> =>
                          /\ acked'[activeRun] # <<>>
                          /\ acked'[activeRun][Len(acked'[activeRun])] = pending[Len(pending)]
           /\ ~ok => writerFailed' /\ durable' = durable /\ acked' = acked
           /\ \A r \in Run : r # activeRun => acked'[r] = acked[r]
<1> DEFINE a == activeRun
<1>1. /\ a \in Run /\ raw[a] \in Seq(Reading) /\ acked \in [Run -> Seq(Reading)]
      /\ pending \in Seq(Reading) /\ durable \in Nat /\ writerFailed \in BOOLEAN
      /\ raw \in [Run -> Seq(Reading)]
      /\ ~writerFailed => Len(raw[a]) = durable
  BY DEF IInv, TypeOK, FlashTypeOK, RamTypeOK, HistoryTypeOK, WriterOnOpenRun
<1>2. \A r \in Run : r # a => acked'[r] = acked[r] BY SyncFilesEffect
<1>3. CASE (ok <=> ~writerFailed) /\ (pending = <<>> \/ writerFailed)
           /\ UNCHANGED <<raw, rawSynced, durable, writerFailed, acked>>
  BY <1>1, <1>2, <1>3
<1>4. CASE ~writerFailed /\ pending # <<>> /\ ok
  <2>1. durable' = durable + Len(pending) /\ ~writerFailed' /\ acked' = [acked EXCEPT ![a] = raw'[a]]
        /\ raw' = [raw EXCEPT ![a] = Prefix(raw[a], durable) \o Prefix(pending, Len(pending))]
    BY <1>4 DEF SyncFiles
  <2>2. /\ Prefix(raw[a], durable) \in Seq(Reading) /\ Prefix(pending, Len(pending)) \in Seq(Reading)
        /\ Len(Prefix(raw[a], durable)) = durable
        /\ Len(Prefix(pending, Len(pending))) = Len(pending) /\ Len(pending) \in Nat \ {0}
        /\ Prefix(pending, Len(pending))[Len(pending)] = pending[Len(pending)]
    <3>1. Len(pending) \in 1..Len(pending) /\ Len(pending) \in 0..Len(pending) BY <1>1, <1>4
    <3>2. durable \in 0..Len(raw[a]) BY <1>1, <1>4
    <3>3. QED BY <1>1, <3>1, <3>2, PrefixType
  <2>3. acked'[a] = Prefix(raw[a], durable) \o Prefix(pending, Len(pending)) BY <1>1, <2>1
  <2>4. Len(acked'[a]) = durable + Len(pending)
        /\ acked'[a][durable + Len(pending)] = pending[Len(pending)]
    <3> PICK f \in Seq(Reading) : f = Prefix(raw[a], durable) BY <2>2
    <3> PICK g \in Seq(Reading) : g = Prefix(pending, Len(pending)) BY <2>2
    <3> PICK m \in Nat : m = durable BY <1>1
    <3> PICK n \in Nat \ {0} : n = Len(pending) BY <2>2
    <3>1. Len(f) = m /\ Len(g) = n /\ g[n] = pending[n] BY <2>2
    <3>2. Len(f \o g) = m + n /\ (f \o g)[m + n] = g[n] BY ONLY <3>1, JoinEnds
    <3>3. QED BY <2>3, <3>1, <3>2
  <2>5. acked'[a] # <<>> BY <1>1, <2>2, <2>4
  <2>6. QED BY <1>1, <1>2, <1>4, <2>1, <2>4, <2>5
<1>5. CASE ~writerFailed /\ pending # <<>> /\ ~ok
  BY <1>1, <1>2, <1>5 DEF SyncFiles
<1>6. \/ /\ (ok <=> ~writerFailed) /\ (pending = <<>> \/ writerFailed)
         /\ UNCHANGED <<raw, rawSynced, durable, writerFailed, acked>>
      \/ ~writerFailed /\ pending # <<>>
  BY DEF SyncFiles
<1>7. QED BY <1>3, <1>4, <1>5, <1>6

(* The catalogue, the identity and the verdicts, which a sync does not touch. *)
StoreRest == <<nvs, place, files, request, verdict, verdictSynced, id, prepared, ready,
               catalogValid, activeRun, born>>

(* A record is taken into the buffer, or the store has failed. *)
AppendTaken(x) ==
    /\ ~writerFailed /\ ~writerFailed' /\ durable <= durable'
    /\ durable' + Len(pending') = durable + Len(pending) + 1
    /\ pending' # <<>> /\ pending'[Len(pending')] = x
    /\ \A i \in 1..Len(pending') : pending'[i] = x \/ \E j \in 1..Len(pending) : pending'[i] = pending[j]
AppendLost == writerFailed' /\ durable' = durable /\ pending' = pending /\ acked' = acked

(* What an append leaves behind, as its caller sees it. *)
LEMMA AppendEffect ==
    ASSUME IInv, NEW n, NEW x \in Reading
    PROVE  /\ AppendSelected(n, x) => AppendTaken(x) /\ UNCHANGED StoreRest
                                      /\ n = durable + Len(pending) + 1
           /\ AppendRefused => AppendLost /\ UNCHANGED StoreRest
<1>1. pending \in Seq(Reading) /\ durable \in Nat /\ PendingCap \in Nat \ {0}
  BY Parameters DEF IInv, TypeOK, RamTypeOK
<1>2. ASSUME AppendSelected(n, x) PROVE AppendTaken(x) /\ UNCHANGED StoreRest
                                         /\ n = durable + Len(pending) + 1
  <2>1. UNCHANGED StoreRest /\ n = durable + Len(pending) + 1 /\ ~writerFailed /\ activeRun # 0
    BY <1>2 DEF AppendSelected, StoreRest
  <2>2. CASE Len(pending) = PendingCap
    <3>1. SyncFiles(TRUE) /\ pending' = <<x>> BY <1>2, <2>2 DEF AppendSelected
    <3>2. ~writerFailed' /\ durable' = durable + Len(pending) BY <2>1, <3>1, SyncEffect
    <3>3. QED BY <1>1, <2>1, <2>2, <3>1, <3>2 DEF AppendTaken
  <2>3. CASE Len(pending) # PendingCap
    <3>1. pending' = Append(pending, x) /\ durable' = durable /\ writerFailed' = writerFailed
      BY <1>2, <2>3 DEF AppendSelected
    <3>2. /\ Len(pending') = Len(pending) + 1 /\ pending'[Len(pending')] = x
          /\ \A i \in 1..Len(pending) : pending'[i] = pending[i]
      BY <1>1, <3>1
    <3>3. \A i \in 1..Len(pending') : i = Len(pending') \/ i \in 1..Len(pending)
      BY <1>1, <3>2
    <3>4. pending' # <<>> BY <1>1, <3>2
    <3>5. QED BY <1>1, <2>1, <3>1, <3>2, <3>3, <3>4 DEF AppendTaken
  <2>4. QED BY <2>2, <2>3
<1>3. ASSUME AppendRefused PROVE AppendLost /\ UNCHANGED StoreRest
  <2>1. activeRun # 0 /\ SyncFiles(FALSE) /\ pending' = pending /\ UNCHANGED StoreRest
    BY <1>3 DEF AppendRefused, StoreRest
  <2>2. writerFailed' /\ durable' = durable /\ acked' = acked BY <2>1, SyncEffect
  <2>3. QED BY <2>1, <2>2 DEF AppendLost
<1>4. QED BY <1>2, <1>3

(* A record of the selector that the service hands on is one the store takes. *)
LEMMA Append1IsArchive ==
    ASSUME IInv, NEW record, record.ms \in Reading, Append1(record)
    PROVE  ArchiveNext
<1>1. CASE AppendSelected(record.logSeq, record.ms)
  <2>1. pending \in Seq(Reading) /\ durable \in Nat /\ RawCapacity \in Nat
    BY Parameters DEF IInv, TypeOK, RamTypeOK
  <2>2. record.logSeq \in 1..RawCapacity BY <1>1, <2>1 DEF AppendSelected
  <2>3. QED BY <1>1, <2>2 DEF ArchiveNext
<1>2. CASE AppendRefused BY <1>2 DEF ArchiveNext
<1>3. QED BY <1>1, <1>2 DEF Append1

(* A sample select() passes on lies in the window. *)
LEMMA HeadFits ==
    ASSUME SInv, queue # <<>>, Accepts(rec, Head(queue))
    PROVE  Head(queue).ms \in Reading
<1>1. Head(queue) \in Sample BY DEF SInv, ServiceTypeOK
<1>2. QED BY <1>1, Parameters DEF Accepts, Sample

(* So does the acquisition held for finish(). *)
LEMMA HeldFits ==
    ASSUME SInv, recording, MustFinish(rec)
    PROVE  rec.latest = rec.acq /\ rec.acq.seq # 0 /\ rec.latest.ms \in Reading
<1>1. rec.latest.seq # 0 /\ rec.latest = rec.acq BY DEF SInv, SelectorOn, MustFinish
<1>2. rec.acq.ms \in Nat /\ rec.acq.ms <= MaxDuration
  BY <1>1 DEF SInv, SelectorOn, ServiceTypeOK, Selector, Sample
<1>3. QED BY <1>1, <1>2, Parameters

(* The service calls the store only as the store allows: every step of it is one
   operation of the store, or leaves the store alone. *)
LEMMA ServiceStep ==
    ASSUME IInv, SInv, ServiceNext
    PROVE  ArchiveNext \/ UNCHANGED archiveVars
<1>1. CASE EnforceLimit \/ Tick \/ Poll \/ DrainDone \/ \E q \in Request : Send(q)
  BY <1>1 DEF EnforceLimit, Tick, Poll, DrainDone, Send
<1>2. CASE Drain
  <2>1. CASE NoAppend BY <2>1 DEF NoAppend
  <2>2. CASE Selected(rec, Head(queue)) # <<>> /\ Append1(Selected(rec, Head(queue))[1])
    <3>1. rec \in Selector /\ Head(queue) \in Sample
      BY <1>2 DEF Drain, SInv, ServiceTypeOK
    <3>2. Accepts(rec, Head(queue)) BY <2>2, <3>1, SelectIs
    <3>3. Selected(rec, Head(queue))[1].ms = Head(queue).ms BY <2>2, <3>1, SelectIs
    <3>4. Head(queue).ms \in Reading BY <1>2, <3>2, HeadFits DEF Drain
    <3>5. QED BY <2>2, <3>3, <3>4, Append1IsArchive
  <2>3. QED BY <1>2, <2>1, <2>2 DEF Drain
<1>3. CASE FlushDue BY <1>3 DEF FlushDue, ArchiveNext
<1>4. CASE FinishSelection
  <2>1. CASE NoAppend BY <2>1 DEF NoAppend
  <2>2. CASE MustFinish(rec) /\ Append1(Finished(rec)[1])
    <3>1. rec \in Selector /\ recording BY <1>4 DEF FinishSelection, SInv, ServiceTypeOK, HandlerAt
    <3>2. Finished(rec)[1].ms \in Reading BY <2>2, <3>1, FinishIs, HeldFits
    <3>3. QED BY <2>2, <3>2, Append1IsArchive
  <2>3. QED BY <1>4, <2>1, <2>2 DEF FinishSelection
<1>5. CASE SyncTail BY <1>5 DEF SyncTail, ArchiveNext
<1>6. CASE EndRun
  <2>1. job.status \in Verdict BY DEF SInv, ServiceTypeOK, Job
  <2>2. QED BY <1>6, <2>1 DEF EndRun, ArchiveNext
<1>7. CASE StartAbandoned \/ StartActivated
  <2>1. job.request \in Request BY <1>7 DEF StartAbandoned, StartActivated, SInv, HandlerAt
  <2>2. QED BY <1>7, <2>1 DEF StartAbandoned, StartActivated, ArchiveNext
<1>8. CASE \E q \in Request : StartReplayed(q) \/ StartRefused(q) \/ StartAllocated(q)
  BY <1>8 DEF StartReplayed, StartRefused, StartAllocated, ArchiveNext
<1>9. CASE \E target \in Run : StopOther(target) \/ \E sentNow \in BOOLEAN : StopCurrent(target, sentNow)
  BY <1>9 DEF StopOther, StopCurrent
<1>10. CASE Route BY <1>10 DEF Route, ArchiveNext
<1>11. CASE PowerCut
  <2>1. job.step = "stage" => job.request \in Request BY DEF SInv, HandlerAt
  <2>2. QED BY <1>11, <2>1 DEF PowerCut, HalfDone, ArchiveNext
<1>12. CASE Restart BY <1>12 DEF Restart, ArchiveNext
<1>13. QED
  BY <1>1, <1>2, <1>3, <1>4, <1>5, <1>6, <1>7, <1>8, <1>9, <1>10, <1>11, <1>12
  DEF ServiceNext, Command, Handler

-----------------------------------------------------------------------------
(* A handler begins from the idle record. *)
LEMMA JobIs ==
    /\ NoJob \in Job /\ NoJob.step = "idle" /\ NoJob.caller = "none" /\ NoJob.status = Complete
    /\ \A c \in {"limit", "poll"} :
          LET j == [NoJob EXCEPT !.step = "drain", !.caller = c]
          IN  /\ j \in Job /\ j.step = "drain" /\ j.caller = c /\ j # NoJob
              /\ j.status = Complete
    /\ \A t \in Runs0 :
          LET j == [NoJob EXCEPT !.step = "drain", !.caller = "stop", !.target = t]
          IN  /\ j \in Job /\ j.step = "drain" /\ j.caller = "stop" /\ j.target = t
              /\ j # NoJob /\ j.status = Complete
    /\ \A q \in Request :
          LET j == [NoJob EXCEPT !.step = "stage", !.caller = "start", !.request = q]
          IN  /\ j \in Job /\ j.step = "stage" /\ j.caller = "start" /\ j.request = q
              /\ j # NoJob
  BY Parameters DEF NoJob, Job, Step, Runs0

(* A reset device: no run, no handler, nothing sent. *)
LEMMA InitSInv == ServiceInit => IInv /\ SInv
<1> SUFFICES ASSUME ServiceInit PROVE IInv /\ SInv OBVIOUS
<1> USE DEF ServiceInit
<1>1. IInv BY InitIInv
<1>2. id = 0 /\ activeRun = 0 /\ ~prepared /\ faults = 0 /\ queue = <<>> /\ ~recording
      /\ job = NoJob /\ job.step = "idle" /\ reply = NoReply /\ ran = 0 /\ turn = "limit"
  BY JobIs DEF Init
<1>3. ServiceTypeOK
  <2>1. rec \in Selector /\ newest \in Sample BY ResetIs DEF Runs0
  <2>2. queue \in Seq(Sample) OBVIOUS
  <2>3. job \in Job BY JobIs
  <2>4. published \in [runId : Runs0, active : BOOLEAN, durable : Nat] BY DEF Runs0
  <2>5. sent \in [Request -> [boot : Nat, after : Runs0]] BY DEF Unsent, Runs0
  <2>6. reply \in [kind : {"none", "start", "stop"}, ok : BOOLEAN, target : Runs0]
    BY DEF NoReply, Runs0
  <2>7. activatedBy \in [Run -> Request \cup {NoRequest}] OBVIOUS
  <2>8. ran \in Runs0 /\ boot \in Nat \ {0} /\ faults \in Nat /\ elapsed \in Nat
        /\ dirtySince \in Nat /\ lastSelected \in Nat /\ svcDurable \in Nat
        /\ turn \in {"limit", "tick", "poll", "net"}
        /\ state \in {"idle", "recording", "error", "unavailable"}
    BY DEF Runs0
  <2>9. recording \in BOOLEAN /\ due \in BOOLEAN /\ overflowed \in BOOLEAN
        /\ storeFailure \in BOOLEAN /\ hasDirty \in BOOLEAN
    OBVIOUS
  <2>10. QED BY <2>1, <2>2, <2>3, <2>4, <2>5, <2>6, <2>7, <2>8, <2>9 DEF ServiceTypeOK
<1>4. HandlerAt BY <1>2, JobIs DEF HandlerAt
<1>5. Resting /\ TurnsInOrder BY <1>2 DEF Resting, TurnsInOrder
<1>6. SelectorOn /\ QueueInOrder /\ WriterKnown /\ NewestIsKnown
  BY <1>2 DEF SelectorOn, QueueInOrder, WriterKnown, NewestIsKnown
<1>7. StatusIsTrue BY <1>2 DEF StatusIsTrue
<1>8. OneRunPerStart BY <1>2 DEF OneRunPerStart, Unsent
<1>9. LastRun BY <1>2 DEF LastRun
<1>10. RunsAreWhole BY DEF RunsAreWhole, Init, Kept, Begun
<1>11. RepliesAreTrue BY <1>2 DEF RepliesAreTrue, NoReply
<1>12. BoundedLoss /\ HealthyMeansSettled BY <1>2 DEF BoundedLoss, HealthyMeansSettled
<1>13. QED
  BY <1>1, <1>3, <1>4, <1>5, <1>6, <1>7, <1>8, <1>9, <1>10, <1>11, <1>12 DEF SInv

(* The types of what the steps compare. *)
LEMMA TypeFacts ==
    ASSUME IInv, SInv
    PROVE  /\ elapsed \in Nat /\ dirtySince \in Nat /\ lastSelected \in Nat /\ svcDurable \in Nat
           /\ rec \in Selector /\ rec.acq \in Sample /\ rec.acq.ms \in Nat /\ rec.acq.seq \in Nat
           /\ rec.latest \in Sample /\ rec.latest.ms \in Nat /\ rec.latest.seq \in Nat
           /\ rec.lastLoggedMs \in Nat /\ rec.nextLogSeq \in Nat \ {0}
           /\ id \in Nat /\ id \in Runs0 /\ durable \in Nat /\ activeRun \in Runs0
           /\ published.durable \in Nat /\ published.runId \in Runs0 /\ ran \in Nat
           /\ newest \in Sample /\ newest.ms \in Nat
<1>1. /\ elapsed \in Nat /\ dirtySince \in Nat /\ lastSelected \in Nat /\ svcDurable \in Nat
      /\ rec \in Selector /\ newest \in Sample /\ ran \in Runs0
      /\ published \in [runId : Runs0, active : BOOLEAN, durable : Nat]
  BY DEF SInv, ServiceTypeOK
<1>2. id \in Runs0 /\ durable \in Nat /\ activeRun \in Runs0 /\ Runs0 \subseteq Nat
  BY Parameters DEF IInv, TypeOK, RamTypeOK, Runs0
<1>3. rec.acq \in Sample /\ rec.latest \in Sample /\ rec.lastLoggedMs \in Nat
      /\ rec.nextLogSeq \in Nat \ {0}
  BY <1>1 DEF Selector
<1>4. \A s \in Sample : s.ms \in Nat /\ s.seq \in Nat BY DEF Sample
<1>5. QED BY <1>1, <1>2, <1>3, <1>4

(* While a run is recorded its writer is open, and logging is not reported idle. *)
LEMMA RecordingHasRun ==
    ASSUME SInv, recording
    PROVE  id \in Run /\ activeRun = id /\ activeRun # 0 /\ ran = id /\ state # "idle"
<1>1. activeRun = id /\ id \in Run BY DEF SInv, WriterKnown
<1>2. activeRun # 0 BY <1>1, Parameters
<1>3. QED BY <1>1, <1>2 DEF SInv, LastRun

(* The types of the sequences. *)
LEMMA SequenceFacts ==
    ASSUME IInv, SInv
    PROVE  /\ queue \in Seq(Sample) /\ Len(queue) \in Nat
           /\ \A i \in 1..Len(queue) : queue[i] \in Sample /\ queue[i].ms \in Nat
           /\ pending \in Seq(Reading) /\ Len(pending) \in Nat
           /\ \A i \in 1..Len(pending) : pending[i] \in Nat
           /\ acked \in [Run -> Seq(Reading)]
<1>1. queue \in Seq(Sample) BY DEF SInv, ServiceTypeOK
<1>2. pending \in Seq(Reading) /\ acked \in [Run -> Seq(Reading)] /\ Reading \subseteq Nat
  BY Parameters DEF IInv, TypeOK, RamTypeOK, HistoryTypeOK
<1>3. \A s \in Sample : s.ms \in Nat BY DEF Sample
<1>4. \A i \in 1..Len(queue) : queue[i] \in Sample BY <1>1
<1>5. \A i \in 1..Len(pending) : pending[i] \in Reading BY <1>2
<1>6. Len(queue) \in Nat /\ Len(pending) \in Nat BY <1>1, <1>2
<1>7. \A i \in 1..Len(queue) : queue[i].ms \in Nat BY <1>3, <1>4
<1>8. \A i \in 1..Len(pending) : pending[i] \in Nat BY <1>2, <1>5
<1>9. QED BY <1>1, <1>2, <1>4, <1>6, <1>7, <1>8

(* The clock moves forward, and a sample is due once it has. *)
LEMMA AdvanceIs ==
    ASSUME SInv, NEW most \in Nat, Advance(most)
    PROVE  /\ elapsed' \in Nat /\ due' \in BOOLEAN
           /\ recording => elapsed <= elapsed'
           /\ due' => recording /\ (due \/ elapsed < elapsed')
<1>1. elapsed \in Nat /\ recording \in BOOLEAN /\ due \in BOOLEAN BY DEF SInv, ServiceTypeOK
<1>2. PICK d \in 0..most : /\ elapsed' = IF recording THEN elapsed + d ELSE 0
                           /\ due' = (recording /\ (due \/ d > 0))
  BY DEF Advance
<1>3. due' \in BOOLEAN BY <1>2, Zenon
<1>4. elapsed' \in Nat /\ (recording => elapsed <= elapsed') BY <1>1, <1>2
<1>5. due' => recording /\ (due \/ d > 0) BY <1>2, Zenon
<1>6. due' => recording /\ (due \/ elapsed < elapsed') BY <1>1, <1>2, <1>5
<1>7. QED BY <1>3, <1>4, <1>6

(* What depends on the clock stays true as it moves. *)
LEMMA AdvanceKeeps ==
    ASSUME IInv, SInv, NEW most \in Nat, Advance(most), id' = id, rec' = rec, queue' = queue,
           recording' = recording, job.step = "idle", job'.step \in {"idle", "drain"}
    PROVE  SelectorOn' /\ QueueInOrder'
<1>1. /\ elapsed \in Nat /\ elapsed' \in Nat /\ rec.acq.ms \in Nat
      /\ \A i \in 1..Len(queue) : queue[i].ms \in Nat
      /\ recording => elapsed <= elapsed'
      /\ due' => recording /\ (due \/ elapsed < elapsed')
  BY AdvanceIs, TypeFacts, SequenceFacts
<1>2. SelectorOn' BY <1>1 DEF SInv, SelectorOn, Draining
<1>3. QueueInOrder'
  <2>1. CASE recording BY <1>1, <2>1 DEF SInv, QueueInOrder
  <2>2. CASE ~recording BY <2>2 DEF SInv, Resting, QueueInOrder
  <2>3. QED BY <2>1, <2>2
<1>4. QED BY <1>2, <1>3

(* What of the store the service's invariant speaks of. *)
StoreSeen == <<place, files, request, verdict, verdictSynced, id, prepared, activeRun, durable, pending,
               writerFailed, acked>>

(* A step that leaves the archive alone leaves all of that alone. *)
LEMMA StoreUnseen == UNCHANGED archiveVars => UNCHANGED StoreSeen
  BY DEF archiveVars, flash, ram, StoreSeen

(* What stays true as long as the run, the store and the selector are left alone,
   and no handler finishes. *)
LEMMA RunUntouched ==
    ASSUME SInv, UNCHANGED StoreSeen,
           UNCHANGED <<recording, rec, queue, overflowed, storeFailure, hasDirty, dirtySince,
                       lastSelected, svcDurable, state, ran, newest>>,
           job.step = "idle", job'.step \in {"idle", "drain"}
    PROVE  WriterKnown' /\ NewestIsKnown' /\ LastRun' /\ HealthyMeansSettled'
<1> USE DEF StoreSeen
<1>1. WriterKnown' BY DEF SInv, WriterKnown
<1>2. NewestIsKnown' BY DEF SInv, NewestIsKnown, Draining, Healthy, LoggedLast
<1>3. LastRun' BY DEF SInv, LastRun
<1>4. HealthyMeansSettled' BY DEF SInv, HealthyMeansSettled, Kept
<1>5. QED BY <1>1, <1>2, <1>3, <1>4

(* enforceLimit() keeps the invariant: the clock moves, the reply is read. *)
LEMMA EnforceLimitKeeps == ASSUME IInv, SInv, EnforceLimit PROVE SInv'
<1>1. /\ UNCHANGED StoreSeen /\ id' = id /\ prepared' = prepared
      /\ UNCHANGED <<recording, rec, queue, overflowed, storeFailure, hasDirty, dirtySince,
                     lastSelected, svcDurable, state, published, boot, faults, sent,
                     activatedBy, ran, newest>>
      /\ Advance(MaxStep) /\ job = NoJob /\ turn' = "tick" /\ reply' = NoReply
      /\ LoopOrder => turn = "limit"
  BY StoreUnseen DEF EnforceLimit, At, StoreSeen
<1>2. \/ job' = NoJob
      \/ job' = [NoJob EXCEPT !.step = "drain", !.caller = "limit"] /\ recording
  BY DEF EnforceLimit
<1>3. /\ job' \in Job /\ job'.step \in {"idle", "drain"} /\ job'.caller \in {"none", "limit"}
      /\ job'.step = "drain" => recording /\ job'.caller = "limit"
      /\ job'.step = "idle" => job' = NoJob
      /\ job.step = "idle"
  <2>1. CASE job' = NoJob BY <1>1, <2>1, JobIs
  <2>2. CASE job' = [NoJob EXCEPT !.step = "drain", !.caller = "limit"] /\ recording
    <3>1. "limit" \in {"limit", "poll"} OBVIOUS
    <3>2. job' \in Job /\ job'.step = "drain" /\ job'.caller = "limit" BY <2>2, <3>1, JobIs
    <3>3. QED BY <1>1, <2>2, <3>2, JobIs
  <2>3. QED BY <1>2, <2>1, <2>2
<1>4. MaxStep \in Nat /\ NoReply \in [kind : {"none", "start", "stop"}, ok : BOOLEAN, target : Runs0]
      /\ NoReply.kind = "none"
  BY ServiceAssumption DEF NoReply, Runs0
<1>5. ServiceTypeOK' BY <1>1, <1>3, <1>4, AdvanceIs DEF SInv, ServiceTypeOK
<1>6. HandlerAt' BY <1>1, <1>3 DEF SInv, HandlerAt
<1>7. Resting' BY <1>1, <1>4, AdvanceIs DEF SInv, Resting
<1>8. TurnsInOrder' BY <1>1, <1>3 DEF SInv, TurnsInOrder
<1>9. SelectorOn' /\ QueueInOrder' BY <1>1, <1>3, <1>4, AdvanceKeeps
<1>10. WriterKnown' /\ NewestIsKnown' /\ LastRun' /\ HealthyMeansSettled'
  BY <1>1, <1>3, RunUntouched
<1>11. StatusIsTrue' /\ OneRunPerStart' /\ RunsAreWhole'
  BY <1>1, <1>3 DEF SInv, StatusIsTrue, OneRunPerStart, RunsAreWhole, Kept, Begun,
                    StoreSeen
<1>12. RepliesAreTrue' /\ BoundedLoss'
  BY <1>1, <1>4 DEF RepliesAreTrue, BoundedLoss
<1>13. QED BY <1>5, <1>6, <1>7, <1>8, <1>9, <1>10, <1>11, <1>12 DEF SInv

(* A sample taken while recording. *)
Taken == [runId |-> id, seq |-> elapsed' + 1, ms |-> elapsed', fault |-> {}]

(* SensorService::tick() keeps the invariant: a sample enters the queue behind all
   the older ones, or is dropped because something has failed before. *)
LEMMA TickKeeps == ASSUME IInv, SInv, Tick PROVE SInv'
<1>1. /\ UNCHANGED StoreSeen /\ id' = id /\ prepared' = prepared
      /\ UNCHANGED <<recording, rec, storeFailure, hasDirty, dirtySince, lastSelected,
                     svcDurable, state, published, job, boot, faults, sent, reply,
                     activatedBy, ran>>
      /\ job = NoJob /\ turn' = "poll" /\ (LoopOrder => turn = "tick")
      /\ job.step = "idle" /\ job'.step = "idle"
  BY JobIs, StoreUnseen DEF Tick, At, StoreSeen
<1>2. elapsed' \in Nat /\ elapsed <= elapsed'
  <2>1. elapsed' \in {elapsed} \cup {t \in {elapsed + 1} : ~LoopOrder /\ recording
                                                         /\ elapsed <= MaxDuration}
    BY DEF Tick
  <2>2. elapsed \in Nat BY DEF SInv, ServiceTypeOK
  <2>3. QED BY <2>1, <2>2
<1>3. CASE ~(recording /\ (due \/ elapsed' > elapsed))
  <2>1. UNCHANGED <<due, queue, overflowed, newest>> BY <1>3 DEF Tick
  <2>2. elapsed' = elapsed
    <3>1. elapsed' = elapsed \/ (recording /\ elapsed' > elapsed)
      BY TypeFacts DEF Tick
    <3>2. QED BY <1>3, <3>1
  <2>3. ServiceTypeOK' BY <1>1, <2>1, <2>2 DEF SInv, ServiceTypeOK
  <2>4. HandlerAt' /\ Resting' BY <1>1, <2>1, <2>2 DEF SInv, HandlerAt, Resting, Healthy
  <2>5. TurnsInOrder' BY <1>1, <2>1, JobIs DEF SInv, TurnsInOrder
  <2>6. SelectorOn' /\ QueueInOrder' BY <1>1, <2>1, <2>2 DEF SInv, SelectorOn, QueueInOrder, Draining
  <2>7. WriterKnown' /\ NewestIsKnown' /\ LastRun' /\ HealthyMeansSettled'
    BY <1>1, <2>1, RunUntouched
  <2>8. StatusIsTrue' /\ OneRunPerStart' /\ RunsAreWhole' /\ RepliesAreTrue'
    BY <1>1 DEF SInv, StatusIsTrue, OneRunPerStart, RunsAreWhole, RepliesAreTrue, Kept, Begun,
                StoreSeen
  <2>9. BoundedLoss' BY <1>1 DEF BoundedLoss
  <2>10. QED BY <2>3, <2>4, <2>5, <2>6, <2>7, <2>8, <2>9 DEF SInv
<1>4. CASE recording /\ (due \/ elapsed' > elapsed)
  <2>0. Taken \in Sample
    <3>1. id \in Run \cup {0} BY TypeFacts DEF Runs0
    <3>2. {} \in SUBSET FaultBit OBVIOUS
    <3>3. elapsed' + 1 \in Nat
      <4>1. \A n \in Nat : n + 1 \in Nat OBVIOUS
      <4>2. QED BY <1>2, <4>1
    <3>4. QED BY <1>2, <3>1, <3>2, <3>3, Parameters DEF Taken, Sample
  <2> PICK s \in Sample : s = Taken BY <2>0
  <2> PICK now \in Nat : now = elapsed' BY <1>2
  <2>1. s.runId = id /\ s.seq = now + 1 /\ s.ms = now BY DEF Taken
  <2>2. /\ due' = FALSE
        /\ newest' = IF elapsed' <= MaxDuration THEN s ELSE newest
        /\ \/ queue' = queue /\ ~Healthy'
           \/ queue' = Append(queue, s) /\ overflowed' = overflowed /\ Healthy
        /\ overflowed' \in BOOLEAN
    <3>1. due' = FALSE /\ newest' = IF elapsed' <= MaxDuration THEN s ELSE newest
      BY <1>4 DEF Tick, Taken
    <3>2. CASE overflowed \/ storeFailure \/ Len(queue) >= QueueCap
      <4>1. queue' = queue /\ overflowed' = (overflowed \/ (Len(queue) >= QueueCap /\ ~storeFailure))
        BY <1>4, <3>2 DEF Tick
      <4>2. overflowed' \in BOOLEAN BY <4>1, Zenon
      <4>3. overflowed' \/ storeFailure BY <3>2, <4>1, Zenon
      <4>4. ~Healthy' BY <1>1, <4>3 DEF Healthy
      <4>5. QED BY <3>1, <4>1, <4>2, <4>4
    <3>3. CASE ~(overflowed \/ storeFailure \/ Len(queue) >= QueueCap)
      <4>1. queue' = Append(queue, s) /\ overflowed' = overflowed BY <1>4, <3>3 DEF Tick, Taken
      <4>2. overflowed \in BOOLEAN BY DEF SInv, ServiceTypeOK
      <4>3. Healthy BY <3>3 DEF Healthy
      <4>4. QED BY <3>1, <4>1, <4>2, <4>3
    <3>4. QED BY <3>2, <3>3
  <2>3. queue' \in Seq(Sample) /\ newest' \in Sample
    <3>1. queue \in Seq(Sample) /\ newest \in Sample BY TypeFacts, SequenceFacts
    <3>2. Append(queue, s) \in Seq(Sample) BY <3>1
    <3>3. QED BY <2>2, <3>1, <3>2
  <2>4. ServiceTypeOK' BY <1>1, <1>2, <2>2, <2>3 DEF SInv, ServiceTypeOK
  <2>5. HandlerAt' BY <1>1 DEF SInv, HandlerAt
  <2>6. Resting' BY <1>1, <1>4 DEF Resting
  <2>7. TurnsInOrder'
    <3>1. ASSUME LoopOrder PROVE queue = <<>> /\ Healthy /\ reply = NoReply
      <4>1. queue = <<>> /\ ~overflowed /\ reply = NoReply BY <1>1, <3>1 DEF SInv, TurnsInOrder
      <4>2. ~storeFailure BY <1>1 DEF SInv, HandlerAt
      <4>3. QED BY <4>1, <4>2 DEF Healthy
    <3>2. ASSUME LoopOrder PROVE queue' = Append(queue, s) /\ ~overflowed'
      <4>1. Len(queue) = 0 /\ QueueCap > 0 /\ ~(Len(queue) >= QueueCap) BY <3>1, <3>2, Parameters
      <4>2. ~overflowed /\ ~storeFailure BY <3>1, <3>2 DEF Healthy
      <4>3. QED BY <1>4, <4>1, <4>2 DEF Tick, Taken
    <3>3. LoopOrder => Len(queue') <= 1
      <4>1. ASSUME LoopOrder PROVE queue' = <<s>> BY <3>1, <3>2, <4>1
      <4>2. \A q : q = <<s>> => Len(q) <= 1 OBVIOUS
      <4>3. QED BY <4>1, <4>2
    <3>4. QED BY <1>1, <3>1, <3>2, <3>3, JobIs DEF TurnsInOrder
  <2>8. SelectorOn'
    BY <1>1, <1>2, <2>2, TypeFacts DEF SInv, SelectorOn, Draining
  <2>9. /\ \A i \in 1..Len(queue) : queue[i].ms < s.ms
        /\ rec.acq.seq # 0 => rec.acq.ms < s.ms
    <3>1. elapsed \in Nat /\ rec.acq.ms \in Nat /\ elapsed <= now BY <1>2, TypeFacts
    <3>2. elapsed < now \/ due BY <1>4, <3>1
    <3>3. \A i \in 1..Len(queue) : queue[i].ms \in Nat BY SequenceFacts
    <3>4. CASE elapsed < now
      <4>1. \A i \in 1..Len(queue) : queue[i].ms <= elapsed BY DEF SInv, QueueInOrder
      <4>2. rec.acq.seq # 0 => rec.acq.ms <= elapsed BY <1>4 DEF SInv, SelectorOn
      <4>3. QED BY <2>1, <3>1, <3>3, <3>4, <4>1, <4>2
    <3>5. CASE due
      <4>1. \A i \in 1..Len(queue) : queue[i].ms < elapsed BY <3>5 DEF SInv, QueueInOrder
      <4>2. rec.acq.seq # 0 => rec.acq.ms < elapsed BY <1>4, <3>5 DEF SInv, SelectorOn
      <4>3. QED BY <2>1, <3>1, <3>3, <4>1, <4>2
    <3>6. QED BY <3>2, <3>4, <3>5
  <2>10. QueueInOrder'
    <3>1. ASSUME NEW i \in 1..Len(queue) PROVE queue[i].ms <= elapsed'
      BY <1>2, <2>1, <2>9, <3>1, SequenceFacts
    <3>2. CASE queue' = queue BY <1>1, <2>2, <3>1, <3>2 DEF SInv, QueueInOrder
    <3>3. CASE queue' = Append(queue, s)
      <4>1. /\ Len(queue') = Len(queue) + 1 /\ queue'[Len(queue) + 1] = s
            /\ \A i \in 1..Len(queue) : queue'[i] = queue[i]
        BY <3>3, SequenceFacts
      <4>2. ASSUME NEW i \in 1..Len(queue')
            PROVE  /\ queue'[i].runId = id /\ queue'[i].seq = queue'[i].ms + 1
                   /\ queue'[i].ms <= elapsed'
                   /\ rec.acq.seq # 0 => rec.acq.ms < queue'[i].ms
                   /\ \A j \in 1..(i - 1) : queue'[j].ms < queue'[i].ms
        <5>1. CASE i \in 1..Len(queue)
          <6>1. /\ queue[i].runId = id /\ queue[i].seq = queue[i].ms + 1
                /\ rec.acq.seq # 0 => rec.acq.ms < queue[i].ms
                /\ \A j \in 1..(i - 1) : queue[j].ms < queue[i].ms
            BY <5>1 DEF SInv, QueueInOrder
          <6>2. \A j \in 1..(i - 1) : j \in 1..Len(queue) BY <5>1, SequenceFacts
          <6>3. QED BY <3>1, <4>1, <5>1, <6>1, <6>2
        <5>2. CASE i = Len(queue) + 1
          <6>1. \A j \in 1..(i - 1) : j \in 1..Len(queue) BY <5>2, SequenceFacts
          <6>2. queue'[i] = s BY <4>1, <5>2
          <6>3. QED BY <1>2, <2>1, <2>9, <4>1, <6>1, <6>2
        <5>3. i \in 1..Len(queue) \/ i = Len(queue) + 1 BY <4>1, SequenceFacts
        <5>4. QED BY <5>1, <5>2, <5>3
      <4>3. QED BY <1>1, <2>2, <4>2 DEF QueueInOrder
    <3>4. QED BY <2>2, <3>2, <3>3
  <2>11. WriterKnown' BY <1>1 DEF SInv, WriterKnown, StoreSeen
  <2>12. NewestIsKnown'
    <3>1. SUFFICES ASSUME Healthy' PROVE NewestIsKnown' BY DEF NewestIsKnown
    <3>2. queue' = Append(queue, s) /\ Healthy BY <2>2, <3>1
    <3>3. /\ Len(queue') = Len(queue) + 1 /\ queue'[Len(queue) + 1] = s
          /\ \A i \in 1..Len(queue) : queue'[i] = queue[i]
      BY <3>2, SequenceFacts
    <3>4. rec.acq.seq # 0 /\ rec.latest.seq = 0 => LoggedLast(rec.acq.ms)'
      BY <1>1, <1>4, <3>2 DEF SInv, NewestIsKnown, Draining, LoggedLast, StoreSeen
    <3>5. \/ newest' = rec.acq /\ \A i \in 1..Len(queue') : queue'[i].ms > MaxDuration
          \/ \E i \in 1..Len(queue') :
                 /\ newest' = queue'[i] /\ newest'.ms <= MaxDuration
                 /\ \A j \in (i + 1)..Len(queue') : queue'[j].ms > MaxDuration
      <4>1. CASE elapsed' <= MaxDuration
        <5>1. newest' = s /\ s.ms <= MaxDuration /\ Len(queue) + 1 \in 1..Len(queue')
          BY <2>1, <2>2, <3>3, <4>1, SequenceFacts
        <5>2. \A j \in ((Len(queue) + 1) + 1)..Len(queue') : FALSE BY <3>3, SequenceFacts
        <5>3. QED BY <3>3, <5>1, <5>2
      <4>2. CASE ~(elapsed' <= MaxDuration)
        <5>1. newest' = newest /\ s.ms > MaxDuration BY <1>2, <2>1, <2>2, <4>2, Parameters
        <5>2. CASE newest = rec.acq /\ \A i \in 1..Len(queue) : queue[i].ms > MaxDuration
          <6>1. \A i \in 1..Len(queue') : i \in 1..Len(queue) \/ i = Len(queue) + 1
            BY <3>3, SequenceFacts
          <6>2. QED BY <3>3, <5>1, <5>2, <6>1
        <5>3. CASE \E i \in 1..Len(queue) :
                      /\ newest = queue[i] /\ newest.ms <= MaxDuration
                      /\ \A j \in (i + 1)..Len(queue) : queue[j].ms > MaxDuration
          <6>1. PICK i \in 1..Len(queue) :
                      /\ newest = queue[i] /\ newest.ms <= MaxDuration
                      /\ \A j \in (i + 1)..Len(queue) : queue[j].ms > MaxDuration
            BY <5>3
          <6>2. i \in 1..Len(queue') /\ queue'[i] = queue[i] BY <3>3, SequenceFacts
          <6>3. \A j \in (i + 1)..Len(queue') : j \in (i + 1)..Len(queue) \/ j = Len(queue) + 1
            <7>1. Len(queue) \in Nat /\ Len(queue') = Len(queue) + 1 BY <3>3, SequenceFacts
            <7>2. QED BY <7>1
          <6>4. \A j \in (i + 1)..Len(queue') : queue'[j].ms > MaxDuration
            <7>1. \A j \in (i + 1)..Len(queue) : j \in 1..Len(queue) BY <6>1, SequenceFacts
            <7>2. QED BY <3>3, <5>1, <6>1, <6>3, <7>1
          <6>5. QED BY <5>1, <6>1, <6>2, <6>4
        <5>4. QED BY <1>1, <1>4, <3>2, <5>2, <5>3 DEF SInv, NewestIsKnown, Draining
      <4>3. QED BY <4>1, <4>2
    <3>6. QED BY <1>1, <3>4, <3>5 DEF NewestIsKnown, Draining
  <2>13. LastRun' /\ HealthyMeansSettled'
    <3>1. ~recording \/ state # "idle" BY RecordingHasRun
    <3>2. QED BY <1>1, <1>4, <3>1 DEF SInv, LastRun, HealthyMeansSettled, StoreSeen
  <2>14. StatusIsTrue' /\ OneRunPerStart' /\ RunsAreWhole' /\ RepliesAreTrue'
    BY <1>1 DEF SInv, StatusIsTrue, OneRunPerStart, RunsAreWhole, RepliesAreTrue, Kept, Begun,
                StoreSeen
  <2>15. BoundedLoss' BY <1>1 DEF BoundedLoss
  <2>16. QED
    BY <2>4, <2>5, <2>6, <2>7, <2>8, <2>10, <2>11, <2>12, <2>13, <2>14, <2>15 DEF SInv
<1>5. QED BY <1>3, <1>4

(* A failing call spends one fault. *)
LEMMA SpendIs ==
    ASSUME SInv, NEW failing \in BOOLEAN, Spend(failing)
    PROVE  faults' \in Nat /\ (faults' = 0 => faults = 0 /\ ~failing)
  BY DEF Spend, SInv, ServiceTypeOK

(* What other tasks read after refreshPublishedStatus() is the service's state. *)
LEMMA PublishIs ==
    ASSUME Publish, WriterKnown', id' \in Runs0, recording' \in BOOLEAN, svcDurable' \in Nat
    PROVE  StatusIsTrue' /\ published' \in [runId : Runs0, active : BOOLEAN, durable : Nat]
<1>1. published' = [runId |-> id', active |-> recording', durable |-> svcDurable'] BY DEF Publish
<1>2. published'.runId = id' /\ published'.active = recording' /\ published'.durable = svcDurable'
  BY <1>1
<1>3. published' \in [runId : Runs0, active : BOOLEAN, durable : Nat] BY <1>1
<1>4. recording' => svcDurable' <= durable' BY DEF WriterKnown
<1>5. QED BY <1>2, <1>3, <1>4 DEF StatusIsTrue

(* A command that leaves the run and the store alone keeps all of the invariant but
   what is said about it. *)
LEMMA CommandKeeps ==
    ASSUME IInv, SInv, UNCHANGED StoreSeen, job = NoJob, job' = NoJob,
           UNCHANGED <<recording, elapsed, due, rec, queue, overflowed, storeFailure, hasDirty,
                       dirtySince, lastSelected, svcDurable, state, boot, sent, activatedBy,
                       ran, newest>>,
           turn' = "limit", LoopOrder => turn = "net",
           faults' \in Nat, faults' = 0 => faults = 0,
           reply' \in [kind : {"none", "start", "stop"}, ok : BOOLEAN, target : Runs0],
           published' = published \/ Publish, RepliesAreTrue'
    PROVE  SInv'
<1>1. job.step = "idle" /\ job'.step = "idle" /\ job.caller = "none" /\ id' = id /\ prepared' = prepared
      /\ durable' = durable
  BY JobIs DEF StoreSeen
<1>2. WriterKnown' /\ NewestIsKnown' /\ LastRun' /\ HealthyMeansSettled' BY <1>1, RunUntouched
<1>3. StatusIsTrue' /\ published' \in [runId : Runs0, active : BOOLEAN, durable : Nat]
  <2>1. CASE published' = published
    BY <1>1, <2>1 DEF SInv, StatusIsTrue, ServiceTypeOK
  <2>2. CASE Publish
    <3>1. id' \in Runs0 /\ recording' \in BOOLEAN /\ svcDurable' \in Nat
      BY <1>1, TypeFacts DEF SInv, ServiceTypeOK
    <3>2. QED BY <1>2, <2>2, <3>1, PublishIs
  <2>3. QED BY <2>1, <2>2
<1>4. ServiceTypeOK' BY <1>3 DEF SInv, ServiceTypeOK
<1>5. HandlerAt' /\ Resting' BY <1>1 DEF SInv, HandlerAt, Resting, Healthy
<1>6. TurnsInOrder' BY JobIs DEF SInv, TurnsInOrder
<1>7. SelectorOn' /\ QueueInOrder' BY <1>1 DEF SInv, SelectorOn, QueueInOrder, Draining
<1>8. OneRunPerStart' BY <1>1 DEF SInv, OneRunPerStart
<1>9. RunsAreWhole' BY DEF SInv, RunsAreWhole, Kept, Begun, StoreSeen
<1>10. BoundedLoss' BY DEF BoundedLoss
<1>11. QED BY <1>2, <1>3, <1>4, <1>5, <1>6, <1>7, <1>8, <1>9, <1>10 DEF SInv

(* poll() keeps the invariant: it starts to drain, or nothing is recorded. *)
LEMMA PollKeeps == ASSUME IInv, SInv, Poll PROVE SInv'
<1>1. /\ UNCHANGED StoreSeen /\ id' = id /\ prepared' = prepared
      /\ UNCHANGED <<recording, elapsed, due, rec, queue, overflowed, storeFailure, hasDirty,
                     dirtySince, lastSelected, svcDurable, state, published, boot, faults,
                     sent, reply, activatedBy, ran, newest>>
      /\ job = NoJob /\ turn' = "net" /\ (LoopOrder => turn = "poll") /\ job.step = "idle"
  BY JobIs, StoreUnseen DEF Poll, At, StoreSeen, serviceVars, historyVars
<1>2. \/ job' = NoJob /\ ~recording
      \/ job' = [NoJob EXCEPT !.step = "drain", !.caller = "poll"] /\ recording
  BY DEF Poll
<1>3. /\ job' \in Job /\ job'.step \in {"idle", "drain"} /\ job'.caller \in {"none", "poll"}
      /\ job'.step = "drain" => recording /\ job'.caller = "poll"
      /\ job'.step = "idle" => job' = NoJob
      /\ job' = NoJob => ~recording
  <2>1. CASE job' = NoJob /\ ~recording BY <2>1, JobIs
  <2>2. CASE job' = [NoJob EXCEPT !.step = "drain", !.caller = "poll"] /\ recording
    <3>1. "poll" \in {"limit", "poll"} OBVIOUS
    <3>2. job' \in Job /\ job'.step = "drain" /\ job'.caller = "poll" /\ job' # NoJob
      BY <2>2, <3>1, JobIs
    <3>3. QED BY <2>2, <3>2
  <2>3. QED BY <1>2, <2>1, <2>2
<1>4. ServiceTypeOK' BY <1>1, <1>3 DEF SInv, ServiceTypeOK
<1>5. HandlerAt' BY <1>1, <1>3 DEF SInv, HandlerAt
<1>6. Resting' BY <1>1 DEF SInv, Resting
<1>7. TurnsInOrder'
  <2>1. LoopOrder => Len(queue) <= 1 /\ ~overflowed /\ reply = NoReply
    BY <1>1 DEF SInv, TurnsInOrder
  <2>2. job' = NoJob => queue = <<>> BY <1>3 DEF SInv, Resting
  <2>3. QED BY <1>1, <1>3, <2>1, <2>2 DEF TurnsInOrder
<1>8. SelectorOn' /\ QueueInOrder' BY <1>1, <1>3 DEF SInv, SelectorOn, QueueInOrder, Draining
<1>9. WriterKnown' /\ NewestIsKnown' /\ LastRun' /\ HealthyMeansSettled'
  BY <1>1, <1>3, RunUntouched
<1>10. StatusIsTrue' /\ OneRunPerStart' /\ RunsAreWhole' /\ RepliesAreTrue'
  BY <1>1, <1>3 DEF SInv, StatusIsTrue, OneRunPerStart, RunsAreWhole, RepliesAreTrue, Kept, Begun,
                    StoreSeen
<1>11. BoundedLoss' BY <1>1, <1>3 DEF BoundedLoss
<1>12. QED BY <1>4, <1>5, <1>6, <1>7, <1>8, <1>9, <1>10, <1>11 DEF SInv

(* A client sends a Start: it carries the identity published, which is the current
   one, and a boot number that no unsent request has. *)
LEMMA SendKeeps == ASSUME IInv, SInv, NEW q \in Request, Send(q) PROVE SInv'
<1> DEFINE m == [boot |-> boot, after |-> published.runId]
<1>1. /\ UNCHANGED StoreSeen /\ id' = id /\ prepared' = prepared
      /\ UNCHANGED <<recording, elapsed, due, rec, queue, overflowed, storeFailure, hasDirty,
                     dirtySince, lastSelected, svcDurable, state, published, boot, faults,
                     turn, job, reply, activatedBy, ran, newest>>
      /\ job = NoJob /\ job.step = "idle" /\ sent[q] = Unsent
      /\ sent' = [sent EXCEPT ![q] = m]
  BY JobIs, StoreUnseen DEF Send, At, StoreSeen, serviceVars, loopVars
<1>2. m \in [boot : Nat, after : Runs0] /\ m # Unsent
  <2>1. boot \in Nat /\ boot # 0 /\ published.runId \in Runs0
    BY TypeFacts DEF SInv, ServiceTypeOK
  <2>2. m.boot # Unsent.boot BY <2>1 DEF Unsent
  <2>3. QED BY <2>1, <2>2
<1> HIDE DEF m
<1>3. sent' \in [Request -> [boot : Nat, after : Runs0]]
  BY <1>1, <1>2 DEF SInv, ServiceTypeOK
<1>4. ServiceTypeOK' BY <1>1, <1>3 DEF SInv, ServiceTypeOK
<1>5. HandlerAt' /\ Resting' /\ TurnsInOrder'
  BY <1>1 DEF SInv, HandlerAt, Resting, TurnsInOrder, Healthy
<1>6. SelectorOn' /\ QueueInOrder' BY <1>1 DEF SInv, SelectorOn, QueueInOrder, Draining
<1>7. WriterKnown' /\ NewestIsKnown' /\ LastRun' /\ HealthyMeansSettled'
  BY <1>1, RunUntouched
<1>8. OneRunPerStart'
  <2>1. /\ sent \in [Request -> [boot : Nat, after : Runs0]] /\ boot \in Nat
        /\ activatedBy \in [Run -> Request \cup {NoRequest}]
    BY DEF SInv, ServiceTypeOK
  <2>2. \A p \in Request : p # q => sent'[p] = sent[p] BY <1>1, <2>1
  <2>3. ASSUME NEW r \in Run, activatedBy[r] # NoRequest
        PROVE  /\ sent'[activatedBy[r]] # Unsent /\ r = sent'[activatedBy[r]].after + 1
               /\ sent'[activatedBy[r]].boot = boot => r <= ran
    <3>1. /\ sent[activatedBy[r]] # Unsent /\ r = sent[activatedBy[r]].after + 1
          /\ sent[activatedBy[r]].boot = boot => r <= ran
      BY <2>3 DEF SInv, OneRunPerStart
    <3>2. activatedBy[r] \in Request /\ activatedBy[r] # q BY <1>1, <2>1, <2>3, <3>1
    <3>3. QED BY <2>2, <3>1, <3>2
  <2>4. ASSUME NEW p \in Request PROVE sent'[p].boot <= boot
    <3>1. CASE p = q
      <4>1. sent'[q].boot = boot BY <1>1, <2>1 DEF m
      <4>2. QED BY <2>1, <3>1, <4>1
    <3>2. CASE p # q BY <2>2, <3>2 DEF SInv, OneRunPerStart
    <3>3. QED BY <3>1, <3>2
  <2>5. QED BY <1>1, <2>3, <2>4 DEF OneRunPerStart
<1>9. StatusIsTrue' /\ RunsAreWhole' /\ RepliesAreTrue' /\ BoundedLoss'
  BY <1>1 DEF SInv, StatusIsTrue, RunsAreWhole, RepliesAreTrue, BoundedLoss, Kept, Begun, StoreSeen
<1>10. QED BY <1>4, <1>5, <1>6, <1>7, <1>8, <1>9 DEF SInv

(* A Start of a run already present is answered with that run. *)
LEMMA StartReplayedKeeps == ASSUME IInv, SInv, NEW q \in Request, StartReplayed(q) PROVE SInv'
<1>1. /\ UNCHANGED StoreSeen /\ UNCHANGED job /\ job = NoJob /\ turn' = "limit" /\ Publish
      /\ UNCHANGED <<recording, elapsed, due, rec, queue, overflowed, storeFailure, hasDirty,
                     dirtySince, lastSelected, svcDurable, state, boot, sent, activatedBy,
                     ran, newest>>
      /\ LoopOrder => turn = "net"
      /\ faults' = faults
  BY StoreUnseen DEF StartReplayed, Received, At
<1>2. PICK r \in Persisted(q) : reply' = [kind |-> "start", ok |-> TRUE, target |-> r]
  BY DEF StartReplayed
<1>3. r \in Run /\ Kept(r) BY DEF Persisted
<1>4. reply' \in [kind : {"none", "start", "stop"}, ok : BOOLEAN, target : Runs0]
      /\ reply'.kind = "start" /\ reply'.target = r
  BY <1>2, <1>3 DEF Runs0
<1>5. faults' \in Nat /\ (faults' = 0 => faults = 0) BY <1>1 DEF SInv, ServiceTypeOK
<1>6. RepliesAreTrue'
  BY <1>1, <1>3, <1>4 DEF SInv, RepliesAreTrue, RunsAreWhole, Begun, StoreSeen
<1>7. QED BY <1>1, <1>4, <1>5, <1>6, CommandKeeps

(* A Start that is refused, or whose new id could not be saved, changes no run. *)
LEMMA StartRefusedKeeps == ASSUME IInv, SInv, NEW q \in Request, StartRefused(q) PROVE SInv'
<1>1. UNCHANGED StoreSeen
  BY StoreUnseen DEF StartRefused, AllocateId, StoreSeen
<1>2. /\ UNCHANGED job /\ job = NoJob /\ turn' = "limit" /\ Publish
      /\ UNCHANGED <<recording, elapsed, due, rec, queue, overflowed, storeFailure, hasDirty,
                     dirtySince, lastSelected, svcDurable, state, boot, sent, activatedBy,
                     ran, newest>>
      /\ LoopOrder => turn = "net"
      /\ reply' = [kind |-> "start", ok |-> FALSE, target |-> 0]
  BY DEF StartRefused, Received, At
<1>3. reply' \in [kind : {"none", "start", "stop"}, ok : BOOLEAN, target : Runs0] /\ ~reply'.ok
  BY <1>2 DEF Runs0
<1>4. Spend(TRUE) \/ Spend(FALSE) BY DEF StartRefused
<1>5. faults' \in Nat /\ (faults' = 0 => faults = 0) BY <1>4, SpendIs
<1>6. RepliesAreTrue' BY <1>3 DEF RepliesAreTrue
<1>7. QED BY <1>1, <1>2, <1>3, <1>5, <1>6, CommandKeeps

(* A Stop of another run is answered from the archive. *)
LEMMA StopOtherKeeps == ASSUME IInv, SInv, NEW target \in Run, StopOther(target) PROVE SInv'
<1>1. /\ UNCHANGED StoreSeen /\ UNCHANGED job /\ job = NoJob /\ turn' = "limit" /\ Publish
      /\ UNCHANGED <<recording, elapsed, due, rec, queue, overflowed, storeFailure, hasDirty,
                     dirtySince, lastSelected, svcDurable, state, boot, sent, activatedBy,
                     ran, newest>>
      /\ LoopOrder => turn = "net"
      /\ faults' = faults
      /\ \E b \in BOOLEAN : reply' = [kind |-> "stop", target |-> target, ok |-> b]
  <2>1. (ready /\ Kept(target) /\ (target = activeRun => writerFailed)) \in BOOLEAN
    BY DEF IInv, TypeOK, RamTypeOK
  <2>2. QED BY <2>1, StoreUnseen DEF StopOther, At
<1>2. reply' \in [kind : {"none", "start", "stop"}, ok : BOOLEAN, target : Runs0]
      /\ reply'.kind = "stop" /\ reply'.target = target
  BY <1>1 DEF Runs0
<1>3. faults' \in Nat /\ (faults' = 0 => faults = 0) BY <1>1 DEF SInv, ServiceTypeOK
<1>4. RepliesAreTrue'
  BY <1>1, <1>2 DEF SInv, RepliesAreTrue, RunsAreWhole, Begun, StoreSeen
<1>5. QED BY <1>1, <1>2, <1>3, <1>4, CommandKeeps

(* A Stop of the current run starts its end; a stale one is refused. *)
LEMMA StopCurrentKeeps ==
    ASSUME IInv, SInv, NEW target \in Run, NEW sentNow \in BOOLEAN, StopCurrent(target, sentNow)
    PROVE  SInv'
<1>1. /\ UNCHANGED StoreSeen /\ job = NoJob /\ turn' = "limit" /\ id' = id /\ prepared' = prepared
      /\ UNCHANGED <<recording, rec, queue, overflowed, storeFailure, hasDirty, dirtySince,
                     lastSelected, svcDurable, state, published, boot, faults, sent,
                     activatedBy, ran, newest>>
      /\ LoopOrder => turn = "net"
      /\ recording /\ target = id /\ job.step = "idle"
  BY JobIs, StoreUnseen DEF StopCurrent, At, StoreSeen
<1>2. CASE ~sentNow
  <2>1. reply' = [kind |-> "stop", ok |-> FALSE, target |-> target] /\ UNCHANGED <<elapsed, due, job>>
    BY <1>2 DEF StopCurrent
  <2>2. reply' \in [kind : {"none", "start", "stop"}, ok : BOOLEAN, target : Runs0] /\ ~reply'.ok
    BY <2>1 DEF Runs0
  <2>3. faults' \in Nat /\ (faults' = 0 => faults = 0) BY <1>1 DEF SInv, ServiceTypeOK
  <2>4. RepliesAreTrue' BY <2>2 DEF RepliesAreTrue
  <2>5. QED BY <1>1, <2>1, <2>2, <2>3, <2>4, CommandKeeps
<1>3. CASE sentNow
  <2>1. /\ Advance(MaxLag) /\ reply' = reply /\ MaxLag \in Nat
        /\ job' = [NoJob EXCEPT !.step = "drain", !.caller = "stop", !.target = target]
    BY <1>3, ServiceAssumption DEF StopCurrent
  <2>2. /\ job' \in Job /\ job'.step = "drain" /\ job'.caller = "stop" /\ job'.target = target
        /\ job' # NoJob
    <3>1. target \in Runs0 BY DEF Runs0
    <3>2. QED BY <2>1, <3>1, JobIs
  <2>3. ServiceTypeOK' BY <1>1, <2>1, <2>2, AdvanceIs DEF SInv, ServiceTypeOK
  <2>4. HandlerAt' BY <1>1, <2>2 DEF SInv, HandlerAt
  <2>5. Resting' BY <1>1 DEF Resting
  <2>6. TurnsInOrder' BY <1>1, <2>1, <2>2 DEF SInv, TurnsInOrder
  <2>7. SelectorOn' /\ QueueInOrder' BY <1>1, <2>1, <2>2, AdvanceKeeps
  <2>8. WriterKnown' /\ NewestIsKnown' /\ LastRun' /\ HealthyMeansSettled'
    BY <1>1, <2>2, RunUntouched
  <2>9. StatusIsTrue' /\ OneRunPerStart' /\ RunsAreWhole' /\ RepliesAreTrue'
    BY <1>1, <2>1, <2>2 DEF SInv, StatusIsTrue, OneRunPerStart, RunsAreWhole, RepliesAreTrue,
                            Kept, Begun, StoreSeen
  <2>10. BoundedLoss' BY <1>1 DEF BoundedLoss
  <2>11. QED BY <2>3, <2>4, <2>5, <2>6, <2>7, <2>8, <2>9, <2>10 DEF SInv
<1>4. QED BY <1>2, <1>3

-----------------------------------------------------------------------------
(* What a sync makes of the store, as the service sees it. *)
SyncSeen(ok) ==
    /\ activeRun # 0 /\ UNCHANGED StoreRest
    /\ ok => ~writerFailed /\ ~writerFailed' /\ durable' = durable + Len(pending) /\ pending' = <<>>
    /\ ~ok => writerFailed' /\ durable' = durable /\ pending' = pending /\ acked' = acked
    /\ durable <= durable'
    /\ durable' + Len(pending') = durable + Len(pending)
    /\ \A r \in Run : r # activeRun => acked'[r] = acked[r]

(* After a sync the last reading logged in the open run is what it was. *)
LEMMA SyncIsSeen ==
    ASSUME IInv, NEW ok \in BOOLEAN, Sync(ok)
    PROVE  SyncSeen(ok) /\ (activeRun = id => \A t : LoggedLast(t) => LoggedLast(t)')
<1>1. /\ activeRun # 0 /\ SyncFiles(ok)
      /\ pending' = IF ok THEN <<>> ELSE pending
      /\ UNCHANGED StoreRest /\ id' = id
  BY DEF Sync, StoreRest
<1>2. durable \in Nat /\ pending \in Seq(Reading) /\ Len(pending) \in Nat
  BY DEF IInv, TypeOK, RamTypeOK
<1>3. SyncSeen(ok)
  <2>1. CASE ok
    <3>1. ~writerFailed /\ ~writerFailed' /\ durable' = durable + Len(pending) /\ pending' = <<>>
      BY <1>1, <2>1, SyncEffect
    <3>2. Len(pending') = 0 BY <3>1
    <3>3. \A r \in Run : r # activeRun => acked'[r] = acked[r] BY <1>1, SyncEffect
    <3>4. QED BY <1>1, <1>2, <2>1, <3>1, <3>2, <3>3 DEF SyncSeen
  <2>2. CASE ~ok
    <3>1. writerFailed' /\ durable' = durable /\ pending' = pending /\ acked' = acked
      BY <1>1, <2>2, SyncEffect
    <3>2. QED BY <1>1, <1>2, <2>2, <3>1 DEF SyncSeen
  <2>3. QED BY <2>1, <2>2
<1>4. ASSUME activeRun = id, NEW t, LoggedLast(t) PROVE LoggedLast(t)'
  <2>1. CASE ok /\ pending # <<>>
    <3>1. /\ acked'[activeRun] # <<>> /\ pending' = <<>>
          /\ acked'[activeRun][Len(acked'[activeRun])] = pending[Len(pending)]
      BY <1>1, <2>1, SyncEffect
    <3>2. pending[Len(pending)] = t BY <1>4, <2>1 DEF LoggedLast
    <3>3. QED BY <1>1, <1>4, <3>1, <3>2 DEF LoggedLast
  <2>2. CASE ~ok \/ pending = <<>>
    <3>1. acked' = acked /\ pending' = pending BY <1>1, <2>2, SyncEffect
    <3>2. QED BY <1>1, <1>4, <3>1 DEF LoggedLast
  <2>3. QED BY <2>1, <2>2
<1>5. QED BY <1>3, <1>4

(* The archive routes keep the invariant: a snapshot syncs the open run, a marker
   settles a journal, a run other than the open one is deleted. *)
LEMMA RouteKeeps == ASSUME IInv, IInv', SInv, Route PROVE SInv'
<1>1. /\ job = NoJob /\ job' = job /\ turn' = "limit" /\ job.step = "idle"
      /\ UNCHANGED <<recording, elapsed, due, rec, queue, overflowed, storeFailure, hasDirty,
                     dirtySince, lastSelected, svcDurable, state, published, boot, sent, reply,
                     activatedBy, ran, newest>>
      /\ LoopOrder => turn = "net"
  BY JobIs DEF Route, At, serviceVars, historyVars
<1>2. /\ reply \in [kind : {"none", "start", "stop"}, ok : BOOLEAN, target : Runs0]
      /\ LoopOrder => reply = NoReply
  BY <1>1 DEF SInv, ServiceTypeOK, TurnsInOrder
<1>3. RepliesAreTrue' BY <1>1, <1>2 DEF RepliesAreTrue, NoReply
<1>4. CASE UNCHANGED <<archiveVars, faults>>
  <2>1. UNCHANGED StoreSeen /\ faults' \in Nat /\ (faults' = 0 => faults = 0)
    BY <1>4, StoreUnseen DEF SInv, ServiceTypeOK
  <2>2. QED BY <1>1, <1>2, <1>3, <2>1, CommandKeeps
<1>5. ASSUME id' = id, prepared' = prepared, activeRun' = activeRun,
             faults' \in Nat, faults' = 0 => faults = 0, durable <= durable',
             WriterKnown', NewestIsKnown', RunsAreWhole', HealthyMeansSettled'
      PROVE  SInv'
  <2>1. ServiceTypeOK' BY <1>1, <1>5 DEF SInv, ServiceTypeOK
  <2>2. HandlerAt' /\ Resting' /\ TurnsInOrder'
    BY <1>1, <1>5, JobIs DEF SInv, HandlerAt, Resting, TurnsInOrder, Healthy
  <2>3. SelectorOn' /\ QueueInOrder' BY <1>1, <1>5 DEF SInv, SelectorOn, QueueInOrder, Draining
  <2>4. LastRun' /\ OneRunPerStart' BY <1>1, <1>5 DEF SInv, LastRun, OneRunPerStart
  <2>5. StatusIsTrue'
    <3> PICK d \in Nat : d = durable' BY DEF IInv, TypeOK, RamTypeOK
    <3>1. published.durable \in Nat /\ durable \in Nat /\ durable <= d BY <1>5, TypeFacts
    <3>2. published.active = recording /\ published.runId = id BY <1>1 DEF SInv, StatusIsTrue
    <3>3. recording => published.durable <= durable BY DEF SInv, StatusIsTrue
    <3>4. recording => published.durable <= durable' BY <3>1, <3>3
    <3>5. QED BY <1>1, <1>5, <3>2, <3>4 DEF StatusIsTrue
  <2>6. BoundedLoss' BY <1>1 DEF BoundedLoss
  <2>7. QED BY <1>3, <1>5, <2>1, <2>2, <2>3, <2>4, <2>5, <2>6 DEF SInv
<1>6. ASSUME NEW ok \in BOOLEAN, Sync(ok), Spend(~ok /\ ~writerFailed) PROVE SInv'
  <2>1. SyncSeen(ok) BY <1>6, SyncIsSeen
  <2>2. id' = id /\ prepared' = prepared /\ activeRun' = activeRun /\ activeRun # 0
        /\ place' = place /\ files' = files /\ verdict' = verdict /\ verdictSynced' = verdictSynced
        /\ request' = request
    BY <2>1 DEF SyncSeen, StoreRest
  <2>3. faults' \in Nat /\ (faults' = 0 => faults = 0)
    <3>1. (~ok /\ ~writerFailed) \in BOOLEAN OBVIOUS
    <3>2. QED BY <1>6, <3>1, SpendIs
  <2>4. durable <= durable' BY <2>1 DEF SyncSeen
  <2>5. RunsAreWhole' BY <1>1, <2>2, <2>3 DEF SInv, RunsAreWhole, Kept, Begun
  <2>6. HealthyMeansSettled' BY <1>1, <2>2 DEF SInv, LastRun, HealthyMeansSettled
  <2>7. NewestIsKnown'
    <3>1. recording => activeRun = id BY DEF SInv, WriterKnown
    <3>2. recording => \A t : LoggedLast(t) => LoggedLast(t)' BY <1>6, <3>1, SyncIsSeen
    <3>3. QED BY <1>1, <2>2, <3>2 DEF SInv, NewestIsKnown, Healthy, Draining
  <2>8. WriterKnown'
    <3>1. SUFFICES ASSUME recording PROVE WriterKnown' BY <1>1 DEF WriterKnown
    <3>2. ~storeFailure BY <1>1 DEF SInv, HandlerAt
    <3>3. durable' + Len(pending') = durable + Len(pending) /\ (pending' = pending \/ pending' = <<>>)
      BY <2>1 DEF SyncSeen
    <3>4. svcDurable <= durable'
      <4> PICK d \in Nat : d = durable' BY DEF IInv, TypeOK, RamTypeOK
      <4>1. svcDurable <= durable BY <3>1 DEF SInv, WriterKnown
      <4>2. svcDurable <= d BY <2>4, <4>1, TypeFacts
      <4>3. QED BY <4>2
    <3>5. QED BY <1>1, <2>2, <3>1, <3>2, <3>3, <3>4 DEF SInv, WriterKnown
  <2>9. QED BY <1>5, <2>2, <2>3, <2>4, <2>5, <2>6, <2>7, <2>8
<1>7. ASSUME NEW r \in Run, SettleJournal(r), Spend(FALSE) PROVE SInv'
  <2>1. /\ place' = place /\ files' = files /\ verdict' = verdict /\ id' = id /\ prepared' = prepared
        /\ request' = request
        /\ activeRun' = activeRun /\ durable' = durable /\ pending' = pending
        /\ writerFailed' = writerFailed /\ acked' = acked
        /\ verdictSynced' = [verdictSynced EXCEPT ![r] = TRUE]
    BY <1>7 DEF SettleJournal, ram
  <2>2. faults' \in Nat /\ (faults' = 0 => faults = 0) BY <1>7, SpendIs
  <2>3. \A t \in Run : verdictSynced[t] => verdictSynced'[t]
    <3>1. verdictSynced \in [Run -> BOOLEAN] BY DEF IInv, TypeOK, FlashTypeOK
    <3>2. QED BY <2>1, <3>1
  <2>4. RunsAreWhole' BY <1>1, <2>1, <2>2, <2>3 DEF SInv, RunsAreWhole, Kept, Begun
  <2>5. HealthyMeansSettled'
    <3>1. ran \in Runs0 BY DEF SInv, ServiceTypeOK
    <3>2. QED BY <1>1, <2>1, <2>3, <3>1 DEF SInv, HealthyMeansSettled, Kept, Runs0
  <2>6. NewestIsKnown' BY <1>1, <2>1 DEF SInv, NewestIsKnown, Healthy, Draining, LoggedLast
  <2>7. WriterKnown' BY <1>1, <2>1 DEF SInv, WriterKnown
  <2>8. durable <= durable' BY <2>1, TypeFacts
  <2>9. QED BY <1>5, <2>1, <2>2, <2>4, <2>5, <2>6, <2>7, <2>8
<1>8. ASSUME NEW r \in Run, NEW removed \in BOOLEAN, DeleteRun(r, removed), Spend(~removed)
      PROVE  SInv'
  <2>1. /\ r # activeRun /\ id' = id /\ prepared' = prepared
        /\ activeRun' = activeRun /\ durable' = durable /\ pending' = pending
        /\ writerFailed' = writerFailed
        /\ place' = [place EXCEPT ![r] = IF removed THEN "none" ELSE "deleting"]
        /\ files' = [s \in Run |-> IF s \in {r} THEN 0 ELSE files[s]]
        /\ request' = [s \in Run |-> IF s \in {r} THEN NoRequest ELSE request[s]]
        /\ acked' = [s \in Run |-> IF s \in {r} THEN <<>> ELSE acked[s]]
        /\ verdict' = [verdict EXCEPT ![r] = Unended]
        /\ verdictSynced' = [verdictSynced EXCEPT ![r] = FALSE]
    BY <1>8 DEF DeleteRun, Forget, ram
  <2>2. faults' \in Nat /\ (faults' = 0 => faults = 0)
    <3>1. (~removed) \in BOOLEAN OBVIOUS
    <3>2. QED BY <1>8, <3>1, SpendIs
  <2>3. /\ place \in [Run -> Place] /\ verdict \in [Run -> Verdict \cup {Unended}]
        /\ verdictSynced \in [Run -> BOOLEAN]
    BY DEF IInv, TypeOK, FlashTypeOK
  <2>4. \A s \in Run \ {r} : /\ place'[s] = place[s] /\ files'[s] = files[s] /\ acked'[s] = acked[s]
                            /\ request'[s] = request[s]
                            /\ verdict'[s] = verdict[s] /\ verdictSynced'[s] = verdictSynced[s]
    BY <2>1, <2>3
  <2>5. ~Kept(r)' /\ verdict'[r] = Unended BY <2>1, <2>3 DEF Kept
  <2>6. RunsAreWhole' BY <1>1, <2>2, <2>4, <2>5 DEF SInv, RunsAreWhole, Kept, Begun
  <2>7. HealthyMeansSettled'
    <3>1. ran \in Runs0 BY DEF SInv, ServiceTypeOK
    <3>2. CASE ran = r BY <1>1, <2>5, <3>2 DEF HealthyMeansSettled
    <3>3. CASE ran # r BY <1>1, <2>4, <3>1, <3>3 DEF SInv, HealthyMeansSettled, Kept, Runs0
    <3>4. QED BY <3>2, <3>3
  <2>8. NewestIsKnown'
    <3>1. recording => acked'[id] = acked[id] BY <2>1, <2>4, RecordingHasRun
    <3>2. QED BY <1>1, <2>1, <3>1 DEF SInv, NewestIsKnown, Healthy, Draining, LoggedLast
  <2>9. WriterKnown' BY <1>1, <2>1 DEF SInv, WriterKnown
  <2>10. durable <= durable' BY <2>1, TypeFacts
  <2>11. QED BY <1>5, <2>1, <2>2, <2>6, <2>7, <2>8, <2>9, <2>10
<1>9. QED BY <1>4, <1>6, <1>7, <1>8 DEF Route

-----------------------------------------------------------------------------
(* A Start consumes the next identity: it is the one after the run its client knew. *)
LEMMA StartAllocatedKeeps == ASSUME IInv, SInv, NEW q \in Request, StartAllocated(q) PROVE SInv'
<1>1. /\ UNCHANGED <<recording, elapsed, due, rec, queue, overflowed, storeFailure, hasDirty,
                     dirtySince, lastSelected, svcDurable, state, published, boot, faults,
                     sent, reply, activatedBy, ran, newest>>
      /\ UNCHANGED <<place, files, request, verdict, verdictSynced, activeRun, durable, pending,
                     writerFailed, acked>>
      /\ job = NoJob /\ turn' = "limit" /\ (LoopOrder => turn = "net") /\ job.step = "idle"
      /\ ~recording /\ activeRun = 0 /\ id' = id + 1 /\ prepared'
      /\ sent[q] # Unsent /\ sent[q].after = id /\ sent[q].boot = boot
      /\ job' = [NoJob EXCEPT !.step = "stage", !.caller = "start", !.request = q]
  <2>1. /\ sent[q] # Unsent /\ sent[q] = [boot |-> boot, after |-> id] /\ turn' = "limit" /\ ~recording
        /\ job = NoJob /\ (LoopOrder => turn = "net")
    BY DEF StartAllocated, Received, At, Startable
  <2>2. sent[q].after = id /\ sent[q].boot = boot BY <2>1
  <2>3. /\ UNCHANGED <<place, files, request, verdict, verdictSynced, activeRun, durable, pending,
                       writerFailed, acked>>
        /\ activeRun = 0 /\ id' = id + 1 /\ prepared'
    BY DEF StartAllocated, AllocateId
  <2>4. /\ UNCHANGED <<recording, elapsed, due, rec, queue, overflowed, storeFailure, hasDirty,
                       dirtySince, lastSelected, svcDurable, state, published, boot, faults,
                       sent, reply, activatedBy, ran, newest>>
        /\ job' = [NoJob EXCEPT !.step = "stage", !.caller = "start", !.request = q]
    BY DEF StartAllocated, serviceVars, historyVars
  <2>5. QED BY <2>1, <2>2, <2>3, <2>4, JobIs
<1>2. /\ job' \in Job /\ job'.step = "stage" /\ job'.caller = "start" /\ job'.request = q
      /\ job' # NoJob
  BY <1>1, JobIs
<1>3. LoopOrder => reply = NoReply BY <1>1 DEF SInv, TurnsInOrder
<1>4. ServiceTypeOK' BY <1>1, <1>2 DEF SInv, ServiceTypeOK
<1>5. HandlerAt' BY <1>1, <1>2 DEF SInv, HandlerAt
<1>6. Resting' BY <1>1 DEF SInv, Resting
<1>7. TurnsInOrder' BY <1>1, <1>2, <1>3 DEF SInv, TurnsInOrder, Resting
<1>8. SelectorOn' BY <1>1 DEF SelectorOn
<1>9. QueueInOrder' BY <1>1 DEF SInv, Resting, QueueInOrder
<1>10. WriterKnown' /\ NewestIsKnown' BY <1>1 DEF WriterKnown, NewestIsKnown
<1>11. StatusIsTrue' BY <1>1, <1>2 DEF SInv, StatusIsTrue
<1>12. OneRunPerStart' BY <1>1, <1>2 DEF SInv, OneRunPerStart
<1>13. LastRun'
  <2>1. ran \in Nat /\ id \in Nat /\ ran <= id BY TypeFacts DEF SInv, LastRun
  <2>2. ran <= id + 1 /\ ran < id + 1 BY <2>1
  <2>3. QED BY <1>1, <2>2 DEF LastRun
<1>14. RunsAreWhole' BY <1>1 DEF SInv, RunsAreWhole, Kept, Begun
<1>15. RepliesAreTrue' BY <1>1, <1>3 DEF RepliesAreTrue, NoReply
<1>16. BoundedLoss' BY <1>1 DEF BoundedLoss
<1>17. HealthyMeansSettled' BY <1>1 DEF SInv, HealthyMeansSettled, Kept
<1>18. QED BY <1>4, <1>5, <1>6, <1>7, <1>8, <1>9, <1>10, <1>11, <1>12, <1>13, <1>14, <1>15,
              <1>16, <1>17 DEF SInv

(* What a Start leaves that is cut short in prepareRun is not a run it began: a Start
   is obeyed only in the boot it was sent in, in which no run with this id or a larger
   one was begun. *)
LEMMA StagingIsNotBegun ==
    ASSUME IInv, SInv, job.step = "stage", activatedBy' = activatedBy,
           NEW where \in Place, NEW done \in 0..AllFiles, StageFails(job.request, where, done)
    PROVE  \A r \in Run : Kept(r)' /\ Begun(r)' => files'[r] = AllFiles
<1>1. /\ prepared /\ id \in Run /\ job.request \in Request /\ ran < id
      /\ sent[job.request].boot = boot
  BY DEF SInv, HandlerAt, LastRun, OneRunPerStart, IInv, PreparedIsRun
<1>2. /\ place \in [Run -> Place] /\ files \in [Run -> 0..AllFiles]
      /\ request \in [Run -> Request \cup {NoRequest}]
  BY DEF IInv, TypeOK, FlashTypeOK
<1>3. activatedBy[id] # job.request
  <2>1. ASSUME activatedBy[id] = job.request PROVE FALSE
    <3>1. activatedBy[id] # NoRequest BY <1>1, <2>1, Parameters
    <3>2. id <= ran BY <1>1, <2>1, <3>1 DEF SInv, OneRunPerStart
    <3>3. QED BY <1>1, <3>2, TypeFacts
  <2>2. QED BY <2>1
<1>4. CASE UNCHANGED <<place, files, request>>
  BY <1>4 DEF SInv, RunsAreWhole, Kept, Begun
<1>5. CASE /\ place' = [place EXCEPT ![id] = where] /\ files' = [files EXCEPT ![id] = done]
           /\ request' = [request EXCEPT ![id] = IF done > 0 THEN job.request ELSE NoRequest]
  <2>1. \A r \in Run : r # id => /\ place'[r] = place[r] /\ files'[r] = files[r]
                                 /\ request'[r] = request[r]
    BY <1>2, <1>5
  <2>2. request'[id] \in {job.request, NoRequest} BY <1>1, <1>2, <1>5
  <2>3. ASSUME NEW r \in Run, r = id PROVE ~Begun(r)' BY <1>1, <1>3, <2>2, <2>3 DEF Begun
  <2>4. ASSUME NEW r \in Run, r # id, Kept(r)', Begun(r)' PROVE files'[r] = AllFiles
    <3>1. Kept(r) /\ Begun(r) BY <2>1, <2>4 DEF Kept, Begun
    <3>2. QED BY <2>1, <2>4, <3>1 DEF SInv, RunsAreWhole
  <2>5. QED BY <2>3, <2>4
<1>6. CASE where = "none" BY <1>4, <1>6 DEF StageFails
<1>7. CASE where # "none"
  <2>1. /\ place' = [place EXCEPT ![id] = where] /\ files' = [files EXCEPT ![id] = done]
        /\ request' = [request EXCEPT ![id] = IF done > 0 THEN job.request ELSE NoRequest]
    BY <1>7, Zenon DEF StageFails
  <2>2. QED BY <1>5, <2>1
<1>8. QED BY <1>6, <1>7

(* A run that could not be prepared leaves its identity behind and no writer. *)
LEMMA StartAbandonedKeeps == ASSUME IInv, IInv', SInv, StartAbandoned PROVE SInv'
<1>1. /\ UNCHANGED <<recording, elapsed, due, rec, queue, overflowed, storeFailure, hasDirty,
                     dirtySince, lastSelected, svcDurable, state, turn, boot,
                     sent, activatedBy, ran, newest>>
      /\ job.step = "stage" /\ job' = NoJob /\ Publish
      /\ reply' = [kind |-> "start", ok |-> FALSE, target |-> 0]
  BY DEF StartAbandoned
<1>2. /\ UNCHANGED <<verdict, verdictSynced, id, activeRun, durable, pending, writerFailed, acked>>
      /\ ~prepared'
      /\ \/ place' = place /\ files' = files
         \/ \E where \in Place : place' = [place EXCEPT ![id] = where]
  BY DEF StartAbandoned, StageFails
<1>3. faults' \in Nat /\ faults' # 0
  <2>1. Spend(TRUE) BY DEF StartAbandoned
  <2>2. QED BY <2>1, SpendIs
<1>4. ~recording /\ prepared /\ job'.step = "idle" /\ job'.caller = "none"
  BY <1>1, JobIs DEF SInv, HandlerAt
<1>5. activeRun = 0 BY <1>4 DEF IInv, PreparedIsRun
<1>6. reply' \in [kind : {"none", "start", "stop"}, ok : BOOLEAN, target : Runs0] /\ ~reply'.ok
  BY <1>1 DEF Runs0
<1>7. WriterKnown' /\ NewestIsKnown' BY <1>1, <1>4 DEF WriterKnown, NewestIsKnown
<1>8. StatusIsTrue' /\ published' \in [runId : Runs0, active : BOOLEAN, durable : Nat]
  <2>1. id' \in Runs0 /\ recording' \in BOOLEAN /\ svcDurable' \in Nat
    BY <1>1, <1>2, TypeFacts DEF SInv, ServiceTypeOK
  <2>2. QED BY <1>1, <1>7, <2>1, PublishIs
<1>9. ServiceTypeOK' BY <1>1, <1>3, <1>6, <1>8, JobIs, ZenonT(60) DEF SInv, ServiceTypeOK
<1>10. HandlerAt' BY <1>1, <1>2, <1>4 DEF SInv, HandlerAt, Resting
<1>11. Resting' BY <1>1 DEF SInv, Resting
<1>12. TurnsInOrder' BY <1>1, <1>4 DEF SInv, TurnsInOrder, Resting
<1>13. SelectorOn' BY <1>1, <1>4 DEF SelectorOn
<1>14. QueueInOrder' BY <1>1, <1>4 DEF SInv, Resting, QueueInOrder
<1>15. OneRunPerStart' BY <1>1, <1>4 DEF SInv, OneRunPerStart
<1>16. LastRun' BY <1>1, <1>2, <1>4, <1>5 DEF SInv, LastRun
<1>17. RunsAreWhole'
  <2>1. PICK where \in Place, done \in 0..AllFiles : StageFails(job.request, where, done)
    BY DEF StartAbandoned
  <2>2. \A r \in Run : Kept(r)' /\ Begun(r)' => files'[r] = AllFiles
    BY <1>1, <2>1, StagingIsNotBegun
  <2>3. QED BY <1>3, <2>2 DEF RunsAreWhole
<1>18. RepliesAreTrue' BY <1>6 DEF RepliesAreTrue
<1>19. BoundedLoss' BY <1>1, <1>4 DEF BoundedLoss
<1>20. HealthyMeansSettled'
  <2>1. ran # id /\ ran \in Runs0
    <3>1. ran < id /\ ran \in Nat /\ id \in Nat BY <1>4, TypeFacts DEF SInv, LastRun
    <3>2. QED BY <3>1 DEF SInv, ServiceTypeOK
  <2>2. ran # 0 => place'[ran] = place[ran]
    <3>1. place \in [Run -> Place] BY DEF IInv, TypeOK, FlashTypeOK
    <3>2. QED BY <1>2, <2>1, <3>1 DEF Runs0
  <2>3. QED BY <1>1, <1>2, <2>2 DEF SInv, HealthyMeansSettled, Kept
<1>21. QED BY <1>7, <1>8, <1>9, <1>10, <1>11, <1>12, <1>13, <1>14, <1>15, <1>16, <1>17, <1>18,
              <1>19, <1>20 DEF SInv

(* A run begins: a new writer, a new selector, nothing logged. *)
LEMMA StartActivatedKeeps == ASSUME IInv, IInv', SInv, StartActivated PROVE SInv'
<1>1. /\ job.step = "stage" /\ recording' = TRUE /\ elapsed' = 0 /\ due' = TRUE
      /\ rec' = Reset(id) /\ queue' = <<>> /\ overflowed' = FALSE /\ storeFailure' = FALSE
      /\ hasDirty' = FALSE /\ dirtySince' = 0 /\ lastSelected' = 0 /\ svcDurable' = 0
      /\ state' = "recording" /\ job' = NoJob
      /\ reply' = [kind |-> "start", ok |-> TRUE, target |-> id]
      /\ activatedBy' = [activatedBy EXCEPT ![id] = job.request]
      /\ ran' = id /\ newest' = NoSample
      /\ UNCHANGED <<turn, boot, faults, sent>> /\ Publish
  BY DEF StartActivated
<1>2. /\ ~prepared' /\ activeRun' = id /\ durable' = 0 /\ pending' = <<>> /\ writerFailed' = FALSE
      /\ id' = id /\ verdict' = verdict /\ verdictSynced' = verdictSynced
      /\ place' = [place EXCEPT ![id] = "final"] /\ files' = [files EXCEPT ![id] = AllFiles]
      /\ request' = [request EXCEPT ![id] = job.request]
  BY DEF StartActivated, StageCompletes
<1>3. ~recording /\ prepared /\ id \in Run /\ job.request \in Request /\ job'.step = "idle"
      /\ job'.caller = "none"
  BY <1>1, JobIs DEF SInv, HandlerAt, IInv, PreparedIsRun
<1>4. files \in [Run -> 0..AllFiles] /\ place \in [Run -> Place]
      /\ request \in [Run -> Request \cup {NoRequest}]
      /\ activatedBy \in [Run -> Request \cup {NoRequest}]
  BY DEF SInv, ServiceTypeOK, IInv, TypeOK, FlashTypeOK
<1>5. files'[id] = AllFiles /\ activatedBy'[id] = job.request
      /\ \A r \in Run : r # id => /\ files'[r] = files[r] /\ place'[r] = place[r]
                                  /\ activatedBy'[r] = activatedBy[r]
                                  /\ request'[r] = request[r]
  BY <1>1, <1>2, <1>3, <1>4
<1>6. reply' \in [kind : {"none", "start", "stop"}, ok : BOOLEAN, target : Runs0]
      /\ reply'.kind = "start" /\ reply'.target = id
  BY <1>1, <1>3 DEF Runs0
<1>7. id \in Runs0 /\ id # 0 BY <1>3, Parameters DEF Runs0
<1>8. /\ rec' \in Selector /\ NoSample \in Sample /\ NoSample.seq = 0
      /\ rec'.runId = id /\ rec'.active /\ rec'.acq = NoSample /\ rec'.latest = NoSample
      /\ rec'.nextLogSeq = 1
  BY <1>1, <1>7, ResetIs
<1>9. Len(queue') = 0 /\ Len(pending') = 0 BY <1>1, <1>2
<1>10. WriterKnown' BY <1>1, <1>2, <1>3, <1>8, <1>9 DEF WriterKnown
<1>11. StatusIsTrue' /\ published' \in [runId : Runs0, active : BOOLEAN, durable : Nat]
  <2>1. id' \in Runs0 /\ recording' \in BOOLEAN /\ svcDurable' \in Nat BY <1>1, <1>2, <1>7
  <2>2. QED BY <1>1, <1>10, <2>1, PublishIs
<1>12. ServiceTypeOK'
  <2>1. activatedBy' \in [Run -> Request \cup {NoRequest}] BY <1>1, <1>3, <1>4
  <2>2. <<>> \in Seq(Sample) /\ 0 \in Nat OBVIOUS
  <2>3. QED BY <1>1, <1>6, <1>7, <1>8, <1>11, <2>1, <2>2, JobIs DEF SInv, ServiceTypeOK
<1>13. HandlerAt' BY <1>1, <1>2, <1>3 DEF HandlerAt
<1>14. Resting' BY <1>1 DEF Resting
<1>15. TurnsInOrder' BY <1>1, <1>3, <1>9 DEF SInv, TurnsInOrder
<1>16. SelectorOn' BY <1>1, <1>2, <1>8 DEF SelectorOn
<1>17. QueueInOrder' BY <1>9 DEF QueueInOrder
<1>18. NewestIsKnown'
  <2>1. \A i \in 1..Len(queue') : FALSE BY <1>9
  <2>2. QED BY <1>1, <1>3, <1>8, <2>1 DEF NewestIsKnown, Draining
<1>19. OneRunPerStart'
  <2>1. sent[job.request] # Unsent /\ id = sent[job.request].after + 1
    BY <1>1 DEF SInv, OneRunPerStart
  <2>2. ASSUME NEW r \in Run, activatedBy'[r] # NoRequest
        PROVE  /\ sent[activatedBy'[r]] # Unsent /\ r = sent[activatedBy'[r]].after + 1
               /\ r <= id \/ sent[activatedBy'[r]].boot # boot
    <3>1. CASE r = id BY <1>5, <2>1, <3>1, TypeFacts
    <3>2. CASE r # id
      <4>1. /\ sent[activatedBy[r]] # Unsent /\ r = sent[activatedBy[r]].after + 1
            /\ sent[activatedBy[r]].boot = boot => r <= ran
        BY <1>5, <2>2, <3>2 DEF SInv, OneRunPerStart
      <4>2. r \in Nat /\ ran \in Nat /\ id \in Nat /\ ran <= id
        BY Parameters, TypeFacts DEF SInv, LastRun
      <4>3. QED BY <1>5, <3>2, <4>1, <4>2
    <3>3. QED BY <3>1, <3>2
  <2>3. QED BY <1>1, <1>3, <2>2 DEF SInv, OneRunPerStart
<1>20. LastRun'
  <2>1. id <= id BY TypeFacts
  <2>2. QED BY <1>1, <1>2, <2>1 DEF LastRun
<1>21. RunsAreWhole' BY <1>1, <1>2, <1>5 DEF SInv, RunsAreWhole, Kept, Begun
<1>22. RepliesAreTrue' BY <1>5, <1>6 DEF RepliesAreTrue
<1>23. BoundedLoss' BY <1>9 DEF BoundedLoss
<1>24. HealthyMeansSettled' BY <1>1 DEF HealthyMeansSettled
<1>25. QED BY <1>10, <1>11, <1>12, <1>13, <1>14, <1>15, <1>16, <1>17, <1>18, <1>19, <1>20, <1>21,
              <1>22, <1>23, <1>24 DEF SInv

(* Power lost in the middle of an operation leaves a half-made directory that no
   Start began, a torn tail behind the durable records, or a run half deleted. *)
LEMMA PowerCutKeeps == ASSUME IInv, IInv', SInv, PowerCut PROVE SInv'
<1> DEFINE dead == [NoJob EXCEPT !.step = "dead"]
<1>1. /\ recording' = FALSE /\ elapsed' = 0 /\ due' = FALSE
      /\ rec' = Reset(0) /\ queue' = <<>> /\ overflowed' = FALSE /\ storeFailure' = FALSE
      /\ hasDirty' = FALSE /\ dirtySince' = 0 /\ lastSelected' = 0 /\ svcDurable' = 0
      /\ turn' = "limit" /\ job' = dead /\ reply' = NoReply
      /\ UNCHANGED <<sent, activatedBy, state, boot, faults, ran, newest>> /\ Publish
      /\ HalfDone
  BY DEF PowerCut, RamLost
<1>2. dead \in Job /\ dead.step = "dead" /\ dead.caller = "none"
  BY JobIs DEF NoJob, Job, Step
<1> HIDE DEF dead
<1>3. job.step \in {"stage", "flush", "sync", "idle", "drain", "finish"}
      /\ (job.step = "stage" <=> prepared)
  BY <1>1, JobIs DEF HalfDone, Syncing, At, SInv, HandlerAt
<1>4. /\ id' = id /\ activeRun' = activeRun /\ ~prepared'
      /\ \A r \in Run : Kept(r)' /\ Begun(r)' => files'[r] = AllFiles
      /\ \A r \in Run : faults = 0 /\ verdict'[r] # Unended => verdictSynced'[r]
      /\ HealthyMeansSettled'
  <2>1. CASE job.step = "stage" /\ \E where \in Place \ {"deleting"}, done \in 0..AllFiles :
                                       StageFails(job.request, where, done)
    <3>1. PICK where \in Place, done \in 0..AllFiles : StageFails(job.request, where, done)
      BY <2>1
    <3>2. /\ UNCHANGED <<verdict, verdictSynced, id, activeRun, acked>> /\ ~prepared'
          /\ place' = place \/ place' = [place EXCEPT ![id] = where]
      BY <3>1 DEF StageFails
    <3>3. \A r \in Run : Kept(r)' /\ Begun(r)' => files'[r] = AllFiles
      BY <1>1, <2>1, <3>1, StagingIsNotBegun
    <3>4. ran # 0 => place'[ran] = place[ran]
      <4>1. ran < id /\ ran \in Nat /\ id \in Nat /\ ran \in Runs0
        BY <1>3, <2>1, TypeFacts DEF SInv, LastRun, ServiceTypeOK
      <4>2. place \in [Run -> Place] BY DEF IInv, TypeOK, FlashTypeOK
      <4>3. QED BY <3>2, <4>1, <4>2 DEF Runs0
    <3>5. HealthyMeansSettled' BY <1>1, <3>2, <3>4 DEF SInv, HealthyMeansSettled, Kept
    <3>6. QED BY <3>2, <3>3, <3>5 DEF SInv, RunsAreWhole
  <2>2. CASE Sync(FALSE) /\ job.step # "stage"
    <3>1. /\ UNCHANGED <<place, files, request, verdict, verdictSynced, id, prepared, activeRun>>
          /\ activeRun # 0
      BY <2>2 DEF Sync
    <3>2. HealthyMeansSettled' BY <1>1, <3>1 DEF SInv, LastRun, HealthyMeansSettled
    <3>3. QED BY <1>1, <1>3, <2>2, <3>1, <3>2 DEF SInv, RunsAreWhole, Kept, Begun
  <2>3. CASE job.step # "stage" /\ \E r \in Run : DeleteRun(r, FALSE)
    <3>1. PICK r \in Run : DeleteRun(r, FALSE) BY <2>3
    <3>2. /\ id' = id /\ prepared' = prepared /\ activeRun' = activeRun
          /\ place' = [place EXCEPT ![r] = "deleting"]
          /\ files' = [s \in Run |-> IF s \in {r} THEN 0 ELSE files[s]]
          /\ request' = [s \in Run |-> IF s \in {r} THEN NoRequest ELSE request[s]]
          /\ acked' = [s \in Run |-> IF s \in {r} THEN <<>> ELSE acked[s]]
          /\ verdict' = [verdict EXCEPT ![r] = Unended]
          /\ verdictSynced' = [verdictSynced EXCEPT ![r] = FALSE]
      BY <3>1 DEF DeleteRun, Forget, ram
    <3>3. /\ place \in [Run -> Place] /\ verdict \in [Run -> Verdict \cup {Unended}]
          /\ verdictSynced \in [Run -> BOOLEAN]
      BY DEF IInv, TypeOK, FlashTypeOK
    <3>4. \A s \in Run \ {r} : /\ place'[s] = place[s] /\ files'[s] = files[s]
                                /\ request'[s] = request[s] /\ acked'[s] = acked[s]
                                /\ verdict'[s] = verdict[s] /\ verdictSynced'[s] = verdictSynced[s]
      BY <3>2, <3>3
    <3>5. ~Kept(r)' /\ verdict'[r] = Unended BY <3>2, <3>3 DEF Kept
    <3>6. HealthyMeansSettled'
      <4>1. ran \in Runs0 BY DEF SInv, ServiceTypeOK
      <4>2. CASE ran = r BY <1>1, <3>5, <4>2 DEF HealthyMeansSettled
      <4>3. CASE ran # r BY <1>1, <3>4, <4>1, <4>3 DEF SInv, HealthyMeansSettled, Kept, Runs0
      <4>4. QED BY <4>2, <4>3
    <3>7. QED BY <1>1, <1>3, <2>3, <3>2, <3>4, <3>5, <3>6 DEF SInv, RunsAreWhole, Kept, Begun
  <2>4. QED BY <1>1, <2>1, <2>2, <2>3, JobIs DEF HalfDone, Syncing, At
<1>5. id' \in Runs0 BY DEF IInv, TypeOK, RamTypeOK, Runs0
<1>6. rec' \in Selector /\ 0 \in Runs0 BY <1>1, ResetIs DEF Runs0
<1>7. NoReply \in [kind : {"none", "start", "stop"}, ok : BOOLEAN, target : Runs0]
      /\ NoReply.kind = "none"
  BY DEF NoReply, Runs0
<1>8. WriterKnown' /\ NewestIsKnown' /\ SelectorOn' BY <1>1 DEF WriterKnown, NewestIsKnown, SelectorOn
<1>9. StatusIsTrue' /\ published' \in [runId : Runs0, active : BOOLEAN, durable : Nat]
  <2>1. recording' \in BOOLEAN /\ svcDurable' \in Nat BY <1>1
  <2>2. QED BY <1>1, <1>5, <1>8, <2>1, PublishIs
<1>10. ServiceTypeOK'
  <2>1. <<>> \in Seq(Sample) /\ 0 \in Nat OBVIOUS
  <2>2. QED BY <1>1, <1>2, <1>6, <1>7, <1>9, <2>1 DEF SInv, ServiceTypeOK
<1>11. Len(queue') = 0 BY <1>1
<1>12. HandlerAt' /\ Resting' BY <1>1, <1>2, <1>4 DEF HandlerAt, Resting
<1>13. TurnsInOrder'
  <2>1. Len(queue') <= 1 BY <1>11
  <2>2. QED BY <1>1, <1>2, <2>1 DEF TurnsInOrder
<1>14. QueueInOrder' BY <1>11 DEF QueueInOrder
<1>15. OneRunPerStart' BY <1>1, <1>2 DEF SInv, OneRunPerStart
<1>16. LastRun' BY <1>1, <1>4 DEF SInv, LastRun
<1>17. RunsAreWhole' BY <1>1, <1>4 DEF RunsAreWhole
<1>18. RepliesAreTrue' BY <1>1, <1>7 DEF RepliesAreTrue
<1>19. BoundedLoss' BY <1>1 DEF BoundedLoss
<1>20. QED BY <1>4, <1>8, <1>9, <1>10, <1>12, <1>13, <1>14, <1>15, <1>16, <1>17, <1>18, <1>19
          DEF SInv

(* After a reset nothing of the run is left in RAM, and what is kept on flash keeps
   its files; a run.ended frame that survives is durable. *)
LEMMA RestartKeeps == ASSUME IInv, IInv', SInv, Restart PROVE SInv'
<1>1. /\ boot' = boot + 1
      /\ recording' = FALSE /\ elapsed' = 0 /\ due' = FALSE
      /\ rec' = Reset(0) /\ queue' = <<>> /\ overflowed' = FALSE /\ storeFailure' = FALSE
      /\ hasDirty' = FALSE /\ dirtySince' = 0 /\ lastSelected' = 0 /\ svcDurable' = 0
      /\ turn' = "limit" /\ job' = NoJob
      /\ reply' = NoReply /\ ran' = 0 /\ newest' = NoSample
      /\ UNCHANGED <<sent, activatedBy>> /\ Publish
      /\ state' \in {"idle", "recording", "error", "unavailable"}
  BY DEF Restart, RamLost
<1>2. PICK mounted, scanned, loaded \in BOOLEAN :
          Reboot(mounted, scanned, loaded) /\ Spend(~(mounted /\ scanned /\ loaded))
  BY DEF Restart
<1>3. /\ ~prepared' /\ activeRun' = 0 /\ files' = files /\ request' = request
      /\ verdictSynced' = [r \in Run |-> verdict'[r] # Unended]
      /\ RecoverDirectories(mounted)
  BY <1>2 DEF Reboot
<1>4. faults' \in Nat /\ (faults' = 0 => faults = 0)
  <2>1. (~(mounted /\ scanned /\ loaded)) \in BOOLEAN OBVIOUS
  <2>2. QED BY <1>2, <2>1, SpendIs
<1>5. id' \in Runs0 BY DEF IInv, TypeOK, RamTypeOK, Runs0
<1>6. /\ rec' \in Selector /\ NoSample \in Sample /\ 0 \in Runs0
  BY <1>1, ResetIs DEF Runs0
<1>7. NoReply \in [kind : {"none", "start", "stop"}, ok : BOOLEAN, target : Runs0]
      /\ NoReply.kind = "none"
  BY DEF NoReply, Runs0
<1>8. WriterKnown' /\ NewestIsKnown' /\ SelectorOn' BY <1>1 DEF WriterKnown, NewestIsKnown, SelectorOn
<1>9. StatusIsTrue' /\ published' \in [runId : Runs0, active : BOOLEAN, durable : Nat]
  <2>1. recording' \in BOOLEAN /\ svcDurable' \in Nat BY <1>1
  <2>2. QED BY <1>1, <1>5, <1>8, <2>1, PublishIs
<1>10. ServiceTypeOK'
  <2>1. <<>> \in Seq(Sample) /\ 0 \in Nat OBVIOUS
  <2>2. boot' \in Nat \ {0}
    <3>1. boot \in Nat \ {0} BY DEF SInv, ServiceTypeOK
    <3>2. boot + 1 \in Nat \ {0} BY <3>1
    <3>3. QED BY <1>1, <3>2
  <2>3. QED BY <1>1, <1>4, <1>6, <1>7, <1>9, <2>1, <2>2, JobIs DEF SInv, ServiceTypeOK
<1>11. Len(queue') = 0 BY <1>1
<1>12. HandlerAt' /\ Resting' BY <1>1, <1>3, JobIs DEF HandlerAt, Resting
<1>13. TurnsInOrder'
  <2>1. Len(queue') <= 1 BY <1>11
  <2>2. job'.step # "stage" /\ job'.caller # "stop" BY <1>1, JobIs
  <2>3. QED BY <1>1, <2>1, <2>2 DEF TurnsInOrder
<1>14. QueueInOrder' BY <1>11 DEF QueueInOrder
<1>15. OneRunPerStart'
  <2>1. \A q \in Request : sent[q].boot \in Nat /\ sent[q].boot <= boot /\ boot \in Nat
    BY DEF SInv, ServiceTypeOK, OneRunPerStart
  <2>2. \A q \in Request : sent'[q].boot <= boot' /\ sent'[q].boot # boot' BY <1>1, <2>1
  <2>3. activatedBy \in [Run -> Request \cup {NoRequest}] BY DEF SInv, ServiceTypeOK
  <2>4. job'.step # "stage" BY <1>1, JobIs
  <2>5. QED BY <1>1, <2>2, <2>3, <2>4 DEF SInv, OneRunPerStart
<1>16. LastRun'
  <2>1. 0 <= id'
    <3> PICK n \in Nat : n = id' BY <1>5, Parameters DEF Runs0
    <3>1. QED OBVIOUS
  <2>2. QED BY <1>1, <1>3, <2>1 DEF LastRun
<1>17. RunsAreWhole'
  <2>1. \A r \in Run : Kept(r)' => Kept(r) \/ files[r] = AllFiles
    <3> PICK removed \in SUBSET {r \in Run : mounted /\ place[r] = "deleting"},
             renamed \in SUBSET {r \in Run : mounted /\ place[r] = "creating" /\ files[r] = AllFiles} :
          place' = [r \in Run |-> IF r \in removed THEN "none"
                                  ELSE IF r \in renamed THEN "final" ELSE place[r]]
      BY <1>3 DEF RecoverDirectories
    <3>1. QED BY DEF Kept
  <2>2. QED BY <1>1, <1>3, <1>4, <2>1 DEF SInv, RunsAreWhole, Begun
<1>18. RepliesAreTrue' BY <1>1, <1>7 DEF RepliesAreTrue
<1>19. BoundedLoss' BY <1>1 DEF BoundedLoss
<1>20. HealthyMeansSettled' BY <1>1 DEF HealthyMeansSettled
<1>21. QED BY <1>8, <1>9, <1>10, <1>12, <1>13, <1>14, <1>15, <1>16, <1>17, <1>18, <1>19, <1>20
          DEF SInv

-----------------------------------------------------------------------------
(* A handler at work on the run: the clock and what others see stand still. *)
Working ==
    /\ recording /\ UNCHANGED StoreRest
    /\ UNCHANGED <<recording, elapsed, due, overflowed, state, turn, boot, sent, reply,
                   activatedBy, ran, newest>>
    /\ faults' \in Nat /\ (faults' = 0 => faults = 0)
    /\ job'.step # "stage"

(* While a handler works on the run, what concerns other runs, the replies and the
   past is left alone. *)
LEMMA WorkKeeps ==
    ASSUME IInv, SInv, Working
    PROVE  /\ Resting' /\ OneRunPerStart' /\ LastRun' /\ RunsAreWhole' /\ RepliesAreTrue'
           /\ HealthyMeansSettled'
<1>1. /\ recording /\ recording' = recording /\ state' = state /\ sent' = sent /\ reply' = reply
      /\ activatedBy' = activatedBy /\ ran' = ran /\ newest' = newest
      /\ faults' \in Nat /\ (faults' = 0 => faults = 0)
      /\ job'.step # "stage"
      /\ place' = place /\ files' = files /\ verdict' = verdict /\ verdictSynced' = verdictSynced
      /\ id' = id /\ prepared' = prepared /\ activeRun' = activeRun
      /\ request' = request /\ boot' = boot
  BY DEF Working, StoreRest
<1>2. state # "idle" BY <1>1, RecordingHasRun
<1>3. Resting' BY <1>1 DEF Resting
<1>4. OneRunPerStart' BY <1>1 DEF SInv, OneRunPerStart
<1>5. LastRun' BY <1>1 DEF SInv, LastRun
<1>6. RunsAreWhole' BY <1>1 DEF SInv, RunsAreWhole, Kept, Begun
<1>7. RepliesAreTrue' BY <1>1 DEF SInv, RepliesAreTrue, Begun
<1>8. HealthyMeansSettled' BY <1>1, <1>2 DEF HealthyMeansSettled
<1>9. QED BY <1>3, <1>4, <1>5, <1>6, <1>7, <1>8

(* What is published stays true while the durable count only grows. *)
LEMMA StatusKeeps ==
    ASSUME IInv, IInv', SInv, Working, published' = published, durable <= durable'
    PROVE  StatusIsTrue'
<1> PICK d \in Nat : d = durable' BY DEF IInv, TypeOK, RamTypeOK
<1>1. published.durable \in Nat /\ durable \in Nat /\ durable <= d BY TypeFacts
<1>2. /\ recording /\ recording' = recording /\ id' = id /\ prepared' = prepared /\ job'.step # "stage"
  BY DEF Working, StoreRest
<1>3. published.active = recording /\ published.durable <= durable BY <1>2 DEF SInv, StatusIsTrue
<1>4. published.runId = id BY <1>2 DEF SInv, StatusIsTrue, HandlerAt
<1>5. published.durable <= durable' BY <1>1, <1>3
<1>6. QED BY <1>2, <1>3, <1>4, <1>5 DEF StatusIsTrue

(* The head of the queue while draining: select() takes it unless it lies beyond
   the window. *)
LEMMA HeadIs ==
    ASSUME IInv, SInv, Drain
    PROVE  /\ recording /\ job.step = "drain" /\ ~storeFailure /\ rec.active /\ rec.runId = id
           /\ Len(queue) >= 1 /\ Head(queue) = queue[1] /\ queue[1] \in Sample
           /\ queue[1].runId = id /\ queue[1].seq = queue[1].ms + 1 /\ queue[1].ms <= elapsed
           /\ due => queue[1].ms < elapsed
           /\ rec.acq.seq # 0 => rec.acq.ms < queue[1].ms
           /\ Accepts(rec, queue[1]) <=> queue[1].ms <= MaxDuration
           /\ queue' \in Seq(Sample) /\ Len(queue') = Len(queue) - 1
           /\ \A i \in 1..Len(queue') : queue'[i] = queue[i + 1] /\ i + 1 \in 2..Len(queue)
<1>1. job.step = "drain" /\ ~storeFailure /\ queue # <<>> /\ queue' = Tail(queue) BY DEF Drain
<1>2. recording BY <1>1 DEF SInv, HandlerAt
<1>3. rec.active /\ rec.runId = id BY <1>1, <1>2 DEF SInv, SelectorOn, Draining
<1>4. queue \in Seq(Sample) BY SequenceFacts
<1>5. /\ Len(queue) >= 1 /\ Head(queue) = queue[1] /\ 1 \in 1..Len(queue) /\ queue[1] \in Sample
      /\ queue' \in Seq(Sample) /\ Len(queue') = Len(queue) - 1
      /\ \A i \in 1..Len(queue') : queue'[i] = queue[i + 1] /\ i + 1 \in 2..Len(queue)
  BY <1>1, <1>4
<1>6. /\ queue[1].runId = id /\ queue[1].seq = queue[1].ms + 1 /\ queue[1].ms <= elapsed
      /\ due => queue[1].ms < elapsed
      /\ rec.acq.seq # 0 => rec.acq.ms < queue[1].ms
  BY <1>5 DEF SInv, QueueInOrder
<1>7. Accepts(rec, queue[1]) <=> queue[1].ms <= MaxDuration
  <2>1. rec.acq.seq # 0 => rec.acq.seq = rec.acq.ms + 1 BY <1>2 DEF SInv, SelectorOn
  <2>2. queue[1].ms \in Nat /\ rec.acq.ms \in Nat BY <1>5, TypeFacts, SequenceFacts
  <2>3. queue[1].seq # 0 /\ (rec.acq.seq # 0 => queue[1].seq > rec.acq.seq /\ queue[1].ms > rec.acq.ms)
    BY <1>6, <2>1, <2>2
  <2>4. QED BY <1>3, <1>6, <2>3 DEF Accepts
<1>8. QED BY <1>1, <1>2, <1>3, <1>5, <1>6, <1>7

(* The three outcomes of one turn of drainQueue()'s loop. *)
Passed == rec' = rec /\ NoAppend /\ queue[1].ms > MaxDuration
Kept1 == /\ queue[1].ms <= MaxDuration /\ Held(rec, queue[1]) /\ NoAppend
         /\ rec'.acq = queue[1] /\ rec'.latest = queue[1]
         /\ rec'.lastLoggedMs = rec.lastLoggedMs /\ rec'.nextLogSeq = rec.nextLogSeq
Logged1 == /\ queue[1].ms <= MaxDuration /\ ~Held(rec, queue[1])
           /\ rec'.acq = queue[1] /\ rec'.latest = NoSample
           /\ rec'.lastLoggedMs = queue[1].ms /\ rec'.nextLogSeq = rec.nextLogSeq + 1
           /\ \E record : /\ record.logSeq = rec.nextLogSeq /\ record.ms = queue[1].ms
                          /\ Append1(record)

(* One turn is one of them, and keeps the selector open on the run. *)
LEMMA DrainIs ==
    ASSUME IInv, SInv, Drain
    PROVE  /\ rec' \in Selector /\ rec'.runId = id /\ rec'.active
           /\ Passed \/ Kept1 \/ Logged1
<1> DEFINE s == queue[1]
<1>1. /\ rec \in Selector /\ s \in Sample /\ rec.active /\ rec.runId = id /\ Head(queue) = s
      /\ Accepts(rec, s) <=> s.ms <= MaxDuration
      /\ s.ms \in Nat /\ MaxDuration \in Nat
  BY HeadIs, TypeFacts, Parameters DEF Sample
<1>2. \/ NoAppend /\ rec' = rec /\ s.ms > MaxDuration
      \/ /\ rec' = Select(rec, s)
         /\ IF Selected(rec, s) = <<>> THEN NoAppend ELSE Append1(Selected(rec, s)[1])
  BY <1>1 DEF Drain
<1>3. CASE NoAppend /\ rec' = rec /\ s.ms > MaxDuration BY <1>1, <1>3 DEF Passed
<1>4. CASE /\ rec' = Select(rec, s)
           /\ IF Selected(rec, s) = <<>> THEN NoAppend ELSE Append1(Selected(rec, s)[1])
  <2> PICK d : d = rec' OBVIOUS
  <2>1. /\ d \in Selector /\ d.runId = rec.runId /\ d.active = rec.active
        /\ ~Accepts(rec, s) => d = rec /\ Selected(rec, s) = <<>>
        /\ Accepts(rec, s) => d.acq = s
        /\ Accepts(rec, s) /\ Held(rec, s) =>
              /\ Selected(rec, s) = <<>> /\ d.latest = s
              /\ d.lastLoggedMs = rec.lastLoggedMs /\ d.nextLogSeq = rec.nextLogSeq
        /\ Accepts(rec, s) /\ ~Held(rec, s) =>
              /\ Selected(rec, s) # <<>> /\ Selected(rec, s)[1].logSeq = rec.nextLogSeq
              /\ Selected(rec, s)[1].ms = s.ms /\ d.latest = NoSample
              /\ d.lastLoggedMs = s.ms /\ d.nextLogSeq = rec.nextLogSeq + 1
    <3>1. d = Select(rec, s) BY <1>4
    <3>2. rec \in Selector /\ s \in Sample BY <1>1
    <3> HIDE DEF s
    <3>3. QED BY ONLY <3>1, <3>2, SelectIs
  <2>2. CASE ~Accepts(rec, s)
    <3>1. s.ms > MaxDuration BY <1>1, <2>2
    <3>2. QED BY <1>1, <1>4, <2>1, <2>2, <3>1 DEF Passed
  <2>3. CASE Accepts(rec, s) /\ Held(rec, s) BY <1>1, <1>4, <2>1, <2>3 DEF Kept1
  <2>4. CASE Accepts(rec, s) /\ ~Held(rec, s) BY <1>1, <1>4, <2>1, <2>4 DEF Logged1
  <2>5. QED BY <2>2, <2>3, <2>4
<1>5. QED BY <1>2, <1>3, <1>4

(* What appendSelected() leaves of the service's account of the store. *)
LEMMA Append1Is ==
    ASSUME IInv, SInv, NEW record, record.ms \in Reading, record.logSeq \in Nat, Append1(record)
    PROVE  /\ UNCHANGED StoreRest
           /\ faults' \in Nat /\ (faults' = 0 => faults = 0)
           /\ \/ /\ AppendTaken(record.ms) /\ record.logSeq = durable + Len(pending) + 1
                 /\ lastSelected' = record.logSeq /\ hasDirty' /\ storeFailure' = storeFailure
                 /\ dirtySince' = IF hasDirty THEN dirtySince ELSE record.ms
              \/ /\ AppendLost /\ storeFailure' = TRUE
                 /\ UNCHANGED <<lastSelected, hasDirty, dirtySince>>
           /\ lastSelected' \in Nat /\ dirtySince' \in Nat /\ hasDirty' \in BOOLEAN
           /\ storeFailure' \in BOOLEAN
<1>0. /\ lastSelected \in Nat /\ dirtySince \in Nat /\ hasDirty \in BOOLEAN /\ storeFailure \in BOOLEAN
      /\ Reading \subseteq Nat
  BY Parameters DEF SInv, ServiceTypeOK
<1>1. CASE /\ AppendSelected(record.logSeq, record.ms)
           /\ lastSelected' = record.logSeq
           /\ hasDirty' = TRUE
           /\ dirtySince' = IF hasDirty THEN dirtySince ELSE record.ms
           /\ Spend(FALSE) /\ UNCHANGED storeFailure
  <2>1. AppendTaken(record.ms) /\ UNCHANGED StoreRest /\ record.logSeq = durable + Len(pending) + 1
    BY <1>1, AppendEffect
  <2>2. faults' \in Nat /\ (faults' = 0 => faults = 0) BY <1>1, SpendIs
  <2>3. QED BY <1>0, <1>1, <2>1, <2>2
<1>2. CASE /\ AppendRefused
           /\ storeFailure' = TRUE
           /\ Spend(~writerFailed)
           /\ UNCHANGED <<lastSelected, hasDirty, dirtySince>>
  <2>1. AppendLost /\ UNCHANGED StoreRest BY <1>2, AppendEffect
  <2>2. faults' \in Nat /\ (faults' = 0 => faults = 0)
    <3>1. (~writerFailed) \in BOOLEAN OBVIOUS
    <3>2. QED BY <1>2, <3>1, SpendIs
  <2>3. QED BY <1>0, <1>2, <2>1, <2>2
<1>3. QED BY <1>1, <1>2 DEF Append1

(* A step of the service that leaves the store alone. *)
LEMMA NoAppendIs ==
    ASSUME IInv, SInv, NoAppend
    PROVE  /\ UNCHANGED StoreRest /\ UNCHANGED <<durable, pending, writerFailed, acked>>
           /\ UNCHANGED <<lastSelected, hasDirty, dirtySince, storeFailure>>
           /\ faults' \in Nat /\ (faults' = 0 => faults = 0)
  BY DEF NoAppend, archiveVars, flash, ram, StoreRest, SInv, ServiceTypeOK

(* One more interval since the last record makes room for one more record. *)
LEMMA OneMore ==
    ASSUME NEW n \in Nat, n >= 2, NEW L \in Nat, NEW a \in Nat, NEW b \in Nat,
           (n - 2) * L <= a, b - a >= L
    PROVE  (n - 1) * L <= b
<1>1. (n - 1) * L = (n - 2) * L + L OBVIOUS
<1>2. (n - 2) * L \in Int OBVIOUS
<1>3. QED BY <1>1, <1>2

(* The selector after one turn of the loop. *)
LEMMA DrainSelector == ASSUME IInv, SInv, Drain PROVE SelectorOn'
<1> PICK s : s = queue[1] OBVIOUS
<1>1. /\ recording /\ job.step = "drain" /\ rec.active
      /\ s \in Sample /\ s.ms \in Nat /\ s.seq = s.ms + 1 /\ s.ms <= elapsed
      /\ due => s.ms < elapsed
      /\ rec.acq.seq # 0 => rec.acq.ms < s.ms
  BY HeadIs DEF Sample
<1>2. rec'.runId = id /\ rec'.active /\ (Passed \/ Kept1 \/ Logged1) BY DrainIs
<1>3. /\ recording' /\ elapsed' = elapsed /\ due' = due /\ job' = job
  BY <1>1 DEF Drain
<1>4. id' = id
  <2>1. CASE NoAppend BY <2>1, NoAppendIs DEF StoreRest
  <2>2. CASE Logged1
    BY <2>2 DEF Logged1, Append1, AppendSelected, AppendRefused
  <2>3. QED BY <1>2, <2>1, <2>2 DEF Passed, Kept1
<1>5. CASE Passed BY <1>1, <1>2, <1>3, <1>4, <1>5 DEF Passed, SInv, SelectorOn, Draining
<1>6. NoSample.seq = 0 /\ rec.nextLogSeq \in Nat \ {0} /\ rec.lastLoggedMs \in Nat /\ rec.acq.ms \in Nat
      /\ LogInterval \in Nat \ {0} /\ MaxDuration \in Nat /\ elapsed \in Nat
  BY TypeFacts, Parameters DEF NoSample
<1>7. /\ rec.acq.seq = 0 => rec.nextLogSeq = 1
      /\ rec.acq.seq # 0 => rec.lastLoggedMs <= rec.acq.ms
      /\ rec.nextLogSeq > 1 => (rec.nextLogSeq - 2) * LogInterval <= rec.lastLoggedMs
  BY <1>1 DEF SInv, SelectorOn
<1>8. CASE Kept1
  <2>1. /\ s.ms <= MaxDuration /\ rec'.acq = s /\ rec'.latest = s
        /\ rec'.lastLoggedMs = rec.lastLoggedMs /\ rec'.nextLogSeq = rec.nextLogSeq
        /\ rec.nextLogSeq > 1
    BY <1>8 DEF Kept1, Held
  <2>2. rec'.lastLoggedMs <= s.ms BY <1>1, <1>6, <1>7, <2>1
  <2>3. s.seq # 0 BY <1>1
  <2>4. rec'.nextLogSeq > 1 => (rec'.nextLogSeq - 2) * LogInterval <= rec'.lastLoggedMs
    BY <1>7, <2>1
  <2>5. QED BY <1>1, <1>2, <1>3, <1>4, <2>1, <2>2, <2>3, <2>4 DEF SelectorOn, Draining
<1>9. CASE Logged1
  <2>1. /\ s.ms <= MaxDuration /\ rec'.acq = s /\ rec'.latest = NoSample
        /\ rec'.lastLoggedMs = s.ms /\ rec'.nextLogSeq = rec.nextLogSeq + 1
        /\ ~(rec.nextLogSeq > 1 /\ s.ms - rec.lastLoggedMs < LogInterval)
    BY <1>9 DEF Logged1, Held
  <2>2. (rec'.nextLogSeq - 2) * LogInterval <= rec'.lastLoggedMs
    <3> PICK n \in Nat \ {0} : n = rec.nextLogSeq BY <1>6
    <3> PICK b \in Nat : b = s.ms BY <1>1
    <3> PICK a \in Nat : a = rec.lastLoggedMs BY <1>6
    <3> PICK L \in Nat \ {0} : L = LogInterval BY <1>6
    <3>1. (n - 1) * L <= b
      <4>1. CASE n = 1 BY <4>1
      <4>2. CASE n >= 2
        <5>1. (n - 2) * L <= a BY <1>7, <4>2
        <5>2. b - a >= L BY <2>1, <4>2
        <5>3. QED BY <4>2, <5>1, <5>2, OneMore
      <4>3. QED BY <4>1, <4>2
    <3>2. rec'.nextLogSeq - 2 = n - 1 BY <2>1
    <3>3. QED BY <2>1, <3>1, <3>2
  <2>3. s.ms <= s.ms /\ s.seq # 0 BY <1>1
  <2>4. QED BY <1>1, <1>2, <1>3, <1>4, <1>6, <2>1, <2>2, <2>3 DEF SelectorOn, Draining
<1>10. QED BY <1>2, <1>5, <1>8, <1>9

(* The rest of the queue after it. *)
LEMMA DrainQueue == ASSUME IInv, SInv, Drain, id' = id PROVE QueueInOrder'
<1>1. /\ Len(queue) \in Nat /\ Len(queue) >= 1 /\ Len(queue') = Len(queue) - 1
      /\ \A i \in 1..Len(queue') : queue'[i] = queue[i + 1] /\ i + 1 \in 2..Len(queue)
      /\ elapsed' = elapsed /\ due' = due
  BY HeadIs, SequenceFacts DEF Drain
<1>2. rec' = rec \/ rec'.acq = queue[1] BY DrainIs DEF Passed, Kept1, Logged1
<1>3. SUFFICES ASSUME NEW i \in 1..Len(queue')
               PROVE  /\ queue'[i].runId = id /\ queue'[i].seq = queue'[i].ms + 1
                      /\ queue'[i].ms <= elapsed
                      /\ due => queue'[i].ms < elapsed
                      /\ rec'.acq.seq # 0 => rec'.acq.ms < queue'[i].ms
                      /\ \A j \in 1..(i - 1) : queue'[j].ms < queue'[i].ms
  BY <1>1 DEF QueueInOrder
<1>4. queue'[i] = queue[i + 1] /\ i + 1 \in 2..Len(queue) /\ i + 1 \in 1..Len(queue)
      /\ 1 \in 1..((i + 1) - 1)
  BY <1>1
<1>5. /\ queue[i + 1].runId = id /\ queue[i + 1].seq = queue[i + 1].ms + 1
      /\ queue[i + 1].ms <= elapsed
      /\ due => queue[i + 1].ms < elapsed
      /\ rec.acq.seq # 0 => rec.acq.ms < queue[i + 1].ms
      /\ \A j \in 1..((i + 1) - 1) : queue[j].ms < queue[i + 1].ms
  BY <1>4 DEF SInv, QueueInOrder
<1>6. rec'.acq.seq # 0 => rec'.acq.ms < queue'[i].ms BY <1>2, <1>4, <1>5
<1>7. ASSUME NEW j \in 1..(i - 1) PROVE queue'[j].ms < queue'[i].ms
  <2>1. j \in 1..Len(queue') /\ j + 1 \in 1..((i + 1) - 1) BY <1>1
  <2>2. queue'[j] = queue[j + 1] BY <1>1, <2>1
  <2>3. QED BY <1>4, <1>5, <2>1, <2>2
<1>8. QED BY <1>4, <1>5, <1>6, <1>7

(* A turn of the loop as the service's account of the store sees it: nothing is
   appended, or one reading is, or the store has failed. *)
Took(x) ==
    /\ AppendTaken(x) /\ rec.nextLogSeq = durable + Len(pending) + 1
    /\ lastSelected' = rec.nextLogSeq /\ hasDirty' /\ storeFailure' = storeFailure
    /\ dirtySince' = IF hasDirty THEN dirtySince ELSE x
Idled == UNCHANGED <<durable, pending, writerFailed, acked, lastSelected, hasDirty, dirtySince,
                     storeFailure>>
Broke == AppendLost /\ storeFailure' = TRUE /\ UNCHANGED <<lastSelected, hasDirty, dirtySince>>

(* One turn, with the selector's and the store's side of it together. *)
LEMMA DrainStore ==
    ASSUME IInv, SInv, Drain
    PROVE  /\ Working /\ published' = published /\ svcDurable' = svcDurable /\ job' = job
           /\ \/ Passed /\ Idled
              \/ Kept1 /\ Idled
              \/ Logged1 /\ Took(queue[1].ms)
              \/ Logged1 /\ Broke
           /\ lastSelected' \in Nat /\ dirtySince' \in Nat /\ hasDirty' \in BOOLEAN
           /\ storeFailure' \in BOOLEAN
<1>1. /\ recording /\ job.step = "drain" /\ queue[1] \in Sample BY HeadIs
<1>2. UNCHANGED <<recording, elapsed, due, overflowed, svcDurable, state, published, turn, job, boot,
                  sent, reply, activatedBy, ran, newest>>
  BY DEF Drain, historyVars
<1>3. CASE NoAppend /\ (Passed \/ Kept1)
  <2>1. /\ UNCHANGED StoreRest /\ faults' \in Nat /\ (faults' = 0 => faults = 0) /\ Idled
    BY <1>3, NoAppendIs DEF Idled
  <2>2. Working BY <1>1, <1>2, <2>1 DEF Working
  <2>3. lastSelected' \in Nat /\ dirtySince' \in Nat /\ hasDirty' \in BOOLEAN /\ storeFailure' \in BOOLEAN
    BY <2>1 DEF Idled, SInv, ServiceTypeOK
  <2>4. QED BY <1>2, <1>3, <2>1, <2>2, <2>3
<1>4. CASE Logged1
  <2>1. PICK record : record.logSeq = rec.nextLogSeq /\ record.ms = queue[1].ms /\ Append1(record)
    BY <1>4 DEF Logged1
  <2>2. record.ms \in Reading /\ record.logSeq \in Nat
    <3>1. queue[1].ms \in Nat /\ queue[1].ms <= MaxDuration BY <1>1, <1>4 DEF Logged1, Sample
    <3>2. record.ms \in Reading BY <2>1, <3>1, Parameters
    <3>3. QED BY <2>1, <3>2, TypeFacts
  <2>3. /\ UNCHANGED StoreRest
        /\ faults' \in Nat /\ (faults' = 0 => faults = 0)
        /\ \/ /\ AppendTaken(record.ms) /\ record.logSeq = durable + Len(pending) + 1
              /\ lastSelected' = record.logSeq /\ hasDirty' /\ storeFailure' = storeFailure
              /\ dirtySince' = IF hasDirty THEN dirtySince ELSE record.ms
           \/ /\ AppendLost /\ storeFailure' = TRUE
              /\ UNCHANGED <<lastSelected, hasDirty, dirtySince>>
        /\ lastSelected' \in Nat /\ dirtySince' \in Nat /\ hasDirty' \in BOOLEAN
        /\ storeFailure' \in BOOLEAN
    BY <2>1, <2>2, Append1Is
  <2>4. Took(queue[1].ms) \/ Broke BY <2>1, <2>3 DEF Took, Broke
  <2>5. Working BY <1>1, <1>2, <2>3 DEF Working
  <2>6. QED BY <1>2, <1>4, <2>3, <2>4, <2>5
<1>5. QED BY <1>3, <1>4, DrainIs DEF Passed, Kept1

(* After a turn the newest sample of the window is known to be ahead, held or logged,
   unless the store has just failed. *)
LEMMA DrainNewest == ASSUME IInv, SInv, Drain PROVE NewestIsKnown'
<1> PICK s : s = queue[1] OBVIOUS
<1>0. /\ recording /\ job.step = "drain" /\ s \in Sample /\ s.ms \in Nat /\ s.seq = s.ms + 1
      /\ Len(queue) \in Nat /\ Len(queue) >= 1 /\ Len(queue') = Len(queue) - 1
      /\ \A i \in 1..Len(queue') : queue'[i] = queue[i + 1] /\ i + 1 \in 2..Len(queue)
  BY HeadIs, SequenceFacts DEF Sample
<1>1. /\ overflowed' = overflowed /\ newest' = newest /\ job' = job /\ id' = id /\ recording' = recording
      /\ ~storeFailure
      /\ \/ Passed /\ Idled
         \/ Kept1 /\ Idled
         \/ Logged1 /\ Took(s.ms)
         \/ Logged1 /\ Broke
  BY HeadIs, DrainStore DEF Working, StoreRest
<1>2. SUFFICES ASSUME recording', Healthy' PROVE
        /\ rec'.acq.seq # 0 /\ rec'.latest.seq = 0 => LoggedLast(rec.acq.ms)'
        /\ \/ newest = rec'.acq /\ \A i \in 1..Len(queue') : queue'[i].ms > MaxDuration
           \/ \E i \in 1..Len(queue') :
                 /\ newest = queue'[i] /\ newest.ms <= MaxDuration
                 /\ \A j \in (i + 1)..Len(queue') : queue'[j].ms > MaxDuration
  BY <1>0, <1>1 DEF NewestIsKnown, Draining
<1>3. Healthy /\ ~(Logged1 /\ Broke)
  BY <1>1, <1>2 DEF Healthy, Broke
<1>4. /\ rec.acq.seq # 0 /\ rec.latest.seq = 0 => LoggedLast(rec.acq.ms)
      /\ \/ newest = rec.acq /\ \A i \in 1..Len(queue) : queue[i].ms > MaxDuration
         \/ \E i \in 1..Len(queue) :
               /\ newest = queue[i] /\ newest.ms <= MaxDuration
               /\ \A j \in (i + 1)..Len(queue) : queue[j].ms > MaxDuration
  BY <1>0, <1>3 DEF SInv, NewestIsKnown, Draining
<1>5. rec'.acq.seq # 0 /\ rec'.latest.seq = 0 => LoggedLast(rec.acq.ms)'
  <2>1. CASE Passed /\ Idled BY <1>1, <1>4, <2>1 DEF Passed, Idled, LoggedLast
  <2>2. CASE Kept1
    <3>1. rec'.latest.seq # 0 BY <1>0, <2>2 DEF Kept1
    <3>2. QED BY <3>1
  <2>3. CASE Logged1 /\ Took(s.ms)
    <3>1. rec'.acq.ms = s.ms /\ pending' # <<>> /\ pending'[Len(pending')] = s.ms
      BY <2>3 DEF Logged1, Took, AppendTaken
    <3>2. QED BY <3>1 DEF LoggedLast
  <2>4. QED BY <1>1, <1>3, <2>1, <2>2, <2>3
<1>6. \/ rec' = rec /\ s.ms > MaxDuration
      \/ rec'.acq = s /\ s.ms <= MaxDuration
  BY <1>1 DEF Passed, Kept1, Logged1
<1>7. MaxDuration \in Nat /\ 1 \in 1..Len(queue) BY <1>0, Parameters
<1>8. \A j \in 1..Len(queue') : queue'[j] = queue[j + 1] /\ j + 1 \in 1..Len(queue) BY <1>0
<1>9. CASE newest = rec.acq /\ \A i \in 1..Len(queue) : queue[i].ms > MaxDuration
  <2>1. rec' = rec BY <1>0, <1>6, <1>7, <1>9
  <2>2. QED BY <1>5, <1>8, <1>9, <2>1
<1>10. ASSUME NEW i \in 1..Len(queue), newest = queue[i], newest.ms <= MaxDuration,
              \A j \in (i + 1)..Len(queue) : queue[j].ms > MaxDuration
       PROVE  \/ newest = rec'.acq /\ \A k \in 1..Len(queue') : queue'[k].ms > MaxDuration
              \/ \E k \in 1..Len(queue') :
                    /\ newest = queue'[k] /\ newest.ms <= MaxDuration
                    /\ \A j \in (k + 1)..Len(queue') : queue'[j].ms > MaxDuration
  <2>1. CASE i = 1
    <3>1. newest = rec'.acq BY <1>0, <1>6, <1>7, <1>10, <2>1
    <3>2. \A k \in 1..Len(queue') : queue'[k].ms > MaxDuration BY <1>0, <1>10, <2>1
    <3>3. QED BY <3>1, <3>2
  <2>2. CASE i # 1
    <3>1. i - 1 \in 1..Len(queue') BY <1>0, <2>2
    <3>2. queue'[i - 1] = queue[i] BY <1>0, <3>1
    <3>3. \A j \in ((i - 1) + 1)..Len(queue') : queue'[j].ms > MaxDuration
      <4>1. SUFFICES ASSUME NEW j \in ((i - 1) + 1)..Len(queue') PROVE queue'[j].ms > MaxDuration
        OBVIOUS
      <4>2. j \in 1..Len(queue') /\ j + 1 \in (i + 1)..Len(queue) BY <1>0
      <4>3. QED BY <1>8, <1>10, <4>2
    <3>4. QED BY <1>10, <3>1, <3>2, <3>3
  <2>3. QED BY <2>1, <2>2
<1>11. QED BY <1>4, <1>5, <1>9, <1>10

(* One turn of drainQueue()'s loop keeps the invariant. *)
LEMMA DrainKeeps == ASSUME IInv, IInv', SInv, Drain PROVE SInv'
<1> PICK s : s = queue[1] OBVIOUS
<1>1. /\ recording /\ job.step = "drain" /\ ~storeFailure /\ s \in Sample /\ s.ms \in Nat
      /\ s.seq = s.ms + 1 /\ s.seq # 0
      /\ Len(queue) \in Nat /\ Len(queue) >= 1 /\ queue' \in Seq(Sample)
      /\ Len(queue') = Len(queue) - 1
      /\ rec.acq.seq # 0 => rec.acq.ms < s.ms
  BY HeadIs, SequenceFacts DEF Sample
<1>2. /\ Working /\ published' = published /\ svcDurable' = svcDurable /\ job' = job
      /\ \/ Passed /\ Idled
         \/ Kept1 /\ Idled
         \/ Logged1 /\ Took(s.ms)
         \/ Logged1 /\ Broke
      /\ lastSelected' \in Nat /\ dirtySince' \in Nat /\ hasDirty' \in BOOLEAN
      /\ storeFailure' \in BOOLEAN
  BY DrainStore
<1>3. rec' \in Selector /\ rec'.active BY DrainIs
<1>4. /\ recording' = recording /\ elapsed' = elapsed /\ due' = due /\ overflowed' = overflowed
      /\ state' = state /\ turn' = turn /\ boot' = boot /\ sent' = sent /\ reply' = reply
      /\ activatedBy' = activatedBy /\ ran' = ran /\ newest' = newest /\ faults' \in Nat
      /\ id' = id /\ prepared' = prepared /\ activeRun' = activeRun
  BY <1>2 DEF Working, StoreRest
<1>5. /\ Resting' /\ OneRunPerStart' /\ LastRun' /\ RunsAreWhole' /\ RepliesAreTrue'
      /\ HealthyMeansSettled'
  BY <1>2, WorkKeeps
<1>6. durable <= durable'
  <2>1. durable \in Nat BY TypeFacts
  <2>2. QED BY <1>2, <2>1 DEF Idled, Took, AppendTaken, Broke, AppendLost
<1>7. StatusIsTrue' BY <1>2, <1>6, StatusKeeps
<1>8. ServiceTypeOK' BY <1>1, <1>2, <1>3, <1>4 DEF SInv, ServiceTypeOK
<1>9. HandlerAt' BY <1>1, <1>2, <1>4 DEF SInv, HandlerAt
<1>10. TurnsInOrder'
  <2>1. LoopOrder => Len(queue) <= 1 /\ ~overflowed /\ turn \notin {"limit", "tick"} BY <1>1 DEF SInv, TurnsInOrder
  <2>2. job # NoJob BY <1>1, JobIs
  <2>3. LoopOrder => Len(queue') <= 1 BY <1>1, <2>1
  <2>4. QED BY <1>1, <1>2, <1>4, <2>1, <2>2, <2>3 DEF SInv, TurnsInOrder
<1>11. SelectorOn' BY DrainSelector
<1>12. QueueInOrder' BY <1>4, DrainQueue
<1>13. NewestIsKnown' BY DrainNewest
<1>14. BoundedLoss' BY <1>1, <1>2, JobIs DEF BoundedLoss
<1>15. WriterKnown'
  <2>1. /\ activeRun = id /\ id \in Run
        /\ lastSelected = durable + Len(pending)
        /\ rec.nextLogSeq = lastSelected + 1
        /\ svcDurable <= durable
        /\ ~hasDirty => pending = <<>>
        /\ hasDirty => /\ rec.acq.seq # 0 /\ dirtySince <= rec.acq.ms
                       /\ \A i \in 1..Len(pending) : dirtySince <= pending[i]
    <3>1. rec.active /\ job.step # "end" BY <1>1, HeadIs
    <3>2. QED BY <1>1, <3>1 DEF SInv, WriterKnown
  <2>2. svcDurable' <= durable'
    <3> PICK d \in Nat : d = durable' BY DEF IInv, TypeOK, RamTypeOK
    <3>1. svcDurable <= d BY <1>6, <2>1, TypeFacts
    <3>2. QED BY <1>2, <3>1
  <2>3. dirtySince \in Nat /\ rec.acq.ms \in Nat BY TypeFacts
  <2>4. CASE Idled
    <3>1. /\ durable' = durable /\ pending' = pending /\ lastSelected' = lastSelected
          /\ hasDirty' = hasDirty /\ dirtySince' = dirtySince /\ storeFailure' = storeFailure
      BY <2>4 DEF Idled
    <3>2. rec'.nextLogSeq = rec.nextLogSeq /\ (rec' = rec \/ rec'.acq = s)
      BY <1>2, <1>1, <2>1, <2>4, <1>6, TypeFacts DEF Passed, Kept1, Logged1, Idled, Took, Broke
    <3>3. hasDirty => rec'.acq.seq # 0 /\ dirtySince <= rec'.acq.ms
      BY <1>1, <2>1, <2>3, <3>2
    <3>4. QED BY <1>1, <1>4, <2>1, <2>2, <3>1, <3>2, <3>3 DEF WriterKnown
  <2>5. CASE Logged1 /\ Took(s.ms)
    <3>1. /\ lastSelected' = rec.nextLogSeq /\ hasDirty' /\ ~storeFailure' /\ rec'.acq = s
          /\ rec'.nextLogSeq = rec.nextLogSeq + 1
          /\ rec.nextLogSeq = durable' + Len(pending')
          /\ dirtySince' = IF hasDirty THEN dirtySince ELSE s.ms
          /\ \A i \in 1..Len(pending') : \/ pending'[i] = s.ms
                                         \/ \E j \in 1..Len(pending) : pending'[i] = pending[j]
      BY <1>1, <2>5 DEF Logged1, Took, AppendTaken
    <3>2. dirtySince' <= s.ms
      <4>1. CASE hasDirty BY <1>1, <2>1, <2>3, <3>1, <4>1
      <4>2. CASE ~hasDirty
        <5>1. s.ms <= s.ms BY <1>1
        <5>2. QED BY <3>1, <4>2, <5>1
      <4>3. QED BY <4>1, <4>2
    <3>3. \A i \in 1..Len(pending') : dirtySince' <= pending'[i]
      <4>1. CASE hasDirty BY <2>1, <3>1, <3>2, <4>1
      <4>2. CASE ~hasDirty
        <5>1. \A j \in 1..Len(pending) : FALSE
          <6>1. pending = <<>> BY <2>1, <4>2
          <6>2. Len(pending) = 0 BY <6>1
          <6>3. QED BY <6>2
        <5>2. QED BY <3>1, <3>2, <5>1
      <4>3. QED BY <4>1, <4>2
    <3>4. lastSelected' = durable' + Len(pending') /\ rec'.nextLogSeq = lastSelected' + 1
      BY <3>1
    <3>5. s.seq # 0 BY <1>1
    <3>6. QED BY <1>4, <2>1, <2>2, <3>1, <3>2, <3>3, <3>4, <3>5 DEF WriterKnown
  <2>6. CASE Broke
    <3>1. writerFailed' /\ storeFailure' BY <2>6 DEF Broke, AppendLost
    <3>2. QED BY <1>4, <2>1, <2>2, <3>1 DEF WriterKnown
  <2>7. QED BY <1>2, <2>4, <2>5, <2>6
<1>16. QED BY <1>5, <1>7, <1>8, <1>9, <1>10, <1>11, <1>12, <1>13, <1>14, <1>15 DEF SInv

-----------------------------------------------------------------------------
(* finalizeRun() is entered on behalf of the same caller. *)
LEMMA FinalizingIs ==
    ASSUME SInv, NEW status \in Verdict
    PROVE  /\ Finalizing(status) \in Job /\ Finalizing(status).step = "finish"
           /\ Finalizing(status).status = status /\ Finalizing(status).caller = job.caller
           /\ Finalizing(status).target = job.target
<1>1. job \in Job /\ (status # LimitHit /\ elapsed > MaxDuration) \in BOOLEAN
  BY DEF SInv, ServiceTypeOK
<1>2. QED BY <1>1 DEF Finalizing, Job, Step

(* drainQueue() is done: the run ends, the dirty records are flushed, or poll() returns
   with nothing older than the flush period. *)
LEMMA DrainDoneKeeps == ASSUME IInv, IInv', SInv, DrainDone PROVE SInv'
<1>1. /\ job.step = "drain" /\ (storeFailure \/ queue = <<>>)
      /\ job' = IF overflowed \/ storeFailure THEN Finalizing(StorageError)
                ELSE IF job.caller = "limit" THEN Finalizing(LimitHit)
                ELSE IF job.caller = "stop" THEN Finalizing(Complete)
                ELSE IF hasDirty /\ elapsed - dirtySince >= Flush
                     THEN [job EXCEPT !.step = "flush"] ELSE NoJob
      /\ UNCHANGED <<recording, elapsed, due, rec, queue, overflowed, storeFailure, hasDirty,
                     dirtySince, lastSelected, svcDurable, state, published, turn, boot, faults,
                     sent, reply, activatedBy, ran, newest>>
      /\ UNCHANGED StoreSeen
  BY StoreUnseen DEF DrainDone, serviceVars, historyVars
<1>2. /\ recording /\ job \in Job /\ job.caller \in {"limit", "poll", "stop"} /\ job # NoJob
      /\ job.caller = "stop" => job.target = id
      /\ overflowed \in BOOLEAN /\ storeFailure \in BOOLEAN /\ hasDirty \in BOOLEAN
  BY <1>1, JobIs DEF SInv, HandlerAt, ServiceTypeOK
<1>3. \/ /\ job' \in Job /\ job'.step = "finish" /\ job'.caller = job.caller /\ job'.target = job.target
         /\ job'.status # StorageError => Healthy /\ queue = <<>>
      \/ /\ job' \in Job /\ job'.step = "flush" /\ job'.caller = job.caller /\ job'.target = job.target
         /\ Healthy /\ queue = <<>>
      \/ /\ job' = NoJob /\ Healthy /\ queue = <<>>
         /\ ~(hasDirty /\ elapsed - dirtySince >= Flush)
  <2>1. CASE overflowed \/ storeFailure
    <3>1. job' = Finalizing(StorageError) /\ StorageError \in Verdict BY <1>1, <2>1, Parameters
    <3>2. QED BY <3>1, FinalizingIs
  <2>2. CASE ~(overflowed \/ storeFailure)
    <3>1. Healthy /\ queue = <<>> BY <1>1, <2>2 DEF Healthy
    <3>2. CASE job.caller = "limit"
      <4>1. job' = Finalizing(LimitHit) /\ LimitHit \in Verdict BY <1>1, <2>2, <3>2, Parameters
      <4>2. QED BY <3>1, <4>1, FinalizingIs
    <3>3. CASE job.caller = "stop"
      <4>1. job' = Finalizing(Complete) /\ Complete \in Verdict BY <1>1, <2>2, <3>3, Parameters
      <4>2. QED BY <3>1, <4>1, FinalizingIs
    <3>4. CASE job.caller = "poll" /\ hasDirty /\ elapsed - dirtySince >= Flush
      <4>1. job' = [job EXCEPT !.step = "flush"] BY <1>1, <2>2, <3>4
      <4>2. QED BY <1>2, <3>1, <4>1 DEF Job, Step
    <3>5. CASE job.caller = "poll" /\ ~(hasDirty /\ elapsed - dirtySince >= Flush)
      <4>1. job' = NoJob BY <1>1, <2>2, <3>5
      <4>2. QED BY <3>1, <3>5, <4>1
    <3>6. QED BY <1>2, <3>2, <3>3, <3>4, <3>5
  <2>3. QED BY <2>1, <2>2
<1>4. /\ job' \in Job /\ job'.step \in {"finish", "flush", "idle"}
      /\ job'.step = "idle" => job' = NoJob
      /\ job'.caller = "stop" => job.caller = "stop" /\ job'.target = id
      /\ job'.step # "idle" => job'.caller \in {"limit", "poll", "stop"}
  BY <1>2, <1>3, JobIs
<1>5. Working BY <1>1, <1>2, <1>4 DEF Working, StoreSeen, StoreRest, SInv, ServiceTypeOK, DrainDone,
                                      archiveVars, flash, ram
<1>6. /\ Resting' /\ OneRunPerStart' /\ LastRun' /\ RunsAreWhole' /\ RepliesAreTrue'
      /\ HealthyMeansSettled'
  BY <1>5, WorkKeeps
<1>7. StatusIsTrue'
  <2>1. durable <= durable' BY <1>1, TypeFacts DEF StoreSeen
  <2>2. QED BY <1>1, <1>5, <2>1, StatusKeeps
<1>8. ServiceTypeOK' BY <1>1, <1>4 DEF SInv, ServiceTypeOK
<1>9. HandlerAt'
  <2>1. ~prepared' /\ id' = id BY <1>1 DEF SInv, HandlerAt, StoreSeen
  <2>2. QED BY <1>1, <1>2, <1>3, <1>4, <2>1 DEF HandlerAt, Healthy
<1>10. TurnsInOrder'
  <2>1. LoopOrder => /\ Len(queue) <= 1 /\ ~overflowed /\ reply = NoReply /\ turn # "poll"
                     /\ job.caller = "stop" => turn = "limit"
                     /\ turn \in {"limit", "tick"} => queue = <<>>
    BY <1>2 DEF SInv, TurnsInOrder
  <2>2. job' = NoJob => queue = <<>> BY <1>3, <1>4, JobIs
  <2>3. QED BY <1>1, <1>4, <2>1, <2>2 DEF TurnsInOrder
<1>11. SelectorOn' /\ QueueInOrder'
  BY <1>1, <1>4 DEF SInv, SelectorOn, QueueInOrder, Draining, StoreSeen
<1>12. WriterKnown' BY <1>1, <1>4 DEF SInv, WriterKnown, StoreSeen
<1>13. NewestIsKnown'
  BY <1>1, <1>4 DEF SInv, NewestIsKnown, Healthy, Draining, LoggedLast, StoreSeen
<1>14. BoundedLoss'
  <2>1. SUFFICES ASSUME job' = NoJob, NEW i \in 1..Len(pending) PROVE elapsed - pending[i] < Flush
    BY <1>1 DEF BoundedLoss, StoreSeen
  <2>2. ~storeFailure /\ ~(hasDirty /\ elapsed - dirtySince >= Flush)
    BY <1>3, <2>1, JobIs DEF Healthy
  <2>3. CASE hasDirty
    <3>1. dirtySince <= pending[i] BY <1>2, <2>1, <2>2, <2>3 DEF SInv, WriterKnown
    <3>2. elapsed \in Nat /\ dirtySince \in Nat /\ pending[i] \in Nat /\ Flush \in Nat
      BY <2>1, TypeFacts, SequenceFacts, Parameters
    <3>3. elapsed - dirtySince < Flush BY <2>2, <2>3, <3>2
    <3>4. QED BY <3>1, <3>2, <3>3
  <2>4. CASE ~hasDirty
    <3>1. pending = <<>> BY <1>1, <1>2, <2>2, <2>4 DEF SInv, WriterKnown
    <3>2. Len(pending) = 0 BY <3>1
    <3>3. QED BY <2>1, <3>2
  <2>5. QED BY <2>3, <2>4
<1>15. QED BY <1>6, <1>7, <1>8, <1>9, <1>10, <1>11, <1>12, <1>13, <1>14 DEF SInv

(* poll()'s flush: the dirty records become durable, or the run ends in error. *)
LEMMA FlushDueKeeps == ASSUME IInv, IInv', SInv, FlushDue PROVE SInv'
<1>1. PICK ok \in BOOLEAN :
          /\ Sync(ok)
          /\ Spend(~ok /\ ~writerFailed)
          /\ IF ok
             THEN svcDurable' = lastSelected /\ hasDirty' = FALSE /\ job' = NoJob
                  /\ UNCHANGED storeFailure
             ELSE storeFailure' = TRUE /\ job' = Finalizing(StorageError)
                  /\ UNCHANGED <<svcDurable, hasDirty>>
          /\ IF ok THEN published' = [published EXCEPT !.durable = svcDurable']
                   ELSE UNCHANGED published
  BY DEF FlushDue
<1>2. /\ job.step = "flush"
      /\ UNCHANGED <<recording, elapsed, due, rec, queue, overflowed, dirtySince, lastSelected,
                     state, turn, boot, sent, reply, activatedBy, ran, newest>>
  BY DEF FlushDue, historyVars
<1>3. /\ recording /\ ~storeFailure /\ queue = <<>> /\ job \in Job /\ job # NoJob
      /\ job.caller \in {"limit", "poll", "stop"}
      /\ job.caller = "stop" => job.target = id
  BY <1>2, JobIs DEF SInv, HandlerAt, ServiceTypeOK
<1>4. /\ SyncSeen(ok) /\ activeRun = id /\ id \in Run
      /\ \A t : LoggedLast(t) => LoggedLast(t)'
  BY <1>1, <1>3, SyncIsSeen, RecordingHasRun
<1>5. /\ UNCHANGED StoreRest /\ id' = id /\ prepared' = prepared /\ activeRun' = activeRun
      /\ durable <= durable' /\ durable' + Len(pending') = durable + Len(pending)
      /\ ok => durable' = durable + Len(pending) /\ pending' = <<>>
      /\ ~ok => writerFailed'
  BY <1>4 DEF SyncSeen, StoreRest
<1>6. /\ job' \in Job /\ job'.step \in {"finish", "idle"} /\ (ok => job' = NoJob)
      /\ ok => job'.step = "idle"
      /\ ~ok => /\ job'.step = "finish" /\ job'.status = StorageError /\ job'.caller = job.caller
                /\ job'.target = job.target
  <2>1. CASE ok BY <1>1, <2>1, JobIs
  <2>2. CASE ~ok
    <3>1. StorageError \in Verdict BY Parameters
    <3>2. QED BY <1>1, <2>2, <3>1, FinalizingIs
  <2>3. QED BY <2>1, <2>2
<1>7. Working
  <2>1. (~ok /\ ~writerFailed) \in BOOLEAN OBVIOUS
  <2>2. faults' \in Nat /\ (faults' = 0 => faults = 0) BY <1>1, <2>1, SpendIs
  <2>3. QED BY <1>2, <1>3, <1>5, <1>6, <2>2 DEF Working
<1>8. /\ Resting' /\ OneRunPerStart' /\ LastRun' /\ RunsAreWhole' /\ RepliesAreTrue'
      /\ HealthyMeansSettled'
  BY <1>7, WorkKeeps
<1>9. lastSelected = durable + Len(pending) /\ svcDurable <= durable
      /\ (rec.active => rec.nextLogSeq = lastSelected + 1)
      /\ (hasDirty => /\ rec.acq.seq # 0 /\ dirtySince <= rec.acq.ms
                      /\ \A i \in 1..Len(pending) : dirtySince <= pending[i])
      /\ (~hasDirty => pending = <<>>)
  BY <1>2, <1>3 DEF SInv, WriterKnown
<1>10. svcDurable' \in Nat /\ svcDurable' <= durable'
  <2> PICK d \in Nat : d = durable' BY DEF IInv, TypeOK, RamTypeOK
  <2>1. CASE ok
    <3>1. svcDurable' = lastSelected /\ durable' = lastSelected BY <1>1, <1>5, <1>9, <2>1
    <3>2. lastSelected <= lastSelected /\ lastSelected \in Nat BY TypeFacts
    <3>3. QED BY <3>1, <3>2
  <2>2. CASE ~ok
    <3>1. svcDurable' = svcDurable BY <1>1, <2>2
    <3>2. svcDurable <= d BY <1>5, <1>9, TypeFacts
    <3>3. QED BY <3>1, <3>2, TypeFacts
  <2>3. QED BY <2>1, <2>2
<1>11. StatusIsTrue' /\ published' \in [runId : Runs0, active : BOOLEAN, durable : Nat]
  <2>1. published \in [runId : Runs0, active : BOOLEAN, durable : Nat] BY DEF SInv, ServiceTypeOK
  <2>2. CASE ok
    <3>1. /\ published' \in [runId : Runs0, active : BOOLEAN, durable : Nat]
          /\ published'.runId = published.runId /\ published'.active = published.active
          /\ published'.durable = svcDurable'
      BY <1>1, <1>10, <2>1, <2>2
    <3>2. published.active = recording /\ published.runId = id BY <1>2 DEF SInv, StatusIsTrue
    <3>3. QED BY <1>2, <1>5, <1>10, <3>1, <3>2 DEF StatusIsTrue
  <2>3. CASE ~ok
    <3>1. published' = published BY <1>1, <2>3
    <3>2. QED BY <1>5, <1>7, <2>1, <3>1, StatusKeeps
  <2>4. QED BY <2>2, <2>3
<1>12. ServiceTypeOK'
  <2>1. hasDirty' \in BOOLEAN /\ storeFailure' \in BOOLEAN /\ faults' \in Nat
    BY <1>1, <1>7 DEF SInv, ServiceTypeOK, Working
  <2>2. QED BY <1>2, <1>6, <1>10, <1>11, <2>1 DEF SInv, ServiceTypeOK
<1>13. HandlerAt'
  <2>1. ~prepared' BY <1>2, <1>5 DEF SInv, HandlerAt
  <2>2. ok => ~storeFailure' /\ job'.caller = "none" BY <1>1, <1>3, JobIs
  <2>3. QED BY <1>2, <1>3, <1>5, <1>6, <2>1, <2>2 DEF HandlerAt
<1>14. TurnsInOrder'
  <2>1. LoopOrder => /\ Len(queue) <= 1 /\ ~overflowed /\ reply = NoReply /\ turn # "poll"
                     /\ job.caller = "stop" => turn = "limit"
    BY <1>3 DEF SInv, TurnsInOrder
  <2>2. job'.caller = "stop" => job.caller = "stop" BY <1>6, JobIs
  <2>3. QED BY <1>2, <1>3, <1>6, <2>1, <2>2 DEF TurnsInOrder
<1>15. SelectorOn' BY <1>2, <1>5, <1>6 DEF SInv, SelectorOn, Draining
<1>16. QueueInOrder' BY <1>2, <1>5 DEF SInv, QueueInOrder
<1>17. WriterKnown'
  <2>1. CASE ok
    <3>1. Len(pending') = 0 /\ hasDirty' = FALSE BY <1>1, <1>5, <2>1
    <3>2. storeFailure' = storeFailure BY <1>1, <2>1
    <3>3. QED BY <1>2, <1>3, <1>4, <1>5, <1>9, <1>10, <2>1, <3>1, <3>2 DEF WriterKnown
  <2>2. CASE ~ok
    <3>1. storeFailure' = TRUE BY <1>1, <2>2
    <3>2. QED BY <1>2, <1>3, <1>4, <1>5, <1>10, <2>2, <3>1 DEF WriterKnown
  <2>3. QED BY <2>1, <2>2
<1>18. NewestIsKnown'
  <2>1. CASE ok
    <3>1. storeFailure' = storeFailure BY <1>1, <2>1
    <3>2. QED BY <1>2, <1>4, <1>6, <2>1, <3>1 DEF SInv, NewestIsKnown, Healthy, Draining
  <2>2. CASE ~ok
    <3>1. storeFailure' = TRUE BY <1>1, <2>2
    <3>2. QED BY <3>1 DEF NewestIsKnown, Healthy
  <2>3. QED BY <2>1, <2>2
<1>19. BoundedLoss'
  <2>1. CASE ok
    <3>1. Len(pending') = 0 BY <1>5, <2>1
    <3>2. QED BY <3>1 DEF BoundedLoss
  <2>2. CASE ~ok BY <1>6, <2>2, JobIs DEF BoundedLoss
  <2>3. QED BY <2>1, <2>2
<1>20. QED BY <1>8, <1>11, <1>12, <1>13, <1>14, <1>15, <1>16, <1>17, <1>18, <1>19 DEF SInv

(* finalizeRun()'s first part as the service's account of the store sees it. *)
LEMMA FinishSelectionIs ==
    ASSUME IInv, SInv, FinishSelection
    PROVE  /\ recording /\ Working /\ published' = published /\ svcDurable' = svcDurable
           /\ queue' = queue
           /\ rec' \in Selector /\ rec'.runId = rec.runId /\ rec'.acq = rec.acq
           /\ \/ storeFailure /\ rec' = rec /\ Idled
              \/ /\ ~storeFailure /\ ~rec'.active /\ ~MustFinish(rec) /\ Idled
                 /\ rec'.latest = rec.latest /\ rec'.lastLoggedMs = rec.lastLoggedMs
                 /\ rec'.nextLogSeq = rec.nextLogSeq
              \/ /\ ~storeFailure /\ ~rec'.active /\ MustFinish(rec)
                 /\ rec'.latest = NoSample /\ rec'.lastLoggedMs = rec.latest.ms
                 /\ rec.latest = rec.acq /\ rec.acq.seq # 0
                 /\ Took(rec.acq.ms) \/ Broke
           /\ job' \in Job /\ job'.step = "sync" /\ job'.caller = job.caller
           /\ job'.target = job.target
           /\ job'.status = IF storeFailure' THEN StorageError ELSE job.status
           /\ lastSelected' \in Nat /\ dirtySince' \in Nat /\ hasDirty' \in BOOLEAN
           /\ storeFailure' \in BOOLEAN
<1>1. /\ job.step = "finish" /\ job \in Job
      /\ job' = [job EXCEPT !.step = "sync",
                            !.status = IF storeFailure' THEN StorageError ELSE job.status]
      /\ UNCHANGED <<recording, elapsed, due, queue, overflowed, svcDurable, state, published,
                     turn, boot, sent, reply, activatedBy, ran, newest>>
  BY DEF FinishSelection, historyVars, SInv, ServiceTypeOK
<1>2. recording BY <1>1 DEF SInv, HandlerAt
<1>3. rec \in Selector BY TypeFacts
<1>4. /\ job' \in Job /\ job'.step = "sync" /\ job'.caller = job.caller /\ job'.target = job.target
      /\ job'.status = IF storeFailure' THEN StorageError ELSE job.status
  BY <1>1, Parameters DEF Job, Step
<1>5. /\ storeFailure \in BOOLEAN /\ hasDirty \in BOOLEAN /\ lastSelected \in Nat /\ dirtySince \in Nat
  BY DEF SInv, ServiceTypeOK
<1>6. ASSUME NoAppend
      PROVE  /\ Working /\ Idled
             /\ lastSelected' \in Nat /\ dirtySince' \in Nat /\ hasDirty' \in BOOLEAN
             /\ storeFailure' \in BOOLEAN
  <2>1. /\ UNCHANGED StoreRest /\ Idled /\ faults' \in Nat /\ (faults' = 0 => faults = 0)
    BY <1>6, NoAppendIs DEF Idled
  <2>2. Working BY <1>1, <1>2, <1>4, <2>1 DEF Working
  <2>3. QED BY <1>5, <2>1, <2>2 DEF Idled
<1>7. CASE storeFailure
  <2>1. NoAppend /\ rec' = rec BY <1>7 DEF FinishSelection
  <2>2. QED BY <1>1, <1>2, <1>3, <1>4, <1>6, <1>7, <2>1
<1>8. CASE ~storeFailure
  <2> PICK d : d = rec' OBVIOUS
  <2>1. d = Finish(rec) BY <1>8 DEF FinishSelection
  <2>2. /\ d \in Selector /\ d.runId = rec.runId /\ ~d.active /\ d.acq = rec.acq
        /\ ~MustFinish(rec) => d.latest = rec.latest /\ d.lastLoggedMs = rec.lastLoggedMs
                             /\ d.nextLogSeq = rec.nextLogSeq
        /\ MustFinish(rec) => /\ Finished(rec)[1].logSeq = rec.nextLogSeq
                              /\ Finished(rec)[1].ms = rec.latest.ms
                              /\ d.latest = NoSample /\ d.lastLoggedMs = rec.latest.ms
                              /\ d.nextLogSeq = rec.nextLogSeq + 1
    BY ONLY <1>3, <2>1, FinishIs
  <2>3. CASE ~MustFinish(rec)
    <3>1. NoAppend BY <1>8, <2>3 DEF FinishSelection
    <3>2. QED BY <1>1, <1>2, <1>4, <1>6, <1>8, <2>2, <2>3, <3>1
  <2>4. CASE MustFinish(rec)
    <3> PICK record : record = Finished(rec)[1] OBVIOUS
    <3>1. Append1(record) BY <1>8, <2>4 DEF FinishSelection
    <3>2. rec.latest = rec.acq /\ rec.acq.seq # 0 /\ rec.latest.ms \in Reading
      BY <1>2, <2>4, HeldFits
    <3>3. record.logSeq = rec.nextLogSeq /\ record.ms = rec.acq.ms BY <2>2, <2>4, <3>2
    <3>4. record.ms \in Reading /\ record.logSeq \in Nat
      <4>1. record.ms \in Reading BY <3>2, <3>3
      <4>2. QED BY <3>3, <4>1, TypeFacts
    <3>5. /\ UNCHANGED StoreRest
          /\ faults' \in Nat /\ (faults' = 0 => faults = 0)
          /\ \/ /\ AppendTaken(record.ms) /\ record.logSeq = durable + Len(pending) + 1
                /\ lastSelected' = record.logSeq /\ hasDirty' /\ storeFailure' = storeFailure
                /\ dirtySince' = IF hasDirty THEN dirtySince ELSE record.ms
             \/ /\ AppendLost /\ storeFailure' = TRUE
                /\ UNCHANGED <<lastSelected, hasDirty, dirtySince>>
          /\ lastSelected' \in Nat /\ dirtySince' \in Nat /\ hasDirty' \in BOOLEAN
          /\ storeFailure' \in BOOLEAN
      BY <3>1, <3>4, Append1Is
    <3>6. Took(rec.acq.ms) \/ Broke BY <3>3, <3>5 DEF Took, Broke
    <3>7. Working BY <1>1, <1>2, <1>4, <3>5 DEF Working
    <3>8. QED BY <1>1, <1>2, <1>4, <1>8, <2>2, <2>4, <3>2, <3>5, <3>6, <3>7
  <2>5. QED BY <2>3, <2>4
<1>9. QED BY <1>5, <1>7, <1>8

(* Once the selector is closed the newest sample of the window is logged, unless the
   run ends in error. *)
LEMMA FinishNewest == ASSUME IInv, SInv, FinishSelection PROVE NewestIsKnown'
<1>1. /\ recording /\ job.step = "finish" /\ id' = id /\ newest' = newest /\ overflowed' = overflowed
      /\ job'.step = "sync" /\ job'.status = IF storeFailure' THEN StorageError ELSE job.status
      /\ \/ storeFailure /\ rec' = rec /\ Idled
         \/ /\ ~storeFailure /\ ~MustFinish(rec) /\ Idled
         \/ /\ ~storeFailure /\ MustFinish(rec)
            /\ rec.latest = rec.acq /\ rec.acq.seq # 0
            /\ Took(rec.acq.ms) \/ Broke
      /\ job'.step \notin {"idle", "drain", "flush", "finish"}
  BY FinishSelectionIs DEF Working, StoreRest, FinishSelection
<1>2. SUFFICES ASSUME Healthy', job'.status # StorageError
               PROVE newest = NoSample \/ LoggedLast(newest.ms)'
  BY <1>1 DEF NewestIsKnown, Draining
<1>3. ~storeFailure' /\ job.status # StorageError BY <1>1, <1>2 DEF Healthy
<1>4. Healthy /\ queue = <<>> BY <1>1, <1>3 DEF SInv, HandlerAt
<1>5. newest = rec.acq
  <2>1. \A i \in 1..Len(queue) : FALSE
    <3>1. Len(queue) = 0 BY <1>4
    <3>2. QED BY <3>1
  <2>2. QED BY <1>1, <1>4, <2>1 DEF SInv, NewestIsKnown, Draining
<1>6. CASE rec.acq.seq = 0 BY <1>1, <1>5, <1>6 DEF SInv, SelectorOn
<1>7. CASE rec.acq.seq # 0 /\ rec.latest.seq = 0
  <2>1. LoggedLast(rec.acq.ms) BY <1>1, <1>4, <1>7 DEF SInv, NewestIsKnown, Draining
  <2>2. Idled BY <1>1, <1>7 DEF MustFinish
  <2>3. QED BY <1>1, <1>5, <2>1, <2>2 DEF Idled, LoggedLast
<1>8. CASE rec.latest.seq # 0
  <2>1. MustFinish(rec) BY <1>1, <1>8 DEF SInv, SelectorOn, Draining, MustFinish
  <2>2. Took(rec.acq.ms) BY <1>1, <1>3, <1>4, <2>1 DEF Healthy, Broke
  <2>3. pending' # <<>> /\ pending'[Len(pending')] = rec.acq.ms BY <2>2 DEF Took, AppendTaken
  <2>4. newest'.ms = rec.acq.ms BY <1>1, <1>5
  <2>5. QED BY <2>3, <2>4 DEF LoggedLast
<1>9. QED BY <1>6, <1>7, <1>8

(* The first part of finalizeRun() keeps the invariant. *)
LEMMA FinishSelectionKeeps == ASSUME IInv, IInv', SInv, FinishSelection PROVE SInv'
<1>1. /\ recording /\ Working /\ published' = published /\ svcDurable' = svcDurable /\ queue' = queue
      /\ rec' \in Selector /\ rec'.runId = rec.runId /\ rec'.acq = rec.acq
      /\ job' \in Job /\ job'.step = "sync" /\ job'.caller = job.caller
      /\ job'.target = job.target
      /\ job'.status = IF storeFailure' THEN StorageError ELSE job.status
      /\ lastSelected' \in Nat /\ dirtySince' \in Nat /\ hasDirty' \in BOOLEAN
      /\ storeFailure' \in BOOLEAN
  BY FinishSelectionIs
<1>2. \/ storeFailure /\ rec' = rec /\ Idled
      \/ /\ ~storeFailure /\ ~rec'.active /\ ~MustFinish(rec) /\ Idled
         /\ rec'.latest = rec.latest /\ rec'.lastLoggedMs = rec.lastLoggedMs
         /\ rec'.nextLogSeq = rec.nextLogSeq
      \/ /\ ~storeFailure /\ ~rec'.active /\ MustFinish(rec)
         /\ rec'.latest = NoSample /\ rec'.lastLoggedMs = rec.latest.ms
         /\ rec.latest = rec.acq /\ rec.acq.seq # 0
         /\ Took(rec.acq.ms) \/ Broke
  BY FinishSelectionIs
<1>3. /\ recording' = recording /\ elapsed' = elapsed /\ due' = due /\ overflowed' = overflowed
      /\ state' = state /\ turn' = turn /\ boot' = boot /\ sent' = sent /\ reply' = reply
      /\ activatedBy' = activatedBy /\ ran' = ran /\ newest' = newest /\ faults' \in Nat
      /\ id' = id /\ prepared' = prepared /\ activeRun' = activeRun
  BY <1>1 DEF Working, StoreRest
<1>4. job.step = "finish" /\ job # NoJob /\ job.caller \in {"limit", "poll", "stop"}
      /\ (job.caller = "stop" => job.target = id) /\ job \in Job /\ ~prepared
  <2>1. job.step = "finish" BY DEF FinishSelection
  <2>2. QED BY <2>1, JobIs DEF SInv, HandlerAt, ServiceTypeOK
<1>5. /\ Resting' /\ OneRunPerStart' /\ LastRun' /\ RunsAreWhole' /\ RepliesAreTrue'
      /\ HealthyMeansSettled'
  BY <1>1, WorkKeeps
<1>6. durable <= durable'
  <2>1. durable \in Nat BY TypeFacts
  <2>2. QED BY <1>2, <2>1 DEF Idled, Took, AppendTaken, Broke, AppendLost
<1>7. StatusIsTrue' BY <1>1, <1>6, StatusKeeps
<1>8. ServiceTypeOK' BY <1>1, <1>3 DEF SInv, ServiceTypeOK
<1>9. HandlerAt'
  <2>1. job'.status # StorageError => ~storeFailure' /\ ~overflowed'
    <3>1. job'.status # StorageError => ~storeFailure' /\ job.status # StorageError BY <1>1
    <3>2. job.status # StorageError => Healthy BY <1>4 DEF SInv, HandlerAt
    <3>3. QED BY <1>3, <3>1, <3>2 DEF Healthy
  <2>2. QED BY <1>1, <1>3, <1>4, <2>1 DEF HandlerAt, Healthy
<1>10. TurnsInOrder'
  <2>1. LoopOrder => /\ Len(queue) <= 1 /\ ~overflowed /\ reply = NoReply /\ turn # "poll"
                     /\ job.caller = "stop" => turn = "limit"
                     /\ turn \in {"limit", "tick"} => queue = <<>>
    BY <1>4 DEF SInv, TurnsInOrder
  <2>2. job' # NoJob BY <1>1, JobIs
  <2>3. QED BY <1>1, <1>3, <2>1, <2>2 DEF TurnsInOrder
<1>11. SelectorOn'
  <2>1. /\ rec.runId = id
        /\ rec.acq.seq = 0 => rec.acq = NoSample /\ rec.nextLogSeq = 1
        /\ rec.acq.seq # 0 => /\ rec.acq.seq = rec.acq.ms + 1
                              /\ rec.acq.ms <= MaxDuration /\ rec.acq.ms <= elapsed
                              /\ due => rec.acq.ms < elapsed
                              /\ rec.lastLoggedMs <= rec.acq.ms
        /\ rec.latest.seq # 0 => rec.latest = rec.acq
        /\ rec.active /\ rec.nextLogSeq > 1 =>
               (rec.nextLogSeq - 2) * LogInterval <= rec.lastLoggedMs
    BY <1>1 DEF SInv, SelectorOn
  <2>2. CASE storeFailure /\ rec' = rec BY <1>1, <1>3, <2>1, <2>2 DEF SelectorOn, Draining
  <2>3. CASE /\ ~rec'.active
             /\ rec'.latest = rec.latest /\ rec'.lastLoggedMs = rec.lastLoggedMs
             /\ rec'.nextLogSeq = rec.nextLogSeq
    BY <1>1, <1>3, <2>1, <2>3 DEF SelectorOn, Draining
  <2>4. CASE /\ ~rec'.active
             /\ rec'.latest = NoSample /\ rec'.lastLoggedMs = rec.latest.ms
             /\ rec.latest = rec.acq /\ rec.acq.seq # 0
    <3>1. rec'.lastLoggedMs <= rec.acq.ms /\ NoSample.seq = 0 BY <2>4, TypeFacts DEF NoSample
    <3>2. QED BY <1>1, <1>3, <2>1, <2>4, <3>1 DEF SelectorOn, Draining
  <2>5. QED BY <1>2, <2>2, <2>3, <2>4
<1>12. QueueInOrder' BY <1>1, <1>3 DEF SInv, QueueInOrder
<1>13. NewestIsKnown' BY FinishNewest
<1>14. BoundedLoss' BY <1>1, JobIs DEF BoundedLoss
<1>15. WriterKnown'
  <2>1. /\ activeRun = id /\ id \in Run /\ svcDurable <= durable
        /\ ~storeFailure => /\ lastSelected = durable + Len(pending)
                            /\ ~hasDirty => pending = <<>>
                            /\ hasDirty => /\ rec.acq.seq # 0 /\ dirtySince <= rec.acq.ms
                                           /\ \A i \in 1..Len(pending) : dirtySince <= pending[i]
        /\ storeFailure => writerFailed
    <3>1. job.step # "end" BY <1>4
    <3>2. QED BY <1>1, <3>1 DEF SInv, WriterKnown
  <2>2. svcDurable' <= durable'
    <3> PICK d \in Nat : d = durable' BY DEF IInv, TypeOK, RamTypeOK
    <3>1. svcDurable <= d BY <1>6, <2>1, TypeFacts
    <3>2. QED BY <1>1, <3>1
  <2>3. dirtySince \in Nat /\ rec.acq.ms \in Nat BY TypeFacts
  <2>4. CASE storeFailure /\ Idled BY <1>3, <2>1, <2>2, <2>4 DEF WriterKnown, Idled
  <2>5. CASE ~storeFailure /\ ~rec'.active /\ Idled
    BY <1>1, <1>3, <2>1, <2>2, <2>5 DEF WriterKnown, Idled
  <2>6. CASE ~storeFailure /\ ~rec'.active /\ rec.acq.seq # 0 /\ Took(rec.acq.ms)
    <3> PICK x \in Nat : x = rec.acq.ms BY <2>3
    <3>1. /\ lastSelected' = rec.nextLogSeq /\ hasDirty' /\ ~storeFailure' /\ rec'.acq = rec.acq
          /\ rec.nextLogSeq = durable' + Len(pending')
          /\ dirtySince' = IF hasDirty THEN dirtySince ELSE x
          /\ \A i \in 1..Len(pending') : \/ pending'[i] = x
                                         \/ \E j \in 1..Len(pending) : pending'[i] = pending[j]
      BY <1>1, <2>6 DEF Took, AppendTaken
    <3>2. dirtySince' <= x
      <4>1. CASE hasDirty BY <2>1, <2>6, <3>1, <4>1
      <4>2. CASE ~hasDirty
        <5>1. x <= x OBVIOUS
        <5>2. QED BY <3>1, <4>2, <5>1
      <4>3. QED BY <4>1, <4>2
    <3>3. \A i \in 1..Len(pending') : dirtySince' <= pending'[i]
      <4>1. CASE hasDirty BY <2>1, <2>6, <3>1, <3>2, <4>1
      <4>2. CASE ~hasDirty
        <5>1. \A j \in 1..Len(pending) : FALSE
          <6>1. pending = <<>> BY <2>1, <2>6, <4>2
          <6>2. Len(pending) = 0 BY <6>1
          <6>3. QED BY <6>2
        <5>2. QED BY <3>1, <3>2, <5>1
      <4>3. QED BY <4>1, <4>2
    <3>4. lastSelected' = durable' + Len(pending') BY <3>1
    <3>5. QED BY <1>3, <2>1, <2>2, <2>6, <3>1, <3>2, <3>3, <3>4 DEF WriterKnown
  <2>7. CASE Broke
    <3>1. writerFailed' /\ storeFailure' BY <2>7 DEF Broke, AppendLost
    <3>2. QED BY <1>3, <2>1, <2>2, <3>1 DEF WriterKnown
  <2>8. QED BY <1>2, <2>4, <2>5, <2>6, <2>7
<1>16. QED BY <1>5, <1>7, <1>8, <1>9, <1>10, <1>11, <1>12, <1>13, <1>14, <1>15 DEF SInv

(* finalizeRun()'s second part keeps the invariant: the tail becomes durable, or the
   run ends in error. *)
LEMMA SyncTailKeeps == ASSUME IInv, IInv', SInv, SyncTail PROVE SInv'
<1>1. /\ job.step = "sync" /\ hasDirty' = FALSE
      /\ UNCHANGED <<recording, elapsed, due, rec, queue, overflowed, storeFailure, dirtySince,
                     lastSelected, state, published, turn, boot, sent, reply, activatedBy, ran,
                     newest>>
  BY DEF SyncTail, historyVars
<1>2. /\ recording /\ job \in Job /\ job # NoJob /\ job.caller \in {"limit", "poll", "stop"}
      /\ job.caller = "stop" => job.target = id
      /\ job.status # StorageError => Healthy
      /\ ~prepared
  BY <1>1, JobIs DEF SInv, HandlerAt, ServiceTypeOK
<1>3. activeRun = id /\ id \in Run BY <1>2, RecordingHasRun
<1>4. /\ UNCHANGED StoreRest /\ faults' \in Nat /\ (faults' = 0 => faults = 0)
      /\ durable <= durable' /\ durable' + Len(pending') = durable + Len(pending)
      /\ \A t : LoggedLast(t) => LoggedLast(t)'
      /\ writerFailed => writerFailed'
      /\ \/ svcDurable' = svcDurable
         \/ svcDurable' = lastSelected /\ ~writerFailed /\ durable' = durable + Len(pending)
      /\ \/ job' = [job EXCEPT !.step = "end"]
         \/ job' = [job EXCEPT !.step = "end", !.status = StorageError]
  <2>1. CASE ~hasDirty
    <3>1. UNCHANGED <<archiveVars, svcDurable, faults>> /\ job' = [job EXCEPT !.step = "end"]
      BY <2>1 DEF SyncTail
    <3>2. /\ UNCHANGED StoreRest /\ durable' = durable /\ pending' = pending /\ acked' = acked /\ id' = id
          /\ writerFailed' = writerFailed
      BY <3>1 DEF archiveVars, flash, ram, StoreRest
    <3>3. durable <= durable /\ faults \in Nat BY TypeFacts DEF SInv, ServiceTypeOK
    <3>4. \A t : LoggedLast(t) => LoggedLast(t)' BY <3>2 DEF LoggedLast
    <3>5. QED BY <3>1, <3>2, <3>3, <3>4
  <2>2. CASE hasDirty
    <3>1. PICK ok \in BOOLEAN :
              /\ Sync(ok)
              /\ Spend(~ok /\ ~writerFailed)
              /\ svcDurable' = IF ok THEN lastSelected ELSE svcDurable
              /\ job' = [job EXCEPT !.step = "end",
                                    !.status = IF ok THEN job.status ELSE StorageError]
      BY <2>2 DEF SyncTail
    <3>2. SyncSeen(ok) /\ \A t : LoggedLast(t) => LoggedLast(t)' BY <1>3, <3>1, SyncIsSeen
    <3>3. faults' \in Nat /\ (faults' = 0 => faults = 0)
      <4>1. (~ok /\ ~writerFailed) \in BOOLEAN OBVIOUS
      <4>2. QED BY <3>1, <4>1, SpendIs
    <3>4. /\ UNCHANGED StoreRest /\ durable <= durable'
          /\ durable' + Len(pending') = durable + Len(pending)
          /\ ok => ~writerFailed /\ durable' = durable + Len(pending)
          /\ ~ok => writerFailed'
      BY <3>2 DEF SyncSeen
    <3>5. CASE ok
      <4>1. job' = [job EXCEPT !.step = "end"]
        <5>1. job.status = job.status OBVIOUS
        <5>2. job' = [[job EXCEPT !.step = "end"] EXCEPT !.status = job.status] BY <3>1, <3>5
        <5>3. QED BY <1>2, <5>2 DEF Job
      <4>2. QED BY <3>1, <3>2, <3>3, <3>4, <3>5, <4>1
    <3>6. CASE ~ok BY <3>1, <3>2, <3>3, <3>4, <3>6
    <3>7. QED BY <3>5, <3>6
  <2>3. hasDirty \in BOOLEAN BY DEF SInv, ServiceTypeOK
  <2>4. QED BY <2>1, <2>2, <2>3
<1>5. /\ job' \in Job /\ job'.step = "end" /\ job'.caller = job.caller /\ job'.target = job.target
      /\ job'.status # StorageError => job'.status = job.status
  BY <1>2, <1>4, Parameters, ZenonT(60) DEF Job, Step
<1>6. id' = id /\ prepared' = prepared /\ activeRun' = activeRun BY <1>4 DEF StoreRest
<1>7. Working BY <1>1, <1>2, <1>4, <1>5 DEF Working
<1>8. /\ Resting' /\ OneRunPerStart' /\ LastRun' /\ RunsAreWhole' /\ RepliesAreTrue'
      /\ HealthyMeansSettled'
  BY <1>7, WorkKeeps
<1>9. StatusIsTrue' BY <1>1, <1>4, <1>7, StatusKeeps
<1>10. /\ svcDurable <= durable /\ (storeFailure => writerFailed)
       /\ (~storeFailure => lastSelected = durable + Len(pending))
       /\ (rec.active /\ ~storeFailure => rec.nextLogSeq = lastSelected + 1)
  BY <1>2 DEF SInv, WriterKnown
<1>11. svcDurable' \in Nat /\ svcDurable' <= durable'
  <2> PICK d \in Nat : d = durable' BY DEF IInv, TypeOK, RamTypeOK
  <2>1. CASE svcDurable' = svcDurable
    <3>1. svcDurable <= d BY <1>4, <1>10, TypeFacts
    <3>2. QED BY <2>1, <3>1, TypeFacts
  <2>2. CASE svcDurable' = lastSelected /\ ~writerFailed /\ durable' = durable + Len(pending)
    <3>1. durable' = lastSelected /\ lastSelected \in Nat BY <1>10, <2>2, TypeFacts
    <3>2. lastSelected <= lastSelected BY <3>1
    <3>3. QED BY <2>2, <3>1, <3>2
  <2>3. QED BY <1>4, <2>1, <2>2
<1>12. ServiceTypeOK'
  <2>1. ServiceTypeOK BY DEF SInv
  <2>2. hasDirty' \in BOOLEAN BY <1>1, Zenon
  <2>3. faults' \in Nat /\ svcDurable' \in Nat /\ job' \in Job BY <1>4, <1>5, <1>11
  <2>4. QED BY <1>1, <2>1, <2>2, <2>3 DEF ServiceTypeOK
<1>13. HandlerAt' BY <1>1, <1>2, <1>5, <1>6 DEF HandlerAt, Healthy
<1>14. TurnsInOrder'
  <2>1. LoopOrder => /\ Len(queue) <= 1 /\ ~overflowed /\ reply = NoReply /\ turn # "poll"
                     /\ job.caller = "stop" => turn = "limit"
                     /\ turn \in {"limit", "tick"} => queue = <<>>
    BY <1>2 DEF SInv, TurnsInOrder
  <2>2. job' # NoJob BY <1>5, JobIs
  <2>3. QED BY <1>1, <1>5, <2>1, <2>2 DEF TurnsInOrder
<1>15. SelectorOn' BY <1>1, <1>5, <1>6 DEF SInv, SelectorOn, Draining
<1>16. QueueInOrder' BY <1>1, <1>6 DEF SInv, QueueInOrder
<1>17. WriterKnown'
  BY <1>1, <1>3, <1>4, <1>5, <1>6, <1>10, <1>11 DEF WriterKnown
<1>18. NewestIsKnown'
  <2>1. SUFFICES ASSUME Healthy', job'.status # StorageError
                 PROVE newest = NoSample \/ LoggedLast(newest.ms)'
    BY <1>1, <1>5 DEF NewestIsKnown, Draining
  <2>2. Healthy /\ job.status # StorageError BY <1>1, <1>5, <2>1 DEF Healthy
  <2>3. newest = NoSample \/ LoggedLast(newest.ms)
    BY <1>1, <1>2, <2>2 DEF SInv, NewestIsKnown, Draining
  <2>4. CASE LoggedLast(newest.ms)
    <3> PICK t : t = newest.ms OBVIOUS
    <3>1. LoggedLast(t)' BY <1>4, <2>4
    <3>2. newest'.ms = t BY <1>1
    <3>3. QED BY <3>1, <3>2 DEF LoggedLast
  <2>5. QED BY <2>3, <2>4
<1>19. BoundedLoss' BY <1>5, JobIs DEF BoundedLoss
<1>20. QED BY <1>8, <1>9, <1>12, <1>13, <1>14, <1>15, <1>16, <1>17, <1>18, <1>19 DEF SInv

(* The end of a run as the service sees it: refused by the store's own check, or
   written; only a run whose every part succeeded is reported healthy. *)
LEMMA EndRunIs ==
    ASSUME IInv, SInv, EndRun
    PROVE  /\ UNCHANGED <<place, files, request, id, prepared>>
           /\ faults' \in Nat /\ (faults' = 0 => faults = 0)
           /\ faults' = 0 => \A r \in Run : verdict'[r] # Unended => verdictSynced'[r]
           /\ activeRun' = 0 \/ (activeRun' = activeRun /\ state' = "error")
           /\ state' \in {"error", "idle"}
           /\ state' = "idle" =>
                 /\ verdictSynced'[id] /\ verdict'[id] \in {Complete, LimitHit}
                 /\ \/ newest = NoSample
                    \/ acked'[id] # <<>> /\ acked'[id][Len(acked'[id])] = newest.ms
           /\ \/ reply' = reply
              \/ job.caller = "stop" /\ \E b \in BOOLEAN :
                    reply' = [kind |-> "stop", ok |-> b, target |-> job.target]
<1>1. PICK synced \in BOOLEAN, journaled \in BOOLEAN :
          /\ IF job.late
             THEN ~synced /\ ~journaled /\ UNCHANGED <<archiveVars, faults>>
             ELSE /\ Finalize(job.status, synced, journaled)
                  /\ Spend((~synced /\ ~writerFailed) \/ ~journaled)
          /\ LET status == IF synced /\ journaled THEN job.status ELSE StorageError
             IN  /\ state' = IF status = StorageError THEN "error" ELSE "idle"
                 /\ reply' = IF job.caller = "stop"
                             THEN [kind |-> "stop", ok |-> status # StorageError,
                                   target |-> job.target]
                             ELSE reply
  BY DEF EndRun
<1>2. /\ job.step = "end" /\ recording /\ job \in Job
      /\ job.status # StorageError => Healthy
  <2>1. job.step = "end" BY DEF EndRun
  <2>2. QED BY <2>1 DEF SInv, HandlerAt, ServiceTypeOK
<1>3. activeRun = id /\ id \in Run BY <1>2, RecordingHasRun
<1>4. \/ reply' = reply
      \/ job.caller = "stop" /\ \E b \in BOOLEAN :
            reply' = [kind |-> "stop", ok |-> b, target |-> job.target]
  <2>1. ((IF synced /\ journaled THEN job.status ELSE StorageError) # StorageError) \in BOOLEAN
    OBVIOUS
  <2>2. QED BY <1>1, <2>1
<1>5. /\ verdict \in [Run -> Verdict \cup {Unended}] /\ verdictSynced \in [Run -> BOOLEAN]
      /\ acked \in [Run -> Seq(Reading)]
  BY DEF IInv, TypeOK, FlashTypeOK, HistoryTypeOK
<1>6. /\ state' \in {"error", "idle"}
      /\ state' = "idle" => synced /\ journaled /\ job.status # StorageError
  BY <1>1
<1>7. CASE job.late
  <2>1. UNCHANGED <<archiveVars, faults>> /\ ~synced BY <1>1, <1>7
  <2>2. UNCHANGED <<place, files, request, id, prepared, activeRun, verdict, verdictSynced>>
    BY <2>1 DEF archiveVars, flash, ram
  <2>3. faults \in Nat /\ (faults = 0 => \A r \in Run : verdict[r] # Unended => verdictSynced[r])
    BY DEF SInv, ServiceTypeOK, RunsAreWhole
  <2>4. state' = "error" BY <1>6, <2>1
  <2>5. QED BY <1>4, <2>1, <2>2, <2>3, <2>4
<1>8. CASE ~job.late
  <2>1. Finalize(job.status, synced, journaled) /\ Spend((~synced /\ ~writerFailed) \/ ~journaled)
    BY <1>1, <1>8
  <2>2. /\ UNCHANGED <<place, files, request, id, prepared>> /\ activeRun' = 0
        /\ SyncFiles(synced) /\ activeRun # 0
    BY <2>1 DEF Finalize
  <2>3. /\ faults' \in Nat /\ (faults' = 0 => faults = 0 /\ journaled)
    <3>1. ((~synced /\ ~writerFailed) \/ ~journaled) \in BOOLEAN OBVIOUS
    <3>2. QED BY <2>1, <3>1, SpendIs
  <2>4. journaled =>
            /\ verdict' = [verdict EXCEPT ![id] = IF synced THEN job.status ELSE StorageError]
            /\ verdictSynced' = [verdictSynced EXCEPT ![id] = TRUE]
    BY <1>3, <2>1 DEF Finalize
  <2>5. faults' = 0 => \A r \in Run : verdict'[r] # Unended => verdictSynced'[r]
    BY <1>3, <1>5, <2>3, <2>4 DEF SInv, RunsAreWhole
  <2>6. ASSUME state' = "idle"
        PROVE  /\ verdictSynced'[id] /\ verdict'[id] \in {Complete, LimitHit}
               /\ \/ newest = NoSample
                  \/ acked'[id] # <<>> /\ acked'[id][Len(acked'[id])] = newest.ms
    <3>1. synced /\ journaled /\ job.status # StorageError BY <1>6, <2>6
    <3>2. verdictSynced'[id] /\ verdict'[id] = job.status BY <1>3, <1>5, <2>4, <3>1
    <3>3. job.status \in {Complete, LimitHit} BY <1>2, <3>1, Parameters DEF Job
    <3>4. newest = NoSample \/ LoggedLast(newest.ms)
      BY <1>2, <3>1 DEF SInv, NewestIsKnown, Draining
    <3>5. /\ pending = <<>> => acked' = acked
          /\ pending # <<>> => /\ acked'[id] # <<>>
                               /\ acked'[id][Len(acked'[id])] = pending[Len(pending)]
      BY <1>3, <2>2, <3>1, SyncEffect
    <3>6. CASE LoggedLast(newest.ms)
      <4>1. CASE pending = <<>> BY <3>2, <3>3, <3>5, <3>6, <4>1 DEF LoggedLast
      <4>2. CASE pending # <<>> BY <3>2, <3>3, <3>5, <3>6, <4>2 DEF LoggedLast
      <4>3. QED BY <4>1, <4>2
    <3>7. QED BY <3>2, <3>3, <3>4, <3>6
  <2>7. QED BY <1>4, <1>6, <2>2, <2>3, <2>5, <2>6
<1>9. QED BY <1>7, <1>8

(* The last part of finalizeRun() keeps the invariant: nothing of the run is left. *)
LEMMA EndRunKeeps == ASSUME IInv, IInv', SInv, EndRun PROVE SInv'
<1>1. /\ job.step = "end" /\ recording' = FALSE /\ rec' = Reset(0) /\ queue' = <<>>
      /\ overflowed' = FALSE /\ storeFailure' = FALSE /\ hasDirty' = FALSE
      /\ elapsed' = 0 /\ due' = FALSE /\ job' = NoJob
      /\ UNCHANGED <<dirtySince, lastSelected, svcDurable, turn, boot, sent, activatedBy, ran,
                     newest>>
      /\ Publish
  BY DEF EndRun
<1>2. /\ UNCHANGED <<place, files, request, id, prepared>>
      /\ faults' \in Nat /\ (faults' = 0 => faults = 0)
      /\ faults' = 0 => \A r \in Run : verdict'[r] # Unended => verdictSynced'[r]
      /\ activeRun' = 0 \/ (activeRun' = activeRun /\ state' = "error")
      /\ state' \in {"error", "idle"}
      /\ state' = "idle" =>
            /\ verdictSynced'[id] /\ verdict'[id] \in {Complete, LimitHit}
            /\ \/ newest = NoSample
               \/ acked'[id] # <<>> /\ acked'[id][Len(acked'[id])] = newest.ms
      /\ \/ reply' = reply
         \/ job.caller = "stop" /\ \E b \in BOOLEAN :
               reply' = [kind |-> "stop", ok |-> b, target |-> job.target]
  BY EndRunIs
<1>3. /\ recording /\ job # NoJob /\ ~prepared /\ job'.step = "idle" /\ job'.caller = "none"
      /\ job.caller = "stop" => job.target = id
  BY <1>1, JobIs DEF SInv, HandlerAt
<1>4. activeRun = id /\ id \in Run /\ ran = id BY <1>3, RecordingHasRun
<1>5. rec' \in Selector
  <2>1. 0 \in Runs0 BY DEF Runs0
  <2>2. QED BY <1>1, <2>1, ResetIs
<1>6. Len(queue') = 0 BY <1>1
<1>7. /\ reply' \in [kind : {"none", "start", "stop"}, ok : BOOLEAN, target : Runs0]
      /\ reply' = reply \/ (job.caller = "stop" /\ reply'.kind = "stop" /\ reply'.target = id)
  <2>1. CASE reply' = reply BY <2>1 DEF SInv, ServiceTypeOK
  <2>2. CASE job.caller = "stop" /\ \E b \in BOOLEAN :
               reply' = [kind |-> "stop", ok |-> b, target |-> job.target]
    BY <1>3, <1>4, <2>2 DEF Runs0
  <2>3. QED BY <1>2, <2>1, <2>2
<1>8. LoopOrder => /\ reply = NoReply /\ turn # "poll" /\ (job.caller = "stop" => turn = "limit")
  BY <1>3 DEF SInv, TurnsInOrder
<1>9. WriterKnown' /\ NewestIsKnown' /\ SelectorOn' BY <1>1 DEF WriterKnown, NewestIsKnown, SelectorOn
<1>10. StatusIsTrue' /\ published' \in [runId : Runs0, active : BOOLEAN, durable : Nat]
  <2>1. id' \in Runs0 /\ recording' \in BOOLEAN /\ svcDurable' \in Nat
    BY <1>1, <1>2, TypeFacts
  <2>2. QED BY <1>1, <1>9, <2>1, PublishIs
<1>11. ServiceTypeOK'
  <2>1. <<>> \in Seq(Sample) /\ 0 \in Nat OBVIOUS
  <2>2. QED BY <1>1, <1>2, <1>5, <1>7, <1>10, <2>1, JobIs DEF SInv, ServiceTypeOK
<1>12. HandlerAt' /\ Resting' BY <1>1, <1>2, <1>3 DEF HandlerAt, Resting
<1>13. TurnsInOrder'
  <2>1. Len(queue') <= 1 BY <1>6
  <2>2. LoopOrder /\ reply' # NoReply => turn = "limit" BY <1>7, <1>8
  <2>3. QED BY <1>1, <1>3, <1>8, <2>1, <2>2 DEF TurnsInOrder
<1>14. QueueInOrder' BY <1>6 DEF QueueInOrder
<1>15. OneRunPerStart' BY <1>1, <1>3 DEF SInv, OneRunPerStart
<1>16. LastRun'
  <2>1. ran <= id BY DEF SInv, LastRun
  <2>2. QED BY <1>1, <1>2, <1>3, <1>4, <2>1 DEF LastRun
<1>17. RunsAreWhole'
  BY <1>1, <1>2 DEF SInv, RunsAreWhole, Kept, Begun
<1>18. RepliesAreTrue'
  <2>1. CASE ~LoopOrder BY <2>1 DEF RepliesAreTrue
  <2>2. CASE LoopOrder /\ reply' = reply BY <1>8, <2>2 DEF RepliesAreTrue, NoReply
  <2>3. CASE reply'.kind = "stop" /\ reply'.target = id
    BY <1>2, <1>4, <2>3 DEF RepliesAreTrue
  <2>4. LoopOrder \in BOOLEAN BY ServiceAssumption
  <2>5. QED BY <1>7, <2>1, <2>2, <2>3, <2>4
<1>19. BoundedLoss' BY <1>1 DEF BoundedLoss
<1>20. HealthyMeansSettled' BY <1>1, <1>2, <1>4 DEF HealthyMeansSettled
<1>21. QED BY <1>9, <1>10, <1>11, <1>12, <1>13, <1>14, <1>15, <1>16, <1>17, <1>18, <1>19, <1>20
          DEF SInv

-----------------------------------------------------------------------------
(* Every step of the service keeps its invariant. *)
LEMMA ServiceKeeps == ASSUME IInv, IInv', SInv, ServiceNext PROVE SInv'
<1>1. CASE EnforceLimit \/ Tick \/ Poll
  BY <1>1, EnforceLimitKeeps, TickKeeps, PollKeeps
<1>2. CASE Command
  <2>1. CASE \E q \in Request : StartReplayed(q) \/ StartRefused(q) \/ StartAllocated(q)
    BY <2>1, StartReplayedKeeps, StartRefusedKeeps, StartAllocatedKeeps
  <2>2. CASE \E target \in Run : \/ StopOther(target)
                                 \/ \E sentNow \in BOOLEAN : StopCurrent(target, sentNow)
    BY <2>2, StopOtherKeeps, StopCurrentKeeps
  <2>3. CASE Route BY <2>3, RouteKeeps
  <2>4. QED BY <1>2, <2>1, <2>2, <2>3 DEF Command
<1>3. CASE Handler
  BY <1>3, DrainKeeps, DrainDoneKeeps, FlushDueKeeps, FinishSelectionKeeps, SyncTailKeeps,
     EndRunKeeps, StartAbandonedKeeps, StartActivatedKeeps
  DEF Handler
<1>4. CASE \E q \in Request : Send(q) BY <1>4, SendKeeps
<1>5. CASE PowerCut BY <1>5, PowerCutKeeps
<1>6. CASE Restart BY <1>6, RestartKeeps
<1>7. QED BY <1>1, <1>2, <1>3, <1>4, <1>5, <1>6 DEF ServiceNext

(* A step in which nothing happens keeps it too. *)
LEMMA ServiceStutters == ASSUME SInv, UNCHANGED vars PROVE SInv'
<1>1. /\ UNCHANGED StoreSeen
      /\ UNCHANGED <<recording, elapsed, due, rec, queue, overflowed, storeFailure, hasDirty,
                     dirtySince, lastSelected, svcDurable, state, published>>
      /\ UNCHANGED <<turn, job, boot, faults>>
      /\ UNCHANGED <<sent, reply, activatedBy, ran, newest>>
  BY StoreUnseen DEF vars, serviceVars, loopVars, historyVars
<1> USE DEF StoreSeen
<1>2. ServiceTypeOK' /\ HandlerAt' /\ Resting' /\ TurnsInOrder'
  BY <1>1 DEF SInv, ServiceTypeOK, HandlerAt, Resting, TurnsInOrder, Healthy
<1>3. SelectorOn' /\ QueueInOrder' /\ WriterKnown'
  BY <1>1 DEF SInv, SelectorOn, QueueInOrder, WriterKnown, Draining
<1>4. NewestIsKnown' /\ StatusIsTrue' /\ OneRunPerStart' /\ LastRun'
  BY <1>1 DEF SInv, NewestIsKnown, StatusIsTrue, OneRunPerStart, LastRun, Healthy, Draining, LoggedLast
<1>5. RunsAreWhole' /\ RepliesAreTrue' /\ BoundedLoss' /\ HealthyMeansSettled'
  BY <1>1 DEF SInv, RunsAreWhole, RepliesAreTrue, BoundedLoss, HealthyMeansSettled, Kept, Begun
<1>6. QED BY <1>2, <1>3, <1>4, <1>5 DEF SInv

(* The invariant of the store and that of the service hold together: neither is
   inductive without the other, since the service calls the store in its state and the
   store's answers are what the service believes. *)
THEOREM ServiceInvariant == ServiceSpec => [](IInv /\ SInv)
<1>1. ServiceInit => IInv /\ SInv BY InitSInv
<1>2. IInv /\ SInv /\ [ServiceNext]_vars => (IInv /\ SInv)'
  <2> SUFFICES ASSUME IInv, SInv, [ServiceNext]_vars PROVE IInv' /\ SInv' OBVIOUS
  <2>1. CASE ServiceNext
    <3>1. ArchiveNext \/ UNCHANGED archiveVars BY <2>1, ServiceStep
    <3>2. IInv' BY <3>1, InvariantStep
    <3>3. QED BY <2>1, <3>2, ServiceKeeps
  <2>2. CASE UNCHANGED vars
    <3>1. UNCHANGED archiveVars BY <2>2 DEF vars
    <3>2. IInv' BY <3>1, InvariantStep
    <3>3. QED BY <2>2, <3>2, ServiceStutters
  <2>3. QED BY <2>1, <2>2
<1>3. QED BY <1>1, <1>2, PTL DEF ServiceSpec

(* The service is a caller of the store in the sense of RunArchive: what the store
   promises any caller, it promises the service. *)
THEOREM ServiceUsesArchive == ServiceSpec => ArchiveSpec
<1>1. ServiceInit => Init BY DEF ServiceInit
<1>2. IInv /\ SInv /\ [ServiceNext]_vars => [ArchiveNext]_archiveVars
  <2>1. ASSUME UNCHANGED vars PROVE UNCHANGED archiveVars BY <2>1 DEF vars
  <2>2. QED BY <2>1, ServiceStep
<1>3. QED BY <1>1, <1>2, ServiceInvariant, PTL DEF ServiceSpec, ArchiveSpec

(* So the flash, driven by the service, is a ledger of runs: nothing the ledger has
   of a run changes but by being written, settled or deleted. *)
THEOREM ServiceKeepsLedger == ServiceSpec => ImplementsLedger
  BY ServiceUsesArchive, ArchiveImplementsLedger, PTL

(* One Start request never activates two runs. *)
THEOREM OneStartOneRun == ServiceSpec => []StartOnce
<1>1. SInv => StartOnce
  <2> SUFFICES ASSUME SInv, NEW r \in Run, NEW s \in Run,
                      activatedBy[r] # NoRequest, activatedBy[r] = activatedBy[s]
               PROVE  r = s
    BY DEF StartOnce
  <2>1. r = sent[activatedBy[r]].after + 1 /\ s = sent[activatedBy[s]].after + 1
    BY DEF SInv, OneRunPerStart
  <2>2. QED BY <2>1
<1>2. QED BY <1>1, ServiceInvariant, PTL

(* The records the selector numbers fit the file: one more than the intervals in the
   window. *)
LEMMA RecordsFit ==
    ASSUME NEW n \in Nat \ {0}, NEW L \in Nat \ {0}, NEW c \in Nat, NEW b \in Nat, NEW m \in Nat,
           n > 1 => (n - 2) * L <= b, b <= m, m < (c - 1) * L
    PROVE  n <= c
<1>1. SUFFICES ASSUME n > c PROVE FALSE OBVIOUS
<1>2. CASE c = 0
  <2>1. (c - 1) * L = 0 - L BY <1>2
  <2>2. QED BY <2>1
<1>3. CASE c >= 1
  <2>1. n > 1 /\ (n - 2) * L <= b BY <1>1, <1>3
  <2>2. PICK d \in Nat : n - 2 = (c - 1) + d
    <3>1. (n - 2) - (c - 1) \in Nat BY <1>1, <1>3
    <3>2. QED BY <3>1
  <2>3. (n - 2) * L = (c - 1) * L + d * L BY <2>2
  <2>4. d * L \in Nat /\ (c - 1) * L \in Int OBVIOUS
  <2>5. QED BY <2>1, <2>3, <2>4
<1>4. QED BY <1>2, <1>3

(* The service, the selector and the store agree on the run being recorded, and the
   store always has room for the next record. *)
THEOREM PicturesAgree == ServiceSpec => []InStep
<1>1. IInv /\ SInv => InStep
  <2> SUFFICES ASSUME IInv, SInv PROVE InStep OBVIOUS
  <2>1. LoopOrder => Len(queue) <= 1 /\ ~overflowed BY DEF SInv, TurnsInOrder
  <2>2. ASSUME recording
        PROVE  /\ activeRun = id /\ rec.runId = id
               /\ ~storeFailure => lastSelected = durable + Len(pending)
    BY <2>2 DEF SInv, WriterKnown, SelectorOn
  <2>3. ASSUME recording, rec.active, ~storeFailure
        PROVE  rec.nextLogSeq = durable + Len(pending) + 1
    BY <2>3 DEF SInv, WriterKnown
  <2>4. ASSUME recording, rec.active PROVE rec.nextLogSeq <= RawCapacity
    <3> PICK n \in Nat \ {0} : n = rec.nextLogSeq BY TypeFacts
    <3> PICK b \in Nat : b = rec.lastLoggedMs BY TypeFacts
    <3> PICK L \in Nat \ {0} : L = LogInterval BY Parameters
    <3> PICK c \in Nat : c = RawCapacity BY Parameters
    <3> PICK m \in Nat : m = MaxDuration BY Parameters
    <3>1. m < (c - 1) * L BY Parameters
    <3>2. CASE n = 1 BY <3>1, <3>2, RecordsFit
    <3>3. CASE n > 1
      <4>1. (n - 2) * L <= b BY <2>4, <3>3 DEF SInv, SelectorOn
      <4>2. b <= m
        <5>1. rec.acq.seq # 0 BY <2>4, <3>3 DEF SInv, SelectorOn
        <5>2. rec.acq.ms \in Nat /\ b <= rec.acq.ms /\ rec.acq.ms <= m
          BY <2>4, <5>1, TypeFacts DEF SInv, SelectorOn
        <5>3. QED BY <5>2
      <4>3. n <= c BY <3>1, <4>1, <4>2, RecordsFit
      <4>4. QED BY <4>3
    <3>4. QED BY <3>2, <3>3
  <2>5. QED BY <2>1, <2>2, <2>3, <2>4 DEF InStep
<1>2. QED BY <1>1, ServiceInvariant, PTL

(* In the order of loop(), what the service says of a run is true and stays true: a
   Start that once began its run is acknowledged with a whole run, whatever has failed
   and wherever power was lost, and while no call has failed an acknowledged Stop has
   its verdict on flash.  Out of that order a reply may be overtaken by a deletion
   before it is read, which is why the order is assumed. *)
THEOREM SayingsAreDurable == ASSUME LoopOrder PROVE ServiceSpec => []SaidIsDurable
<1>1. IInv /\ SInv => SaidIsDurable
  <2> SUFFICES ASSUME IInv, SInv PROVE SaidIsDurable OBVIOUS
  <2>1. ASSUME job = NoJob PROVE published.runId = id /\ published.active = recording
    BY <2>1, JobIs DEF SInv, StatusIsTrue
  <2>2. ASSUME published.active, recording PROVE published.durable <= Len(acked[published.runId])
    <3>1. activeRun = id /\ activeRun # 0 BY <2>2, RecordingHasRun
    <3>2. durable = Len(acked[activeRun]) BY <3>1 DEF IInv, WriterOnOpenRun
    <3>3. published.durable <= durable /\ published.runId = id
      BY <2>2 DEF SInv, StatusIsTrue, HandlerAt
    <3>4. QED BY <3>1, <3>2, <3>3
  <2>3. RepliesAreTrue BY DEF SInv
  <2>4. QED BY <2>1, <2>2, <2>3 DEF SaidIsDurable, RepliesAreTrue
<1>2. QED BY <1>1, ServiceInvariant, PTL

(* A power loss costs a recording run less than one flush period of its records. *)
THEOREM LossIsBounded == ServiceSpec => []BoundedLoss
  BY ServiceInvariant, PTL DEF SInv

(* Logging is reported healthy only of a run that is whole on flash. *)
THEOREM HealthIsEarned == ServiceSpec => []HealthyMeansSettled
  BY ServiceInvariant, PTL DEF SInv
=============================================================================
