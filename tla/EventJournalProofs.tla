-------------------------- MODULE EventJournalProofs --------------------------
(***************************************************************************)
(* Proofs about EventJournal, for every set of operations and markers,     *)
(* every budget and reserve, every number of frames read per owner turn    *)
(* and any number of faults and power losses.  JInv is the inductive       *)
(* invariant.  Its heart is CacheIsJournal: once the RAM cache is being    *)
(* reduced it holds the very frames of the file, so that what is appended  *)
(* after a look at the cache is right for the journal.                     *)
(***************************************************************************)
EXTENDS EventJournal, FiniteSetTheorems, SequenceTheorems, TLAPS

WarmPhase == {"idle", "reading", "reducing", "ready", "error"}
Job == Mutation \cup {NoJob}

JournalTypeOK ==
    /\ frames \in Seq(Frame) /\ synced \in Nat /\ torn \in BOOLEAN
    /\ active \in BOOLEAN /\ metaRev \in Nat
    /\ warm \in [phase : WarmPhase, cache : Seq(Frame), reduced : Nat, size : Nat,
                 tail : BOOLEAN]
    /\ job \in Job
    /\ faults \in Nat /\ losses \in Nat
    /\ acked \in [Op \cup {NoOp} -> [rev : Nat, frame : Frame \cup {NoJob}]]
    /\ conflict \in BOOLEAN

(* The journal starts with run.started, on the medium, and ends at most when the
   writer is closed. *)
WellFormed ==
    /\ Reducible(frames)
    /\ 1 <= synced /\ synced <= Len(frames)
    /\ active => \A i \in 1..Len(frames) : frames[i].kind # "ended"

(* A cache that is being reduced, or is ready, holds the whole journal, and a
   ready one a journal that is on the medium. *)
CacheIsJournal ==
    /\ warm.phase \in {"reducing", "ready"} => warm.cache = frames
    /\ warm.phase = "ready" => synced = Len(frames)

(* What was acknowledged is on the medium where the answer said, and is what
   was asked for. *)
AckedIsKept ==
    \A o \in Op \cup {NoOp} :
        acked[o].rev # 0 => /\ acked[o].rev <= synced
                            /\ frames[acked[o].rev] = acked[o].frame
                            /\ acked[o].frame.op = o
                            /\ o = NoOp => acked[o].frame.kind = "ended"

(* The writer has room for run.ended, and without faults knows the last revision. *)
WriterCanEnd ==
    /\ active => Fits(Ended)
    /\ active /\ faults = 0 => metaRev = Len(frames)
    /\ faults = 0 => ~conflict

JInv == JournalTypeOK /\ WellFormed /\ CacheIsJournal /\ AckedIsKept /\ WriterCanEnd

-----------------------------------------------------------------------------
(* The number of noted frames is a number, and a longer journal is larger. *)
LEMMA SizeType ==
    ASSUME NEW s \in Seq(Frame)
    PROVE  /\ SizeOf(s) \in Nat /\ SizeOf(s) >= Len(s)
           /\ IsFiniteSet({i \in 1..Len(s) : HasNote(s[i])})
<1> DEFINE noted == {i \in 1..Len(s) : HasNote(s[i])}
<1>1. Len(s) \in Nat OBVIOUS
<1>2. IsFiniteSet(1..Len(s)) BY <1>1, FS_Interval
<1>3. IsFiniteSet(noted) BY <1>2, FS_Subset
<1>4. Cardinality(noted) \in Nat BY <1>3, FS_CardinalityType
<1>5. SizeOf(s) = Len(s) + Cardinality(noted) BY DEF SizeOf
<1> HIDE DEF noted
<1>6. SizeOf(s) \in Nat /\ SizeOf(s) >= Len(s) BY <1>1, <1>4, <1>5
<1>7. QED BY <1>3, <1>6 DEF noted

(* The file holds at least its frames. *)
LEMMA FileSizeType ==
    ASSUME frames \in Seq(Frame)
    PROVE  SizeOf(frames) \in Nat /\ FileSize \in Nat /\ SizeOf(frames) <= FileSize
<1> DEFINE tail == IF torn THEN 1 ELSE 0
<1>1. SizeOf(frames) \in Nat BY SizeType
<1>2. tail \in Nat OBVIOUS
<1>3. FileSize = SizeOf(frames) + tail BY DEF FileSize
<1> HIDE DEF tail
<1>4. QED BY <1>1, <1>2, <1>3

(* A proper prefix of a journal is smaller than it. *)
LEMMA SizeOfPrefix ==
    ASSUME NEW s \in Seq(Frame), NEW n \in 0..Len(s)
    PROVE  SizeOf(SubSeq(s, 1, n)) <= SizeOf(s) - (Len(s) - n)
<1> DEFINE p == SubSeq(s, 1, n)
           noted(t) == {i \in 1..Len(t) : HasNote(t[i])}
<1>1. p \in Seq(Frame) /\ Len(p) = n /\ \A i \in 1..n : p[i] = s[i] /\ n <= Len(s)
  OBVIOUS
<1>2. noted(p) \subseteq noted(s) BY <1>1
<1>3. IsFiniteSet(noted(s)) BY SizeType
<1>4. Cardinality(noted(p)) <= Cardinality(noted(s)) BY <1>2, <1>3, FS_Subset
<1>5. Cardinality(noted(p)) \in Nat /\ Cardinality(noted(s)) \in Nat
  BY <1>2, <1>3, FS_Subset, FS_CardinalityType
<1>6. SizeOf(p) = n + Cardinality(noted(p)) /\ SizeOf(s) = Len(s) + Cardinality(noted(s))
  BY <1>1 DEF SizeOf
<1> HIDE DEF noted, p
<1>7. SizeOf(p) <= SizeOf(s) - (Len(s) - n) BY <1>4, <1>5, <1>6
<1>8. QED BY <1>7 DEF p

(* An appended frame adds its own size. *)
LEMMA SizeOfAppend ==
    ASSUME NEW s \in Seq(Frame), NEW f \in Frame
    PROVE  SizeOf(Append(s, f)) = SizeOf(s) + Bytes(f)
<1> DEFINE a == Append(s, f)
           noted(t) == {i \in 1..Len(t) : HasNote(t[i])}
           last == Len(s) + 1
<1>1. /\ a \in Seq(Frame) /\ Len(a) = last /\ Len(s) \in Nat
      /\ a[last] = f /\ \A i \in 1..Len(s) : a[i] = s[i]
  OBVIOUS
<1>2. IsFiniteSet(noted(s)) /\ Cardinality(noted(s)) \in Nat
  BY SizeType, FS_CardinalityType
<1>3. SizeOf(a) = last + Cardinality(noted(a)) /\ SizeOf(s) = Len(s) + Cardinality(noted(s))
  BY <1>1 DEF SizeOf
<1>4. CASE HasNote(f)
  <2>1. noted(a) = noted(s) \cup {last} /\ last \notin noted(s)
    BY <1>1, <1>4
  <2>2. Cardinality(noted(a)) = Cardinality(noted(s)) + 1
    BY <1>2, <2>1, FS_AddElement
  <2> HIDE DEF noted, a
  <2>3. QED BY <1>1, <1>2, <1>3, <1>4, <2>2 DEF Bytes, a
<1>5. CASE ~HasNote(f)
  <2>1. noted(a) = noted(s)
    BY <1>1, <1>5
  <2> HIDE DEF noted, a
  <2>3. QED BY <1>1, <1>2, <1>3, <1>5, <2>1 DEF Bytes, a
<1>6. QED BY <1>4, <1>5

(* A frame the reducer accepts keeps the journal readable. *)
LEMMA ReducibleAppend ==
    ASSUME NEW s \in Seq(Frame), NEW f \in Frame, Reducible(s), Accepts(s, f)
    PROVE  Reducible(Append(s, f))
<1> DEFINE a == Append(s, f)
<1>1. SUFFICES ASSUME NEW i \in 1..Len(a) PROVE Accepts(SubSeq(a, 1, i - 1), a[i])
  BY DEF Reducible
<1>2. CASE i \in 1..Len(s)
  <2>1. SubSeq(a, 1, i - 1) = SubSeq(s, 1, i - 1) /\ a[i] = s[i] BY <1>2
  <2>2. QED BY <1>2, <2>1 DEF Reducible
<1>3. CASE i = Len(s) + 1
  <2>1. SubSeq(a, 1, i - 1) = s /\ a[i] = f BY <1>3
  <2>2. QED BY <2>1
<1>4. QED BY <1>2, <1>3

(* A prefix of a readable journal is readable. *)
LEMMA ReduciblePrefix ==
    ASSUME NEW s \in Seq(Frame), NEW n \in 0..Len(s), Reducible(s)
    PROVE  Reducible(SubSeq(s, 1, n))
<1> DEFINE p == SubSeq(s, 1, n)
<1>1. SUFFICES ASSUME NEW i \in 1..Len(p) PROVE Accepts(SubSeq(p, 1, i - 1), p[i])
  BY DEF Reducible
<1>2. i \in 1..Len(s) /\ p[i] = s[i] /\ i - 1 \in 0..n OBVIOUS
<1>3. SubSeq(p, 1, i - 1) = SubSeq(s, 1, i - 1) OBVIOUS
<1>4. QED BY <1>2, <1>3 DEF Reducible

(* The reducer admits an operation once. *)
LEMMA ReducibleOnce ==
    ASSUME NEW s \in Seq(Frame), Reducible(s), NEW i \in 1..Len(s), NEW j \in 1..Len(s),
           s[i].op = s[j].op, s[i].op # NoOp
    PROVE  i = j
<1>1. ASSUME NEW k \in 1..Len(s), NEW l \in 1..Len(s), k < l, s[k].op = s[l].op, s[k].op # NoOp
      PROVE  FALSE
  <2>1. Accepts(SubSeq(s, 1, l - 1), s[l]) BY DEF Reducible
  <2>2. s[l] \in Mutation
    <3>1. s[l] \in Frame OBVIOUS
    <3>2. s[l] # Started /\ s[l] # Ended BY <1>1 DEF Started, Ended
    <3>3. QED BY <3>1, <3>2 DEF Frame
  <2>3. s[l].kind \notin {"started", "ended"} BY <2>2 DEF Mutation
  <2>4. Recorded(SubSeq(s, 1, l - 1), s[l].op) = {} BY <2>1, <2>3 DEF Accepts
  <2>5. /\ k \in 1..Len(SubSeq(s, 1, l - 1)) /\ SubSeq(s, 1, l - 1)[k] = s[k] BY <1>1
  <2>6. QED BY <1>1, <2>4, <2>5 DEF Recorded
<1>2. QED BY <1>1

-----------------------------------------------------------------------------
(* A new journal. *)
LEMMA InitJInv == Init => JInv
<1> SUFFICES ASSUME Init PROVE JInv OBVIOUS
<1>1. Started \in Frame /\ Started.kind = "started" /\ Started.op = NoOp BY DEF Frame, Started
<1>2. /\ frames = <<Started>> /\ frames \in Seq(Frame) /\ Len(frames) = 1 /\ frames[1] = Started
  BY <1>1 DEF Init
<1>3. JournalTypeOK
  <2>1. <<>> \in Seq(Frame) OBVIOUS
  <2>2. IdleWarm \in [phase : WarmPhase, cache : Seq(Frame), reduced : Nat, size : Nat,
                      tail : BOOLEAN]
    BY <2>1 DEF IdleWarm, WarmPhase
  <2>3. NotAcked \in [rev : Nat, frame : Frame \cup {NoJob}] BY DEF NotAcked
  <2>4. QED BY <1>2, <2>2, <2>3 DEF Init, JournalTypeOK, Job
<1>4. WellFormed
  <2>1. SUFFICES Reducible(frames)
    BY <1>1, <1>2 DEF Init, WellFormed
  <2>2. SUFFICES ASSUME NEW i \in 1..Len(frames) PROVE Accepts(SubSeq(frames, 1, i - 1), frames[i])
    BY DEF Reducible
  <2>3. i = 1 BY <1>2
  <2>4. SubSeq(frames, 1, i - 1) = <<>> /\ frames[i].kind = "started" BY <1>1, <1>2, <2>3
  <2>5. QED BY <2>4 DEF Accepts
<1>5. CacheIsJournal BY DEF Init, CacheIsJournal, IdleWarm
<1>6. AckedIsKept BY DEF Init, AckedIsKept, NotAcked
<1>7. WriterCanEnd
  <2>1. Bytes(Started) = 1 /\ Bytes(Ended) = 1 /\ Ended.op = NoOp
    BY DEF Bytes, HasNote, Started, Ended
  <2>2. SizeOf(<<>>) = 0
    <3>1. {i \in 1..0 : HasNote(<<>>[i])} = {} OBVIOUS
    <3>2. QED BY <3>1, FS_EmptySet DEF SizeOf
  <2>3. SizeOf(frames) = 1
    <3>1. <<>> \in Seq(Frame) /\ Append(<<>>, Started) = <<Started>> OBVIOUS
    <3>2. SizeOf(Append(<<>>, Started)) = 0 + 1 BY <1>1, <2>1, <2>2, <3>1, SizeOfAppend
    <3>3. QED BY <1>2, <3>1, <3>2
  <2>4. Budget \in Nat /\ Reserve \in Nat /\ 2 <= Budget BY JournalAssumption
  <2>5. Fits(Ended) BY <2>1, <2>3, <2>4 DEF Fits
  <2>6. QED BY <1>2, <2>5 DEF Init, WriterCanEnd
<1>8. QED BY <1>3, <1>4, <1>5, <1>6, <1>7 DEF JInv

-----------------------------------------------------------------------------
(* What an append does to the journal, whether it works, is rejected or fails,
   of a frame the reducer would accept as the next one. *)
Appends(f, rev) == AppendWorks(f, rev) \/ AppendRejected(f, rev) \/ AppendFails(f, rev)

LEMMA AppendEffect ==
    ASSUME JInv, NEW f \in Frame, NEW rev \in Nat, Appends(f, rev),
           rev = Len(frames) => frames[rev] # f,
           rev = Len(frames) + 1 => Accepts(frames, f)
    PROVE  /\ frames' \in Seq(Frame) /\ synced' \in Nat /\ torn' \in BOOLEAN /\ faults' \in Nat
           /\ warm' \in [phase : WarmPhase, cache : Seq(Frame), reduced : Nat, size : Nat,
                         tail : BOOLEAN]
           /\ Reducible(frames') /\ synced <= synced' /\ synced' <= Len(frames')
           /\ \/ frames' = frames
              \/ frames' = Append(frames, f) /\ rev = Len(frames) + 1 /\ Fits(f)
           /\ AppendWorks(f, rev) => /\ frames' = Append(frames, f) /\ rev = Len(frames) + 1
                                     /\ synced' = rev
           /\ CacheIsJournal'
           /\ faults' = 0 => faults = 0 /\ ~AppendFails(f, rev)
           /\ faults' = 0 /\ ~AppendWorks(f, rev) => AppendRejected(f, rev) /\ frames' = frames
<1>1. /\ frames \in Seq(Frame) /\ synced \in Nat /\ torn \in BOOLEAN /\ faults \in Nat
      /\ warm \in [phase : WarmPhase, cache : Seq(Frame), reduced : Nat, size : Nat,
                   tail : BOOLEAN]
      /\ Len(frames) \in Nat
  BY DEF JInv, JournalTypeOK
<1>2. Reducible(frames) /\ 1 <= synced /\ synced <= Len(frames)
  BY DEF JInv, WellFormed
<1>3. CacheIsJournal BY DEF JInv
<1>4. /\ IdleWarm \in [phase : WarmPhase, cache : Seq(Frame), reduced : Nat, size : Nat,
                       tail : BOOLEAN]
      /\ IdleWarm.phase \notin {"reducing", "ready"}
  <2>1. <<>> \in Seq(Frame) OBVIOUS
  <2>2. QED BY <2>1 DEF IdleWarm, WarmPhase
<1>5. ~Rejected(f, rev) => rev = Len(frames) + 1 /\ Fits(f)
  BY <1>1 DEF Rejected
<1>6. AppendFails(f, rev) => faults' = faults + 1 /\ faults' # 0
  BY <1>1 DEF AppendFails, Fault
<1>7. CASE frames' = frames
  <2>1. ~AppendWorks(f, rev)
    <3>1. ASSUME AppendWorks(f, rev) PROVE FALSE
      <4>1. frames' = Append(frames, f) BY <3>1 DEF AppendWorks
      <4>2. Len(Append(frames, f)) = Len(frames) + 1 BY <1>1
      <4>3. QED BY <1>1, <1>7, <4>1, <4>2
    <3>2. QED BY <3>1
  <2>2. /\ synced' \in {synced, Len(frames)} /\ torn' \in BOOLEAN /\ faults' \in Nat
        /\ warm' \in {warm, IdleWarm}
        /\ faults' = 0 => faults = 0
    <3>1. CASE AppendRejected(f, rev) BY <1>1, <3>1 DEF AppendRejected
    <3>2. CASE AppendFails(f, rev)
      <4>1. synced' \in {synced, Len(frames)} BY <3>2 DEF AppendFails
      <4>2. torn' \in BOOLEAN BY <3>2 DEF AppendFails
      <4>3. warm' \in {warm, IdleWarm} BY <3>2 DEF AppendFails
      <4>4. faults' \in Nat /\ faults' # 0 BY <1>1, <1>6, <3>2
      <4>5. QED BY <4>1, <4>2, <4>3, <4>4
    <3>3. QED BY <2>1, <3>1, <3>2 DEF Appends
  <2>3. synced <= synced' /\ synced' <= Len(frames') /\ synced' \in Nat BY <1>1, <1>2, <1>7, <2>2
  <2>4. CacheIsJournal'
    <3>1. CASE warm' = IdleWarm BY <1>4, <3>1 DEF CacheIsJournal
    <3>2. CASE warm' = warm
      <4>1. synced = Len(frames) => synced' = Len(frames) BY <2>2
      <4>2. QED BY <1>3, <1>7, <3>2, <4>1 DEF CacheIsJournal
    <3>3. QED BY <2>2, <3>1, <3>2
  <2>5. QED BY <1>1, <1>2, <1>4, <1>6, <1>7, <2>1, <2>2, <2>3, <2>4 DEF Appends
<1>8. CASE frames' # frames
  <2>1. /\ frames' = Append(frames, f) /\ rev = Len(frames) + 1 /\ Fits(f) /\ warm' = IdleWarm
        /\ torn' \in BOOLEAN
    <3>1. CASE AppendWorks(f, rev) BY <1>8, <3>1 DEF AppendWorks
    <3>2. CASE AppendFails(f, rev) BY <1>5, <1>8, <3>2 DEF AppendFails
    <3>3. ~AppendRejected(f, rev) BY <1>8 DEF AppendRejected
    <3>4. QED BY <3>1, <3>2, <3>3 DEF Appends
  <2>2. frames' \in Seq(Frame) /\ Len(frames') = Len(frames) + 1 BY <1>1, <2>1
  <2>3. synced' \in {Len(frames), Len(frames')}
    <3>1. CASE AppendWorks(f, rev) BY <3>1 DEF AppendWorks
    <3>2. CASE AppendFails(f, rev) BY <1>8, <3>2 DEF AppendFails
    <3>3. ~AppendRejected(f, rev) BY <1>8 DEF AppendRejected
    <3>4. QED BY <3>1, <3>2, <3>3 DEF Appends
  <2>4. AppendWorks(f, rev) => synced' = rev BY <2>1, <2>2 DEF AppendWorks
  <2>5. Reducible(frames') BY <1>1, <1>2, <2>1, ReducibleAppend
  <2>6. CacheIsJournal' BY <1>4, <2>1 DEF CacheIsJournal
  <2>7. AppendWorks(f, rev) \/ AppendFails(f, rev)
    BY <1>8 DEF Appends, AppendRejected
  <2>8. faults' \in Nat /\ (faults' = 0 => faults = 0)
    BY <1>1, <1>6, <2>7 DEF AppendWorks
  <2>9. QED BY <1>1, <1>2, <1>4, <1>6, <2>1, <2>2, <2>3, <2>4, <2>5, <2>6, <2>7, <2>8
<1>9. QED BY <1>7, <1>8

(* What was acknowledged stays where it is when the journal only grows. *)
LEMMA KeptWhenGrown ==
    ASSUME JInv, NEW f \in Frame, frames' = frames \/ frames' = Append(frames, f),
           synced' \in Nat, synced <= synced', NEW o \in Op \cup {NoOp},
           acked[o].rev # 0
    PROVE  /\ acked[o].rev <= synced' /\ frames'[acked[o].rev] = acked[o].frame
           /\ acked[o].frame.op = o
           /\ o = NoOp => acked[o].frame.kind = "ended"
<1>1. /\ frames \in Seq(Frame) /\ synced \in Nat /\ synced <= Len(frames) /\ acked[o].rev \in Nat
  BY DEF JInv, JournalTypeOK, WellFormed
<1>2. /\ acked[o].rev <= synced /\ frames[acked[o].rev] = acked[o].frame
      /\ acked[o].frame.op = o
      /\ o = NoOp => acked[o].frame.kind = "ended"
  BY DEF JInv, AckedIsKept
<1>3. acked[o].rev \in 1..Len(frames) /\ acked[o].rev <= synced'
  BY <1>1, <1>2
<1>4. frames'[acked[o].rev] = frames[acked[o].rev] BY <1>1, <1>3
<1>5. QED BY <1>2, <1>3, <1>4

(* An append that works may be acknowledged. *)
LEMMA AckedAfterAppend ==
    ASSUME JInv, NEW f \in Frame, NEW rev \in Nat, frames' = Append(frames, f),
           rev = Len(frames) + 1, synced' = rev,
           f.op \in Op \cup {NoOp}, f.op = NoOp => f.kind = "ended",
           AckedWith(f.op, rev, f)
    PROVE  AckedIsKept' /\ acked' \in [Op \cup {NoOp} -> [rev : Nat, frame : Frame \cup {NoJob}]]
<1>1. /\ frames \in Seq(Frame) /\ synced \in Nat /\ synced <= Len(frames)
      /\ acked \in [Op \cup {NoOp} -> [rev : Nat, frame : Frame \cup {NoJob}]]
  BY DEF JInv, JournalTypeOK, WellFormed
<1>2. acked' = [acked EXCEPT ![f.op] = [rev |-> rev, frame |-> f]] BY DEF AckedWith
<1>3. acked' \in [Op \cup {NoOp} -> [rev : Nat, frame : Frame \cup {NoJob}]]
  BY <1>1, <1>2
<1>4. SUFFICES ASSUME NEW o \in Op \cup {NoOp}, acked'[o].rev # 0
               PROVE  /\ acked'[o].rev <= synced' /\ frames'[acked'[o].rev] = acked'[o].frame
                      /\ acked'[o].frame.op = o
                      /\ o = NoOp => acked'[o].frame.kind = "ended"
  BY <1>3 DEF AckedIsKept
<1>5. CASE o = f.op
  <2>1. acked'[o] = [rev |-> rev, frame |-> f] BY <1>1, <1>2, <1>5
  <2>2. frames'[rev] = f BY <1>1
  <2>3. QED BY <1>5, <2>1, <2>2
<1>6. CASE o # f.op
  <2>1. acked'[o] = acked[o] BY <1>1, <1>2, <1>6
  <2>2. synced <= synced' /\ synced' \in Nat BY <1>1
  <2>3. QED BY <1>4, <2>1, <2>2, KeptWhenGrown
<1>7. QED BY <1>5, <1>6

(* What an append leaves for run.ended. *)
LEMMA RoomAfterMarker ==
    ASSUME NEW s \in Seq(Frame), NEW f \in Mutation,
           SizeOf(s) + Bytes(f) <= Budget - Reserve
    PROVE  SizeOf(Append(s, f)) + Bytes(Ended) <= Budget
<1>1. Bytes(Ended) = 1 BY DEF Bytes, HasNote, Ended
<1>2. Bytes(f) \in Nat BY DEF Bytes
<1>3. SizeOf(s) \in Nat BY SizeType
<1>4. SizeOf(Append(s, f)) = SizeOf(s) + Bytes(f) BY SizeOfAppend DEF Frame
<1>5. Budget \in Nat /\ Reserve \in Nat /\ Reserve >= 1 BY JournalAssumption
<1>6. QED BY <1>1, <1>2, <1>3, <1>4, <1>5

-----------------------------------------------------------------------------
(* finalize() preserves the invariant: run.ended is the next frame. *)
LEMMA FinalizeRunStep == ASSUME JInv, FinalizeRun PROVE JInv'
<1> DEFINE rev == metaRev + 1
<1>1. /\ frames \in Seq(Frame) /\ metaRev \in Nat /\ faults \in Nat /\ losses \in Nat
      /\ synced \in Nat /\ job \in Job /\ conflict \in BOOLEAN
      /\ acked \in [Op \cup {NoOp} -> [rev : Nat, frame : Frame \cup {NoJob}]]
      /\ Len(frames) \in Nat
  BY DEF JInv, JournalTypeOK
<1>2. /\ 1 <= synced /\ synced <= Len(frames) /\ \A i \in 1..Len(frames) : frames[i].kind # "ended"
  BY DEF JInv, WellFormed, FinalizeRun
<1>3. Ended \in Frame /\ Ended.kind = "ended" /\ Ended.op = NoOp BY DEF Frame, Ended
<1>4. rev \in Nat BY <1>1
<1>5. rev = Len(frames) => frames[rev] # Ended
  <2>1. SUFFICES ASSUME rev = Len(frames) PROVE frames[rev].kind # "ended" BY <1>3
  <2>2. rev \in 1..Len(frames) BY <1>1, <1>2, <2>1
  <2>3. QED BY <1>2, <2>2
<1>6. Accepts(frames, Ended)
  <2>1. frames # <<>> BY <1>1, <1>2
  <2>2. QED BY <1>2, <1>3, <2>1, Zenon DEF Accepts
<1>7. /\ Appends(Ended, rev) /\ active /\ active' = FALSE /\ job' = job /\ losses' = losses
      /\ \/ /\ AppendWorks(Ended, rev) /\ AckedWith(NoOp, rev, Ended)
            /\ metaRev' = rev /\ conflict' = conflict
         \/ /\ AppendRejected(Ended, rev)
            /\ conflict' = (rev <= Len(frames)) /\ acked' = acked /\ metaRev' = metaRev
         \/ AppendFails(Ended, rev) /\ acked' = acked /\ metaRev' = metaRev /\ conflict' = conflict
  BY DEF FinalizeRun, Appends
<1> HIDE DEF rev
<1>8. /\ frames' \in Seq(Frame) /\ synced' \in Nat /\ torn' \in BOOLEAN /\ faults' \in Nat
      /\ warm' \in [phase : WarmPhase, cache : Seq(Frame), reduced : Nat, size : Nat,
                    tail : BOOLEAN]
      /\ Reducible(frames') /\ synced <= synced' /\ synced' <= Len(frames')
      /\ \/ frames' = frames
         \/ frames' = Append(frames, Ended) /\ rev = Len(frames) + 1 /\ Fits(Ended)
      /\ AppendWorks(Ended, rev) => /\ frames' = Append(frames, Ended) /\ rev = Len(frames) + 1
                                    /\ synced' = rev
      /\ CacheIsJournal'
      /\ faults' = 0 => faults = 0 /\ ~AppendFails(Ended, rev)
      /\ faults' = 0 /\ ~AppendWorks(Ended, rev) => AppendRejected(Ended, rev) /\ frames' = frames
  BY <1>3, <1>4, <1>5, <1>6, <1>7, AppendEffect
<1>9. WellFormed' BY <1>1, <1>2, <1>7, <1>8 DEF WellFormed
<1>10. AckedIsKept' /\ acked' \in [Op \cup {NoOp} -> [rev : Nat, frame : Frame \cup {NoJob}]]
  <2>1. CASE acked' = acked
    BY <1>1, <1>3, <1>8, <2>1, KeptWhenGrown DEF AckedIsKept
  <2>2. CASE AppendWorks(Ended, rev) /\ AckedWith(NoOp, rev, Ended)
    BY <1>3, <1>4, <1>8, <2>2, AckedAfterAppend
  <2>3. QED BY <1>7, <2>1, <2>2
<1>11. JournalTypeOK'
  <2>1. metaRev' \in Nat /\ conflict' \in BOOLEAN
    <3>1. metaRev' \in Nat BY <1>1, <1>4, <1>7
    <3>2. (rev <= Len(frames)) \in BOOLEAN OBVIOUS
    <3>3. conflict' \in BOOLEAN BY <1>1, <1>7, <3>2, Zenon
    <3>4. QED BY <3>1, <3>3
  <2>2. QED BY <1>1, <1>7, <1>8, <1>10, <2>1 DEF JournalTypeOK
<1>12. WriterCanEnd'
  <2>1. SUFFICES ASSUME faults' = 0 PROVE ~conflict' BY <1>7 DEF WriterCanEnd
  <2>2. faults = 0 /\ ~AppendFails(Ended, rev) BY <1>8, <2>1
  <2>3. ~conflict /\ metaRev = Len(frames) BY <1>7, <2>2 DEF JInv, WriterCanEnd
  <2>4. ~(rev <= Len(frames)) BY <1>1, <2>3 DEF rev
  <2>5. QED BY <1>7, <2>2, <2>3, <2>4
<1>13. QED BY <1>8, <1>9, <1>10, <1>11, <1>12 DEF JInv

(* A marker mutation preserves the invariant: the cache it was judged by is the
   journal, so the frame is the next one and the reducer accepts it. *)
LEMMA MutateStep == ASSUME JInv, Mutate PROVE JInv'
<1> DEFINE rev == Len(warm.cache) + 1
<1>1. /\ frames \in Seq(Frame) /\ metaRev \in Nat /\ faults \in Nat /\ losses \in Nat
      /\ synced \in Nat /\ job \in Job /\ conflict \in BOOLEAN /\ active \in BOOLEAN
      /\ acked \in [Op \cup {NoOp} -> [rev : Nat, frame : Frame \cup {NoJob}]]
      /\ Len(frames) \in Nat
  BY DEF JInv, JournalTypeOK
<1>2. warm.cache = frames BY DEF JInv, CacheIsJournal, Mutate, Fresh, Current
<1>3. rev = Len(frames) + 1 /\ rev \in Nat BY <1>1, <1>2
<1>4. job \in Mutation /\ job \in Frame /\ job.op \in Op /\ job.op # NoOp
      /\ job.kind \in {"created", "updated", "deleted"}
  <2>1. job # NoJob BY DEF Mutate, Answer
  <2>2. job \in Mutation BY <1>1, <2>1 DEF Job
  <2>3. job.op \in Op /\ job.kind \in {"created", "updated", "deleted"} BY <2>2 DEF Mutation
  <2>4. QED BY <2>2, <2>3, ReducerAssumption DEF Frame
<1>5. /\ 1 <= synced /\ synced <= Len(frames)
      /\ active => \A i \in 1..Len(frames) : frames[i].kind # "ended"
  BY DEF JInv, WellFormed
<1>6. Accepts(frames, job)
  <2>1. frames # <<>> BY <1>1, <1>5
  <2>2. Recorded(frames, job.op) = {} /\ Applicable(frames, job)
    BY <1>2 DEF Mutate, Fresh
  <2>3. CASE job.kind = "created"
    <3>1. job.base = 0 /\ Latest(frames, job.id) = 0 BY <2>2, <2>3 DEF Applicable
    <3>2. QED BY <2>1, <2>2, <2>3, <3>1, Zenon DEF Accepts
  <2>4. CASE job.kind \in {"updated", "deleted"}
    <3>1. job.kind # "started" /\ job.kind # "ended" /\ job.kind # "created" BY <2>4
    <3>2. Exists(frames, job.id) /\ job.base = Latest(frames, job.id)
      BY <2>2, <3>1 DEF Applicable
    <3>3. QED BY <2>1, <2>2, <3>1, <3>2, Zenon DEF Accepts
  <2>5. QED BY <1>4, <2>3, <2>4
<1>7. /\ Appends(job, rev) /\ active' = active /\ job' = NoJob /\ losses' = losses
      /\ conflict' = conflict
      /\ \/ /\ AppendWorks(job, rev) /\ AckedWith(job.op, rev, job) /\ metaRev' = RevisionAfter(rev)
         \/ /\ AppendRejected(job, rev) /\ acked' = acked /\ metaRev' = metaRev
         \/ AppendFails(job, rev) /\ acked' = acked /\ metaRev' = metaRev
  BY DEF Mutate, Answer, Appends
<1> HIDE DEF rev
<1>8. /\ frames' \in Seq(Frame) /\ synced' \in Nat /\ torn' \in BOOLEAN /\ faults' \in Nat
      /\ warm' \in [phase : WarmPhase, cache : Seq(Frame), reduced : Nat, size : Nat,
                    tail : BOOLEAN]
      /\ Reducible(frames') /\ synced <= synced' /\ synced' <= Len(frames')
      /\ \/ frames' = frames
         \/ frames' = Append(frames, job) /\ rev = Len(frames) + 1 /\ Fits(job)
      /\ AppendWorks(job, rev) => /\ frames' = Append(frames, job) /\ rev = Len(frames) + 1
                                  /\ synced' = rev
      /\ CacheIsJournal'
      /\ faults' = 0 => faults = 0 /\ ~AppendFails(job, rev)
      /\ faults' = 0 /\ ~AppendWorks(job, rev) => AppendRejected(job, rev) /\ frames' = frames
  <2>1. rev = Len(frames) => frames[rev] # job BY <1>1, <1>3
  <2>2. QED BY <1>3, <1>4, <1>6, <1>7, <2>1, AppendEffect
<1>9. WellFormed'
  <2>1. SUFFICES ASSUME active', NEW i \in 1..Len(frames') PROVE frames'[i].kind # "ended"
    BY <1>1, <1>5, <1>8 DEF WellFormed
  <2>2. CASE frames' = frames BY <1>5, <1>7, <2>1, <2>2
  <2>3. CASE frames' = Append(frames, job)
    <3>1. Len(frames') = Len(frames) + 1 /\ frames'[Len(frames) + 1] = job
          /\ \A j \in 1..Len(frames) : frames'[j] = frames[j]
      BY <1>1, <2>3
    <3>2. CASE i \in 1..Len(frames) BY <1>5, <1>7, <2>1, <3>1, <3>2
    <3>3. CASE i = Len(frames) + 1 BY <1>4, <3>1, <3>3
    <3>4. QED BY <1>1, <3>1, <3>2, <3>3
  <2>4. QED BY <1>8, <2>2, <2>3
<1>10. AckedIsKept' /\ acked' \in [Op \cup {NoOp} -> [rev : Nat, frame : Frame \cup {NoJob}]]
  <2>1. CASE acked' = acked
    BY <1>1, <1>4, <1>8, <2>1, KeptWhenGrown DEF AckedIsKept
  <2>2. CASE AppendWorks(job, rev) /\ AckedWith(job.op, rev, job)
    BY <1>3, <1>4, <1>8, <2>2, AckedAfterAppend
  <2>3. QED BY <1>7, <2>1, <2>2
<1>11. JournalTypeOK'
  <2>1. metaRev' \in Nat BY <1>1, <1>3, <1>7 DEF RevisionAfter
  <2>2. job' \in Job BY <1>7 DEF Job
  <2>3. QED BY <1>1, <1>7, <1>8, <1>10, <2>1, <2>2 DEF JournalTypeOK
<1>12. WriterCanEnd'
  <2>1. active' => Fits(Ended)'
    <3>1. SUFFICES ASSUME active PROVE SizeOf(frames') + Bytes(Ended) <= Budget
      BY <1>7 DEF Fits, Ended
    <3>2. CASE frames' = frames BY <3>1, <3>2 DEF JInv, WriterCanEnd, Fits, Ended
    <3>3. CASE frames' = Append(frames, job) /\ Fits(job)
      <4>1. SizeOf(frames) + Bytes(job) <= Budget - Reserve BY <1>4, <3>3 DEF Fits
      <4>2. QED BY <1>1, <1>4, <3>3, <4>1, RoomAfterMarker
    <3>4. QED BY <1>8, <3>2, <3>3
  <2>2. active' /\ faults' = 0 => metaRev' = Len(frames')
    <3>1. SUFFICES ASSUME active, faults' = 0 PROVE metaRev' = Len(frames') BY <1>7
    <3>2. faults = 0 /\ ~AppendFails(job, rev) /\ metaRev = Len(frames)
      BY <1>8, <3>1 DEF JInv, WriterCanEnd
    <3>3. CASE AppendWorks(job, rev) /\ metaRev' = RevisionAfter(rev)
      <4>1. frames' = Append(frames, job) /\ rev = Len(frames) + 1 BY <1>8, <3>3
      <4>2. metaRev' = rev BY <3>1, <3>3 DEF RevisionAfter
      <4>3. QED BY <1>1, <4>1, <4>2
    <3>4. CASE AppendRejected(job, rev) /\ metaRev' = metaRev
      BY <3>2, <3>4 DEF AppendRejected
    <3>5. QED BY <1>7, <3>2, <3>3, <3>4
  <2>3. faults' = 0 => ~conflict' BY <1>7, <1>8 DEF JInv, WriterCanEnd
  <2>4. QED BY <2>1, <2>2, <2>3 DEF WriterCanEnd
<1>13. QED BY <1>8, <1>9, <1>10, <1>11, <1>12 DEF JInv

-----------------------------------------------------------------------------
(* A step that leaves the journal and the writer alone. *)
LEMMA CacheOnlyStep ==
    ASSUME JInv, frames' = frames, synced' = synced, torn' \in BOOLEAN, active' = active,
           metaRev' = metaRev, losses' = losses, conflict' = conflict,
           job' \in Job, faults' \in Nat, faults' = 0 => faults = 0,
           warm' \in [phase : WarmPhase, cache : Seq(Frame), reduced : Nat, size : Nat,
                      tail : BOOLEAN],
           CacheIsJournal',
           AckedIsKept', acked' \in [Op \cup {NoOp} -> [rev : Nat, frame : Frame \cup {NoJob}]]
    PROVE  JInv'
<1>1. JournalTypeOK' BY DEF JInv, JournalTypeOK
<1>2. WellFormed' BY DEF JInv, WellFormed
<1>3. WriterCanEnd' BY DEF JInv, WriterCanEnd, Fits
<1>4. QED BY <1>1, <1>2, <1>3 DEF JInv

(* Asking, refusing, failing to look and displacing the cache preserve the invariant. *)
LEMMA QuietStep ==
    ASSUME JInv, AskAny \/ Refuse \/ AnswerError \/ Displace PROVE JInv'
<1>1. /\ job \in Job /\ faults \in Nat /\ torn \in BOOLEAN /\ CacheIsJournal /\ AckedIsKept
      /\ acked \in [Op \cup {NoOp} -> [rev : Nat, frame : Frame \cup {NoJob}]]
      /\ warm \in [phase : WarmPhase, cache : Seq(Frame), reduced : Nat, size : Nat,
                   tail : BOOLEAN]
  BY DEF JInv, JournalTypeOK
<1>2. NoJob \in Job BY DEF Job
<1>3. frames' = frames /\ synced' = synced /\ torn' = torn /\ active' = active
      /\ metaRev' = metaRev /\ losses' = losses /\ conflict' = conflict /\ acked' = acked
  <2>1. CASE AskAny BY <2>1 DEF AskAny, Ask
  <2>2. CASE Refuse BY <2>2 DEF Refuse
  <2>3. CASE AnswerError BY <2>3 DEF AnswerError
  <2>4. CASE Displace BY <2>4 DEF Displace, Untouched
  <2>5. QED BY <2>1, <2>2, <2>3, <2>4
<1>4. AckedIsKept' BY <1>1, <1>3 DEF AckedIsKept
<1>5. job' \in Job
  <2>1. CASE AskAny
    <3>1. PICK kind \in {"created", "updated", "deleted"}, op \in Op, id \in Marker,
               base \in 0..MaxBase : job' = [kind |-> kind, op |-> op, id |-> id, base |-> base]
      BY <2>1 DEF AskAny, Ask
    <3>2. base \in Nat BY JournalAssumption
    <3>3. QED BY <3>1, <3>2 DEF Job, Mutation
  <2>2. CASE Refuse BY <1>2, <2>2 DEF Refuse, Answer
  <2>3. CASE AnswerError BY <1>2, <2>3 DEF AnswerError, Answer
  <2>4. CASE Displace BY <1>1, <2>4 DEF Displace, Untouched
  <2>5. QED BY <2>1, <2>2, <2>3, <2>4
<1>6. faults' \in Nat /\ (faults' = 0 => faults = 0)
  <2>1. CASE AskAny BY <1>1, <2>1 DEF AskAny, Ask
  <2>2. CASE Refuse BY <1>1, <2>2 DEF Refuse
  <2>3. CASE AnswerError BY <1>1, <2>3 DEF AnswerError, Fault
  <2>4. CASE Displace BY <1>1, <2>4 DEF Displace, Untouched
  <2>5. QED BY <2>1, <2>2, <2>3, <2>4
<1>7. warm' \in {warm, IdleWarm, [warm EXCEPT !.phase = "error"]}
  <2>1. CASE AskAny BY <2>1 DEF AskAny, Ask
  <2>2. CASE Refuse BY <2>2 DEF Refuse
  <2>3. CASE AnswerError BY <2>3 DEF AnswerError
  <2>4. CASE Displace BY <2>4 DEF Displace
  <2>5. QED BY <2>1, <2>2, <2>3, <2>4
<1>8. /\ warm' \in [phase : WarmPhase, cache : Seq(Frame), reduced : Nat, size : Nat,
                    tail : BOOLEAN]
      /\ CacheIsJournal'
  <2>1. CASE warm' = warm BY <1>1, <1>3, <2>1 DEF CacheIsJournal
  <2>2. CASE warm' = IdleWarm
    <3>1. <<>> \in Seq(Frame) OBVIOUS
    <3>2. QED BY <2>2, <3>1 DEF CacheIsJournal, IdleWarm, WarmPhase
  <2>3. CASE warm' = [warm EXCEPT !.phase = "error"]
    BY <1>1, <2>3 DEF CacheIsJournal, WarmPhase
  <2>4. QED BY <1>7, <2>1, <2>2, <2>3
<1>9. QED BY <1>1, <1>3, <1>4, <1>5, <1>6, <1>8, CacheOnlyStep

(* A repeated request is acknowledged with the frame the journal holds. *)
LEMMA ReplayStep == ASSUME JInv, Replay PROVE JInv'
<1>1. /\ job \in Job /\ faults \in Nat /\ torn \in BOOLEAN /\ AckedIsKept /\ frames \in Seq(Frame)
      /\ acked \in [Op \cup {NoOp} -> [rev : Nat, frame : Frame \cup {NoJob}]]
      /\ warm \in [phase : WarmPhase, cache : Seq(Frame), reduced : Nat, size : Nat,
                   tail : BOOLEAN]
  BY DEF JInv, JournalTypeOK
<1>2. warm.cache = frames /\ synced = Len(frames)
  BY DEF JInv, CacheIsJournal, Replay, Current
<1>3. /\ frames' = frames /\ synced' = synced /\ torn' = torn /\ active' = active
      /\ metaRev' = metaRev /\ losses' = losses /\ conflict' = conflict /\ job' = NoJob
      /\ faults' = faults /\ warm' = warm
  BY DEF Replay, Answer
<1>4. CacheIsJournal' BY <1>3 DEF JInv, CacheIsJournal
<1>5. AckedIsKept' /\ acked' \in [Op \cup {NoOp} -> [rev : Nat, frame : Frame \cup {NoJob}]]
  <2>1. CASE acked' = acked BY <1>1, <1>3, <2>1 DEF AckedIsKept
  <2>2. ASSUME NEW i \in Recorded(frames, job.op), frames[i] = job, AckedWith(job.op, i, job)
        PROVE  AckedIsKept' /\ acked' \in [Op \cup {NoOp} -> [rev : Nat, frame : Frame \cup {NoJob}]]
    <3>1. i \in 1..Len(frames) BY DEF Recorded
    <3>2. job \in Mutation BY <1>1 DEF Job, Replay, Answer
    <3>3. job.op \in Op /\ job.op # NoOp /\ job \in Frame
      BY <3>2, ReducerAssumption DEF Mutation, Frame
    <3>4. acked' = [acked EXCEPT ![job.op] = [rev |-> i, frame |-> job]]
      BY <2>2 DEF AckedWith
    <3>5. acked' \in [Op \cup {NoOp} -> [rev : Nat, frame : Frame \cup {NoJob}]]
      BY <1>1, <3>1, <3>3, <3>4
    <3>6. SUFFICES ASSUME NEW o \in Op \cup {NoOp}, acked'[o].rev # 0
                   PROVE  /\ acked'[o].rev <= synced' /\ frames'[acked'[o].rev] = acked'[o].frame
                          /\ acked'[o].frame.op = o
                          /\ o = NoOp => acked'[o].frame.kind = "ended"
      BY <3>5 DEF AckedIsKept
    <3>7. CASE o = job.op
      <4>1. acked'[o] = [rev |-> i, frame |-> job] BY <1>1, <3>4, <3>7
      <4>2. QED BY <1>2, <1>3, <2>2, <3>1, <3>3, <3>7, <4>1
    <3>8. CASE o # job.op
      <4>1. acked'[o] = acked[o] BY <1>1, <3>4, <3>8
      <4>2. QED BY <1>1, <1>3, <3>6, <4>1 DEF AckedIsKept
    <3>9. QED BY <3>7, <3>8
  <2>3. acked' = acked \/ \E i \in Recorded(frames, job.op) :
                              frames[i] = job /\ AckedWith(job.op, i, job)
    BY <1>2 DEF Replay
  <2>4. QED BY <2>1, <2>2, <2>3
<1>6. job' \in Job BY <1>3 DEF Job
<1>7. QED BY <1>1, <1>3, <1>4, <1>5, <1>6, CacheOnlyStep

(* A power loss leaves a readable prefix that holds everything acknowledged. *)
LEMMA PowerLossStep == ASSUME JInv, PowerLoss PROVE JInv'
<1>1. /\ frames \in Seq(Frame) /\ synced \in Nat /\ faults \in Nat /\ losses \in Nat
      /\ torn \in BOOLEAN /\ conflict \in BOOLEAN /\ Len(frames) \in Nat
      /\ acked \in [Op \cup {NoOp} -> [rev : Nat, frame : Frame \cup {NoJob}]]
      /\ Reducible(frames) /\ 1 <= synced /\ synced <= Len(frames)
  BY DEF JInv, JournalTypeOK, WellFormed
<1>2. PICK kept \in synced..Len(frames) :
        /\ frames' = SubSeq(frames, 1, kept) /\ synced' = kept
        /\ torn' \in IF kept < Len(frames) \/ torn THEN BOOLEAN ELSE {FALSE}
  BY DEF PowerLoss
<1>3. /\ active' = FALSE /\ metaRev' = 0 /\ warm' = IdleWarm /\ job' = NoJob
      /\ faults' = faults /\ acked' = acked /\ conflict' = conflict /\ losses' = losses + 1
  BY DEF PowerLoss
<1>4. kept \in 0..Len(frames) /\ kept \in Nat BY <1>1
<1>5. /\ frames' \in Seq(Frame) /\ Len(frames') = kept
      /\ \A i \in 1..kept : frames'[i] = frames[i]
  BY <1>1, <1>2, <1>4
<1>6. Reducible(frames') BY <1>1, <1>2, <1>4, ReduciblePrefix
<1>7. JournalTypeOK'
  <2>1. <<>> \in Seq(Frame) OBVIOUS
  <2>2. warm' \in [phase : WarmPhase, cache : Seq(Frame), reduced : Nat, size : Nat, tail : BOOLEAN]
    BY <1>3, <2>1 DEF IdleWarm, WarmPhase
  <2>3. torn' \in BOOLEAN BY <1>2
  <2>4. job' \in Job BY <1>3 DEF Job
  <2>5. synced' \in Nat /\ metaRev' \in Nat /\ losses' \in Nat BY <1>1, <1>2, <1>3, <1>4
  <2>5a. active' \in BOOLEAN BY <1>3
  <2>6. QED BY <1>1, <1>3, <1>5, <2>2, <2>3, <2>4, <2>5, <2>5a DEF JournalTypeOK
<1>8. WellFormed' BY <1>1, <1>2, <1>3, <1>4, <1>5, <1>6 DEF WellFormed
<1>9. CacheIsJournal' BY <1>3 DEF CacheIsJournal, IdleWarm
<1>10. AckedIsKept'
  <2>1. SUFFICES ASSUME NEW o \in Op \cup {NoOp}, acked[o].rev # 0
                 PROVE  /\ acked[o].rev <= synced' /\ frames'[acked[o].rev] = acked[o].frame
                        /\ acked[o].frame.op = o
                        /\ o = NoOp => acked[o].frame.kind = "ended"
    BY <1>3 DEF AckedIsKept
  <2>2. /\ acked[o].rev <= synced /\ frames[acked[o].rev] = acked[o].frame
        /\ acked[o].frame.op = o
        /\ o = NoOp => acked[o].frame.kind = "ended"
    BY <2>1 DEF JInv, AckedIsKept
  <2>3. acked[o].rev \in Nat BY <1>1
  <2>4. acked[o].rev \in 1..kept BY <1>1, <2>1, <2>2, <2>3
  <2>5. QED BY <1>2, <1>5, <2>2, <2>4
<1>11. WriterCanEnd' BY <1>3 DEF JInv, WriterCanEnd
<1>12. QED BY <1>7, <1>8, <1>9, <1>10, <1>11 DEF JInv

-----------------------------------------------------------------------------
(* What a turn reads when there is no more to read is the journal. *)
LEMMA ReadOnReaches ==
    ASSUME JInv
    PROVE  /\ ReadOn(warm) \in [phase : WarmPhase, cache : Seq(Frame), reduced : Nat, size : Nat,
                                tail : BOOLEAN]
           /\ ReadOn(warm).phase = "reading"
           /\ ~MoreToRead(ReadOn(warm)) => ReadOn(warm).cache = frames
<1> DEFINE far == Len(warm.cache) + FramesPerStep
           to == IF far < Len(frames) THEN far ELSE Len(frames)
           w == ReadOn(warm)
<1>1. /\ frames \in Seq(Frame) /\ torn \in BOOLEAN /\ Len(frames) \in Nat
      /\ warm \in [phase : WarmPhase, cache : Seq(Frame), reduced : Nat, size : Nat,
                   tail : BOOLEAN]
      /\ FramesPerStep \in Nat
  BY JournalAssumption DEF JInv, JournalTypeOK
<1>2. to \in 0..Len(frames) BY <1>1
<1>3. SizeOf(frames) \in Nat /\ FileSize \in Nat /\ SizeOf(frames) <= FileSize
  BY <1>1, FileSizeType
<1> HIDE DEF to
<1>4. SubSeq(frames, 1, to) \in Seq(Frame) BY <1>1, <1>2
<1>5. w = [warm EXCEPT !.phase = "reading", !.size = FileSize, !.cache = SubSeq(frames, 1, to),
                       !.tail = torn /\ to = Len(frames)]
  BY DEF ReadOn, to
<1>6. (torn /\ to = Len(frames)) \in BOOLEAN OBVIOUS
<1>7. /\ w.phase = "reading" /\ w.size = FileSize /\ w.cache = SubSeq(frames, 1, to)
      /\ w.tail = (torn /\ to = Len(frames)) /\ w.reduced = warm.reduced
      /\ w = [phase |-> w.phase, cache |-> w.cache, reduced |-> w.reduced, size |-> w.size,
              tail |-> w.tail]
  BY <1>1, <1>5
<1>8. w \in [phase : WarmPhase, cache : Seq(Frame), reduced : Nat, size : Nat, tail : BOOLEAN]
  <2>1. warm.reduced \in Nat /\ "reading" \in WarmPhase BY <1>1 DEF WarmPhase
  <2>2. w.tail \in BOOLEAN BY <1>6, <1>7
  <2> HIDE DEF w
  <2>3. QED BY <1>3, <1>4, <1>7, <2>1, <2>2
<1>9. ASSUME ~MoreToRead(w) PROVE w.cache = frames
  <2>1. to = Len(frames)
    <3>1. CASE w.tail BY <1>7, <3>1
    <3>2. CASE ~w.tail
      <4>1. ~(SizeOf(w.cache) < FileSize) BY <1>9, <3>2 DEF MoreToRead
      <4>2. SizeOf(SubSeq(frames, 1, to)) <= SizeOf(frames) - (Len(frames) - to)
        BY <1>1, <1>2, SizeOfPrefix
      <4>3. SizeOf(SubSeq(frames, 1, to)) \in Nat BY <1>4, SizeType
      <4>4. QED BY <1>1, <1>2, <1>3, <1>7, <4>1, <4>2, <4>3
    <3>3. QED BY <3>1, <3>2
  <2>2. QED BY <1>1, <1>7, <2>1
<1>10. QED BY <1>7, <1>8, <1>9

(* A turn that reduces a cache of the whole journal. *)
LEMMA ReduceStep ==
    ASSUME JInv,
           NEW w \in [phase : WarmPhase, cache : Seq(Frame), reduced : Nat, size : Nat,
                      tail : BOOLEAN],
           w.cache = frames, Reduce(w),
           active' = active, losses' = losses, acked' = acked, conflict' = conflict
    PROVE  JInv'
<1> DEFINE v == Ingested(w)
           Warm == [phase : WarmPhase, cache : Seq(Frame), reduced : Nat, size : Nat, tail : BOOLEAN]
<1>1. /\ frames \in Seq(Frame) /\ torn \in BOOLEAN /\ Len(frames) \in Nat /\ faults \in Nat
      /\ job \in Job /\ metaRev \in Nat /\ synced \in Nat /\ synced <= Len(frames)
      /\ losses \in Nat /\ conflict \in BOOLEAN /\ active \in BOOLEAN
      /\ acked \in [Op \cup {NoOp} -> [rev : Nat, frame : Frame \cup {NoJob}]]
      /\ FramesPerStep \in Nat /\ AckedIsKept /\ NoJob \in Job
  BY JournalAssumption DEF JInv, JournalTypeOK, WellFormed, Job
<1>2. v \in Warm /\ v.phase = "reducing" /\ v.cache = frames
  <2>1. w.reduced + FramesPerStep \in Nat BY <1>1
  <2>2. QED BY <1>1, <2>1 DEF Ingested, WarmPhase
<1> HIDE DEF v
<1>3. /\ [v EXCEPT !.phase = "error"] \in Warm
      /\ [v EXCEPT !.phase = "error"].phase = "error"
  BY <1>2 DEF WarmPhase
<1>4. IdleWarm \in Warm /\ IdleWarm.phase = "idle"
  <2>1. <<>> \in Seq(Frame) OBVIOUS
  <2>2. QED BY <2>1 DEF IdleWarm, WarmPhase
<1>5. FileSize \in Nat BY <1>1, FileSizeType
<1>6. SizeOf(v.cache) \in Nat BY <1>1, <1>2, SizeType
<1>7. ASSUME frames' = frames, synced' = synced, torn' \in BOOLEAN, metaRev' = metaRev,
             faults' \in Nat, faults' = 0 => faults = 0, job' \in Job,
             warm' \in Warm, warm'.phase # "ready", warm'.phase = "reducing" => warm'.cache = frames
      PROVE  JInv'
  <2>1. CacheIsJournal' BY <1>7 DEF CacheIsJournal
  <2>2. AckedIsKept' BY <1>1, <1>7 DEF AckedIsKept
  <2>3. acked' \in [Op \cup {NoOp} -> [rev : Nat, frame : Frame \cup {NoJob}]] BY <1>1
  <2>4. QED BY <1>7, <2>1, <2>2, <2>3, CacheOnlyStep
<1>8. CASE warm' = v /\ Untouched
  BY <1>1, <1>2, <1>7, <1>8 DEF Untouched
<1>9. CASE /\ faults' \in {faults, faults + 1}
           /\ warm' = [v EXCEPT !.phase = "error"] /\ job' = NoJob
           /\ UNCHANGED <<frames, synced, torn, metaRev>>
  BY <1>1, <1>3, <1>7, <1>9
<1>10. CASE Conclude(v)
  <2>1. CASE warm' = IdleWarm /\ Untouched
    BY <1>1, <1>4, <1>7, <2>1 DEF Untouched
  <2>2. CASE warm' = [v EXCEPT !.phase = "reading", !.size = FileSize] /\ Untouched
    <3>1. warm' \in Warm /\ warm'.phase = "reading" BY <1>2, <1>5, <2>2 DEF WarmPhase
    <3>2. QED BY <1>1, <1>7, <2>2, <3>1 DEF Untouched
  <2>3. CASE /\ Fault /\ warm' = IdleWarm /\ job' = NoJob
             /\ torn' \in {torn, torn /\ ~v.tail}
             /\ UNCHANGED <<frames, synced, metaRev>>
    <3>1. torn' \in BOOLEAN BY <1>1, <2>3
    <3>2. faults' \in Nat /\ (faults' = 0 => faults = 0) BY <1>1, <2>3 DEF Fault
    <3>3. QED BY <1>1, <1>4, <1>7, <2>3, <3>1, <3>2
  <2>4. CASE /\ frames' = IF v.tail THEN v.cache ELSE frames
             /\ torn' = (torn /\ ~v.tail)
             /\ synced' = Len(frames')
             /\ warm' = [v EXCEPT !.phase = "ready", !.tail = FALSE,
                                  !.size = IF v.tail THEN SizeOf(v.cache) ELSE v.size]
             /\ metaRev' = IF active THEN Len(v.cache) ELSE metaRev
             /\ UNCHANGED <<faults, job>>
    <3>1. frames' = frames /\ synced' = Len(frames) BY <1>2, <2>4
    <3>2. torn' \in BOOLEAN BY <2>4
    <3>3. warm' \in Warm /\ warm'.phase = "ready" /\ warm'.cache = frames
      <4>1. (IF v.tail THEN SizeOf(v.cache) ELSE v.size) \in Nat BY <1>2, <1>6
      <4>2. QED BY <1>2, <2>4, <4>1 DEF WarmPhase
    <3>4. metaRev' = (IF active THEN Len(frames) ELSE metaRev) /\ metaRev' \in Nat
      BY <1>1, <1>2, <2>4
    <3>5. JournalTypeOK'
      BY <1>1, <2>4, <3>1, <3>2, <3>3, <3>4 DEF JournalTypeOK
    <3>6. WellFormed' BY <1>1, <3>1 DEF JInv, WellFormed
    <3>7. CacheIsJournal' BY <3>1, <3>3 DEF CacheIsJournal
    <3>8. AckedIsKept'
      <4>1. SUFFICES ASSUME NEW o \in Op \cup {NoOp}, acked[o].rev # 0
                     PROVE  /\ acked[o].rev <= synced'
                            /\ frames'[acked[o].rev] = acked[o].frame
                            /\ acked[o].frame.op = o
                            /\ o = NoOp => acked[o].frame.kind = "ended"
        BY DEF AckedIsKept
      <4>2. synced <= synced' /\ synced' \in Nat BY <1>1, <3>1
      <4>3. QED BY <3>1, <4>1, <4>2, KeptWhenGrown DEF Frame
    <3>9. WriterCanEnd'
      <4>1. active' => Fits(Ended)' BY <3>1 DEF JInv, WriterCanEnd, Fits
      <4>2. active' /\ faults' = 0 => metaRev' = Len(frames') BY <3>1, <3>4
      <4>3. faults' = 0 => ~conflict' BY <2>4 DEF JInv, WriterCanEnd
      <4>4. QED BY <4>1, <4>2, <4>3 DEF WriterCanEnd
    <3>10. QED BY <3>5, <3>6, <3>7, <3>8, <3>9 DEF JInv
  <2>5. QED BY <1>10, <2>1, <2>2, <2>3, <2>4 DEF Conclude
<1>11. QED
  <2>1. \/ warm' = v /\ Untouched
        \/ Conclude(v)
        \/ /\ faults' \in {faults, faults + 1}
           /\ warm' = [v EXCEPT !.phase = "error"] /\ job' = NoJob
           /\ UNCHANGED <<frames, synced, torn, metaRev>>
    BY DEF Reduce, v
  <2>2. QED BY <2>1, <1>8, <1>9, <1>10

(* An owner-loop turn of warming preserves the invariant. *)
LEMMA WarmStepStep == ASSUME JInv, WarmStep PROVE JInv'
<1>1. /\ job \in Job /\ faults \in Nat /\ torn \in BOOLEAN /\ AckedIsKept
      /\ acked \in [Op \cup {NoOp} -> [rev : Nat, frame : Frame \cup {NoJob}]]
      /\ warm \in [phase : WarmPhase, cache : Seq(Frame), reduced : Nat, size : Nat,
                   tail : BOOLEAN]
  BY DEF JInv, JournalTypeOK
<1>2. active' = active /\ losses' = losses /\ acked' = acked /\ conflict' = conflict
  BY DEF WarmStep
<1>3. ASSUME Untouched, warm' = IdleWarm \/ warm' = ReadOn(warm) PROVE JInv'
  <2>1. <<>> \in Seq(Frame) OBVIOUS
  <2>2. /\ IdleWarm \in [phase : WarmPhase, cache : Seq(Frame), reduced : Nat, size : Nat,
                         tail : BOOLEAN]
        /\ IdleWarm.phase = "idle"
    BY <2>1 DEF IdleWarm, WarmPhase
  <2>3. /\ warm' \in [phase : WarmPhase, cache : Seq(Frame), reduced : Nat, size : Nat,
                      tail : BOOLEAN]
        /\ warm'.phase \in {"idle", "reading"}
    BY <1>3, <2>2, ReadOnReaches
  <2>4. CacheIsJournal' BY <2>3 DEF CacheIsJournal
  <2>5. frames' = frames /\ synced' = synced /\ torn' = torn /\ metaRev' = metaRev
        /\ faults' = faults /\ job' = job
    BY <1>3 DEF Untouched
  <2>6. AckedIsKept' BY <1>1, <1>2, <2>5 DEF AckedIsKept
  <2>7. QED BY <1>1, <1>2, <2>3, <2>4, <2>5, <2>6, CacheOnlyStep
<1>4. CASE warm.phase = "reducing" /\ Reduce(warm)
  <2>1. warm.cache = frames BY <1>4 DEF JInv, CacheIsJournal
  <2>2. QED BY <1>1, <1>2, <1>4, <2>1, ReduceStep
<1>5. CASE ~MoreToRead(ReadOn(warm)) /\ Reduce(ReadOn(warm))
  BY <1>2, <1>5, ReadOnReaches, ReduceStep
<1>6. QED BY <1>3, <1>4, <1>5 DEF WarmStep

-----------------------------------------------------------------------------
(* Every step of the journal, its cache and its clients preserves the invariant. *)
THEOREM JournalInvariantStep == JInv /\ [Next]_vars => JInv'
<1> SUFFICES ASSUME JInv, [Next]_vars PROVE JInv' OBVIOUS
<1>1. CASE UNCHANGED vars
  BY <1>1 DEF vars, JInv, JournalTypeOK, WellFormed, CacheIsJournal, AckedIsKept, WriterCanEnd,
              Fits
<1>2. CASE AskAny \/ Refuse \/ AnswerError \/ Displace BY <1>2, QuietStep
<1>3. CASE WarmStep BY <1>3, WarmStepStep
<1>4. CASE Replay BY <1>4, ReplayStep
<1>5. CASE Mutate BY <1>5, MutateStep
<1>6. CASE FinalizeRun BY <1>6, FinalizeRunStep
<1>7. CASE PowerLoss BY <1>7, PowerLossStep
<1>8. QED BY <1>1, <1>2, <1>3, <1>4, <1>5, <1>6, <1>7 DEF Next, Step

(* The invariant holds in every reachable state of the journal. *)
THEOREM JournalInvariant == Spec => []JInv
<1>1. Init => JInv BY InitJInv
<1>2. JInv /\ [Next]_vars => JInv' BY JournalInvariantStep
<1>3. QED BY <1>1, <1>2, PTL DEF Spec

(* A mutation or an end of run that was acknowledged stays in the journal and on
   the medium, at the revision of the answer, through faults, repairs of the tail
   and power losses; and the journal stays one the reducer can read. *)
THEOREM AcknowledgedFramesSurvive == Spec => []AckedFramesSurvive
<1>1. JInv => AckedFramesSurvive
  <2> SUFFICES ASSUME JInv PROVE AckedFramesSurvive OBVIOUS
  <2>2. DOMAIN acked = Op \cup {NoOp} BY DEF JInv, JournalTypeOK
  <2>3. QED BY <2>2 DEF JInv, WellFormed, AckedIsKept, AckedFramesSurvive
<1>2. QED BY <1>1, JournalInvariant, PTL

(* The journal records an operation at most once, however often it is asked for. *)
THEOREM OperationsAppliedOnce == Spec => []AppliedOnce
<1>1. JInv => AppliedOnce
  BY ReducibleOnce DEF JInv, JournalTypeOK, WellFormed, AppliedOnce
<1>2. QED BY <1>1, JournalInvariant, PTL

(* The run being recorded can always end: its frame fits, and without faults its
   revision is the next one. *)
THEOREM RunCanEnd == Spec => []EndFits
<1>1. JInv => EndFits BY DEF JInv, WriterCanEnd, EndFits
<1>2. QED BY <1>1, JournalInvariant, PTL

(* An operation that has been answered is answered the same way again. *)
THEOREM RepeatedAnswersAgree == Spec => AnswersAgree
<1> DEFINE Agree == \A o \in DOMAIN acked : acked[o].rev # 0 => acked'[o] = acked[o]
<1>1. JInv /\ [Next]_vars => [Agree]_vars
  <2> SUFFICES ASSUME JInv, [Next]_vars, NEW o \in DOMAIN acked, acked[o].rev # 0
               PROVE  acked'[o] = acked[o]
    OBVIOUS
  <2>1. /\ o \in Op \cup {NoOp} /\ frames \in Seq(Frame) /\ synced \in Nat /\ synced <= Len(frames)
        /\ acked \in [Op \cup {NoOp} -> [rev : Nat, frame : Frame \cup {NoJob}]]
        /\ Reducible(frames) /\ job \in Job
    BY DEF JInv, JournalTypeOK, WellFormed
  <2>2. /\ acked[o].rev <= synced /\ frames[acked[o].rev] = acked[o].frame
        /\ acked[o].frame.op = o
        /\ o = NoOp => acked[o].frame.kind = "ended"
    BY <2>1 DEF JInv, AckedIsKept
  <2>3. acked[o].rev \in 1..Len(frames)
    <3>1. acked[o].rev \in Nat BY <2>1
    <3>2. QED BY <2>1, <2>2, <3>1
  <2>4. CASE acked' = acked BY <2>4
  <2>5. CASE Replay
    <3>1. warm.cache = frames BY <2>5 DEF JInv, CacheIsJournal, Replay, Current
    <3>2. job.op \in Op /\ job.op # NoOp
      <4>1. job \in Mutation BY <2>1, <2>5 DEF Job, Replay, Answer
      <4>2. QED BY <4>1, ReducerAssumption DEF Mutation
    <3>3. PICK i \in Recorded(frames, job.op) :
              \/ AckedWith(job.op, i, job) /\ frames[i] = job
              \/ acked' = acked
      BY <2>5, <3>1 DEF Replay
    <3>4. CASE AckedWith(job.op, i, job) /\ frames[i] = job /\ o = job.op
      <4>1. i \in 1..Len(frames) /\ frames[i].op = job.op BY <3>3 DEF Recorded
      <4>2. i = acked[o].rev BY <2>1, <2>2, <2>3, <3>2, <3>4, <4>1, ReducibleOnce
      <4>3. acked'[o] = [rev |-> i, frame |-> job] BY <2>1, <3>4 DEF AckedWith
      <4>4. acked[o] = [rev |-> acked[o].rev, frame |-> acked[o].frame] BY <2>1
      <4>5. QED BY <2>2, <3>4, <4>2, <4>3, <4>4
    <3>5. CASE AckedWith(job.op, i, job) /\ o # job.op
      BY <2>1, <3>5 DEF AckedWith
    <3>6. QED BY <3>3, <3>4, <3>5
  <2>6. CASE Mutate
    <3>1. warm.cache = frames BY <2>6 DEF JInv, CacheIsJournal, Mutate, Fresh, Current
    <3>2. Recorded(frames, job.op) = {} BY <2>6, <3>1 DEF Mutate, Fresh
    <3>3. o # job.op BY <2>2, <2>3, <3>2 DEF Recorded
    <3>4. acked' = acked \/ \E i, f : AckedWith(job.op, i, f) BY <2>6 DEF Mutate
    <3>5. QED BY <2>1, <3>3, <3>4 DEF AckedWith
  <2>7. CASE FinalizeRun
    <3>1. frames[acked[o].rev].kind # "ended"
      BY <2>3, <2>7 DEF JInv, WellFormed, FinalizeRun
    <3>2. o # NoOp BY <2>2, <3>1
    <3>3. acked' = acked \/ \E i, f : AckedWith(NoOp, i, f) BY <2>7 DEF FinalizeRun
    <3>4. QED BY <2>1, <3>2, <3>3 DEF AckedWith
  <2>8. CASE UNCHANGED vars BY <2>8 DEF vars
  <2>9. CASE AskAny BY <2>9 DEF AskAny, Ask
  <2>10. CASE WarmStep BY <2>10 DEF WarmStep
  <2>11. CASE Refuse BY <2>11 DEF Refuse
  <2>12. CASE AnswerError BY <2>12 DEF AnswerError
  <2>13. CASE Displace BY <2>13 DEF Displace
  <2>14. CASE PowerLoss BY <2>14 DEF PowerLoss
  <2>15. QED
    BY <2>5, <2>6, <2>7, <2>8, <2>9, <2>10, <2>11, <2>12, <2>13, <2>14 DEF Next, Step
<1>2. QED BY <1>1, JournalInvariant, PTL DEF AnswersAgree, Spec
=============================================================================
