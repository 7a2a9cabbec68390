-------------------------- MODULE ArchiveSlotsProofs --------------------------
(***************************************************************************)
(* Proofs about ArchiveSlots, for any number of requests, slots and jobs   *)
(* and every interleaving of the AsyncTCP task with the owner loop.  SInv  *)
(* is the inductive invariant: who holds a slot at each point of poll(),   *)
(* and that the generation of a lease tells a holder from a former one.    *)
(***************************************************************************)
EXTENDS ArchiveSlots, FiniteSetTheorems, SequenceTheorems, TLAPS

SlotState == {"free", "assembling", "queued", "ready", "sending", "cancelled"}
Phase == {"new", "sending", "waiting", "answered", "gone"}
Pc == {"idle", "answer", "ready", "take", "send", "finish"}
Leases == [slot : Slots, gen : Nat]
Entries == 0..(JobCapacity - 1)
Holding == [of : Request, what : {"body", "answer", "refusal"}] \cup {None}

SlotRecord == [state : SlotState, gen : Nat, cancelled : BOOLEAN, invalid : BOOLEAN,
               request : Request \cup {None}, holds : Holding]
JobRecord == [request : Request \cup {None}, slot : Slots \cup {0}, gen : Nat,
              cancelled : BOOLEAN, waits : Nat]
ClientRecord == [phase : Phase, lease : Leases \cup {None}, got : Holding]

SlotsTypeOK ==
    /\ slot \in [Slots -> SlotRecord]
    /\ jobs \in [Entries -> JobRecord]
    /\ head \in Entries /\ tail \in Entries /\ count \in 0..JobCapacity
    /\ loop \in [pc : Pc, sent : BOOLEAN]
    /\ client \in [Request -> ClientRecord]
    /\ response \in [Request -> Leases \cup {None}]
    /\ starved \subseteq Request /\ ran \in Seq(Request)

(* The jobs of the ring are the count entries from head on, the next one goes in
   at tail, and the loop works on one only if there is one. *)
RingOK ==
    /\ tail = (head + count) % JobCapacity
    /\ ~At("idle") => count > 0

Valid(l) == slot[l.slot].gen = l.gen
StateOf(l) == slot[l.slot].state
LeaseOf(k) == Lease(jobs[k].slot, jobs[k].gen)
OwnAnswer(k) == slot[jobs[k].slot].holds = AnswerTo(jobs[k].request)

(* A connected client's lease is still good while it sends its body and while its
   answer is being copied out. *)
ClientOK(r) ==
    /\ client[r].got \in {None, RefusalOf(r), AnswerTo(r)}
    /\ client[r].phase \in {"new", "sending", "waiting"} => client[r].got = None
    /\ client[r].phase = "new" => client[r].lease = None
    /\ client[r].lease # None =>
          /\ client[r].lease.gen <= slot[client[r].lease.slot].gen
          /\ Valid(client[r].lease) /\ StateOf(client[r].lease) # "free"
                => slot[client[r].lease.slot].request = r
    /\ client[r].phase = "sending" =>
          client[r].lease # None /\ Valid(client[r].lease)
          /\ StateOf(client[r].lease) = "assembling"
    /\ response[r] # None =>
          /\ client[r].phase = "answered" /\ client[r].lease = response[r]
          /\ client[r].got = None
          /\ Valid(response[r]) /\ StateOf(response[r]) = "sending"
          /\ slot[response[r].slot].holds = AnswerTo(r)
          /\ r \in Range(ran)
ClientsHold == \A r \in Request : ClientOK(r)

(* A job waits for the client that asked for it, under a lease of its own. *)
JobOK(k) ==
    /\ jobs[k].slot \in Slots /\ jobs[k].request \in Request
    /\ jobs[k].gen <= slot[jobs[k].slot].gen
    /\ client[jobs[k].request].phase \in {"waiting", "answered", "gone"}
    /\ client[jobs[k].request].phase = "waiting" => client[jobs[k].request].lease = LeaseOf(k)
    /\ Valid(LeaseOf(k)) /\ StateOf(LeaseOf(k)) # "free"
          => slot[jobs[k].slot].request = jobs[k].request
JobsWait ==
    /\ \A k \in QueuedJobs : JobOK(k)
    /\ \A k, m \in QueuedJobs : m # k => LeaseOf(m) # LeaseOf(k)

(* Where the slot of a job is, at each point of poll(). *)
InLine(k) == Valid(LeaseOf(k)) /\ StateOf(LeaseOf(k)) \in {"queued", "cancelled"}
JobsHold ==
    /\ \A k \in QueuedJobs :
          k # head \/ loop.pc \in {"idle", "answer", "ready"} => InLine(k)
    /\ At("take") => Valid(JobLease) /\ StateOf(JobLease) \in {"ready", "cancelled"}
    /\ At("send") => /\ Valid(JobLease) /\ StateOf(JobLease) = "sending"
                     /\ \A r \in Request : response[r] # JobLease
    /\ At("finish") /\ ~loop.sent /\ Valid(JobLease) =>
          StateOf(JobLease) \in {"free", "queued", "ready", "cancelled"}
    /\ At("finish") /\ loop.sent /\ Valid(JobLease) =>
          StateOf(JobLease) \in {"free", "sending"}
    /\ loop.pc \in {"ready", "take", "send"} => OwnAnswer(head)
    /\ loop.pc \in {"answer", "ready", "take", "send"} => Job.request \in Range(ran)

(* A slot that is not free has somebody who will give it back. *)
Current(i) == Lease(i, slot[i].gen)
Pending(k) == k \in QueuedJobs /\ ~(k = head /\ At("finish") /\ loop.sent)
SlotOK(i) ==
    /\ slot[i].state = "assembling" =>
          /\ slot[i].request \in Request
          /\ client[slot[i].request].phase = "sending"
          /\ client[slot[i].request].lease = Current(i)
    /\ slot[i].state \in {"queued", "ready", "cancelled"} =>
          \E k \in Entries : Pending(k) /\ LeaseOf(k) = Current(i)
    /\ slot[i].state = "sending" =>
          \/ At("send") /\ JobLease = Current(i)
          \/ \E r \in Request : response[r] = Current(i)
SlotsHeld == \A i \in Slots : SlotOK(i)

(* Who was carried out, or was answered, has left the first two phases. *)
RanOnce ==
    /\ \A r \in Range(ran) : client[r].phase \in {"waiting", "answered", "gone"}
    /\ \A r \in Request : client[r].got = AnswerTo(r) => r \in Range(ran)

SInv == SlotsTypeOK /\ RingOK /\ ClientsHold /\ JobsWait /\ JobsHold /\ SlotsHeld /\ RanOnce
-----------------------------------------------------------------------------
(* Arithmetic of the ring: an index reduced modulo the capacity. *)
LEMMA ModSmall ==
    ASSUME NEW N \in Nat \ {0}
    PROVE  /\ \A a \in 0..(N - 1) : a % N = a
           /\ \A a \in N..(2 * N - 1) : a % N = a - N
<1>1. ASSUME NEW a \in 0..(N - 1) PROVE a % N = a OBVIOUS
<1>2. ASSUME NEW a \in N..(2 * N - 1) PROVE a % N = a - N OBVIOUS
<1>3. QED BY <1>1, <1>2

(* The position of the k-th job counted from the head. *)
Wrap(a) == IF a < JobCapacity THEN a ELSE a - JobCapacity

(* An index past the end of the ring, as nextJobIndex makes it, is its remainder. *)
LEMMA WrapIsMod ==
    ASSUME NEW a \in 0..(2 * JobCapacity - 1)
    PROVE  a % JobCapacity = Wrap(a) /\ Wrap(a) \in Entries
<1>1. JobCapacity \in Nat \ {0} BY SlotsAssumption
<1>2. CASE a < JobCapacity
  <2>1. a \in 0..(JobCapacity - 1) BY <1>1, <1>2
  <2>2. a % JobCapacity = a BY <1>1, <2>1, ModSmall
  <2>3. QED BY <1>1, <1>2, <2>1, <2>2 DEF Wrap, Entries
<1>3. CASE ~(a < JobCapacity)
  <2>1. a \in JobCapacity..(2 * JobCapacity - 1) BY <1>1, <1>3
  <2>2. a % JobCapacity = a - JobCapacity BY <1>1, <2>1, ModSmall
  <2>3. QED BY <1>1, <1>3, <2>1, <2>2 DEF Wrap, Entries
<1>4. QED BY <1>2, <1>3

(* The queued jobs, without division. *)
LEMMA QueueIsWrapped ==
    ASSUME head \in Entries, count \in 0..JobCapacity
    PROVE  /\ QueuedJobs = {Wrap(head + k) : k \in 0..(count - 1)}
           /\ QueuedJobs \subseteq Entries
           /\ count > 0 => head \in QueuedJobs
<1>1. JobCapacity \in Nat \ {0} BY SlotsAssumption
<1>2. \A k \in 0..(count - 1) : head + k \in 0..(2 * JobCapacity - 1)
  BY <1>1 DEF Entries
<1>3. \A k \in 0..(count - 1) : (head + k) % JobCapacity = Wrap(head + k) /\ Wrap(head + k) \in Entries
  BY <1>2, WrapIsMod
<1>4. QueuedJobs = {Wrap(head + k) : k \in 0..(count - 1)}
  BY <1>3 DEF QueuedJobs
<1>5. count > 0 => head \in QueuedJobs
  <2>1. SUFFICES ASSUME count > 0 PROVE Wrap(head + 0) = head /\ 0 \in 0..(count - 1)
    BY <1>4
  <2>2. QED BY <1>1, <2>1 DEF Wrap, Entries
<1>6. QED BY <1>3, <1>4, <1>5

(* A job put in at the tail was not there, and joins the others. *)
LEMMA QueueGrows ==
    ASSUME SlotsTypeOK, RingOK, count < JobCapacity, head' = head, count' = count + 1
    PROVE  /\ tail \in Entries /\ tail \notin QueuedJobs
           /\ QueuedJobs' = QueuedJobs \cup {tail}
           /\ (tail + 1) % JobCapacity \in Entries
           /\ (tail + 1) % JobCapacity = (head' + count') % JobCapacity
<1>1. JobCapacity \in Nat \ {0} /\ head \in Entries /\ count \in 0..JobCapacity /\ count' \in 0..JobCapacity
  BY SlotsAssumption DEF SlotsTypeOK
<1>2. head + count \in 0..(2 * JobCapacity - 1) BY <1>1 DEF Entries
<1>3. tail = Wrap(head + count) /\ tail \in Entries BY <1>2, WrapIsMod DEF RingOK
<1>4. QueuedJobs = {Wrap(head + k) : k \in 0..(count - 1)} BY <1>1, QueueIsWrapped
<1>5. QueuedJobs' = {Wrap(head + k) : k \in 0..count}
  <2>1. \A k \in 0..count : head + k \in 0..(2 * JobCapacity - 1) BY <1>1 DEF Entries
  <2>2. \A k \in 0..count : (head + k) % JobCapacity = Wrap(head + k) BY <2>1, WrapIsMod
  <2>3. count' - 1 = count BY <1>1
  <2>4. QueuedJobs' = {(head + k) % JobCapacity : k \in 0..count} BY <2>3 DEF QueuedJobs
  <2>5. QED BY <2>2, <2>4
<1>6. tail \notin QueuedJobs
  <2>1. \A k \in 0..(count - 1) : Wrap(head + k) # Wrap(head + count)
    BY <1>1 DEF Wrap, Entries
  <2>2. QED BY <1>3, <1>4, <2>1
<1>7. QueuedJobs' = QueuedJobs \cup {tail}
  <2>1. 0..count = 0..(count - 1) \cup {count} BY <1>1
  <2>2. QED BY <1>3, <1>4, <1>5, <2>1
<1>8. (tail + 1) % JobCapacity = Wrap(tail + 1) /\ (tail + 1) % JobCapacity \in Entries
  <2>1. tail + 1 \in 0..(2 * JobCapacity - 1) BY <1>1, <1>3 DEF Entries
  <2>2. QED BY <2>1, WrapIsMod
<1>9. (head' + count') % JobCapacity = Wrap(tail + 1)
  <2>1. CASE head + count + 1 <= 2 * JobCapacity - 1
    <3>1. head + count + 1 \in 0..(2 * JobCapacity - 1) BY <1>1, <2>1 DEF Entries
    <3>2. (head' + count') % JobCapacity = Wrap(head + count + 1)
      <4>1. head' + count' = head + count + 1 BY <1>1 DEF Entries
      <4>2. QED BY <3>1, <4>1, WrapIsMod
    <3>3. Wrap(head + count + 1) = Wrap(tail + 1) BY <1>1, <1>3, <2>1 DEF Wrap, Entries
    <3>4. QED BY <3>2, <3>3
  <2>2. head + count + 1 <= 2 * JobCapacity - 1 BY <1>1 DEF Entries
  <2>3. QED BY <2>1, <2>2
<1>10. QED BY <1>3, <1>6, <1>7, <1>8, <1>9

(* A job that is done leaves the others where they are. *)
LEMMA QueueShrinks ==
    ASSUME SlotsTypeOK, RingOK, count > 0,
           head' = (head + 1) % JobCapacity, count' = count - 1, tail' = tail
    PROVE  /\ head' \in Entries /\ count' \in 0..JobCapacity
           /\ QueuedJobs' = QueuedJobs \ {head}
           /\ tail' = (head' + count') % JobCapacity
<1>1. JobCapacity \in Nat \ {0} /\ head \in Entries /\ count \in 0..JobCapacity
  BY SlotsAssumption DEF SlotsTypeOK
<1>2. head + 1 \in 0..(2 * JobCapacity - 1) /\ head + count \in 0..(2 * JobCapacity - 1)
  BY <1>1 DEF Entries
<1>3. head' = Wrap(head + 1) /\ head' \in Entries /\ count' \in 0..JobCapacity
  <2>1. head' = Wrap(head + 1) /\ head' \in Entries BY <1>2, WrapIsMod
  <2>2. count' \in 0..JobCapacity BY <1>1
  <2>3. QED BY <2>1, <2>2
<1>4. QueuedJobs = {Wrap(head + k) : k \in 0..(count - 1)} BY <1>1, QueueIsWrapped
<1>5. \A k \in 0..(count - 1) : head' + k \in 0..(2 * JobCapacity - 1) BY <1>1, <1>3 DEF Entries
<1>6. \A k \in 0..(count - 1) : (head' + k) % JobCapacity = Wrap(head' + k)
  BY <1>5, WrapIsMod
<1>7. \A k \in 0..(count - 1) : Wrap(head' + k) = Wrap(head + (k + 1))
  BY <1>1, <1>3 DEF Wrap, Entries
<1>8. QueuedJobs' = {Wrap(head + (k + 1)) : k \in 0..(count - 2)}
  <2>1. count' - 1 = count - 2 /\ 0..(count - 2) \subseteq 0..(count - 1) BY <1>1
  <2>2. QueuedJobs' = {(head' + k) % JobCapacity : k \in 0..(count - 2)}
    BY <2>1 DEF QueuedJobs
  <2>3. \A k \in 0..(count - 2) : (head' + k) % JobCapacity = Wrap(head + (k + 1))
    BY <1>6, <1>7, <2>1
  <2>4. QED BY <2>2, <2>3
<1>9. QueuedJobs' = QueuedJobs \ {head}
  <2>1. Wrap(head + 0) = head BY <1>1 DEF Wrap, Entries
  <2>2. \A k \in 1..(count - 1) : Wrap(head + k) # head BY <1>1 DEF Wrap, Entries
  <2>3. ASSUME NEW x \in QueuedJobs' PROVE x \in QueuedJobs /\ x # head
    <3>1. PICK k \in 0..(count - 2) : x = Wrap(head + (k + 1)) BY <1>8
    <3>2. k + 1 \in 1..(count - 1) /\ k + 1 \in 0..(count - 1) BY <1>1
    <3>3. QED BY <1>4, <2>2, <3>1, <3>2
  <2>4. ASSUME NEW x \in QueuedJobs, x # head PROVE x \in QueuedJobs'
    <3>1. PICK k \in 0..(count - 1) : x = Wrap(head + k) BY <1>4
    <3>2. k # 0 BY <2>1, <2>4, <3>1
    <3>3. k - 1 \in 0..(count - 2) /\ (k - 1) + 1 = k BY <1>1, <3>2
    <3>4. x = Wrap(head + ((k - 1) + 1)) BY <3>1, <3>3
    <3>5. QED BY <1>8, <3>3, <3>4
  <2>5. QED BY <2>3, <2>4
<1>10. tail' = (head' + count') % JobCapacity
  <2>1. tail = Wrap(head + count) BY <1>2, WrapIsMod DEF RingOK
  <2>2. head' + count' \in 0..(2 * JobCapacity - 1) BY <1>1, <1>3 DEF Entries
  <2>3. (head' + count') % JobCapacity = Wrap(head' + (count - 1)) BY <2>2, WrapIsMod
  <2>4. Wrap(head' + (count - 1)) = Wrap(head + count)
    <3>1. CASE head + 1 < JobCapacity
      <4>1. head' = head + 1 BY <1>3, <3>1 DEF Wrap
      <4>2. head' + (count - 1) = head + count BY <1>1, <4>1 DEF Entries
      <4>3. QED BY <4>2
    <3>2. CASE ~(head + 1 < JobCapacity)
      <4>1. head' = 0 /\ head = JobCapacity - 1 BY <1>1, <1>3, <3>2 DEF Wrap, Entries
      <4>2. QED BY <1>1, <4>1 DEF Wrap
    <3>3. QED BY <3>1, <3>2
  <2>5. QED BY <2>1, <2>3, <2>4
<1>11. QED BY <1>3, <1>9, <1>10

-----------------------------------------------------------------------------
(* releaseSlotLocked frees the slot of a lease that is still good, and leaves
   everything else as it is. *)
LEMMA ReleasedEffect ==
    ASSUME NEW s \in [Slots -> SlotRecord], NEW l \in Leases
    PROVE  /\ Released(s, l) \in [Slots -> SlotRecord]
           /\ \A i \in Slots : i # l.slot \/ s[i].gen # l.gen => Released(s, l)[i] = s[i]
           /\ s[l.slot].gen = l.gen =>
                 /\ Released(s, l)[l.slot].state = "free" /\ Released(s, l)[l.slot].gen = l.gen
                 /\ Released(s, l)[l.slot].request = s[l.slot].request
                 /\ Released(s, l)[l.slot].holds = s[l.slot].holds
<1>1. l.slot \in Slots /\ l.gen \in Nat BY DEF Leases
<1>2. CASE s[l.slot].gen # l.gen BY <1>1, <1>2 DEF Released
<1>3. CASE s[l.slot].gen = l.gen
  <2> DEFINE t == [s[l.slot] EXCEPT !.state = "free", !.cancelled = FALSE, !.invalid = FALSE]
  <2>1. Released(s, l) = [s EXCEPT ![l.slot] = t]
    BY <1>1, <1>3 DEF Released
  <2>2. s[l.slot] \in SlotRecord BY <1>1
  <2>3. t \in SlotRecord /\ t.state = "free" /\ t.gen = l.gen /\ t.request = s[l.slot].request
        /\ t.holds = s[l.slot].holds
    BY <1>3, <2>2 DEF SlotRecord, SlotState
  <2> HIDE DEF t
  <2>4. QED BY <1>1, <1>3, <2>1, <2>3
<1>4. QED BY <1>2, <1>3

(* reserveSlot gives the slot to a request under the next generation. *)
LEMMA ReservedEffect ==
    ASSUME NEW s \in [Slots -> SlotRecord], NEW i \in Slots, NEW r \in Request
    PROVE  /\ Reserved(s, i, r) \in [Slots -> SlotRecord]
           /\ \A j \in Slots \ {i} : Reserved(s, i, r)[j] = s[j]
           /\ Reserved(s, i, r)[i].state = "assembling"
           /\ Reserved(s, i, r)[i].gen = s[i].gen + 1
           /\ Reserved(s, i, r)[i].request = r
<1> DEFINE t == [s[i] EXCEPT !.state = "assembling", !.gen = @ + 1, !.cancelled = FALSE,
                             !.invalid = FALSE, !.request = r]
<1>1. Reserved(s, i, r) = [s EXCEPT ![i] = t] BY DEF Reserved
<1>2. t \in SlotRecord /\ t.state = "assembling" /\ t.gen = s[i].gen + 1 /\ t.request = r
  <2>1. s[i] \in SlotRecord OBVIOUS
  <2>2. s[i].gen \in Nat /\ s[i].gen + 1 \in Nat BY <2>1 DEF SlotRecord
  <2>3. t.state = "assembling" /\ t.gen = s[i].gen + 1 /\ t.request = r BY <2>1 DEF SlotRecord
  <2>4. t \in SlotRecord BY <2>1, <2>2 DEF SlotRecord, SlotState
  <2>5. QED BY <2>3, <2>4
<1> HIDE DEF t
<1>3. QED BY <1>1, <1>2

(* A set of naturals that is not empty has a smallest element. *)
LEMMA SmallestOf ==
    ASSUME NEW T \in SUBSET Nat, T # {}
    PROVE  \E n \in T : \A m \in T : n <= m
<1>1. IsWellFoundedOn(OpToRel(<, Nat), Nat) BY NatLessThanWellFounded
<1>2. PICK n \in T : \A m \in T : <<m, n>> \notin OpToRel(<, Nat) BY <1>1, WFMin
<1>3. \A m \in T : ~(m < n) BY <1>2 DEF OpToRel
<1>4. QED BY <1>3

(* The slot a reservation finds is a free one. *)
LEMMA FreeSlotIsReservable ==
    ASSUME SlotsTypeOK, FreeSlots # {}
    PROVE  Reservable \in Slots /\ slot[Reservable].state = "free"
<1>1. FreeSlots \subseteq Slots /\ Slots \subseteq Nat BY DEF FreeSlots, Slots
<1>2. \E i \in FreeSlots : \A j \in FreeSlots : i <= j
  BY <1>1, SmallestOf
<1>3. Reservable \in FreeSlots BY <1>2 DEF Reservable
<1>4. QED BY <1>3 DEF FreeSlots

(* The constants, and the contents of a buffer told apart. *)
LEMMA SmallFacts ==
    /\ None \notin Request /\ None \notin Leases
    /\ \A r \in Request : /\ AnswerTo(r) # None /\ RefusalOf(r) # None
                          /\ AnswerTo(r) # RefusalOf(r)
                          /\ AnswerTo(r) \in Holding /\ RefusalOf(r) \in Holding
                          /\ BodyOf(r) \in Holding
                          /\ \A q \in Request : /\ AnswerTo(q) = AnswerTo(r) => q = r
                                                /\ AnswerTo(q) # RefusalOf(r)
    /\ JobCapacity \in Nat \ {0} /\ SlotCount \in Nat \ {0} /\ MaxWaits \in Nat
    /\ 0 \notin Slots
<1>1. None \notin Request /\ None \notin [slot : Nat, gen : Nat]
      /\ None \notin [of : Request, what : {"body", "answer", "refusal"}]
      /\ JobCapacity \in Nat \ {0} /\ SlotCount \in Nat \ {0} /\ MaxWaits \in Nat
  BY SlotsAssumption
<1>2. Slots \subseteq Nat /\ 0 \notin Slots BY <1>1 DEF Slots
<1>3. None \notin Leases
  <2>1. Leases \subseteq [slot : Nat, gen : Nat] BY <1>2 DEF Leases
  <2>2. QED BY <1>1, <2>1
<1>4. ASSUME NEW r \in Request
      PROVE  /\ AnswerTo(r) # None /\ RefusalOf(r) # None
             /\ AnswerTo(r) # RefusalOf(r)
             /\ AnswerTo(r) \in Holding /\ RefusalOf(r) \in Holding /\ BodyOf(r) \in Holding
             /\ \A q \in Request : /\ AnswerTo(q) = AnswerTo(r) => q = r
                                   /\ AnswerTo(q) # RefusalOf(r)
  <2>1. AnswerTo(r) \in [of : Request, what : {"body", "answer", "refusal"}] /\ RefusalOf(r) \in [of : Request, what : {"body", "answer", "refusal"}]
    BY DEF AnswerTo, RefusalOf
  <2>2. AnswerTo(r) # None /\ RefusalOf(r) # None BY <1>1, <2>1
  <2>3. AnswerTo(r) # RefusalOf(r) BY DEF AnswerTo, RefusalOf
  <2>4. AnswerTo(r) \in Holding /\ RefusalOf(r) \in Holding /\ BodyOf(r) \in Holding
    BY DEF AnswerTo, RefusalOf, BodyOf, Holding
  <2>5. ASSUME NEW q \in Request PROVE /\ AnswerTo(q) = AnswerTo(r) => q = r
                                       /\ AnswerTo(q) # RefusalOf(r)
    BY DEF AnswerTo, RefusalOf
  <2>6. QED BY <2>2, <2>3, <2>4, <2>5
<1>5. QED BY <1>1, <1>2, <1>3, <1>4

(* The first state. *)
LEMMA InitSInv == Init => SInv
<1> SUFFICES ASSUME Init PROVE SInv OBVIOUS
<1>1. SlotsTypeOK
  <2>1. JobCapacity \in Nat \ {0} /\ 0 \in Entries BY SmallFacts DEF Entries
  <2>2. slot \in [Slots -> SlotRecord] BY DEF Init, SlotRecord, SlotState, Holding
  <2>3. NoJob \in JobRecord BY DEF NoJob, JobRecord
  <2>4. jobs \in [Entries -> JobRecord] BY <2>3 DEF Init, Entries
  <2>5. client \in [Request -> ClientRecord] BY DEF Init, ClientRecord, Phase, Holding
  <2>6. loop \in [pc : Pc, sent : BOOLEAN] BY DEF Init, Pc
  <2>7. response \in [Request -> Leases \cup {None}] /\ ran \in Seq(Request) /\ starved \subseteq Request
    BY DEF Init
  <2>8. head \in Entries /\ tail \in Entries /\ count \in 0..JobCapacity BY <2>1 DEF Init
  <2>9. QED BY <2>2, <2>4, <2>5, <2>6, <2>7, <2>8 DEF SlotsTypeOK
<1>2. QueuedJobs = {}
  <2>1. 0..(count - 1) = {} BY DEF Init
  <2>2. QED BY <2>1 DEF QueuedJobs
<1>3. RingOK
  <2>1. 0 % JobCapacity = 0
    <3>1. JobCapacity \in Nat \ {0} /\ 0 \in 0..(JobCapacity - 1) BY SmallFacts
    <3>2. QED BY <3>1, ModSmall
  <2>2. QED BY <2>1 DEF Init, RingOK, At
<1>4. ClientsHold BY DEF Init, ClientsHold, ClientOK
<1>5. JobsWait BY <1>2 DEF JobsWait
<1>6. JobsHold BY <1>2 DEF Init, JobsHold, At
<1>7. SlotsHeld BY DEF Init, SlotsHeld, SlotOK
<1>8. RanOnce
  <2>1. Range(ran) = {} BY DEF Init, Range
  <2>2. QED BY <2>1, SmallFacts DEF Init, RanOnce
<1>9. QED BY <1>1, <1>3, <1>4, <1>5, <1>6, <1>7, <1>8 DEF SInv

-----------------------------------------------------------------------------
(* Frames: a step touches the slot of one lease, and the rest of the invariant
   stays as it is. *)
Touches(i) ==
    /\ \A j \in Slots \ {i} : slot'[j] = slot[j]
    /\ \/ slot[i].state = "free" /\ slot'[i].gen = slot[i].gen + 1
       \/ /\ slot'[i].gen = slot[i].gen /\ slot'[i].request = slot[i].request
          /\ slot[i].state = "free" => slot'[i].state = "free"
HeldBy(q, i) ==
    \/ client[q].phase = "sending" /\ client[q].lease = Current(i)
    \/ response[q] = Current(i)

(* A lease is known by its slot and its generation. *)
LEMMA SameLease ==
    ASSUME NEW i \in Slots, NEW l \in Leases
    PROVE  /\ l = Current(i) <=> l.slot = i /\ l.gen = slot[i].gen
           /\ l.slot \in Slots /\ l.gen \in Nat /\ l # None
           /\ l = Lease(l.slot, l.gen)
<1>1. l.slot \in Slots /\ l.gen \in Nat /\ l = [slot |-> l.slot, gen |-> l.gen] BY DEF Leases
<1>2. l # None BY SmallFacts
<1>3. QED BY <1>1, <1>2 DEF Current, Lease

(* A client the step is not about, and which does not hold the slot it is about,
   is as well off as before. *)
LEMMA ClientKept ==
    ASSUME SlotsTypeOK, SlotsTypeOK', NEW i \in Slots, Touches(i), NEW q \in Request, ClientOK(q),
           client'[q] = client[q], response'[q] = response[q], Range(ran) \subseteq Range(ran'),
           slot'[i] = slot[i] \/ ~HeldBy(q, i)
    PROVE  ClientOK(q)'
<1> DEFINE l == client[q].lease
           p == response[q]
<1>1. \A j \in Slots : /\ slot[j] \in SlotRecord /\ slot'[j] \in SlotRecord
                       /\ slot[j].gen \in Nat /\ slot'[j].gen \in Nat
  BY DEF SlotsTypeOK, SlotRecord
<1>2. client[q] \in ClientRecord /\ l \in Leases \cup {None} /\ p \in Leases \cup {None}
  BY DEF SlotsTypeOK, ClientRecord
<1>3. l # None => l.slot \in Slots /\ l.gen \in Nat BY <1>2 DEF Leases
<1>4. p # None => p.slot \in Slots /\ p.gen \in Nat BY <1>2 DEF Leases
<1>5. \A j \in Slots : slot[j].gen <= slot'[j].gen
  <2>1. ASSUME NEW j \in Slots PROVE slot[j].gen <= slot'[j].gen
    <3>1. CASE j = i BY <1>1, <3>1 DEF Touches
    <3>2. CASE j # i BY <1>1, <3>2 DEF Touches
    <3>3. QED BY <3>1, <3>2
  <2>2. QED BY <2>1
<1>6. ASSUME l # None
      PROVE  /\ l.gen <= slot'[l.slot].gen
             /\ slot'[l.slot].gen = l.gen /\ slot'[l.slot].state # "free" => slot'[l.slot].request = q
  <2>1. l.gen <= slot[l.slot].gen
        /\ (slot[l.slot].gen = l.gen /\ slot[l.slot].state # "free" => slot[l.slot].request = q)
    BY <1>6 DEF ClientOK, Valid, StateOf
  <2>2. l.gen <= slot'[l.slot].gen BY <1>1, <1>3, <1>5, <1>6, <2>1
  <2>3. ASSUME slot'[l.slot].gen = l.gen, slot'[l.slot].state # "free" PROVE slot'[l.slot].request = q
    <3>1. CASE l.slot # i BY <1>3, <1>6, <2>1, <2>3, <3>1 DEF Touches
    <3>2. CASE l.slot = i
      <4>1. slot'[i].gen # slot[i].gen + 1 BY <1>1, <1>3, <1>6, <2>1, <2>3, <3>2
      <4>2. slot'[i].gen = slot[i].gen /\ slot'[i].request = slot[i].request
            /\ (slot[i].state = "free" => slot'[i].state = "free")
        BY <4>1 DEF Touches
      <4>3. QED BY <2>1, <2>3, <3>2, <4>2
    <3>3. QED BY <3>1, <3>2
  <2>4. QED BY <2>2, <2>3
<1>7. ASSUME client[q].phase = "sending"
      PROVE  l # None /\ slot'[l.slot].gen = l.gen /\ slot'[l.slot].state = "assembling"
  <2>1. l # None /\ slot[l.slot].gen = l.gen /\ slot[l.slot].state = "assembling"
    BY <1>7 DEF ClientOK, Valid, StateOf
  <2>2. l \in Leases BY <1>2, <2>1
  <2>3. CASE l.slot # i BY <1>3, <2>1, <2>3 DEF Touches
  <2>4. CASE l.slot = i
    <3>1. l = Current(i) BY <2>1, <2>2, <2>4, SameLease
    <3>2. slot'[i] = slot[i] BY <1>7, <3>1 DEF HeldBy
    <3>3. QED BY <2>1, <2>4, <3>2
  <2>5. QED BY <2>3, <2>4
<1>8. ASSUME p # None
      PROVE  /\ client[q].phase = "answered" /\ l = p /\ client[q].got = None
             /\ slot'[p.slot].gen = p.gen /\ slot'[p.slot].state = "sending"
             /\ slot'[p.slot].holds = AnswerTo(q) /\ q \in Range(ran')
  <2>1. /\ client[q].phase = "answered" /\ l = p /\ client[q].got = None
        /\ slot[p.slot].gen = p.gen /\ slot[p.slot].state = "sending"
        /\ slot[p.slot].holds = AnswerTo(q) /\ q \in Range(ran)
    BY <1>8 DEF ClientOK, Valid, StateOf
  <2>2. p \in Leases BY <1>2, <1>8
  <2>3. slot'[p.slot] = slot[p.slot]
    <3>1. CASE p.slot # i BY <1>4, <1>8, <3>1 DEF Touches
    <3>2. CASE p.slot = i
      <4>1. p = Current(i) BY <2>1, <2>2, <3>2, SameLease
      <4>2. QED BY <3>2, <4>1 DEF HeldBy
    <3>3. QED BY <3>1, <3>2
  <2>4. QED BY <2>1, <2>3
<1>9. /\ client[q].got \in {None, RefusalOf(q), AnswerTo(q)}
      /\ client[q].phase \in {"new", "sending", "waiting"} => client[q].got = None
      /\ client[q].phase = "new" => l = None
  BY DEF ClientOK
<1> HIDE DEF l, p
<1>10. l = client[q].lease /\ p = response[q] BY DEF l, p
<1>11. QED BY <1>6, <1>7, <1>8, <1>9, <1>10 DEF ClientOK, Valid, StateOf, RefusalOf, AnswerTo

(* A job whose entry and whose client stay is as well off as before. *)
LEMMA JobKept ==
    ASSUME SlotsTypeOK, SlotsTypeOK', NEW i \in Slots, Touches(i), NEW k \in Entries, JobOK(k),
           jobs'[k].slot = jobs[k].slot, jobs'[k].gen = jobs[k].gen, jobs'[k].request = jobs[k].request,
           \/ client'[jobs[k].request].phase \in {"answered", "gone"}
           \/ /\ client'[jobs[k].request].phase = client[jobs[k].request].phase
              /\ client'[jobs[k].request].lease = client[jobs[k].request].lease
    PROVE  JobOK(k)'
<1> DEFINE n == jobs[k].slot
           g == jobs[k].gen
           q == jobs[k].request
<1>1. /\ n \in Slots /\ q \in Request /\ g <= slot[n].gen
      /\ client[q].phase \in {"waiting", "answered", "gone"}
      /\ client[q].phase = "waiting" => client[q].lease = Lease(n, g)
      /\ slot[n].gen = g /\ slot[n].state # "free" => slot[n].request = q
  BY DEF JobOK, Valid, StateOf, LeaseOf, Lease
<1>2. slot[n].gen \in Nat /\ slot'[n].gen \in Nat /\ g \in Nat
  <2>1. slot[n] \in SlotRecord /\ slot'[n] \in SlotRecord /\ jobs[k] \in JobRecord BY <1>1 DEF SlotsTypeOK
  <2>2. QED BY <2>1 DEF SlotRecord, JobRecord
<1>3. /\ g <= slot'[n].gen
      /\ slot'[n].gen = g /\ slot'[n].state # "free" => slot'[n].request = q
  <2>1. CASE n # i BY <1>1, <2>1 DEF Touches
  <2>2. CASE n = i
    <3>1. CASE slot[i].state = "free" /\ slot'[i].gen = slot[i].gen + 1
      BY <1>1, <1>2, <2>2, <3>1
    <3>2. CASE /\ slot'[i].gen = slot[i].gen /\ slot'[i].request = slot[i].request
               /\ slot[i].state = "free" => slot'[i].state = "free"
      BY <1>1, <1>2, <2>2, <3>2
    <3>3. QED BY <3>1, <3>2 DEF Touches
  <2>3. QED BY <2>1, <2>2
<1>4. /\ client'[q].phase \in {"waiting", "answered", "gone"}
      /\ client'[q].phase = "waiting" => client'[q].lease = Lease(n, g)
  BY <1>1
<1>5. jobs'[k].slot = n /\ jobs'[k].gen = g /\ jobs'[k].request = q OBVIOUS
<1> HIDE DEF n, g, q
<1>6. LeaseOf(k)' = Lease(n, g) /\ Lease(n, g).slot = n /\ Lease(n, g).gen = g
  BY <1>5 DEF LeaseOf, Lease
<1>7. QED BY <1>1, <1>3, <1>4, <1>5, <1>6 DEF JobOK, Valid, StateOf

(* A slot the step leaves alone still has somebody who will give it back. *)
LEMMA SlotKept ==
    ASSUME NEW j \in Slots, SlotOK(j), slot'[j] = slot[j],
           \A q \in Request : client[q].phase = "sending" /\ client[q].lease = Current(j) =>
              client'[q].phase = "sending" /\ client'[q].lease = client[q].lease,
           \A k \in Entries : Pending(k) /\ LeaseOf(k) = Current(j)
                              /\ slot[j].state \in {"queued", "ready", "cancelled"} =>
              Pending(k)' /\ LeaseOf(k)' = LeaseOf(k),
           At("send") /\ JobLease = Current(j) =>
              \/ At("send")' /\ JobLease' = Current(j)
              \/ \E q \in Request : response'[q] = Current(j),
           \A q \in Request : response[q] = Current(j) => response'[q] = response[q]
    PROVE  SlotOK(j)'
<1>1. Current(j)' = Current(j) BY DEF Current, Lease
<1>2. slot'[j].state = "assembling" =>
         /\ slot'[j].request \in Request
         /\ client'[slot'[j].request].phase = "sending"
         /\ client'[slot'[j].request].lease = Current(j)
  BY DEF SlotOK
<1>3. slot'[j].state \in {"queued", "ready", "cancelled"} =>
         \E k \in Entries : Pending(k)' /\ LeaseOf(k)' = Current(j)
  BY DEF SlotOK
<1>4. slot'[j].state = "sending" =>
         \/ At("send")' /\ JobLease' = Current(j)
         \/ \E q \in Request : response'[q] = Current(j)
  BY DEF SlotOK
<1>5. QED BY <1>1, <1>2, <1>3, <1>4 DEF SlotOK

(* A callback for request r that touches slot i: what it may change. *)
Past == {"waiting", "answered", "gone"}
Harmless(i) ==
    \/ slot'[i] = slot[i]
    \/ slot[i].state \in {"free", "assembling"}
    \/ /\ slot[i].state = "sending" /\ slot'[i].state = "free"
       /\ \E q \in Request : response[q] = Current(i)
    \/ slot[i].state \in {"queued", "ready"} /\ slot'[i].state = "cancelled"
       /\ slot'[i].holds = slot[i].holds
TcpMove(r, i) ==
    /\ head' = head /\ loop' = loop /\ ran' = ran
    /\ QueuedJobs \subseteq QueuedJobs'
    /\ \A k \in QueuedJobs : /\ jobs'[k].slot = jobs[k].slot /\ jobs'[k].gen = jobs[k].gen
                             /\ jobs'[k].request = jobs[k].request
    /\ \A q \in Request \ {r} : /\ client'[q] = client[q] /\ response'[q] = response[q]
                                /\ slot'[i] = slot[i] \/ ~HeldBy(q, i)
    /\ response'[r] \in {response[r], None}
    /\ client[r].phase = "sending" => client[r].lease.slot = i
    /\ response[r] # None => response[r].slot = i
    /\ client[r].phase \in Past =>
          \/ client'[r].phase = "gone"
          \/ client'[r].phase = client[r].phase /\ client'[r].lease = client[r].lease
    /\ Touches(i) /\ Harmless(i)

(* A callback of the AsyncTCP task leaves every slot but its own held as it was. *)
LEMMA TcpKeepsSlots ==
    ASSUME SInv, SlotsTypeOK', NEW r \in Request, NEW i \in Slots, TcpMove(r, i),
           NEW j \in Slots, j # i
    PROVE  SlotOK(j)'
<1>1. SlotOK(j) BY DEF SInv, SlotsHeld
<1>2. slot'[j] = slot[j] BY DEF TcpMove, Touches
<1>3. \A q \in Request : client[q].phase = "sending" /\ client[q].lease = Current(j) =>
         client'[q].phase = "sending" /\ client'[q].lease = client[q].lease
  <2>1. ASSUME NEW q \in Request, client[q].phase = "sending", client[q].lease = Current(j)
        PROVE  client'[q] = client[q]
    <3>1. client[q].lease.slot = j BY <2>1 DEF Current, Lease
    <3>2. QED BY <2>1, <3>1 DEF TcpMove
  <2>2. QED BY <2>1
<1>4. \A k \in Entries : Pending(k) => Pending(k)' /\ LeaseOf(k)' = LeaseOf(k)
  <2>1. ASSUME NEW k \in Entries, Pending(k) PROVE Pending(k)' /\ LeaseOf(k)' = LeaseOf(k)
    <3>1. k \in QueuedJobs /\ k \in QueuedJobs' BY <2>1 DEF Pending, TcpMove
    <3>2. LeaseOf(k)' = LeaseOf(k) BY <3>1 DEF TcpMove, LeaseOf, Lease
    <3>3. head' = head /\ loop' = loop BY DEF TcpMove
    <3>4. QED BY <2>1, <3>1, <3>2, <3>3 DEF Pending, At
  <2>2. QED BY <2>1
<1>5. At("send") /\ JobLease = Current(j) => At("send")' /\ JobLease' = Current(j)
  <2>1. ASSUME At("send") PROVE At("send")' /\ JobLease' = JobLease
    <3>1. head \in QueuedJobs BY <2>1, QueueIsWrapped DEF SInv, SlotsTypeOK, RingOK, At
    <3>2. QED BY <2>1, <3>1 DEF TcpMove, At, JobLease, Job, Lease
  <2>2. QED BY <2>1
<1>6. \A q \in Request : response[q] = Current(j) => response'[q] = response[q]
  <2>1. ASSUME NEW q \in Request, response[q] = Current(j) PROVE response'[q] = response[q]
    <3>1. response[q].slot = j BY <2>1 DEF Current, Lease
    <3>2. response[q] # None
      <4>1. Current(j) \in Leases BY DEF Current, Lease, Leases, SInv, SlotsTypeOK, SlotRecord
      <4>2. QED BY <2>1, <4>1, SmallFacts
    <3>3. q # r BY <3>1, <3>2 DEF TcpMove
    <3>4. QED BY <3>3 DEF TcpMove
  <2>2. QED BY <2>1
<1>7. QED BY <1>1, <1>2, <1>3, <1>4, <1>5, <1>6, SlotKept

(* The jobs that stood in the ring stay as they are while a callback runs. *)
LEMMA TcpKeepsJobs ==
    ASSUME SInv, SlotsTypeOK', NEW r \in Request, NEW i \in Slots, TcpMove(r, i)
    PROVE  /\ \A k \in QueuedJobs : JobOK(k)' /\ LeaseOf(k)' = LeaseOf(k)
           /\ \A k \in QueuedJobs :
                 k # head \/ loop.pc \in {"idle", "answer", "ready"} => InLine(k)'
           /\ At("take") => Valid(JobLease)' /\ StateOf(JobLease)' \in {"ready", "cancelled"}
           /\ At("send") => /\ Valid(JobLease)' /\ StateOf(JobLease)' = "sending"
                            /\ \A q \in Request : response'[q] # JobLease'
           /\ At("finish") /\ ~loop.sent /\ Valid(JobLease)' =>
                 StateOf(JobLease)' \in {"free", "queued", "ready", "cancelled"}
           /\ At("finish") /\ loop.sent /\ Valid(JobLease)' =>
                 StateOf(JobLease)' \in {"free", "sending"}
           /\ loop.pc \in {"ready", "take", "send"} => OwnAnswer(head)'
<1>1. QueuedJobs \subseteq Entries BY QueueIsWrapped DEF SInv, SlotsTypeOK
<1>2. Touches(i) /\ Harmless(i) /\ SlotsTypeOK BY DEF TcpMove, SInv
<1>3. \A k \in QueuedJobs :
         /\ JobOK(k) /\ jobs'[k].slot = jobs[k].slot /\ jobs'[k].gen = jobs[k].gen
         /\ jobs'[k].request = jobs[k].request /\ LeaseOf(k)' = LeaseOf(k)
  BY DEF TcpMove, SInv, JobsWait, LeaseOf, Lease
<1>4. ASSUME NEW k \in QueuedJobs PROVE JobOK(k)'
  <2>1. jobs[k].request \in Request /\ client[jobs[k].request].phase \in Past
    BY <1>3 DEF JobOK, Past
  <2>2. \/ client'[jobs[k].request].phase \in {"answered", "gone"}
        \/ /\ client'[jobs[k].request].phase = client[jobs[k].request].phase
           /\ client'[jobs[k].request].lease = client[jobs[k].request].lease
    BY <2>1 DEF TcpMove
  <2>3. k \in Entries BY <1>1
  <2>4. QED BY <1>2, <1>3, <2>2, <2>3, JobKept
<1>5. ASSUME NEW k \in QueuedJobs
      PROVE  LET n == jobs[k].slot  g == jobs[k].gen
             IN  /\ n \in Slots
                 /\ n # i => slot'[n] = slot[n]
                 /\ slot[n].gen = g /\ slot[n].state \in {"queued", "ready", "cancelled"} =>
                       /\ slot'[n].gen = g /\ slot'[n].holds = slot[n].holds
                       /\ slot'[n].state \in {slot[n].state, "cancelled"}
                 /\ slot[n].gen = g /\ slot[n].state = "sending"
                    /\ (\A q \in Request : response[q] # LeaseOf(k)) =>
                       slot'[n] = slot[n]
                 /\ slot[n].gen = g /\ slot[n].state = "sending" =>
                       slot'[n].state \in {"free", "sending"}
                 /\ slot[n].gen # g \/ slot[n].state = "free" =>
                       slot'[n].gen # g \/ slot'[n].state = "free"
  <2> DEFINE n == jobs[k].slot
             g == jobs[k].gen
  <2>1. n \in Slots /\ g <= slot[n].gen BY <1>3 DEF JobOK
  <2>2. slot[n].gen \in Nat /\ slot'[n].gen \in Nat /\ g \in Nat
    <3>1. slot[n] \in SlotRecord /\ slot'[n] \in SlotRecord /\ jobs[k] \in JobRecord
      BY <1>1, <1>2, <2>1 DEF SlotsTypeOK
    <3>2. QED BY <3>1 DEF SlotRecord, JobRecord
  <2>3. LeaseOf(k) = Lease(n, g) BY DEF LeaseOf
  <2>4. slot[n].gen = g => Current(n) = LeaseOf(k) BY <2>3 DEF Current
  <2>5. n # i => slot'[n] = slot[n] BY <1>2, <2>1 DEF Touches
  <2>6. ASSUME slot[n].gen # g \/ slot[n].state = "free"
        PROVE  slot'[n].gen # g \/ slot'[n].state = "free"
    <3>1. CASE n # i BY <2>5, <2>6, <3>1
    <3>2. CASE n = i /\ slot[i].state = "free" /\ slot'[i].gen = slot[i].gen + 1
      BY <2>1, <2>2, <3>2
    <3>3. CASE n = i /\ slot'[i].gen = slot[i].gen /\ (slot[i].state = "free" => slot'[i].state = "free")
      BY <2>6, <3>3
    <3>4. QED BY <1>2, <3>1, <3>2, <3>3 DEF Touches
  <2>7. ASSUME slot[n].gen = g, slot[n].state \in {"queued", "ready", "cancelled"}
        PROVE  /\ slot'[n].gen = g /\ slot'[n].holds = slot[n].holds
               /\ slot'[n].state \in {slot[n].state, "cancelled"}
    <3>1. CASE n # i BY <2>5, <2>7, <3>1
    <3>2. CASE n = i BY <1>2, <2>7, <3>2 DEF Touches, Harmless
    <3>3. QED BY <3>1, <3>2
  <2>8. ASSUME slot[n].gen = g, slot[n].state = "sending"
        PROVE  /\ slot'[n].state \in {"free", "sending"}
               /\ (\A q \in Request : response[q] # LeaseOf(k)) => slot'[n] = slot[n]
    <3>1. CASE n # i BY <2>5, <2>8, <3>1
    <3>2. CASE n = i BY <1>2, <2>4, <2>8, <3>2 DEF Touches, Harmless
    <3>3. QED BY <3>1, <3>2
  <2>9. QED BY <2>1, <2>5, <2>6, <2>7, <2>8
<1>6. ASSUME NEW k \in QueuedJobs, InLine(k) PROVE InLine(k)'
  BY <1>3, <1>5, <1>6 DEF InLine, Valid, StateOf, LeaseOf, Lease
<1>7. ASSUME ~At("idle")
      PROVE  /\ head \in QueuedJobs /\ head' = head /\ JobLease = LeaseOf(head)
             /\ JobLease' = JobLease /\ JobLease.slot = jobs[head].slot /\ JobLease.gen = jobs[head].gen
             /\ jobs'[head].slot = jobs[head].slot /\ jobs'[head].request = jobs[head].request
  <2>1. head \in QueuedJobs /\ head' = head
    BY <1>7, QueueIsWrapped DEF SInv, SlotsTypeOK, RingOK, TcpMove
  <2>2. QED BY <1>3, <2>1 DEF JobLease, Job, LeaseOf, Lease
<1>8. At("take") => Valid(JobLease)' /\ StateOf(JobLease)' \in {"ready", "cancelled"}
  <2>1. SUFFICES ASSUME At("take")
                 PROVE Valid(JobLease)' /\ StateOf(JobLease)' \in {"ready", "cancelled"} OBVIOUS
  <2>2. Valid(JobLease) /\ StateOf(JobLease) \in {"ready", "cancelled"} BY <2>1 DEF SInv, JobsHold
  <2>3. ~At("idle") BY <2>1 DEF At
  <2>4. QED BY <1>5, <1>7, <2>2, <2>3 DEF Valid, StateOf
<1>9. At("send") => /\ Valid(JobLease)' /\ StateOf(JobLease)' = "sending"
                    /\ \A q \in Request : response'[q] # JobLease'
  <2>1. SUFFICES ASSUME At("send")
                 PROVE  /\ Valid(JobLease)' /\ StateOf(JobLease)' = "sending"
                        /\ \A q \in Request : response'[q] # JobLease' OBVIOUS
  <2>2. /\ Valid(JobLease) /\ StateOf(JobLease) = "sending"
        /\ \A q \in Request : response[q] # JobLease
    BY <2>1 DEF SInv, JobsHold
  <2>3. ~At("idle") BY <2>1 DEF At
  <2>4. slot'[jobs[head].slot] = slot[jobs[head].slot]
    BY <1>5, <1>7, <2>2, <2>3 DEF Valid, StateOf
  <2>5. JobLease \in Leases
    <3>1. jobs[head] \in JobRecord /\ jobs[head].slot \in Slots
      BY <1>1, <1>2, <1>5, <1>7, <2>3 DEF SlotsTypeOK
    <3>2. QED BY <3>1 DEF JobLease, Job, Lease, Leases, JobRecord
  <2>6. JobLease # None BY <2>5, SmallFacts
  <2>7. \A q \in Request : response'[q] \in {response[q], None} BY DEF TcpMove
  <2>8. QED BY <1>7, <2>2, <2>3, <2>4, <2>6, <2>7 DEF Valid, StateOf
<1>10. At("finish") /\ ~loop.sent /\ Valid(JobLease)' =>
          StateOf(JobLease)' \in {"free", "queued", "ready", "cancelled"}
  <2>1. SUFFICES ASSUME At("finish"), ~loop.sent, Valid(JobLease)'
                 PROVE  StateOf(JobLease)' \in {"free", "queued", "ready", "cancelled"} OBVIOUS
  <2>2. Valid(JobLease) => StateOf(JobLease) \in {"free", "queued", "ready", "cancelled"}
    BY <2>1 DEF SInv, JobsHold
  <2>3. ~At("idle") BY <2>1 DEF At
  <2>4. QED BY <1>5, <1>7, <2>1, <2>2, <2>3 DEF Valid, StateOf
<1>11. At("finish") /\ loop.sent /\ Valid(JobLease)' => StateOf(JobLease)' \in {"free", "sending"}
  <2>1. SUFFICES ASSUME At("finish"), loop.sent, Valid(JobLease)'
                 PROVE  StateOf(JobLease)' \in {"free", "sending"} OBVIOUS
  <2>2. Valid(JobLease) => StateOf(JobLease) \in {"free", "sending"}
    BY <2>1 DEF SInv, JobsHold
  <2>3. ~At("idle") BY <2>1 DEF At
  <2>4. QED BY <1>5, <1>7, <2>1, <2>2, <2>3 DEF Valid, StateOf
<1>12. loop.pc \in {"ready", "take", "send"} => OwnAnswer(head)'
  <2>1. SUFFICES ASSUME loop.pc \in {"ready", "take", "send"} PROVE OwnAnswer(head)' OBVIOUS
  <2>2. ~At("idle") BY <2>1 DEF At
  <2>3. OwnAnswer(head) BY <2>1 DEF SInv, JobsHold
  <2>4. slot'[jobs[head].slot].holds = slot[jobs[head].slot].holds
    <3>1. CASE loop.pc \in {"ready", "take"}
      <4>1. Valid(LeaseOf(head)) /\ StateOf(LeaseOf(head)) \in {"queued", "ready", "cancelled"}
        BY <1>7, <2>2, <3>1 DEF SInv, JobsHold, InLine, At
      <4>2. QED BY <1>5, <1>7, <2>2, <4>1 DEF Valid, StateOf
    <3>2. CASE At("send")
      <4>1. /\ Valid(LeaseOf(head)) /\ StateOf(LeaseOf(head)) = "sending"
            /\ \A q \in Request : response[q] # LeaseOf(head)
        BY <1>7, <2>2, <3>2 DEF SInv, JobsHold
      <4>2. QED BY <1>5, <1>7, <2>2, <4>1 DEF Valid, StateOf
    <3>3. QED BY <2>1, <3>1, <3>2 DEF At
  <2>5. QED BY <1>7, <2>2, <2>3, <2>4 DEF OwnAnswer, AnswerTo
<1>13. \A k \in QueuedJobs :
          k # head \/ loop.pc \in {"idle", "answer", "ready"} => InLine(k)'
  BY <1>6 DEF SInv, JobsHold
<1>14. QED BY <1>3, <1>4, <1>8, <1>9, <1>10, <1>11, <1>12, <1>13

(* A callback preserves the invariant when it leaves its own client, its own slot
   and the job it puts into the ring in order. *)
LEMMA TcpFrame ==
    ASSUME SInv, SlotsTypeOK', RingOK', NEW r \in Request, NEW i \in Slots, TcpMove(r, i),
           ClientOK(r)', SlotOK(i)',
           \A k \in QueuedJobs' \ QueuedJobs :
              JobOK(k)' /\ InLine(k)' /\ \A m \in QueuedJobs : LeaseOf(m) # LeaseOf(k)',
           \A k, m \in QueuedJobs' \ QueuedJobs : k = m,
           client'[r].got = AnswerTo(r) => r \in Range(ran)
    PROVE  SInv'
<1>1. head' = head /\ loop' = loop /\ ran' = ran BY DEF TcpMove
<1>2. ClientsHold'
  <2>1. ASSUME NEW q \in Request, q # r PROVE ClientOK(q)'
    <3>1. ClientOK(q) /\ SlotsTypeOK BY DEF SInv, ClientsHold
    <3>2. client'[q] = client[q] /\ response'[q] = response[q] /\ Touches(i)
          /\ (slot'[i] = slot[i] \/ ~HeldBy(q, i))
      BY <2>1 DEF TcpMove
    <3>3. Range(ran) \subseteq Range(ran') BY <1>1
    <3>4. QED BY <3>1, <3>2, <3>3, ClientKept
  <2>2. QED BY <2>1 DEF ClientsHold
<1>3. SlotsHeld' BY TcpKeepsSlots DEF SlotsHeld
<1>4. \A k \in QueuedJobs : JobOK(k)' /\ LeaseOf(k)' = LeaseOf(k) BY TcpKeepsJobs
<1>5. JobsWait'
  <2>1. \A k \in QueuedJobs' : JobOK(k)' BY <1>4
  <2>2. ASSUME NEW k \in QueuedJobs', NEW m \in QueuedJobs', m # k PROVE LeaseOf(m)' # LeaseOf(k)'
    <3>1. CASE k \in QueuedJobs /\ m \in QueuedJobs BY <1>4, <2>2, <3>1 DEF SInv, JobsWait
    <3>2. CASE k \notin QueuedJobs /\ m \in QueuedJobs BY <1>4, <3>2
    <3>3. CASE k \in QueuedJobs /\ m \notin QueuedJobs BY <1>4, <3>3
    <3>4. CASE k \notin QueuedJobs /\ m \notin QueuedJobs BY <2>2, <3>4
    <3>5. QED BY <3>1, <3>2, <3>3, <3>4
  <2>3. QED BY <2>1, <2>2 DEF JobsWait
<1>6. JobsHold'
  <2>1. \A k \in QueuedJobs' : k # head' \/ loop'.pc \in {"idle", "answer", "ready"} => InLine(k)'
    BY <1>1, TcpKeepsJobs
  <2>2. loop'.pc \in {"answer", "ready", "take", "send"} => Job.request' \in Range(ran')
    <3>1. SUFFICES ASSUME loop.pc \in {"answer", "ready", "take", "send"}
                   PROVE  jobs'[head].request \in Range(ran)
      BY <1>1 DEF Job
    <3>2. head \in QueuedJobs
      BY <3>1, QueueIsWrapped DEF SInv, SlotsTypeOK, RingOK, At
    <3>3. jobs[head].request \in Range(ran) BY <3>1 DEF SInv, JobsHold, Job
    <3>4. QED BY <3>2, <3>3 DEF TcpMove
  <2>3. At("take")' => Valid(JobLease)' /\ StateOf(JobLease)' \in {"ready", "cancelled"}
    BY <1>1, TcpKeepsJobs DEF At
  <2>4. At("send")' => /\ Valid(JobLease)' /\ StateOf(JobLease)' = "sending"
                       /\ \A q \in Request : response'[q] # JobLease'
    BY <1>1, TcpKeepsJobs DEF At
  <2>5. /\ At("finish")' /\ ~loop'.sent /\ Valid(JobLease)' =>
              StateOf(JobLease)' \in {"free", "queued", "ready", "cancelled"}
        /\ At("finish")' /\ loop'.sent /\ Valid(JobLease)' =>
              StateOf(JobLease)' \in {"free", "sending"}
    BY <1>1, TcpKeepsJobs DEF At
  <2>6. loop'.pc \in {"ready", "take", "send"} => OwnAnswer(head)'
    BY <1>1, TcpKeepsJobs
  <2>7. QED BY <2>1, <2>2, <2>3, <2>4, <2>5, <2>6 DEF JobsHold
<1>7. RanOnce'
  <2>1. ASSUME NEW q \in Range(ran) PROVE client'[q].phase \in Past
    <3>1. client[q].phase \in Past /\ q \in Request
      BY DEF SInv, RanOnce, Past, SlotsTypeOK, Range
    <3>2. QED BY <3>1 DEF TcpMove, Past
  <2>2. ASSUME NEW q \in Request, client'[q].got = AnswerTo(q) PROVE q \in Range(ran)
    <3>1. CASE q = r BY <2>2, <3>1
    <3>2. CASE q # r BY <2>2, <3>2 DEF TcpMove, SInv, RanOnce
    <3>3. QED BY <3>1, <3>2
  <2>3. QED BY <1>1, <2>1, <2>2 DEF RanOnce, Past, AnswerTo
<1>8. QED BY <1>2, <1>3, <1>5, <1>6, <1>7 DEF SInv

(* Without a change of the ring there is no job to look at. *)
LEMMA TcpFrameNoJob ==
    ASSUME SInv, SlotsTypeOK', UNCHANGED <<head, tail, count, loop>>,
           NEW r \in Request, NEW i \in Slots, TcpMove(r, i),
           ClientOK(r)', SlotOK(i)', client'[r].got = AnswerTo(r) => r \in Range(ran)
    PROVE  SInv'
<1>1. QueuedJobs' = QueuedJobs BY DEF QueuedJobs
<1>2. RingOK' BY DEF SInv, RingOK, At
<1>3. QED BY <1>1, <1>2, TcpFrame

-----------------------------------------------------------------------------
(* The callbacks, one at a time. *)

(* A client turned down before it has a slot. *)
LEMMA FreshRefusal ==
    ASSUME SInv, NEW r \in Request, client[r].phase = "new", Refused(r, None),
           UNCHANGED <<slot, ring, loop, response, starved, ran>>
    PROVE  SInv'
<1> DEFINE c == [phase |-> "answered", lease |-> None, got |-> RefusalOf(r)]
<1>1. SlotsTypeOK /\ ClientOK(r) BY DEF SInv, ClientsHold
<1>2. /\ slot' = slot /\ jobs' = jobs /\ head' = head /\ tail' = tail /\ count' = count
      /\ loop' = loop /\ response' = response /\ starved' = starved /\ ran' = ran
  BY DEF ring
<1>3. c \in ClientRecord /\ client' = [client EXCEPT ![r] = c]
  BY SmallFacts DEF Refused, ClientRecord, Phase
<1>4. client'[r] = c /\ \A q \in Request \ {r} : client'[q] = client[q]
  BY <1>1, <1>3 DEF SlotsTypeOK
<1>5. SlotsTypeOK' BY <1>1, <1>2, <1>3 DEF SlotsTypeOK
<1>6. 1 \in Slots BY SmallFacts DEF Slots
<1>7. response[r] = None /\ client[r].got = None BY <1>1 DEF ClientOK
<1>8. TcpMove(r, 1)
  <2>1. QueuedJobs' = QueuedJobs BY <1>2 DEF QueuedJobs
  <2>2. client[r].phase \notin Past BY DEF Past
  <2>3. Touches(1) /\ Harmless(1) BY <1>2 DEF Touches, Harmless
  <2>4. QED BY <1>2, <1>4, <1>7, <2>1, <2>2, <2>3 DEF TcpMove
<1>9. ClientOK(r)'
  <2>1. /\ client'[r].phase = "answered" /\ client'[r].lease = None
        /\ client'[r].got = RefusalOf(r) /\ response'[r] = None
    BY <1>2, <1>4, <1>7
  <2>2. QED BY <2>1 DEF ClientOK, RefusalOf
<1>10. SlotOK(1)'
  <2>1. SlotOK(1) BY <1>6 DEF SInv, SlotsHeld
  <2>2. \A q \in Request : client[q].phase = "sending" => client'[q] = client[q] BY <1>4
  <2>3. \A k \in Entries : Pending(k)' = Pending(k) /\ LeaseOf(k)' = LeaseOf(k)
    BY <1>2 DEF Pending, QueuedJobs, LeaseOf, At
  <2>4. At("send")' = At("send") /\ JobLease' = JobLease BY <1>2 DEF At, JobLease, Job
  <2>5. QED BY <1>2, <1>6, <2>1, <2>2, <2>3, <2>4, SlotKept
<1>11. client'[r].got # AnswerTo(r) BY <1>4, SmallFacts
<1>12. QED BY <1>2, <1>5, <1>6, <1>8, <1>9, <1>10, <1>11, TcpFrameNoJob

(* While a client sends its body, nobody else holds its slot. *)
LEMMA SendingAlone ==
    ASSUME SInv, NEW r \in Request, client[r].phase = "sending"
    PROVE  LET l == client[r].lease
           IN  /\ l \in Leases /\ l.slot \in Slots /\ l.gen \in Nat /\ l # None
               /\ slot[l.slot] \in SlotRecord /\ slot[l.slot].gen = l.gen
               /\ slot[l.slot].state = "assembling" /\ slot[l.slot].request = r
               /\ \A q \in Request \ {r} : ~HeldBy(q, l.slot)
               /\ response[r] = None /\ client[r].got = None
               /\ \A k \in QueuedJobs : LeaseOf(k) # l
<1> DEFINE l == client[r].lease
<1>1. SlotsTypeOK /\ ClientOK(r) BY DEF SInv, ClientsHold
<1>2. client[r] \in ClientRecord /\ l \in Leases \cup {None} BY <1>1 DEF SlotsTypeOK, ClientRecord
<1>3. /\ l # None /\ slot[l.slot].gen = l.gen /\ slot[l.slot].state = "assembling"
      /\ response[r] = None /\ client[r].got = None
  BY <1>1 DEF ClientOK, Valid, StateOf
<1>4. slot[l.slot].request = r BY <1>1, <1>3 DEF ClientOK, Valid, StateOf
<1>5. l \in Leases /\ l.slot \in Slots /\ l.gen \in Nat BY <1>2, <1>3 DEF Leases
<1>6. l = Current(l.slot) /\ l = Lease(l.slot, l.gen) BY <1>3, <1>5, SameLease
<1>7. ASSUME NEW q \in Request \ {r} PROVE ~HeldBy(q, l.slot)
  <2>1. ClientOK(q) BY DEF SInv, ClientsHold
  <2>2. ~(client[q].phase = "sending" /\ client[q].lease = l)
    BY <1>3, <1>4, <2>1 DEF ClientOK, Valid, StateOf
  <2>3. response[q] # l BY <1>3, <2>1 DEF ClientOK, Valid, StateOf
  <2>4. QED BY <1>6, <2>2, <2>3 DEF HeldBy
<1>8. ASSUME NEW k \in QueuedJobs, LeaseOf(k) = l PROVE FALSE
  <2>1. Valid(LeaseOf(k)) /\ StateOf(LeaseOf(k)) = "assembling" BY <1>3, <1>8 DEF Valid, StateOf
  <2>2. k = head /\ loop.pc \notin {"idle", "answer", "ready"}
    BY <2>1 DEF SInv, JobsHold, InLine
  <2>3. JobLease = LeaseOf(k) BY <2>2 DEF JobLease, Job, LeaseOf
  <2>4. loop.pc \in {"take", "send", "finish"} BY <1>1, <2>2 DEF SlotsTypeOK, Pc
  <2>5. CASE At("take") BY <2>1, <2>3, <2>5 DEF SInv, JobsHold
  <2>6. CASE At("send") BY <2>1, <2>3, <2>6 DEF SInv, JobsHold
  <2>7. CASE At("finish") /\ loop.sent BY <2>1, <2>3, <2>7 DEF SInv, JobsHold
  <2>8. CASE At("finish") /\ ~loop.sent BY <2>1, <2>3, <2>8 DEF SInv, JobsHold
  <2>9. QED BY <2>4, <2>5, <2>6, <2>7, <2>8 DEF At
<1>9. slot[l.slot] \in SlotRecord BY <1>1, <1>5 DEF SlotsTypeOK
<1>10. QED BY <1>3, <1>4, <1>5, <1>7, <1>8, <1>9

(* Turned down in the middle of its body, a client gives its slot back. *)
LEMMA SendingRefusal ==
    ASSUME SInv, NEW r \in Request, client[r].phase = "sending",
           slot' = Released(slot, client[r].lease), Refused(r, client[r].lease),
           UNCHANGED <<ring, loop, response, starved, ran>>
    PROVE  SInv'
<1> PICK l \in Leases, i \in Slots : l = client[r].lease /\ i = l.slot
  BY SendingAlone
<1> DEFINE c == [phase |-> "answered", lease |-> l, got |-> RefusalOf(r)]
<1>1. SlotsTypeOK BY DEF SInv
<1>2. /\ jobs' = jobs /\ head' = head /\ tail' = tail /\ count' = count
      /\ loop' = loop /\ response' = response /\ starved' = starved /\ ran' = ran
  BY DEF ring
<1>3. /\ l \in Leases /\ i \in Slots /\ l.gen \in Nat /\ l # None
      /\ slot[i].gen = l.gen /\ slot[i].state = "assembling" /\ slot[i].request = r
      /\ \A q \in Request \ {r} : ~HeldBy(q, i)
      /\ response[r] = None
  BY SendingAlone
<1>4. c \in ClientRecord /\ client' = [client EXCEPT ![r] = c]
  BY <1>3, SmallFacts DEF Refused, ClientRecord, Phase
<1>5. client'[r] = c /\ \A q \in Request \ {r} : client'[q] = client[q]
  BY <1>1, <1>4 DEF SlotsTypeOK
<1>6. /\ slot' \in [Slots -> SlotRecord] /\ \A j \in Slots : j # i => slot'[j] = slot[j]
      /\ slot'[i].state = "free" /\ slot'[i].gen = l.gen /\ slot'[i].request = r
  <2>1. slot \in [Slots -> SlotRecord] BY <1>1 DEF SlotsTypeOK
  <2>2. QED BY <1>3, <2>1, ReleasedEffect
<1>7. SlotsTypeOK' BY <1>1, <1>2, <1>4, <1>6 DEF SlotsTypeOK
<1>8. TcpMove(r, i)
  <2>1. QueuedJobs' = QueuedJobs BY <1>2 DEF QueuedJobs
  <2>2. client[r].phase \notin Past BY DEF Past
  <2>3. Touches(i) /\ Harmless(i) BY <1>3, <1>6 DEF Touches, Harmless
  <2>4. QED BY <1>2, <1>3, <1>5, <2>1, <2>2, <2>3 DEF TcpMove
<1>9. ClientOK(r)'
  <2>1. /\ client'[r].phase = "answered" /\ client'[r].lease = l
        /\ client'[r].got = RefusalOf(r) /\ response'[r] = None
    BY <1>2, <1>3, <1>5
  <2>2. l.gen <= slot'[i].gen BY <1>3, <1>6
  <2>3. QED BY <1>6, <2>1, <2>2 DEF ClientOK, RefusalOf, Valid, StateOf
<1>10. SlotOK(i)' BY <1>6 DEF SlotOK
<1>11. client'[r].got # AnswerTo(r) BY <1>5, SmallFacts
<1>12. QED BY <1>2, <1>3, <1>7, <1>8, <1>9, <1>10, <1>11, TcpFrameNoJob

(* A later chunk out of order only marks the body. *)
LEMMA SendingSpoiled ==
    ASSUME SInv, NEW r \in Request, client[r].phase = "sending",
           slot' = [slot EXCEPT ![client[r].lease.slot].invalid = TRUE],
           UNCHANGED <<client, ring, loop, response, starved, ran>>
    PROVE  SInv'
<1> PICK l \in Leases, i \in Slots : l = client[r].lease /\ i = l.slot
  BY SendingAlone
<1> DEFINE t == [slot[i] EXCEPT !.invalid = TRUE]
<1>1. SlotsTypeOK /\ ClientOK(r) BY DEF SInv, ClientsHold
<1>2. /\ jobs' = jobs /\ head' = head /\ tail' = tail /\ count' = count /\ client' = client
      /\ loop' = loop /\ response' = response /\ starved' = starved /\ ran' = ran
  BY DEF ring
<1>3. /\ l \in Leases /\ i \in Slots /\ l.gen \in Nat /\ l # None
      /\ slot[i] \in SlotRecord /\ slot[i].gen = l.gen
      /\ slot[i].state = "assembling" /\ slot[i].request = r
      /\ \A q \in Request \ {r} : ~HeldBy(q, i)
      /\ response[r] = None /\ client[r].got = None
  BY SendingAlone
<1>4. /\ t \in SlotRecord /\ t.state = "assembling" /\ t.gen = l.gen /\ t.request = r
      /\ slot' = [slot EXCEPT ![i] = t]
  BY <1>3 DEF SlotRecord
<1>5. /\ slot' \in [Slots -> SlotRecord] /\ slot'[i] = t
      /\ \A j \in Slots : j # i => slot'[j] = slot[j]
  BY <1>1, <1>3, <1>4, ZenonT(60) DEF SlotsTypeOK
<1> HIDE DEF t
<1>6. SlotsTypeOK' BY <1>1, <1>2, <1>5 DEF SlotsTypeOK
<1>7. TcpMove(r, i)
  <2>1. QueuedJobs' = QueuedJobs BY <1>2 DEF QueuedJobs
  <2>2. Touches(i) /\ Harmless(i) BY <1>3, <1>4, <1>5 DEF Touches, Harmless
  <2>3. QED BY <1>2, <1>3, <2>1, <2>2 DEF TcpMove
<1>8. ClientOK(r)'
  <2>1. l.gen <= slot'[i].gen BY <1>3, <1>4, <1>5
  <2>2. /\ client'[r].phase = "sending" /\ client'[r].lease = l
        /\ client'[r].got = None /\ response'[r] = None
    BY <1>2, <1>3
  <2>3. /\ slot'[l.slot].gen = l.gen /\ slot'[l.slot].request = r
        /\ slot'[l.slot].state = "assembling"
    BY <1>3, <1>4, <1>5
  <2>4. QED BY <1>3, <2>1, <2>2, <2>3, SmallFacts DEF ClientOK, Valid, StateOf
<1>9. SlotOK(i)'
  <2>1. Current(i)' = l BY <1>3, <1>4, <1>5, SameLease DEF Current
  <2>2. QED BY <1>2, <1>4, <1>5, <2>1 DEF SlotOK
<1>10. client'[r].got # AnswerTo(r) BY <1>2, <1>3, SmallFacts
<1>11. QED BY <1>2, <1>3, <1>6, <1>7, <1>8, <1>9, <1>10, TcpFrameNoJob

(* Nobody holds a free slot, and nobody has the lease its next user will get. *)
LEMMA FreeAlone ==
    ASSUME SInv, NEW i \in Slots, slot[i].state = "free"
    PROVE  /\ \A q \in Request : ~HeldBy(q, i)
           /\ slot[i] \in SlotRecord /\ slot[i].gen \in Nat
           /\ Lease(i, slot[i].gen + 1) \in Leases
           /\ \A k \in QueuedJobs : LeaseOf(k) # Lease(i, slot[i].gen + 1)
<1>1. SlotsTypeOK BY DEF SInv
<1>2. slot[i] \in SlotRecord /\ slot[i].gen \in Nat BY <1>1 DEF SlotsTypeOK, SlotRecord
<1>3. ASSUME NEW q \in Request, HeldBy(q, i) PROVE FALSE
  <2>1. ClientOK(q) BY DEF SInv, ClientsHold
  <2>2. Current(i) \in Leases BY <1>2 DEF Current, Lease, Leases
  <2>3. Current(i).slot = i /\ Current(i) # None BY <2>2, SameLease
  <2>4. CASE client[q].phase = "sending" /\ client[q].lease = Current(i)
    BY <2>1, <2>3, <2>4 DEF ClientOK, StateOf
  <2>5. CASE response[q] = Current(i) BY <2>1, <2>3, <2>5 DEF ClientOK, StateOf
  <2>6. QED BY <1>3, <2>4, <2>5 DEF HeldBy
<1>4. ASSUME NEW k \in QueuedJobs, LeaseOf(k) = Lease(i, slot[i].gen + 1) PROVE FALSE
  <2>1. jobs[k].slot = i /\ jobs[k].gen = slot[i].gen + 1 BY <1>4 DEF LeaseOf, Lease
  <2>2. jobs[k].gen <= slot[i].gen BY <2>1 DEF SInv, JobsWait, JobOK
  <2>3. QED BY <1>2, <2>1, <2>2
<1>5. Lease(i, slot[i].gen + 1) \in Leases BY <1>2 DEF Lease, Leases
<1>6. QED BY <1>2, <1>3, <1>4, <1>5

(* The first chunk of a body finds a free slot. *)
LEMMA BodyBegins ==
    ASSUME SInv, NEW r \in Request, client[r].phase = "new", FreeSlots # {},
           slot' = [Reserved(slot, Reservable, r) EXCEPT ![Reservable].holds = BodyOf(r)],
           client' = [client EXCEPT ![r].phase = "sending", ![r].lease = NextLease],
           UNCHANGED <<ring, loop, response, starved, ran>>
    PROVE  SInv'
<1>1. SlotsTypeOK /\ ClientOK(r) BY DEF SInv, ClientsHold
<1> PICK i \in Slots, l \in Leases : i = Reservable /\ l = NextLease
  BY <1>1, FreeSlotIsReservable, FreeAlone DEF NextLease
<1>2. /\ jobs' = jobs /\ head' = head /\ tail' = tail /\ count' = count
      /\ loop' = loop /\ response' = response /\ starved' = starved /\ ran' = ran
  BY DEF ring
<1>3. /\ slot[i].state = "free" /\ slot[i].gen \in Nat /\ l = Lease(i, slot[i].gen + 1)
      /\ \A q \in Request : ~HeldBy(q, i)
  BY <1>1, FreeSlotIsReservable, FreeAlone DEF NextLease
<1>4. l # None /\ l.slot = i /\ l.gen = slot[i].gen + 1 BY <1>3, SmallFacts DEF Lease
<1> DEFINE s == Reserved(slot, i, r)
           t == [s[i] EXCEPT !.holds = BodyOf(r)]
           c == [client[r] EXCEPT !.phase = "sending", !.lease = l]
<1>5. /\ s \in [Slots -> SlotRecord] /\ \A j \in Slots \ {i} : s[j] = slot[j]
      /\ s[i].state = "assembling" /\ s[i].gen = slot[i].gen + 1 /\ s[i].request = r
  <2>1. slot \in [Slots -> SlotRecord] BY <1>1 DEF SlotsTypeOK
  <2>2. QED BY <2>1, ReservedEffect
<1>6. slot' = [s EXCEPT ![i] = t] OBVIOUS
<1> HIDE DEF s
<1>7. t \in SlotRecord /\ t.state = "assembling" /\ t.gen = l.gen /\ t.request = r
  BY <1>4, <1>5, SmallFacts DEF SlotRecord
<1> HIDE DEF t
<1>8. /\ slot' \in [Slots -> SlotRecord] /\ slot'[i] = t
      /\ \A j \in Slots \ {i} : slot'[j] = slot[j]
  BY <1>5, <1>6, <1>7
<1>9. client[r] \in ClientRecord BY <1>1 DEF SlotsTypeOK
<1>10. c \in ClientRecord /\ c.phase = "sending" /\ c.lease = l /\ c.got = client[r].got
  BY <1>9 DEF ClientRecord, Phase
<1>11. client' = [client EXCEPT ![r] = c] BY <1>1 DEF SlotsTypeOK
<1> HIDE DEF c
<1>12. client'[r] = c /\ \A q \in Request \ {r} : client'[q] = client[q]
  BY <1>1, <1>11 DEF SlotsTypeOK
<1>13. client[r].got = None /\ response[r] = None BY <1>1 DEF ClientOK
<1>14. SlotsTypeOK'
  <2>1. client' \in [Request -> ClientRecord] BY <1>1, <1>10, <1>11 DEF SlotsTypeOK
  <2>2. QED BY <1>1, <1>2, <1>8, <2>1, Zenon DEF SlotsTypeOK
<1>15. TcpMove(r, i)
  <2>1. QueuedJobs' = QueuedJobs BY <1>2 DEF QueuedJobs
  <2>2. client[r].phase \notin Past BY DEF Past
  <2>3. Touches(i) /\ Harmless(i) BY <1>3, <1>4, <1>7, <1>8 DEF Touches, Harmless
  <2>4. QED BY <1>2, <1>3, <1>12, <1>13, <2>1, <2>2, <2>3 DEF TcpMove
<1>16. ClientOK(r)'
  <2>1. slot'[i].gen = l.gen /\ slot'[i].state = "assembling" /\ slot'[i].request = r
    BY <1>7, <1>8, Zenon
  <2>2. l.gen <= l.gen BY <1>3, <1>4
  <2>3. /\ client'[r].phase = "sending" /\ client'[r].lease = l
        /\ client'[r].got = None /\ response'[r] = None
    BY <1>2, <1>10, <1>12, <1>13, Zenon
  <2>4. QED BY <1>4, <2>1, <2>2, <2>3, Zenon DEF ClientOK, Valid, StateOf
<1>17. SlotOK(i)'
  <2>1. Current(i)' = l BY <1>3, <1>4, <1>7, <1>8 DEF Current
  <2>2. QED BY <1>7, <1>8, <1>10, <1>12, <2>1 DEF SlotOK
<1>18. client'[r].got # AnswerTo(r) BY <1>10, <1>12, <1>13, SmallFacts
<1>19. QED BY <1>2, <1>14, <1>15, <1>16, <1>17, <1>18, TcpFrameNoJob

(* A request without a body that finds the ring full gives the slot back at once. *)
LEMMA BodylessRefusal ==
    ASSUME SInv, NEW r \in Request, client[r].phase = "new", FreeSlots # {},
           slot' = Released(Reserved(slot, Reservable, r), NextLease), Refused(r, NextLease),
           UNCHANGED <<ring, loop, response, starved, ran>>
    PROVE  SInv'
<1>1. SlotsTypeOK /\ ClientOK(r) BY DEF SInv, ClientsHold
<1> PICK i \in Slots, l \in Leases : i = Reservable /\ l = NextLease
  BY <1>1, FreeSlotIsReservable, FreeAlone DEF NextLease
<1>2. /\ jobs' = jobs /\ head' = head /\ tail' = tail /\ count' = count
      /\ loop' = loop /\ response' = response /\ starved' = starved /\ ran' = ran
  BY DEF ring
<1>3. /\ slot[i].state = "free" /\ slot[i].gen \in Nat /\ l = Lease(i, slot[i].gen + 1)
      /\ \A q \in Request : ~HeldBy(q, i)
  BY <1>1, FreeSlotIsReservable, FreeAlone DEF NextLease
<1>4. l # None /\ l.slot = i /\ l.gen = slot[i].gen + 1 BY <1>3, SmallFacts DEF Lease
<1> DEFINE s == Reserved(slot, i, r)
           c == [phase |-> "answered", lease |-> l, got |-> RefusalOf(r)]
<1>5. /\ s \in [Slots -> SlotRecord] /\ \A j \in Slots \ {i} : s[j] = slot[j]
      /\ s[i].state = "assembling" /\ s[i].gen = slot[i].gen + 1 /\ s[i].request = r
  <2>1. slot \in [Slots -> SlotRecord] BY <1>1 DEF SlotsTypeOK
  <2>2. QED BY <2>1, ReservedEffect
<1>6. slot' = Released(s, l) OBVIOUS
<1> HIDE DEF s
<1>7. /\ slot' \in [Slots -> SlotRecord] /\ \A j \in Slots \ {i} : slot'[j] = slot[j]
      /\ slot'[i].state = "free" /\ slot'[i].gen = l.gen /\ slot'[i].request = r
  BY <1>4, <1>5, <1>6, ReleasedEffect
<1>8. c \in ClientRecord /\ client' = [client EXCEPT ![r] = c]
  BY SmallFacts DEF Refused, ClientRecord, Phase
<1>9. client'[r] = c /\ \A q \in Request \ {r} : client'[q] = client[q]
  BY <1>1, <1>8 DEF SlotsTypeOK
<1>10. client[r].got = None /\ response[r] = None BY <1>1 DEF ClientOK
<1>11. SlotsTypeOK' BY <1>1, <1>2, <1>7, <1>8 DEF SlotsTypeOK
<1>12. TcpMove(r, i)
  <2>1. QueuedJobs' = QueuedJobs BY <1>2 DEF QueuedJobs
  <2>2. client[r].phase \notin Past BY DEF Past
  <2>3. Touches(i) /\ Harmless(i) BY <1>3, <1>4, <1>7 DEF Touches, Harmless
  <2>4. QED BY <1>2, <1>3, <1>9, <1>10, <2>1, <2>2, <2>3 DEF TcpMove
<1>13. ClientOK(r)'
  <2>1. l.gen <= slot'[i].gen BY <1>3, <1>4, <1>7
  <2>2. /\ client'[r].phase = "answered" /\ client'[r].lease = l
        /\ client'[r].got = RefusalOf(r) /\ response'[r] = None
    BY <1>2, <1>9, <1>10
  <2>3. QED BY <1>4, <1>7, <2>1, <2>2 DEF ClientOK, RefusalOf, Valid, StateOf
<1>14. SlotOK(i)' BY <1>7 DEF SlotOK
<1>15. client'[r].got # AnswerTo(r) BY <1>9, SmallFacts
<1>16. QED BY <1>2, <1>11, <1>12, <1>13, <1>14, <1>15, TcpFrameNoJob

(* A request that is accepted joins the ring under its lease. *)
LEMMA JoinsLine ==
    ASSUME SInv, NEW r \in Request, NEW i \in Slots, NEW l \in Leases, l.slot = i, NEW w \in Nat,
           count < JobCapacity, client[r].phase \in {"new", "sending"},
           client[r].phase = "sending" => client[r].lease.slot = i,
           slot' \in [Slots -> SlotRecord], \A j \in Slots \ {i} : slot'[j] = slot[j],
           slot'[i].state = "queued", slot'[i].gen = l.gen, slot'[i].request = r,
           Touches(i), slot[i].state \in {"free", "assembling"},
           \A q \in Request \ {r} : ~HeldBy(q, i), \A k \in QueuedJobs : LeaseOf(k) # l,
           jobs' = [jobs EXCEPT ![tail] = [request |-> r, slot |-> l.slot, gen |-> l.gen,
                                           cancelled |-> FALSE, waits |-> w]],
           tail' = (tail + 1) % JobCapacity, count' = count + 1,
           client' = [client EXCEPT ![r].phase = "waiting", ![r].lease = l],
           UNCHANGED <<head, loop, response, starved, ran>>
    PROVE  SInv'
<1> DEFINE b == [request |-> r, slot |-> l.slot, gen |-> l.gen, cancelled |-> FALSE, waits |-> w]
           c == [client[r] EXCEPT !.phase = "waiting", !.lease = l]
<1>1. SlotsTypeOK /\ RingOK /\ ClientOK(r) BY DEF SInv, ClientsHold
<1> PICK n \in Entries : n = tail BY <1>1 DEF SlotsTypeOK
<1>2. head' = head /\ loop' = loop /\ response' = response /\ starved' = starved /\ ran' = ran
  OBVIOUS
<1>3. l.gen \in Nat /\ l = Lease(i, l.gen) /\ l # None BY SameLease
<1>4. /\ n \notin QueuedJobs /\ QueuedJobs' = QueuedJobs \cup {n}
      /\ tail' \in Entries /\ tail' = (head' + count') % JobCapacity
  BY <1>1, <1>2, QueueGrows
<1>5. b \in JobRecord /\ b.slot = i /\ b.gen = l.gen /\ b.request = r BY <1>3 DEF JobRecord
<1>6. jobs' = [jobs EXCEPT ![n] = b] OBVIOUS
<1> HIDE DEF b
<1>7. /\ jobs' \in [Entries -> JobRecord] /\ jobs'[n] = b
      /\ \A k \in Entries \ {n} : jobs'[k] = jobs[k]
  BY <1>1, <1>4, <1>5, <1>6, ZenonT(60) DEF SlotsTypeOK
<1>8. client[r] \in ClientRecord BY <1>1 DEF SlotsTypeOK
<1>9. c \in ClientRecord /\ c.phase = "waiting" /\ c.lease = l /\ c.got = client[r].got
  BY <1>8 DEF ClientRecord, Phase
<1>10. client' = [client EXCEPT ![r] = c] BY <1>1 DEF SlotsTypeOK
<1> HIDE DEF c
<1>11. /\ client'[r] = c /\ \A q \in Request \ {r} : client'[q] = client[q]
       /\ client' \in [Request -> ClientRecord]
  <2>1. client \in [Request -> ClientRecord] BY <1>1 DEF SlotsTypeOK
  <2>2. c \in ClientRecord BY <1>9
  <2>3. r \in Request OBVIOUS
  <2>4. QED BY ONLY <1>10, <2>1, <2>2, <2>3
<1>12. client[r].got = None /\ response[r] = None BY <1>1 DEF ClientOK
<1>13. count' \in 0..JobCapacity BY <1>1, SmallFacts DEF SlotsTypeOK
<1>14. SlotsTypeOK' BY <1>1, <1>2, <1>4, <1>7, <1>11, <1>13, Zenon DEF SlotsTypeOK
<1>15. RingOK'
  <2>1. count' > 0 BY <1>1 DEF SlotsTypeOK
  <2>2. QED BY <1>4, <2>1 DEF RingOK
<1>16. QueuedJobs \subseteq Entries BY <1>1, QueueIsWrapped DEF SlotsTypeOK
<1>17. TcpMove(r, i)
  <2>1. \A k \in QueuedJobs : jobs'[k] = jobs[k] BY <1>4, <1>7, <1>16
  <2>2. client[r].phase \notin Past BY DEF Past
  <2>3. Harmless(i) BY DEF Harmless
  <2>4. response'[r] \in {response[r], None} /\ (response[r] # None => response[r].slot = i)
    BY <1>2, <1>12
  <2>5. QED BY <1>2, <1>4, <1>11, <2>1, <2>2, <2>3, <2>4, Zenon DEF TcpMove
<1>18. ClientOK(r)'
  <2>1. l.gen <= l.gen BY <1>3
  <2>2. /\ client'[r].phase = "waiting" /\ client'[r].lease = l
        /\ client'[r].got = None /\ response'[r] = None
    BY <1>2, <1>9, <1>11, <1>12, Zenon
  <2>3. QED BY <1>3, <2>1, <2>2, Zenon DEF ClientOK, Valid, StateOf
<1>19. JobOK(n)' /\ InLine(n)' /\ LeaseOf(n)' = l
  <2>1. jobs'[n].slot = i /\ jobs'[n].gen = l.gen /\ jobs'[n].request = r BY <1>5, <1>7, Zenon
  <2>2. LeaseOf(n)' = l BY <1>3, <2>1 DEF LeaseOf
  <2>3. client'[r].phase = "waiting" /\ client'[r].lease = l BY <1>9, <1>11, Zenon
  <2>4. l.gen <= l.gen BY <1>3
  <2>5. JobOK(n)' BY <2>1, <2>2, <2>3, <2>4, ZenonT(60) DEF JobOK
  <2>6. InLine(n)' BY <2>2 DEF InLine, Valid, StateOf
  <2>7. QED BY <2>2, <2>5, <2>6
<1>20. QueuedJobs' \ QueuedJobs = {n} BY <1>4
<1>21. client'[r].got # AnswerTo(r) BY <1>9, <1>11, <1>12, SmallFacts
<1>22. SlotOK(i)'
  <2>1. Current(i)' = l BY <1>3 DEF Current
  <2>2. Pending(n)' /\ LeaseOf(n)' = l
    <3>1. n \in QueuedJobs' BY <1>4
    <3>2. ~(n = head /\ At("finish"))
      <4>1. At("finish") => head \in QueuedJobs
        BY <1>1, QueueIsWrapped DEF SlotsTypeOK, RingOK, At
      <4>2. QED BY <1>4, <4>1
    <3>3. QED BY <1>2, <1>19, <3>1, <3>2 DEF Pending, At
  <2>3. QED BY <2>1, <2>2 DEF SlotOK
<1>23. QED
  <2>1. \A k \in QueuedJobs' \ QueuedJobs :
           JobOK(k)' /\ InLine(k)' /\ \A m \in QueuedJobs : LeaseOf(m) # LeaseOf(k)'
    BY <1>19, <1>20
  <2>2. \A k, m \in QueuedJobs' \ QueuedJobs : k = m BY <1>20
  <2>3. QED BY <1>14, <1>15, <1>17, <1>18, <1>21, <1>22, <2>1, <2>2, TcpFrame

(* handleCommandRequest and handleMarkerRequest, whatever becomes of the request. *)
LEMMA BodyCompleteKeeps == ASSUME SInv, NEW r \in Request, BodyComplete(r) PROVE SInv'
<1>1. client[r].phase = "sending" /\ UNCHANGED <<loop, response, starved, ran>> BY DEF BodyComplete
<1>2. CASE /\ slot' = Released(slot, client[r].lease) /\ Refused(r, client[r].lease)
           /\ UNCHANGED ring
  <2>1. UNCHANGED <<ring, loop, response, starved, ran>> BY <1>1, <1>2
  <2>2. QED BY <1>1, <1>2, <2>1, SendingRefusal
<1>3. CASE Enqueued(slot, r, client[r].lease) /\ ~JobRingFull
  <2> PICK l \in Leases, i \in Slots : l = client[r].lease /\ i = l.slot BY <1>1, SendingAlone
  <2>1. SlotsTypeOK BY DEF SInv
  <2>2. /\ l.gen \in Nat /\ slot[i] \in SlotRecord /\ slot[i].gen = l.gen
        /\ slot[i].state = "assembling" /\ slot[i].request = r
        /\ \A q \in Request \ {r} : ~HeldBy(q, i)
        /\ \A k \in QueuedJobs : LeaseOf(k) # l
    BY <1>1, SendingAlone
  <2>3. PICK w \in Nat : jobs' = [jobs EXCEPT ![tail] = [request |-> r, slot |-> l.slot,
                                      gen |-> l.gen, cancelled |-> FALSE, waits |-> w]]
    <3>1. (IF Kind[r] = "delete" THEN {0} ELSE 0..MaxWaits) \subseteq Nat BY SmallFacts
    <3>2. QED BY <1>3, <3>1 DEF Enqueued
  <2>4. /\ tail' = (tail + 1) % JobCapacity /\ count' = count + 1 /\ head' = head
        /\ client' = [client EXCEPT ![r].phase = "waiting", ![r].lease = l]
    BY <1>3 DEF Enqueued
  <2> DEFINE t == [slot[i] EXCEPT !.state = "queued"]
  <2>5. slot' = [slot EXCEPT ![i] = t] BY <1>3 DEF Enqueued
  <2>6. t \in SlotRecord /\ t.state = "queued" /\ t.gen = l.gen /\ t.request = r
    BY <2>2 DEF SlotRecord, SlotState
  <2> HIDE DEF t
  <2>7. /\ slot' \in [Slots -> SlotRecord] /\ slot'[i] = t
        /\ \A j \in Slots \ {i} : slot'[j] = slot[j]
    BY <2>1, <2>5, <2>6 DEF SlotsTypeOK
  <2>8. Touches(i) BY <2>2, <2>6, <2>7 DEF Touches
  <2>9. count < JobCapacity BY <1>3, <2>1, SmallFacts DEF JobRingFull, SlotsTypeOK
  <2>10. slot'[i].state = "queued" /\ slot'[i].gen = l.gen /\ slot'[i].request = r BY <2>6, <2>7
  <2>11. UNCHANGED <<head, loop, response, starved, ran>> BY <1>1, <2>4
  <2>12. client[r].phase = "sending" /\ client[r].lease.slot = i BY <1>1
  <2>13. QED BY <2>2, <2>3, <2>4, <2>7, <2>8, <2>9, <2>10, <2>11, <2>12, JoinsLine
<1>4. QED BY <1>2, <1>3 DEF BodyComplete, Enqueue

(* handleBodylessRequest, whatever becomes of the request. *)
LEMMA BodylessKeeps == ASSUME SInv, NEW r \in Request, BodylessRequest(r) PROVE SInv'
<1>1. client[r].phase = "new" /\ UNCHANGED <<loop, response, starved, ran>> BY DEF BodylessRequest
<1>2. CASE FreeSlots = {} /\ Refused(r, None) /\ UNCHANGED <<slot, ring>>
  <2>1. UNCHANGED <<slot, ring, loop, response, starved, ran>> BY <1>1, <1>2
  <2>2. QED BY <1>1, <1>2, <2>1, FreshRefusal
<1>3. CASE /\ FreeSlots # {} /\ slot' = Released(Reserved(slot, Reservable, r), NextLease)
           /\ Refused(r, NextLease) /\ UNCHANGED ring
  <2>1. UNCHANGED <<ring, loop, response, starved, ran>> BY <1>1, <1>3
  <2>2. QED BY <1>1, <1>3, <2>1, BodylessRefusal
<1>4. CASE FreeSlots # {} /\ ~JobRingFull /\ Enqueued(Reserved(slot, Reservable, r), r, NextLease)
  <2>1. SlotsTypeOK BY DEF SInv
  <2> PICK i \in Slots, l \in Leases : i = Reservable /\ l = NextLease
    BY <1>4, <2>1, FreeSlotIsReservable, FreeAlone DEF NextLease
  <2>2. /\ slot[i].state = "free" /\ slot[i].gen \in Nat /\ l = Lease(i, slot[i].gen + 1)
        /\ \A q \in Request : ~HeldBy(q, i)
        /\ \A k \in QueuedJobs : LeaseOf(k) # l
    BY <1>4, <2>1, FreeSlotIsReservable, FreeAlone DEF NextLease
  <2>3. l # None /\ l.slot = i /\ l.gen = slot[i].gen + 1 BY <2>2, SmallFacts DEF Lease
  <2>4. PICK w \in Nat : jobs' = [jobs EXCEPT ![tail] = [request |-> r, slot |-> l.slot,
                                      gen |-> l.gen, cancelled |-> FALSE, waits |-> w]]
    <3>1. (IF Kind[r] = "delete" THEN {0} ELSE 0..MaxWaits) \subseteq Nat BY SmallFacts
    <3>2. QED BY <1>4, <3>1 DEF Enqueued
  <2>5. /\ tail' = (tail + 1) % JobCapacity /\ count' = count + 1 /\ head' = head
        /\ client' = [client EXCEPT ![r].phase = "waiting", ![r].lease = l]
    BY <1>4 DEF Enqueued
  <2> DEFINE s == Reserved(slot, i, r)
             t == [s[i] EXCEPT !.state = "queued"]
  <2>6. /\ s \in [Slots -> SlotRecord] /\ \A j \in Slots \ {i} : s[j] = slot[j]
        /\ s[i].state = "assembling" /\ s[i].gen = slot[i].gen + 1 /\ s[i].request = r
    <3>1. slot \in [Slots -> SlotRecord] BY <2>1 DEF SlotsTypeOK
    <3>2. QED BY <3>1, ReservedEffect
  <2>7. slot' = [s EXCEPT ![i] = t] BY <1>4, <2>3 DEF Enqueued
  <2> HIDE DEF s
  <2>8. t \in SlotRecord /\ t.state = "queued" /\ t.gen = l.gen /\ t.request = r
    BY <2>3, <2>6 DEF SlotRecord, SlotState
  <2> HIDE DEF t
  <2>9. /\ slot' \in [Slots -> SlotRecord] /\ slot'[i] = t
        /\ \A j \in Slots \ {i} : slot'[j] = slot[j]
    BY <2>6, <2>7, <2>8
  <2>10. Touches(i) BY <2>2, <2>3, <2>8, <2>9 DEF Touches
  <2>11. count < JobCapacity BY <1>4, <2>1, SmallFacts DEF JobRingFull, SlotsTypeOK
  <2>12. slot'[i].state = "queued" /\ slot'[i].gen = l.gen /\ slot'[i].request = r BY <2>8, <2>9
  <2>13. UNCHANGED <<head, loop, response, starved, ran>> BY <1>1, <2>5
  <2>14. client[r].phase \in {"new", "sending"}
         /\ (client[r].phase = "sending" => client[r].lease.slot = i) BY <1>1
  <2>15. QED BY <2>2, <2>3, <2>4, <2>5, <2>9, <2>10, <2>11, <2>12, <2>13, <2>14, JoinsLine
<1>5. QED BY <1>2, <1>3, <1>4 DEF BodylessRequest, Enqueue

(* The last byte of a response is copied out and its slot given back. *)
LEMMA DeliverKeeps == ASSUME SInv, NEW r \in Request, Deliver(r) PROVE SInv'
<1>1. SlotsTypeOK /\ ClientOK(r) BY DEF SInv, ClientsHold
<1>2. /\ jobs' = jobs /\ head' = head /\ tail' = tail /\ count' = count
      /\ loop' = loop /\ starved' = starved /\ ran' = ran
  BY DEF Deliver, ring
<1>3. response[r] # None /\ response[r] \in Leases \cup {None} BY <1>1 DEF Deliver, SlotsTypeOK
<1> PICK l \in Leases, i \in Slots : l = response[r] /\ i = l.slot BY <1>3 DEF Leases
<1>4. /\ client[r].phase = "answered" /\ client[r].lease = l
      /\ slot[i].gen = l.gen /\ slot[i].state = "sending"
      /\ slot[i].holds = AnswerTo(r) /\ r \in Range(ran)
  BY <1>1, <1>3 DEF ClientOK, Valid, StateOf
<1>5. slot[i].request = r /\ l # None BY <1>1, <1>3, <1>4 DEF ClientOK, Valid, StateOf
<1>6. /\ slot' \in [Slots -> SlotRecord] /\ \A j \in Slots \ {i} : slot'[j] = slot[j]
      /\ slot'[i].state = "free" /\ slot'[i].gen = l.gen /\ slot'[i].request = r
  <2>1. slot \in [Slots -> SlotRecord] BY <1>1 DEF SlotsTypeOK
  <2>2. slot' = Released(slot, l) BY DEF Deliver
  <2>3. QED BY <1>4, <1>5, <2>1, <2>2, ReleasedEffect
<1> DEFINE c == [client[r] EXCEPT !.got = AnswerTo(r)]
<1>7. client' = [client EXCEPT ![r] = c] BY <1>1, <1>4 DEF SlotsTypeOK, Deliver
<1>8. c \in ClientRecord /\ c.phase = "answered" /\ c.lease = l /\ c.got = AnswerTo(r)
  <2>1. client[r] \in ClientRecord BY <1>1 DEF SlotsTypeOK
  <2>2. QED BY <1>4, <2>1, SmallFacts DEF ClientRecord
<1> HIDE DEF c
<1>9. /\ client'[r] = c /\ \A q \in Request \ {r} : client'[q] = client[q]
      /\ client' \in [Request -> ClientRecord]
  BY <1>1, <1>7, <1>8 DEF SlotsTypeOK
<1>10. /\ response'[r] = None /\ \A q \in Request \ {r} : response'[q] = response[q]
       /\ response' \in [Request -> Leases \cup {None}]
  BY <1>1 DEF Deliver, SlotsTypeOK
<1>11. SlotsTypeOK' BY <1>1, <1>2, <1>6, <1>9, <1>10 DEF SlotsTypeOK
<1>12. l = Current(i) /\ l.gen \in Nat BY <1>4, SameLease
<1>13. TcpMove(r, i)
  <2>1. QueuedJobs' = QueuedJobs BY <1>2 DEF QueuedJobs
  <2>2. client'[r].phase = client[r].phase /\ client'[r].lease = client[r].lease BY <1>4, <1>8, <1>9
  <2>3. Touches(i) BY <1>4, <1>5, <1>6 DEF Touches
  <2>4. Harmless(i) BY <1>4, <1>6, <1>12 DEF Harmless
  <2>5. ASSUME NEW q \in Request \ {r} PROVE ~HeldBy(q, i)
    <3>1. ClientOK(q) BY DEF SInv, ClientsHold
    <3>2. ~(client[q].phase = "sending" /\ client[q].lease = l)
      BY <1>4, <3>1 DEF ClientOK, StateOf
    <3>3. response[q] # l BY <1>4, <1>5, <3>1 DEF ClientOK, Valid, StateOf
    <3>4. QED BY <1>12, <3>2, <3>3 DEF HeldBy
  <2>6. client[r].phase # "sending" BY <1>4
  <2>7. QED BY <1>2, <1>9, <1>10, <2>1, <2>2, <2>3, <2>4, <2>5, <2>6 DEF TcpMove
<1>14. ClientOK(r)'
  <2>1. l.gen <= slot'[i].gen BY <1>6, <1>12
  <2>2. /\ client'[r].phase = "answered" /\ client'[r].lease = l /\ client'[r].got = AnswerTo(r)
        /\ response'[r] = None
    BY <1>8, <1>9, <1>10
  <2>3. QED BY <1>6, <2>1, <2>2 DEF ClientOK, AnswerTo, Valid, StateOf
<1>15. SlotOK(i)' BY <1>6 DEF SlotOK
<1>16. QED BY <1>2, <1>4, <1>11, <1>13, <1>14, <1>15, TcpFrameNoJob

(* What the callback of a lost connection, and the destructor of its response, do
   to the slot of its lease. *)
LEMMA DisconnectEffect ==
    ASSUME SInv, NEW r \in Request, Disconnect(r), NEW l \in Leases, NEW i \in Slots,
           l = client[r].lease, i = l.slot
    PROVE  /\ slot' \in [Slots -> SlotRecord] /\ \A j \in Slots \ {i} : slot'[j] = slot[j]
           /\ \/ slot'[i] = slot[i] /\ client[r].phase # "sending" /\ response[r] = None
              \/ /\ slot[i].gen = l.gen /\ slot[i].request = r
                 /\ slot'[i].gen = slot[i].gen /\ slot'[i].request = slot[i].request
                 /\ slot'[i].holds = slot[i].holds
                 /\ \/ slot[i].state = "assembling" /\ slot'[i].state = "free"
                    \/ slot[i].state = "sending" /\ slot'[i].state = "free" /\ response[r] = l
                    \/ slot[i].state \in {"queued", "ready"} /\ slot'[i].state = "cancelled"
<1> DEFINE a == AfterDisconnect(slot, l)
<1>1. SlotsTypeOK /\ ClientOK(r) /\ slot \in [Slots -> SlotRecord]
  BY DEF SInv, ClientsHold, SlotsTypeOK
<1>2. l # None BY SmallFacts
<1>3. slot[i].gen = l.gen /\ slot[i].state # "free" => slot[i].request = r
  BY <1>1, <1>2 DEF ClientOK, Valid, StateOf
<1>4. slot' = IF response[r] = None THEN a ELSE Released(a, response[r])
  BY <1>2 DEF Disconnect
<1>5. client[r].phase = "sending" => slot[i].gen = l.gen /\ slot[i].state = "assembling" /\ response[r] = None
  BY <1>1 DEF ClientOK, Valid, StateOf
<1>6. response[r] # None => response[r] = l /\ slot[i].gen = l.gen /\ slot[i].state = "sending"
  BY <1>1 DEF ClientOK, Valid, StateOf
<1>7. slot[i] \in SlotRecord BY <1>1
<1>8. CASE slot[i].gen # l.gen
  <2>1. a = slot BY <1>8 DEF AfterDisconnect
  <2>2. QED BY <1>1, <1>4, <1>5, <1>6, <1>8, <2>1
<1>9. CASE slot[i].gen = l.gen /\ slot[i].state = "assembling"
  <2> DEFINE t == [slot[i] EXCEPT !.state = "free", !.invalid = FALSE]
  <2>1. slot' = [slot EXCEPT ![i] = t] BY <1>4, <1>6, <1>9 DEF AfterDisconnect
  <2>2. t \in SlotRecord /\ t.state = "free" /\ t.gen = slot[i].gen /\ t.request = slot[i].request
        /\ t.holds = slot[i].holds
    BY <1>7 DEF SlotRecord, SlotState
  <2> HIDE DEF t
  <2>3. slot' \in [Slots -> SlotRecord] /\ slot'[i] = t /\ \A j \in Slots \ {i} : slot'[j] = slot[j]
    BY <1>1, <2>1, <2>2
  <2>4. QED BY <1>3, <1>9, <2>2, <2>3
<1>10. CASE slot[i].gen = l.gen /\ slot[i].state \in {"queued", "ready"}
  <2> DEFINE t == [slot[i] EXCEPT !.state = "cancelled", !.cancelled = TRUE]
  <2>1. slot' = [slot EXCEPT ![i] = t] BY <1>4, <1>6, <1>10 DEF AfterDisconnect
  <2>2. t \in SlotRecord /\ t.state = "cancelled" /\ t.gen = slot[i].gen /\ t.request = slot[i].request
        /\ t.holds = slot[i].holds
    BY <1>7 DEF SlotRecord, SlotState
  <2> HIDE DEF t
  <2>3. slot' \in [Slots -> SlotRecord] /\ slot'[i] = t /\ \A j \in Slots \ {i} : slot'[j] = slot[j]
    BY <1>1, <2>1, <2>2
  <2>4. QED BY <1>3, <1>10, <2>2, <2>3
<1>11. CASE slot[i].gen = l.gen /\ slot[i].state = "sending" /\ response[r] = l
  <2>1. a = slot BY <1>11 DEF AfterDisconnect
  <2>2. slot' = Released(slot, l) BY <1>2, <1>4, <1>11, <2>1
  <2>3. QED BY <1>1, <1>3, <1>11, <2>2, ReleasedEffect
<1>12. CASE slot[i].gen = l.gen /\ slot[i].state \notin {"assembling", "queued", "ready"}
            /\ response[r] # l
  <2>1. a = slot BY <1>12 DEF AfterDisconnect
  <2>2. response[r] = None BY <1>6, <1>12
  <2>3. QED BY <1>1, <1>4, <1>5, <1>12, <2>1, <2>2
<1>13. QED BY <1>2, <1>6, <1>8, <1>9, <1>10, <1>11, <1>12

(* A connection goes. *)
LEMMA DisconnectKeeps == ASSUME SInv, NEW r \in Request, Disconnect(r) PROVE SInv'
<1>1. SlotsTypeOK /\ ClientOK(r) BY DEF SInv, ClientsHold
<1>2. /\ head' = head /\ tail' = tail /\ count' = count
      /\ loop' = loop /\ starved' = starved /\ ran' = ran
  BY DEF Disconnect
<1> DEFINE c == [client[r] EXCEPT !.phase = "gone", !.lease = None]
<1>3. client[r] \in ClientRecord /\ client[r].lease \in Leases \cup {None}
  BY <1>1 DEF SlotsTypeOK, ClientRecord
<1>4. c \in ClientRecord /\ c.phase = "gone" /\ c.lease = None /\ c.got = client[r].got
  BY <1>3 DEF ClientRecord, Phase
<1>5. client' = [client EXCEPT ![r] = c] BY <1>1 DEF Disconnect, SlotsTypeOK
<1> HIDE DEF c
<1>6. /\ client'[r] = c /\ \A q \in Request \ {r} : client'[q] = client[q]
      /\ client' \in [Request -> ClientRecord]
  BY <1>1, <1>4, <1>5 DEF SlotsTypeOK
<1>7. /\ response'[r] = None /\ \A q \in Request \ {r} : response'[q] = response[q]
      /\ response' \in [Request -> Leases \cup {None}]
  BY <1>1 DEF Disconnect, SlotsTypeOK
<1>8. /\ jobs' \in [Entries -> JobRecord]
      /\ \A k \in Entries : /\ jobs'[k].slot = jobs[k].slot /\ jobs'[k].gen = jobs[k].gen
                            /\ jobs'[k].request = jobs[k].request
  <2>1. jobs' = jobs \/ \E l \in Leases : jobs' = JobsCancelled(l)
    BY <1>3 DEF Disconnect
  <2>2. jobs \in [Entries -> JobRecord] BY <1>1 DEF SlotsTypeOK
  <2>3. ASSUME NEW l \in Leases, jobs' = JobsCancelled(l)
        PROVE  /\ jobs' \in [Entries -> JobRecord]
               /\ \A k \in Entries : /\ jobs'[k].slot = jobs[k].slot /\ jobs'[k].gen = jobs[k].gen
                                     /\ jobs'[k].request = jobs[k].request
    <3>1. ASSUME NEW k \in Entries
          PROVE  /\ [jobs[k] EXCEPT !.cancelled = TRUE] \in JobRecord
                 /\ [jobs[k] EXCEPT !.cancelled = TRUE].slot = jobs[k].slot
                 /\ [jobs[k] EXCEPT !.cancelled = TRUE].gen = jobs[k].gen
                 /\ [jobs[k] EXCEPT !.cancelled = TRUE].request = jobs[k].request
      <4>1. jobs[k] \in JobRecord BY <2>2
      <4>2. QED BY <4>1 DEF JobRecord
    <3>2. DOMAIN jobs = Entries BY <2>2
    <3>3. \A k \in Entries : jobs'[k] \in {jobs[k], [jobs[k] EXCEPT !.cancelled = TRUE]}
      BY <2>3, <3>2 DEF JobsCancelled
    <3>4. jobs' = [k \in Entries |-> jobs'[k]] BY <2>3, <3>2 DEF JobsCancelled
    <3>5. \A k \in Entries : jobs'[k] \in JobRecord BY <2>2, <3>1, <3>3
    <3>6. \A k \in Entries : /\ jobs'[k].slot = jobs[k].slot /\ jobs'[k].gen = jobs[k].gen
                             /\ jobs'[k].request = jobs[k].request
      BY <3>1, <3>3
    <3>7. QED BY <3>4, <3>5, <3>6
  <2>4. QED BY <2>1, <2>2, <2>3
<1>9. QueuedJobs' = QueuedJobs /\ QueuedJobs \subseteq Entries
  BY <1>1, <1>2, QueueIsWrapped DEF QueuedJobs, SlotsTypeOK
<1>10. \A k \in Entries : Pending(k)' = Pending(k) /\ LeaseOf(k)' = LeaseOf(k)
  BY <1>2, <1>8, <1>9 DEF Pending, LeaseOf, At
<1>11. At("send") => At("send")' /\ JobLease' = JobLease
  BY <1>1, <1>2, <1>8 DEF At, JobLease, Job, SlotsTypeOK
<1>12. client'[r].got = AnswerTo(r) => r \in Range(ran)
  BY <1>4, <1>6 DEF SInv, RanOnce
<1>13. client'[r].phase = "gone" /\ client'[r].lease = None /\ client'[r].got = client[r].got
  BY <1>4, <1>6
<1>14. ClientOK(r)' BY <1>1, <1>7, <1>13 DEF ClientOK, RefusalOf, AnswerTo
<1>15. CASE client[r].lease = None
  <2>1. slot' = slot BY <1>15 DEF Disconnect
  <2>2. client[r].phase # "sending" /\ response[r] = None BY <1>1, <1>15 DEF ClientOK
  <2>3. 1 \in Slots BY SmallFacts DEF Slots
  <2>4. SlotsTypeOK' BY <1>1, <1>2, <1>6, <1>7, <1>8, <2>1 DEF SlotsTypeOK
  <2>5. Touches(1) /\ Harmless(1) BY <2>1 DEF Touches, Harmless
  <2>6. TcpMove(r, 1)
    BY <1>2, <1>6, <1>7, <1>8, <1>9, <1>13, <2>1, <2>2, <2>5 DEF TcpMove
  <2>7. SlotOK(1)'
    <3>1. SlotOK(1) BY <2>3 DEF SInv, SlotsHeld
    <3>2. Current(1) # None
      <4>1. slot[1] \in SlotRecord BY <1>1, <2>3 DEF SlotsTypeOK
      <4>2. Current(1) \in Leases BY <2>3, <4>1 DEF Current, Lease, Leases, SlotRecord
      <4>3. QED BY <4>2, SmallFacts
    <3>3. \A q \in Request : client[q].phase = "sending" /\ client[q].lease = Current(1) =>
             client'[q].phase = "sending" /\ client'[q].lease = client[q].lease
      BY <1>6, <2>2
    <3>4. \A q \in Request : response[q] = Current(1) => response'[q] = response[q]
      BY <1>7, <2>2, <3>2
    <3>5. slot'[1] = slot[1] BY <2>1
    <3>6. QED BY <1>10, <1>11, <2>3, <3>1, <3>3, <3>4, <3>5, SlotKept
  <2>8. QED BY <1>2, <1>12, <1>14, <2>3, <2>4, <2>6, <2>7, TcpFrameNoJob
<1>16. CASE client[r].lease # None
  <2> PICK l \in Leases, i \in Slots : l = client[r].lease /\ i = l.slot
    BY <1>3, <1>16 DEF Leases
  <2>1. /\ slot' \in [Slots -> SlotRecord] /\ \A j \in Slots \ {i} : slot'[j] = slot[j]
        /\ \/ slot'[i] = slot[i] /\ client[r].phase # "sending" /\ response[r] = None
           \/ /\ slot[i].gen = l.gen /\ slot[i].request = r
              /\ slot'[i].gen = slot[i].gen /\ slot'[i].request = slot[i].request
              /\ slot'[i].holds = slot[i].holds
              /\ \/ slot[i].state = "assembling" /\ slot'[i].state = "free"
                 \/ slot[i].state = "sending" /\ slot'[i].state = "free" /\ response[r] = l
                 \/ slot[i].state \in {"queued", "ready"} /\ slot'[i].state = "cancelled"
    BY DisconnectEffect
  <2>2. SlotsTypeOK' BY <1>1, <1>2, <1>6, <1>7, <1>8, <2>1 DEF SlotsTypeOK
  <2>3. slot[i].gen = l.gen => l = Current(i) BY SameLease
  <2>4. Touches(i) BY <2>1 DEF Touches
  <2>5. Harmless(i) BY <2>1, <2>3 DEF Harmless
  <2>6. ASSUME NEW q \in Request \ {r} PROVE slot'[i] = slot[i] \/ ~HeldBy(q, i)
    <3>1. SUFFICES ASSUME slot[i].gen = l.gen, slot[i].request = r, slot[i].state # "free"
                   PROVE ~HeldBy(q, i)
      BY <2>1
    <3>2. ClientOK(q) BY DEF SInv, ClientsHold
    <3>3. ~(client[q].phase = "sending" /\ client[q].lease = l)
      BY <3>1, <3>2 DEF ClientOK, Valid, StateOf
    <3>4. l # None BY SmallFacts
    <3>5. response[q] # l BY <3>1, <3>2, <3>4 DEF ClientOK, Valid, StateOf
    <3>6. QED BY <2>3, <3>1, <3>3, <3>5 DEF HeldBy
  <2>7. response[r] # None => response[r].slot = i BY <1>1 DEF ClientOK
  <2>8. TcpMove(r, i)
    BY <1>2, <1>6, <1>7, <1>8, <1>9, <1>13, <2>4, <2>5, <2>6, <2>7 DEF TcpMove
  <2>9. SlotOK(i)'
    <3>1. CASE slot'[i].state = "free" BY <3>1 DEF SlotOK
    <3>2. CASE slot[i].gen = l.gen /\ slot[i].state \in {"queued", "ready"}
               /\ slot'[i].gen = slot[i].gen /\ slot'[i].state = "cancelled"
      <4>1. PICK k \in Entries : Pending(k) /\ LeaseOf(k) = Current(i)
        BY <3>2 DEF SInv, SlotsHeld, SlotOK
      <4>2. Current(i)' = Current(i) BY <3>2 DEF Current
      <4>3. Pending(k)' /\ LeaseOf(k)' = Current(i)' BY <1>10, <4>1, <4>2
      <4>4. QED BY <3>2, <4>3 DEF SlotOK
    <3>3. CASE slot'[i] = slot[i] /\ client[r].phase # "sending" /\ response[r] = None
      <4>1. SlotOK(i) BY DEF SInv, SlotsHeld
      <4>2. Current(i) # None
        <5>1. slot[i] \in SlotRecord BY <1>1 DEF SlotsTypeOK
        <5>2. Current(i) \in Leases BY <5>1 DEF Current, Lease, Leases, SlotRecord
        <5>3. QED BY <5>2, SmallFacts
      <4>3. \A q \in Request : client[q].phase = "sending" /\ client[q].lease = Current(i) =>
               client'[q].phase = "sending" /\ client'[q].lease = client[q].lease
        BY <1>6, <3>3
      <4>4. \A q \in Request : response[q] = Current(i) => response'[q] = response[q]
        BY <1>7, <3>3, <4>2
      <4>5. QED BY <1>10, <1>11, <3>3, <4>1, <4>3, <4>4, SlotKept
    <3>4. QED BY <2>1, <3>1, <3>2, <3>3
  <2>10. QED BY <1>2, <1>12, <1>14, <2>2, <2>8, <2>9, TcpFrameNoJob
<1>17. QED BY <1>15, <1>16

(* The AsyncTCP task as a whole. *)
LEMMA TcpStepKeeps == ASSUME SInv, NEW r \in Request, TcpStep(r) PROVE SInv'
<1>1. CASE TurnDown(r)
  <2>1. UNCHANGED <<slot, ring, loop, response, starved, ran>> BY <1>1 DEF TurnDown
  <2>2. QED BY <1>1, <2>1, FreshRefusal DEF TurnDown
<1>2. CASE BodyStarts(r)
  <2>1. UNCHANGED <<ring, loop, response, starved, ran>> BY <1>2 DEF BodyStarts
  <2>2. CASE Refused(r, None) /\ UNCHANGED slot
    BY <1>2, <2>1, <2>2, FreshRefusal DEF BodyStarts
  <2>3. CASE FreeSlots # {}
             /\ slot' = [Reserved(slot, Reservable, r) EXCEPT ![Reservable].holds = BodyOf(r)]
             /\ client' = [client EXCEPT ![r].phase = "sending", ![r].lease = NextLease]
    <3>1. client[r].phase = "new" BY <1>2 DEF BodyStarts
    <3>2. QED BY ONLY SInv, r \in Request, <2>1, <2>3, <3>1, BodyBegins
  <2>4. QED BY <1>2, <2>2, <2>3 DEF BodyStarts
<1>3. CASE BodyGoesWrong(r)
  <2>1. UNCHANGED <<ring, loop, response, starved, ran>> /\ client[r].phase = "sending"
    BY <1>3 DEF BodyGoesWrong
  <2>2. CASE slot' = [slot EXCEPT ![client[r].lease.slot].invalid = TRUE] /\ UNCHANGED client
    <3>1. UNCHANGED <<client, ring, loop, response, starved, ran>> BY <2>1, <2>2
    <3>2. QED BY ONLY SInv, r \in Request, <2>1, <2>2, <3>1, SendingSpoiled
  <2>3. CASE slot' = Released(slot, client[r].lease) /\ Refused(r, client[r].lease)
    BY <2>1, <2>3, SendingRefusal
  <2>4. QED BY <1>3, <2>2, <2>3 DEF BodyGoesWrong
<1>4. QED
  BY <1>1, <1>2, <1>3, BodyCompleteKeeps, BodylessKeeps, DisconnectKeeps, DeliverKeeps DEF TcpStep

-----------------------------------------------------------------------------
(* The owner loop, which works on the job at the head of the ring. *)

(* While the ring holds jobs, the one poll() works on is a queued job whose lease is
   the one it was enqueued with. *)
LEMMA HeadFacts ==
    ASSUME SInv, count > 0
    PROVE  /\ head \in QueuedJobs /\ head \in Entries /\ JobOK(head) /\ jobs[head] \in JobRecord
           /\ Job.slot \in Slots /\ Job.request \in Request /\ Job.gen \in Nat
           /\ JobLease = LeaseOf(head) /\ JobLease \in Leases /\ JobLease # None
           /\ JobLease.slot = Job.slot /\ JobLease.gen = Job.gen
           /\ slot[Job.slot] \in SlotRecord
<1>1. SlotsTypeOK BY DEF SInv
<1>2. head \in QueuedJobs /\ head \in Entries BY <1>1, QueueIsWrapped DEF SlotsTypeOK
<1>3. JobOK(head) /\ jobs[head] \in JobRecord BY <1>1, <1>2 DEF SInv, JobsWait, SlotsTypeOK
<1>4. Job.slot \in Slots /\ Job.request \in Request /\ Job.gen \in Nat
  BY <1>3 DEF JobOK, Job, JobRecord
<1>5. /\ JobLease = LeaseOf(head) /\ JobLease \in Leases
      /\ JobLease.slot = Job.slot /\ JobLease.gen = Job.gen
  BY <1>4 DEF JobLease, LeaseOf, Lease, Leases, Job
<1>6. slot[Job.slot] \in SlotRecord BY <1>1, <1>4 DEF SlotsTypeOK
<1>7. QED BY <1>2, <1>3, <1>4, <1>5, <1>6, SmallFacts

(* A job's slot is no client's before the answer is on its way. *)
LEMMA JobNotHeld ==
    ASSUME SInv, count > 0, Valid(JobLease), StateOf(JobLease) # "assembling",
           StateOf(JobLease) = "sending" => \A q \in Request : response[q] # JobLease
    PROVE  \A q \in Request : ~HeldBy(q, Job.slot)
<1>1. JobLease = Current(Job.slot) /\ JobLease # None /\ JobLease.slot = Job.slot
  BY HeadFacts DEF Valid, JobLease, Current, Lease
<1>2. ASSUME NEW q \in Request, HeldBy(q, Job.slot) PROVE FALSE
  <2>1. ClientOK(q) BY DEF SInv, ClientsHold
  <2>2. CASE client[q].phase = "sending" /\ client[q].lease = JobLease
    BY <2>1, <2>2 DEF ClientOK
  <2>3. CASE response[q] = JobLease BY <1>1, <2>1, <2>3 DEF ClientOK
  <2>4. QED BY <1>1, <1>2, <2>2, <2>3 DEF HeldBy
<1>3. QED BY <1>2

(* A step of the loop about slot i, which leaves the connections alone. *)
QuietMove(i) ==
    /\ count > 0 /\ i = Job.slot
    /\ client' = client /\ response' = response
    /\ \A k \in Entries : /\ jobs'[k].slot = jobs[k].slot /\ jobs'[k].gen = jobs[k].gen
                          /\ jobs'[k].request = jobs[k].request
    /\ QueuedJobs \ {head} \subseteq QueuedJobs' /\ QueuedJobs' \subseteq QueuedJobs
    /\ \/ head' = head /\ QueuedJobs' = QueuedJobs
       \/ loop'.pc = "idle"
    /\ Range(ran) \subseteq Range(ran') /\ Range(ran') \subseteq Range(ran) \cup {Job.request}
    /\ Touches(i)
    /\ \/ slot'[i] = slot[i]
       \/ Valid(JobLease) /\ \A q \in Request : ~HeldBy(q, i)

(* A loop step that touches only the head job's slot leaves the jobs behind it where
   they stand, with their leases. *)
LEMMA QuietKeepsLine ==
    ASSUME SInv, NEW i \in Slots, QuietMove(i), NEW k \in QueuedJobs, k # head
    PROVE  InLine(k)' /\ LeaseOf(k)' = LeaseOf(k)
<1>1. k \in Entries /\ head \in QueuedJobs /\ JobLease = LeaseOf(head)
  BY HeadFacts, QueueIsWrapped DEF QuietMove, SInv, SlotsTypeOK
<1>2. LeaseOf(k)' = LeaseOf(k) BY <1>1 DEF QuietMove, LeaseOf
<1>3. InLine(k) /\ LeaseOf(k) # JobLease /\ JobOK(k) BY <1>1 DEF SInv, JobsHold, JobsWait
<1>4. slot'[jobs[k].slot] = slot[jobs[k].slot]
  <2>1. CASE jobs[k].slot # i BY <1>3, <2>1 DEF QuietMove, Touches, JobOK
  <2>2. CASE jobs[k].slot = i
    <3>1. ~Valid(JobLease)
      BY <1>3, <2>2 DEF QuietMove, InLine, Valid, LeaseOf, Lease, JobLease
    <3>2. QED BY <2>2, <3>1 DEF QuietMove
  <2>3. QED BY <2>1, <2>2
<1>5. QED BY <1>2, <1>3, <1>4 DEF InLine, Valid, StateOf, LeaseOf, Lease

(* A loop step that touches only the head job's slot keeps the invariant, once that
   slot and the jobs are accounted for. *)
LEMMA QuietFrame ==
    ASSUME SInv, SlotsTypeOK', RingOK', NEW i \in Slots, QuietMove(i), SlotOK(i)', JobsHold'
    PROVE  SInv'
<1>1. SlotsTypeOK BY DEF SInv
<1>2. /\ head \in QueuedJobs /\ head \in Entries /\ JobOK(head) /\ Job.request \in Request
      /\ QueuedJobs \subseteq Entries /\ JobLease = LeaseOf(head) /\ JobLease.slot = i
  BY <1>1, HeadFacts, QueueIsWrapped DEF QuietMove, SlotsTypeOK
<1>3. ClientsHold'
  <2>1. ASSUME NEW q \in Request PROVE ClientOK(q)'
    <3>1. ClientOK(q) BY DEF SInv, ClientsHold
    <3>2. client'[q] = client[q] /\ response'[q] = response[q] /\ Touches(i)
          /\ Range(ran) \subseteq Range(ran') /\ (slot'[i] = slot[i] \/ ~HeldBy(q, i))
      BY DEF QuietMove
    <3>3. QED BY <1>1, <3>1, <3>2, ClientKept
  <2>2. QED BY <2>1 DEF ClientsHold
<1>4. \A k \in QueuedJobs' : k \in QueuedJobs /\ LeaseOf(k)' = LeaseOf(k)
  BY <1>2 DEF QuietMove, LeaseOf
<1>5. JobsWait'
  <2>1. ASSUME NEW k \in QueuedJobs' PROVE JobOK(k)'
    <3>1. k \in Entries /\ JobOK(k) BY <1>2, <1>4 DEF SInv, JobsWait
    <3>2. client' = client /\ Touches(i) /\ jobs'[k].slot = jobs[k].slot
          /\ jobs'[k].gen = jobs[k].gen /\ jobs'[k].request = jobs[k].request
      BY <3>1 DEF QuietMove
    <3>3. QED BY <1>1, <3>1, <3>2, JobKept
  <2>2. QED BY <1>4, <2>1 DEF JobsWait, SInv
<1>6. SlotsHeld'
  <2>1. ASSUME NEW j \in Slots, j # i PROVE SlotOK(j)'
    <3>1. SlotOK(j) /\ slot'[j] = slot[j] BY <2>1 DEF SInv, SlotsHeld, QuietMove, Touches
    <3>2. JobLease # Current(j) BY <1>2, <2>1 DEF Current, Lease
    <3>3. \A k \in Entries : Pending(k) /\ LeaseOf(k) = Current(j) => Pending(k)' /\ LeaseOf(k)' = LeaseOf(k)
      <4>1. ASSUME NEW k \in Entries, Pending(k), LeaseOf(k) = Current(j)
            PROVE  Pending(k)' /\ LeaseOf(k)' = LeaseOf(k)
        <5>1. k # head /\ k \in QueuedJobs BY <1>2, <3>2, <4>1 DEF Pending
        <5>2. k \in QueuedJobs' /\ LeaseOf(k)' = LeaseOf(k) BY <4>1, <5>1 DEF QuietMove, LeaseOf
        <5>3. ~(k = head' /\ At("finish")') BY <5>1 DEF QuietMove, At
        <5>4. QED BY <5>2, <5>3 DEF Pending
      <4>2. QED BY <4>1
    <3>4. client' = client /\ response' = response BY DEF QuietMove
    <3>5. QED BY <3>1, <3>2, <3>3, <3>4, SlotKept
  <2>2. QED BY <2>1 DEF SlotsHeld
<1>7. RanOnce'
  <2>1. client[Job.request].phase \in Past BY <1>2 DEF JobOK, Job, Past
  <2>2. \A r \in Range(ran') : client'[r].phase \in Past
    BY <2>1 DEF QuietMove, SInv, RanOnce, Past
  <2>3. \A r \in Request : client'[r].got = AnswerTo(r) => r \in Range(ran')
    BY DEF QuietMove, SInv, RanOnce
  <2>4. QED BY <2>2, <2>3 DEF RanOnce, Past, AnswerTo
<1>8. QED BY <1>3, <1>5, <1>6, <1>7 DEF SInv

(* A step that leaves every slot as it is. *)
LEMMA NoSlotTouched ==
    ASSUME SInv, NEW i \in Slots, slot' = slot, client' = client, response' = response,
           head' = head, tail' = tail, count' = count, ~At("send"),
           \A k \in Entries : jobs'[k].slot = jobs[k].slot /\ jobs'[k].gen = jobs[k].gen,
           loop'.pc # "finish" \/ ~loop'.sent
    PROVE  SlotOK(i)'
<1>1. SlotOK(i) BY DEF SInv, SlotsHeld
<1>2. QueuedJobs' = QueuedJobs BY DEF QueuedJobs
<1>3. \A k \in Entries : Pending(k) => Pending(k)' /\ LeaseOf(k)' = LeaseOf(k)
  BY <1>2 DEF Pending, LeaseOf, At
<1>4. QED BY <1>1, <1>3, SlotKept

(* A poll of a job whose request body is still held elsewhere counts down and keeps
   the invariant. *)
LEMMA PollAgainKeeps == ASSUME SInv, PollAgain PROVE SInv'
<1>1. SlotsTypeOK /\ RingOK /\ count > 0 /\ At("idle") BY DEF SInv, PollAgain
<1> PICK i \in Slots : i = Job.slot BY <1>1, HeadFacts
<1>2. /\ slot' = slot /\ head' = head /\ tail' = tail /\ count' = count /\ loop' = loop
      /\ client' = client /\ response' = response /\ starved' = starved /\ ran' = ran
  BY DEF PollAgain, tcpVars
<1> DEFINE b == [jobs[head] EXCEPT !.waits = jobs[head].waits - 1]
<1>3. jobs[head] \in JobRecord /\ head \in Entries BY <1>1, HeadFacts
<1>4. jobs' = [jobs EXCEPT ![head] = b] BY <1>1, <1>3 DEF PollAgain, SlotsTypeOK
<1>5. b \in JobRecord /\ b.slot = jobs[head].slot /\ b.gen = jobs[head].gen
      /\ b.request = jobs[head].request
  <2>1. jobs[head].waits \in Nat /\ jobs[head].waits > 0 BY <1>3 DEF JobRecord, PollAgain, Job
  <2>2. jobs[head].waits - 1 \in Nat BY <2>1
  <2>3. QED BY <1>3, <2>2 DEF JobRecord
<1> HIDE DEF b
<1>6. /\ jobs' \in [Entries -> JobRecord]
      /\ \A k \in Entries : /\ jobs'[k].slot = jobs[k].slot /\ jobs'[k].gen = jobs[k].gen
                            /\ jobs'[k].request = jobs[k].request
  BY <1>1, <1>3, <1>4, <1>5 DEF SlotsTypeOK
<1>7. SlotsTypeOK' /\ RingOK' BY <1>1, <1>2, <1>6 DEF SlotsTypeOK, RingOK, At
<1>8. QueuedJobs' = QueuedJobs /\ QueuedJobs \subseteq Entries
  BY <1>1, <1>2, QueueIsWrapped DEF QueuedJobs, SlotsTypeOK
<1>9. QuietMove(i)
  <2>1. Touches(i) BY <1>2 DEF Touches
  <2>2. QED BY <1>1, <1>2, <1>6, <1>8, <2>1 DEF QuietMove
<1>10. SlotOK(i)' BY <1>1, <1>2, <1>6, NoSlotTouched DEF At
<1>11. JobsHold'
  <2>1. \A k \in QueuedJobs : InLine(k)' = InLine(k)
    BY <1>2, <1>6, <1>8 DEF InLine, Valid, StateOf, LeaseOf, Lease
  <2>2. \A k \in QueuedJobs' : InLine(k)' BY <1>1, <1>8, <2>1 DEF SInv, JobsHold, At
  <2>3. QED BY <1>1, <1>2, <2>2 DEF JobsHold, At
<1>12. QED BY <1>7, <1>9, <1>10, <1>11, QuietFrame

(* The loop goes on without touching a slot or the ring. *)
LEMMA LoopOnly ==
    ASSUME SInv, count > 0, NEW p \in Pc, p \in {"answer", "finish"}, loop'.pc = p,
           loop' \in [pc : Pc, sent : BOOLEAN], p = "finish" => ~loop'.sent,
           ~At("send"), ~At("finish"),
           Range(ran) \subseteq Range(ran'), Range(ran') \subseteq Range(ran) \cup {Job.request},
           ran' \in Seq(Request), p = "answer" => Job.request \in Range(ran'),
           p = "answer" => At("idle"),
           UNCHANGED <<slot, ring, client, response, starved>>
    PROVE  SInv'
<1>1. SlotsTypeOK /\ RingOK BY DEF SInv
<1> PICK i \in Slots : i = Job.slot BY HeadFacts
<1>2. /\ slot' = slot /\ jobs' = jobs /\ head' = head /\ tail' = tail /\ count' = count
      /\ client' = client /\ response' = response /\ starved' = starved
  BY DEF ring
<1>3. SlotsTypeOK' /\ RingOK' BY <1>1, <1>2 DEF SlotsTypeOK, RingOK, At
<1>4. QueuedJobs' = QueuedJobs BY <1>2 DEF QueuedJobs
<1>5. QuietMove(i)
  <2>1. Touches(i) BY <1>2 DEF Touches
  <2>2. QED BY <1>2, <1>4, <2>1 DEF QuietMove
<1>6. SlotOK(i)' BY <1>2, NoSlotTouched
<1>7. JobsHold'
  <2>1. \A k \in QueuedJobs : InLine(k)' = InLine(k) /\ OwnAnswer(k)' = OwnAnswer(k)
    BY <1>2 DEF InLine, OwnAnswer, AnswerTo, Valid, StateOf, LeaseOf
  <2>2. /\ JobLease' = JobLease /\ Valid(JobLease)' = Valid(JobLease)
        /\ StateOf(JobLease)' = StateOf(JobLease) /\ Job' = Job
    BY <1>2 DEF JobLease, Job, Valid, StateOf
  <2>3. ~At("take")' /\ ~At("send")' /\ loop'.pc \notin {"ready", "take", "send"}
        /\ ~(At("finish")' /\ loop'.sent)
    BY DEF At
  <2>4. \A k \in QueuedJobs' : k # head' \/ loop'.pc \in {"idle", "answer", "ready"} => InLine(k)'
    BY <1>2, <1>4, <2>1 DEF SInv, JobsHold, At
  <2>5. At("finish")' /\ ~loop'.sent /\ Valid(JobLease)' =>
           StateOf(JobLease)' \in {"free", "queued", "ready", "cancelled"}
    <3>1. head \in QueuedJobs /\ JobLease = LeaseOf(head) BY HeadFacts
    <3>2. loop.pc \in {"idle", "answer", "ready", "take"} BY <1>1 DEF SlotsTypeOK, Pc, At
    <3>3. StateOf(JobLease) \in {"free", "queued", "ready", "cancelled"}
      BY <3>1, <3>2 DEF SInv, JobsHold, InLine, At
    <3>4. QED BY <2>2, <3>3
  <2>6. loop'.pc \in {"answer", "ready", "take", "send"} => Job'.request \in Range(ran')
    BY <2>2
  <2>7. QED BY <2>2, <2>3, <2>4, <2>5, <2>6 DEF JobsHold, Job
<1>8. QED BY <1>3, <1>5, <1>6, <1>7, QuietFrame

(* A poll that gives an abandoned read up keeps the invariant. *)
LEMMA PollDropsKeeps == ASSUME SInv, PollDrops PROVE SInv'
<1>1. /\ At("idle") /\ count > 0 /\ loop' = [pc |-> "finish", sent |-> FALSE]
      /\ UNCHANGED <<slot, ring, client, response, starved>> /\ ran' = ran
  BY DEF PollDrops, GiveUp, tcpVars
<1>2. ran' \in Seq(Request) BY <1>1 DEF SInv, SlotsTypeOK
<1>3. /\ loop'.pc = "finish" /\ ~loop'.sent /\ loop' \in [pc : Pc, sent : BOOLEAN]
      /\ "finish" \in Pc
  BY <1>1 DEF Pc
<1>4. ~At("send") /\ ~At("finish") BY <1>1 DEF At
<1>5. QED BY <1>1, <1>2, <1>3, <1>4, LoopOnly

(* A poll that carries the job out keeps the invariant. *)
LEMMA PollExecutesKeeps == ASSUME SInv, PollExecutes PROVE SInv'
<1>1. /\ At("idle") /\ count > 0 /\ loop' = [loop EXCEPT !.pc = "answer"]
      /\ UNCHANGED <<slot, ring, client, response, starved>> /\ ran' = Append(ran, Job.request)
  BY DEF PollExecutes, Go, tcpVars
<1>2. Job.request \in Request /\ ran \in Seq(Request) /\ loop \in [pc : Pc, sent : BOOLEAN]
  BY <1>1, HeadFacts DEF SInv, SlotsTypeOK
<1>3. ran' \in Seq(Request) /\ Range(ran') = Range(ran) \cup {Job.request}
  <2>1. ran' \in Seq(Request) /\ Len(ran') = Len(ran) + 1 /\ Len(ran) \in Nat
        /\ (\A k \in 1..Len(ran) : ran'[k] = ran[k]) /\ ran'[Len(ran) + 1] = Job.request
    BY <1>1, <1>2, AppendProperties
  <2>2. DOMAIN ran = 1..Len(ran) /\ DOMAIN ran' = 1..(Len(ran) + 1) BY <1>2, <2>1
  <2>3. Range(ran') = {ran'[k] : k \in 1..(Len(ran) + 1)} BY <2>2 DEF Range
  <2>4. Range(ran) = {ran[k] : k \in 1..Len(ran)} BY <2>2 DEF Range
  <2>5. 1..(Len(ran) + 1) = 1..Len(ran) \cup {Len(ran) + 1} BY <2>1
  <2>6. QED BY <2>1, <2>3, <2>4, <2>5
<1>4. /\ loop'.pc = "answer" /\ loop' \in [pc : Pc, sent : BOOLEAN] /\ "answer" \in Pc
  BY <1>1, <1>2 DEF Pc
<1>5. ~At("send") /\ ~At("finish") BY <1>1 DEF At
<1>6. QED BY <1>1, <1>3, <1>4, <1>5, LoopOnly

(* The loop moves the slot of its job on, while it is the job's. *)
LEMMA SlotTurns ==
    ASSUME SInv, count > 0, NEW i \in Slots, i = Job.slot, NEW t \in SlotRecord,
           slot' = [slot EXCEPT ![i] = t], t.gen = slot[i].gen, t.request = slot[i].request,
           Valid(JobLease), StateOf(JobLease) \notin {"free", "assembling"},
           StateOf(JobLease) = "sending" => \A q \in Request : response[q] # JobLease,
           loop.pc \in {"answer", "ready", "take", "send"},
           loop' \in [pc : Pc, sent : BOOLEAN],
           \/ loop'.pc = "ready" /\ t.state \in {"queued", "cancelled"}
           \/ loop'.pc = "take" /\ t.state = "ready"
           \/ loop'.pc = "send" /\ t.state = "sending" /\ StateOf(JobLease) # "sending"
           \/ loop'.pc = "finish" /\ t.state = "free",
           loop'.pc # "finish" => t.holds = AnswerTo(Job.request),
           starved' \subseteq Request, UNCHANGED <<ring, client, response, ran>>
    PROVE  SInv'
<1>1. SlotsTypeOK /\ RingOK BY DEF SInv
<1>2. /\ jobs' = jobs /\ head' = head /\ tail' = tail /\ count' = count
      /\ client' = client /\ response' = response /\ ran' = ran /\ starved' \subseteq Request
  BY DEF ring
<1>3. /\ slot' \in [Slots -> SlotRecord] /\ slot'[i] = t
      /\ \A j \in Slots \ {i} : slot'[j] = slot[j]
  BY <1>1 DEF SlotsTypeOK
<1>4. SlotsTypeOK' BY <1>1, <1>2, <1>3, Zenon DEF SlotsTypeOK
<1>5. RingOK'
  <2>1. tail' = (head' + count') % JobCapacity BY <1>1, <1>2, Zenon DEF RingOK
  <2>2. QED BY <1>2, <2>1 DEF RingOK
<1>6. QueuedJobs' = QueuedJobs BY <1>2 DEF QueuedJobs
<1>7. /\ head \in QueuedJobs /\ head \in Entries /\ JobLease = LeaseOf(head)
      /\ JobLease.slot = i /\ JobLease.gen = slot[i].gen /\ JobLease = Current(i)
  BY HeadFacts DEF Valid, Current, JobLease, Lease
<1>8. /\ JobLease' = JobLease /\ Job' = Job /\ LeaseOf(head)' = LeaseOf(head)
      /\ Current(i)' = JobLease
      /\ Valid(JobLease)' /\ StateOf(JobLease)' = t.state
  <2>1. JobLease' = JobLease /\ Job' = Job /\ LeaseOf(head)' = LeaseOf(head)
    BY <1>2 DEF JobLease, Job, LeaseOf
  <2>2. slot'[i].gen = slot[i].gen BY <1>3
  <2>3. QED BY <1>3, <1>7, <2>1, <2>2 DEF Valid, StateOf, Current
<1>9. QuietMove(i)
  <2>1. Touches(i)
    <3>1. slot[i].state # "free" BY <1>7 DEF StateOf
    <3>2. QED BY <1>3, <3>1 DEF Touches
  <2>2. \A q \in Request : ~HeldBy(q, i) BY JobNotHeld
  <2>3. QED BY <1>2, <1>6, <2>1, <2>2 DEF QuietMove
<1>10. SlotOK(i)'
  <2>1. t.state \in {"queued", "ready", "cancelled"} => Pending(head)'
    BY <1>2, <1>6, <1>7 DEF Pending, At
  <2>2. t.state = "sending" => At("send")' BY DEF At
  <2>3. t.state # "assembling" OBVIOUS
  <2>4. QED BY <1>2, <1>3, <1>7, <1>8, <2>1, <2>2, <2>3 DEF SlotOK
<1>11. JobsHold'
  <2>1. \A k \in QueuedJobs' : k # head' => InLine(k)' BY <1>2, <1>6, <1>9, QuietKeepsLine
  <2>2. loop'.pc \in {"idle", "answer", "ready"} => InLine(head)'
    <3>1. ASSUME loop'.pc \in {"idle", "answer", "ready"}
          PROVE  t.state \in {"queued", "cancelled"}
      BY <3>1
    <3>2. LeaseOf(head)' = JobLease' BY <1>7, <1>8
    <3>3. QED BY <1>8, <3>1, <3>2 DEF InLine
  <2>3. At("take")' => Valid(JobLease)' /\ StateOf(JobLease)' \in {"ready", "cancelled"}
    BY <1>8 DEF At
  <2>4. At("send")' => /\ Valid(JobLease)' /\ StateOf(JobLease)' = "sending"
                       /\ \A q \in Request : response'[q] # JobLease'
    <3>1. ASSUME At("send")' PROVE \A q \in Request : response[q] # JobLease
      <4>1. StateOf(JobLease) # "sending" BY <3>1 DEF At
      <4>2. JobLease # None BY HeadFacts
      <4>3. QED BY <4>1, <4>2 DEF SInv, ClientsHold, ClientOK
    <3>2. QED BY <1>2, <1>8, <3>1 DEF At
  <2>5. At("finish")' => StateOf(JobLease)' = "free" BY <1>8 DEF At
  <2>6. loop'.pc \in {"ready", "take", "send"} => OwnAnswer(head)'
    BY <1>2, <1>3 DEF OwnAnswer, AnswerTo, Job
  <2>7. Job'.request \in Range(ran')
    BY <1>2, <1>8 DEF SInv, JobsHold
  <2>8. QED BY <1>2, <2>1, <2>2, <2>3, <2>4, <2>5, <2>6, <2>7 DEF JobsHold, Job
<1>12. QED BY <1>4, <1>5, <1>9, <1>10, <1>11, QuietFrame

(* A step of poll() that gives its job up before the slot was taken. *)
LEMMA GiveUpKeeps ==
    ASSUME SInv, GiveUp, loop.pc \in {"answer", "ready", "take"},
           UNCHANGED <<slot, ring, client, response, starved, ran>>
    PROVE  SInv'
<1>1. count > 0 /\ ~At("send") /\ ~At("finish") BY DEF SInv, RingOK, At
<1>2. ran' \in Seq(Request) /\ ran' = ran BY DEF SInv, SlotsTypeOK
<1>3. /\ loop'.pc = "finish" /\ ~loop'.sent /\ loop' \in [pc : Pc, sent : BOOLEAN]
      /\ "finish" \in Pc
  BY DEF GiveUp, Pc
<1>4. UNCHANGED <<slot, ring, client, response, starved>> OBVIOUS
<1>5. QED BY <1>1, <1>2, <1>3, <1>4, LoopOnly

(* Writing the answer into the job's slot keeps the invariant. *)
LEMMA WriteAnswerKeeps == ASSUME SInv, WriteAnswer PROVE SInv'
<1>1. /\ loop.pc = "answer" /\ count > 0 /\ SlotsTypeOK /\ starved' \subseteq Request
      /\ UNCHANGED <<ring, client, response, starved, ran>> /\ UNCHANGED <<ring, client, response, ran>>
  BY DEF SInv, RingOK, SlotsTypeOK, WriteAnswer, At, tcpVars
<1>2. CASE GiveUp /\ UNCHANGED slot
  <2>1. UNCHANGED <<slot, ring, client, response, starved, ran>> BY <1>1, <1>2
  <2>2. QED BY <1>1, <1>2, <2>1, GiveUpKeeps
<1>3. CASE slot' = [slot EXCEPT ![Job.slot].holds = AnswerTo(Job.request)] /\ Go("ready")
  <2> PICK i \in Slots : i = Job.slot BY <1>1, HeadFacts
  <2> DEFINE t == [slot[i] EXCEPT !.holds = AnswerTo(Job.request)]
  <2>1. slot' = [slot EXCEPT ![i] = t] BY <1>3
  <2>2. slot[i] \in SlotRecord /\ AnswerTo(Job.request) \in Holding
    BY <1>1, HeadFacts, SmallFacts
  <2>3. /\ t \in SlotRecord /\ t.gen = slot[i].gen /\ t.request = slot[i].request
        /\ t.state = slot[i].state /\ t.holds = AnswerTo(Job.request)
    BY <2>2 DEF SlotRecord
  <2> HIDE DEF t
  <2>4. Valid(JobLease) /\ StateOf(JobLease) \in {"queued", "cancelled"}
    BY <1>1, HeadFacts DEF SInv, JobsHold, InLine
  <2>5. slot[i].state = StateOf(JobLease) BY <1>1, HeadFacts DEF StateOf
  <2>6. loop'.pc = "ready" /\ loop' \in [pc : Pc, sent : BOOLEAN]
    BY <1>1, <1>3 DEF Go, SlotsTypeOK, Pc
  <2>7. QED BY ONLY SInv, <1>1, i \in Slots, i = Job.slot, <2>1, <2>3, <2>4, <2>5, <2>6, SlotTurns
<1>4. QED BY <1>2, <1>3 DEF WriteAnswer

(* Marking the slot ready keeps the invariant. *)
LEMMA MarkReadyKeeps == ASSUME SInv, MarkReady PROVE SInv'
<1>1. /\ loop.pc = "ready" /\ count > 0 /\ SlotsTypeOK /\ starved' \subseteq Request
      /\ UNCHANGED <<ring, client, response, starved, ran>> /\ UNCHANGED <<ring, client, response, ran>>
  BY DEF SInv, RingOK, SlotsTypeOK, MarkReady, At, tcpVars
<1>2. CASE GiveUp /\ UNCHANGED slot
  <2>1. UNCHANGED <<slot, ring, client, response, starved, ran>> BY <1>1, <1>2
  <2>2. QED BY <1>1, <1>2, <2>1, GiveUpKeeps
<1>3. CASE slot' = [slot EXCEPT ![Job.slot].state = "ready"] /\ Go("take")
  <2> PICK i \in Slots : i = Job.slot BY <1>1, HeadFacts
  <2> DEFINE t == [slot[i] EXCEPT !.state = "ready"]
  <2>1. slot' = [slot EXCEPT ![i] = t] BY <1>3
  <2>2. slot[i] \in SlotRecord BY <1>1, HeadFacts
  <2>3. slot[i].holds = AnswerTo(Job.request) BY <1>1 DEF SInv, JobsHold, OwnAnswer, Job
  <2>4. /\ t \in SlotRecord /\ t.gen = slot[i].gen /\ t.request = slot[i].request
        /\ t.state = "ready" /\ t.holds = AnswerTo(Job.request)
    BY <2>2, <2>3 DEF SlotRecord, SlotState
  <2> HIDE DEF t
  <2>5. Valid(JobLease) /\ StateOf(JobLease) \in {"queued", "cancelled"}
    BY <1>1, HeadFacts DEF SInv, JobsHold, InLine
  <2>6. loop'.pc = "take" /\ loop' \in [pc : Pc, sent : BOOLEAN]
    BY <1>1, <1>3 DEF Go, SlotsTypeOK, Pc
  <2>7. QED BY ONLY SInv, <1>1, i \in Slots, i = Job.slot, <2>1, <2>4, <2>5, <2>6, SlotTurns
<1>4. QED BY <1>2, <1>3 DEF MarkReady

(* Taking the ready slot for sending keeps the invariant. *)
LEMMA TakeSlotKeeps == ASSUME SInv, TakeSlot PROVE SInv'
<1>1. /\ loop.pc = "take" /\ count > 0 /\ SlotsTypeOK /\ starved' \subseteq Request
      /\ UNCHANGED <<ring, client, response, starved, ran>> /\ UNCHANGED <<ring, client, response, ran>>
  BY DEF SInv, RingOK, SlotsTypeOK, TakeSlot, At, tcpVars
<1>2. CASE GiveUp /\ UNCHANGED slot
  <2>1. UNCHANGED <<slot, ring, client, response, starved, ran>> BY <1>1, <1>2
  <2>2. QED BY <1>1, <1>2, <2>1, GiveUpKeeps
<1>3. CASE slot' = [slot EXCEPT ![Job.slot].state = "sending"] /\ Go("send")
  <2> PICK i \in Slots : i = Job.slot BY <1>1, HeadFacts
  <2> DEFINE t == [slot[i] EXCEPT !.state = "sending"]
  <2>1. slot' = [slot EXCEPT ![i] = t] BY <1>3
  <2>2. slot[i] \in SlotRecord BY <1>1, HeadFacts
  <2>3. slot[i].holds = AnswerTo(Job.request) BY <1>1 DEF SInv, JobsHold, OwnAnswer, Job
  <2>4. /\ t \in SlotRecord /\ t.gen = slot[i].gen /\ t.request = slot[i].request
        /\ t.state = "sending" /\ t.holds = AnswerTo(Job.request)
    BY <2>2, <2>3 DEF SlotRecord, SlotState
  <2> HIDE DEF t
  <2>5. Valid(JobLease) /\ StateOf(JobLease) \in {"ready", "cancelled"}
    BY <1>1 DEF SInv, JobsHold, At
  <2>6. loop'.pc = "send" /\ loop' \in [pc : Pc, sent : BOOLEAN]
    BY <1>1, <1>3 DEF Go, SlotsTypeOK, Pc
  <2>7. QED BY ONLY SInv, <1>1, i \in Slots, i = Job.slot, <2>1, <2>4, <2>5, <2>6, SlotTurns
<1>4. QED BY <1>2, <1>3 DEF TakeSlot

(* sendSlot hands the answer to the request's connection. *)
LEMMA AnswerHandedOver ==
    ASSUME SInv, At("send"), NEW r \in Request, r = slot[Job.slot].request, client[r].phase = "waiting",
           response' = [response EXCEPT ![r] = JobLease],
           client' = [client EXCEPT ![r].phase = "answered"],
           loop' = [pc |-> "finish", sent |-> TRUE],
           UNCHANGED <<slot, starved, ring, ran>>
    PROVE  SInv'
<1>1. SlotsTypeOK /\ RingOK /\ count > 0 BY DEF SInv, RingOK, At
<1> PICK i \in Slots, l \in Leases : i = Job.slot /\ l = JobLease BY <1>1, HeadFacts
<1>2. /\ slot' = slot /\ jobs' = jobs /\ head' = head /\ tail' = tail /\ count' = count
      /\ starved' = starved /\ ran' = ran
  BY DEF ring
<1>3. /\ head \in QueuedJobs /\ JobOK(head) /\ l = LeaseOf(head) /\ l # None
      /\ l.slot = i /\ l.gen = Job.gen /\ QueuedJobs \subseteq Entries /\ Job.request \in Request
  BY <1>1, HeadFacts, QueueIsWrapped DEF SlotsTypeOK
<1>4. /\ slot[i].gen = l.gen /\ slot[i].state = "sending" /\ \A q \in Request : response[q] # l
      /\ slot[i].holds = AnswerTo(Job.request) /\ Job.request \in Range(ran)
  BY <1>3 DEF At, SInv, JobsHold, Valid, StateOf, OwnAnswer, Job
<1>5. l = Current(i) /\ l.gen \in Nat BY <1>3, <1>4, SameLease
<1>6. r = Job.request BY <1>3, <1>4 DEF JobOK, Valid, StateOf, Job
<1>7. client[r].lease = l BY <1>3, <1>6 DEF JobOK, Job
<1>8. ClientOK(r) /\ client[r].got = None /\ response[r] = None BY DEF SInv, ClientsHold, ClientOK
<1> DEFINE c == [client[r] EXCEPT !.phase = "answered"]
<1>9. client' = [client EXCEPT ![r] = c] BY <1>1 DEF SlotsTypeOK
<1>10. c \in ClientRecord /\ c.phase = "answered" /\ c.lease = l /\ c.got = None
  <2>1. client[r] \in ClientRecord BY <1>1 DEF SlotsTypeOK
  <2>2. QED BY <1>7, <1>8, <2>1 DEF ClientRecord, Phase
<1> HIDE DEF c
<1>11. /\ client'[r] = c /\ \A q \in Request \ {r} : client'[q] = client[q]
       /\ client' \in [Request -> ClientRecord]
  <2>1. client \in [Request -> ClientRecord] /\ c \in ClientRecord /\ r \in Request
    BY <1>1, <1>10 DEF SlotsTypeOK
  <2>2. QED BY ONLY <1>9, <2>1
<1>12. /\ response'[r] = l /\ \A q \in Request \ {r} : response'[q] = response[q]
       /\ response' \in [Request -> Leases \cup {None}]
  BY <1>1 DEF SlotsTypeOK
<1>13. loop' \in [pc : Pc, sent : BOOLEAN] /\ loop'.pc = "finish" /\ loop'.sent BY DEF Pc
<1>14. SlotsTypeOK' BY <1>1, <1>2, <1>11, <1>12, <1>13, Zenon DEF SlotsTypeOK
<1>15. RingOK'
  <2>1. tail' = (head' + count') % JobCapacity BY <1>1, <1>2, Zenon DEF RingOK
  <2>2. QED BY <1>1, <1>2, <2>1 DEF RingOK
<1>16. QueuedJobs' = QueuedJobs BY <1>2 DEF QueuedJobs
<1>17. Touches(i) BY <1>2 DEF Touches
<1>18. ClientsHold'
  <2>1. ASSUME NEW q \in Request, q # r PROVE ClientOK(q)'
    <3>1. ClientOK(q) /\ client'[q] = client[q] /\ response'[q] = response[q] /\ slot'[i] = slot[i]
      BY <1>2, <1>11, <1>12, <2>1 DEF SInv, ClientsHold
    <3>2. Range(ran) \subseteq Range(ran') BY <1>2
    <3>3. QED BY <1>1, <1>14, <1>17, <3>1, <3>2, ClientKept
  <2>2. ClientOK(r)'
    <3>1. /\ client'[r].phase = "answered" /\ client'[r].lease = l /\ client'[r].got = None
          /\ response'[r] = l
      BY <1>10, <1>11, <1>12, Zenon
    <3>2. slot[i].request = r /\ l.gen <= slot[i].gen BY <1>4, <1>5
    <3>3. QED BY <1>2, <1>3, <1>4, <1>6, <3>1, <3>2, Zenon DEF ClientOK, Valid, StateOf, AnswerTo, RefusalOf
  <2>3. QED BY <2>1, <2>2 DEF ClientsHold
<1>19. \A k \in QueuedJobs : LeaseOf(k)' = LeaseOf(k) BY <1>2 DEF LeaseOf
<1>20. JobsWait'
  <2>1. ASSUME NEW k \in QueuedJobs PROVE JobOK(k)'
    <3>1. k \in Entries /\ JobOK(k) BY <1>3 DEF SInv, JobsWait
    <3>2. \/ client'[jobs[k].request].phase \in {"answered", "gone"}
          \/ /\ client'[jobs[k].request].phase = client[jobs[k].request].phase
             /\ client'[jobs[k].request].lease = client[jobs[k].request].lease
      BY <1>10, <1>11, <3>1 DEF JobOK
    <3>3. jobs'[k].slot = jobs[k].slot /\ jobs'[k].gen = jobs[k].gen
          /\ jobs'[k].request = jobs[k].request
      BY <1>2
    <3>4. QED BY <1>1, <1>14, <1>17, <3>1, <3>2, <3>3, JobKept
  <2>2. \A k, m \in QueuedJobs : m # k => LeaseOf(m)' # LeaseOf(k)'
    BY <1>19 DEF SInv, JobsWait
  <2>3. QED BY <1>16, <2>1, <2>2 DEF JobsWait
<1>21. JobsHold'
  <2>1. \A k \in QueuedJobs : InLine(k)' = InLine(k) BY <1>2 DEF InLine, LeaseOf, Valid, StateOf
  <2>2. \A k \in QueuedJobs' : k # head' => InLine(k)' BY <1>2, <1>16, <2>1 DEF SInv, JobsHold
  <2>3. JobLease' = l BY <1>2 DEF JobLease, Job
  <2>4. StateOf(JobLease)' = "sending" BY <1>2, <1>3, <1>4, <2>3 DEF StateOf
  <2>5. QED BY <1>13, <2>2, <2>4 DEF JobsHold, At
<1>22. SlotsHeld'
  <2>1. ASSUME NEW j \in Slots PROVE SlotOK(j)'
    <3>1. SlotOK(j) /\ slot'[j] = slot[j] BY <1>2 DEF SInv, SlotsHeld
    <3>2. Current(j) # None
      <4>1. slot[j] \in SlotRecord BY <1>1 DEF SlotsTypeOK
      <4>2. Current(j) \in Leases BY <4>1 DEF Current, Lease, Leases, SlotRecord
      <4>3. QED BY <4>2, SmallFacts
    <3>3. \A q \in Request : client[q].phase = "sending" /\ client[q].lease = Current(j) =>
             client'[q].phase = "sending" /\ client'[q].lease = client[q].lease
      BY <1>11
    <3>4. \A q \in Request : response[q] = Current(j) => response'[q] = response[q]
      BY <1>8, <1>12, <3>2
    <3>5. At("send") /\ JobLease = Current(j) => \E q \in Request : response'[q] = Current(j)
      BY <1>12
    <3>6. ASSUME NEW k \in Entries, Pending(k), LeaseOf(k) = Current(j),
                 slot[j].state \in {"queued", "ready", "cancelled"}
          PROVE  Pending(k)' /\ LeaseOf(k)' = LeaseOf(k)
      <4>1. k # head
        <5>1. SUFFICES ASSUME k = head PROVE FALSE OBVIOUS
        <5>2. j = i BY <1>3, <3>6, <5>1 DEF Current, Lease
        <5>3. QED BY <1>4, <3>6, <5>2
      <4>2. QED BY <1>2, <1>16, <1>19, <3>6, <4>1 DEF Pending
    <3>7. QED BY <3>1, <3>3, <3>4, <3>5, <3>6, SlotKept
  <2>2. QED BY <2>1 DEF SlotsHeld
<1>23. RanOnce'
  <2>1. \A q \in Range(ran) : q \in Request /\ client[q].phase \in Past
    BY <1>1 DEF SInv, RanOnce, Past, SlotsTypeOK, Range
  <2>2. \A q \in Range(ran) : client'[q].phase \in Past BY <1>10, <1>11, <2>1 DEF Past
  <2>3. \A q \in Request : client'[q].got = client[q].got BY <1>8, <1>10, <1>11
  <2>4. \A q \in Request : client'[q].got = AnswerTo(q) => q \in Range(ran)
    BY <2>3 DEF SInv, RanOnce
  <2>5. QED BY <1>2, <2>2, <2>4 DEF RanOnce, Past, AnswerTo
<1>24. QED BY <1>14, <1>15, <1>18, <1>20, <1>21, <1>22, <1>23 DEF SInv

(* Handing the slot to the response of its client keeps the invariant. *)
LEMMA SendSlotKeeps == ASSUME SInv, SendSlot PROVE SInv'
<1>1. /\ At("send") /\ loop.pc = "send" /\ count > 0 /\ SlotsTypeOK
      /\ UNCHANGED <<ring, ran>>
  BY DEF SInv, RingOK, SlotsTypeOK, SendSlot, At
<1> PICK i \in Slots : i = Job.slot BY <1>1, HeadFacts
<1>2. /\ Valid(JobLease) /\ StateOf(JobLease) = "sending" /\ JobLease \in Leases
      /\ \A q \in Request : response[q] # JobLease
      /\ JobLease.slot = i /\ slot[i] \in SlotRecord /\ slot[i].gen = JobLease.gen
  BY <1>1, HeadFacts DEF SInv, JobsHold, Valid
<1>3. CASE /\ slot' = Released(slot, JobLease) /\ UNCHANGED tcpVars
           /\ loop'.pc = "finish" /\ loop' \in [pc : Pc, sent : BOOLEAN]
           /\ starved' \subseteq Request
  <2> DEFINE t == [slot[i] EXCEPT !.state = "free", !.cancelled = FALSE, !.invalid = FALSE]
  <2>1. slot' = [slot EXCEPT ![i] = t] BY <1>2, <1>3 DEF Released
  <2>2. /\ t \in SlotRecord /\ t.gen = slot[i].gen /\ t.request = slot[i].request
        /\ t.state = "free"
    BY <1>2 DEF SlotRecord, SlotState
  <2> HIDE DEF t
  <2>3. UNCHANGED <<ring, client, response, ran>> BY <1>1, <1>3 DEF tcpVars
  <2>4. loop.pc \in {"answer", "ready", "take", "send"} BY <1>1
  <2>5. QED BY ONLY SInv, <1>1, <1>2, <1>3, i \in Slots, i = Job.slot, <2>1, <2>2, <2>3, <2>4, SlotTurns
<1>4. CASE client[slot[i].request].phase = "waiting"
           /\ response' = [response EXCEPT ![slot[i].request] = JobLease]
           /\ client' = [client EXCEPT ![slot[i].request].phase = "answered"]
           /\ loop' = [pc |-> "finish", sent |-> TRUE]
           /\ UNCHANGED <<slot, starved>>
  <2>1. slot[i].request \in Request
    BY <1>1, <1>2, HeadFacts DEF JobOK, StateOf, Job
  <2> PICK r \in Request : r = slot[i].request BY <2>1
  <2>2. UNCHANGED <<slot, starved, ring, ran>> BY <1>1, <1>4
  <2>3. /\ r = slot[Job.slot].request /\ client[r].phase = "waiting"
        /\ response' = [response EXCEPT ![r] = JobLease]
        /\ client' = [client EXCEPT ![r].phase = "answered"]
        /\ loop' = [pc |-> "finish", sent |-> TRUE]
    BY <1>4
  <2>4. QED BY ONLY SInv, <1>1, r \in Request, <2>2, <2>3, AnswerHandedOver
<1>5. QED
  <2>1. GiveUp => loop'.pc = "finish" /\ loop' \in [pc : Pc, sent : BOOLEAN] BY DEF GiveUp, Pc
  <2>2. loop' \in [pc : {"finish"}, sent : BOOLEAN] =>
           loop'.pc = "finish" /\ loop' \in [pc : Pc, sent : BOOLEAN] BY DEF Pc
  <2>3. starved \subseteq Request BY <1>1 DEF SlotsTypeOK
  <2>4. slot[i].request \in Request
    BY <1>1, <1>2, HeadFacts DEF JobOK, StateOf, Job
  <2>5. QED BY <1>3, <1>4, <2>1, <2>2, <2>3, <2>4 DEF SendSlot

(* The job leaves the ring; a slot not handed over goes back. *)
LEMMA FinishJobKeeps == ASSUME SInv, FinishJob PROVE SInv'
<1>1. SlotsTypeOK /\ RingOK /\ count > 0 /\ loop.pc = "finish" BY DEF SInv, RingOK, FinishJob, At
<1> PICK i \in Slots : i = Job.slot BY <1>1, HeadFacts
<1>2. /\ jobs' = jobs /\ tail' = tail /\ client' = client /\ response' = response
      /\ starved' = starved /\ ran' = ran
      /\ head' = (head + 1) % JobCapacity /\ count' = count - 1 /\ loop' = [loop EXCEPT !.pc = "idle"]
  BY DEF FinishJob, tcpVars, Go
<1>3. /\ head' \in Entries /\ count' \in 0..JobCapacity /\ QueuedJobs' = QueuedJobs \ {head}
      /\ tail' = (head' + count') % JobCapacity
  BY <1>1, <1>2, QueueShrinks
<1>4. loop' \in [pc : Pc, sent : BOOLEAN] /\ loop'.pc = "idle" BY <1>1, <1>2 DEF SlotsTypeOK, Pc
<1>5. /\ head \in QueuedJobs /\ JobLease = LeaseOf(head) /\ JobLease \in Leases
      /\ JobLease.slot = i /\ slot[i] \in SlotRecord
  BY <1>1, HeadFacts
<1>6. slot' = IF loop.sent THEN slot ELSE Released(slot, JobLease) BY DEF FinishJob
<1>7. /\ slot' \in [Slots -> SlotRecord] /\ \A j \in Slots \ {i} : slot'[j] = slot[j]
      /\ \/ slot' = slot /\ (loop.sent \/ ~Valid(JobLease))
         \/ /\ ~loop.sent /\ Valid(JobLease) /\ slot'[i].state = "free"
            /\ slot'[i].gen = slot[i].gen /\ slot'[i].request = slot[i].request
  <2>1. slot \in [Slots -> SlotRecord] BY <1>1 DEF SlotsTypeOK
  <2>2. CASE loop.sent BY <1>6, <2>1, <2>2
  <2>3. CASE ~loop.sent /\ ~Valid(JobLease)
    <3>1. slot' = slot BY <1>5, <1>6, <2>3 DEF Released, Valid
    <3>2. QED BY <2>1, <2>3, <3>1
  <2>4. CASE ~loop.sent /\ Valid(JobLease)
    <3>1. slot[i].gen = JobLease.gen BY <1>5, <2>4 DEF Valid
    <3>2. QED BY <1>5, <1>6, <2>1, <2>4, <3>1, ReleasedEffect
  <2>5. QED BY <2>2, <2>3, <2>4
<1>8. SlotsTypeOK' BY <1>1, <1>2, <1>3, <1>4, <1>7, Zenon DEF SlotsTypeOK, Entries
<1>9. RingOK' BY <1>3, <1>4 DEF RingOK, At
<1>10. QuietMove(i)
  <2>1. Touches(i) BY <1>7 DEF Touches
  <2>2. ~loop.sent /\ Valid(JobLease) => \A q \in Request : ~HeldBy(q, i)
    <3>1. ASSUME ~loop.sent, Valid(JobLease) PROVE StateOf(JobLease) \notin {"assembling", "sending"}
      BY <1>1, <3>1 DEF SInv, JobsHold, At
    <3>2. QED BY <1>1, <3>1, JobNotHeld
  <2>3. slot'[i] = slot[i] \/ (~loop.sent /\ Valid(JobLease)) BY <1>7
  <2>4. QED BY <1>1, <1>2, <1>3, <1>4, <2>1, <2>2, <2>3 DEF QuietMove
<1>11. SlotOK(i)'
  <2>1. CASE slot'[i].state = "free" BY <2>1 DEF SlotOK
  <2>2. CASE slot' = slot /\ (loop.sent \/ ~Valid(JobLease))
    <3>1. SlotOK(i) /\ slot'[i] = slot[i] BY <2>2 DEF SInv, SlotsHeld
    <3>2. ASSUME NEW k \in Entries, Pending(k), LeaseOf(k) = Current(i)
          PROVE  Pending(k)' /\ LeaseOf(k)' = LeaseOf(k)
      <4>1. k # head
        <5>1. SUFFICES ASSUME k = head PROVE FALSE OBVIOUS
        <5>2. ~loop.sent BY <1>1, <3>2, <5>1 DEF Pending, At
        <5>3. Valid(JobLease) BY <1>5, <3>2, <5>1 DEF Valid, Current, Lease
        <5>4. QED BY <2>2, <5>2, <5>3
      <4>2. k \in QueuedJobs' BY <1>3, <3>2, <4>1 DEF Pending
      <4>3. LeaseOf(k)' = LeaseOf(k) BY <1>2 DEF LeaseOf
      <4>4. QED BY <1>4, <4>2, <4>3 DEF Pending, At
    <3>3. ~At("send") BY <1>1 DEF At
    <3>4. QED BY <1>2, <3>1, <3>2, <3>3, SlotKept
  <2>3. QED BY <1>7, <2>1, <2>2
<1>12. JobsHold'
  <2>1. \A k \in QueuedJobs' : InLine(k)' BY <1>3, <1>10, QuietKeepsLine
  <2>2. QED BY <1>4, <2>1 DEF JobsHold, At
<1>13. QED BY <1>8, <1>9, <1>10, <1>11, <1>12, QuietFrame

(* Every step of the two tasks preserves the invariant. *)
LEMMA SInvStep == SInv /\ [Next]_vars => SInv'
<1> SUFFICES ASSUME SInv, [Next]_vars PROVE SInv' OBVIOUS
<1>1. CASE LoopStep
  BY <1>1, PollAgainKeeps, PollDropsKeeps, PollExecutesKeeps, WriteAnswerKeeps, MarkReadyKeeps,
     TakeSlotKeeps, SendSlotKeeps, FinishJobKeeps DEF LoopStep
<1>2. CASE \E r \in Request : TcpStep(r) BY <1>2, TcpStepKeeps
<1>3. CASE UNCHANGED vars
  <2>1. /\ slot' = slot /\ jobs' = jobs /\ head' = head /\ tail' = tail /\ count' = count
        /\ loop' = loop /\ client' = client /\ response' = response /\ starved' = starved
        /\ ran' = ran
    BY <1>3 DEF vars, ring, tcpVars
  <2>2. QueuedJobs' = QueuedJobs BY <2>1 DEF QueuedJobs
  <2>3. SlotsTypeOK' /\ RingOK' BY <2>1 DEF SInv, SlotsTypeOK, RingOK, At
  <2>4. ClientsHold' BY <2>1 DEF SInv, ClientsHold, ClientOK, Valid, StateOf, AnswerTo, RefusalOf
  <2>5. JobsWait' BY <2>1, <2>2 DEF SInv, JobsWait, JobOK, LeaseOf, Valid, StateOf
  <2>6. JobsHold'
    BY <2>1, <2>2 DEF SInv, JobsHold, InLine, LeaseOf, Valid, StateOf, JobLease, Job, At, OwnAnswer,
       AnswerTo
  <2>7. SlotsHeld'
    BY <2>1, <2>2 DEF SInv, SlotsHeld, SlotOK, Pending, Current, LeaseOf, At, JobLease, Job
  <2>8. RanOnce' BY <2>1 DEF SInv, RanOnce, AnswerTo
  <2>9. QED BY <2>3, <2>4, <2>5, <2>6, <2>7, <2>8 DEF SInv
<1>4. QED BY <1>1, <1>2, <1>3 DEF Next

(* Who holds a slot, at each point of poll() and of the callbacks. *)
THEOREM SlotsInvariant == Spec => []SInv
<1>1. QED BY InitSInv, SInvStep, PTL DEF Spec

-----------------------------------------------------------------------------
(* A slot has one holder: of the three sets of possible holders of its lease one
   has one member, and the others none. *)
LEMMA OneHolder ==
    ASSUME SInv, NEW i \in Slots, slot[i].state # "free"
    PROVE  LET senders == {r \in Request : client[r].phase = "sending" /\ client[r].lease = Current(i)}
               holders == {k \in QueuedJobs : LeaseOf(k) = Current(i)
                                              /\ ~(k = head /\ At("finish") /\ loop.sent)}
               replies == {r \in Request : response[r] = Current(i)}
           IN  Cardinality(senders) + Cardinality(holders) + Cardinality(replies) = 1
<1> DEFINE senders == {r \in Request : client[r].phase = "sending" /\ client[r].lease = Current(i)}
           holders == {k \in QueuedJobs : LeaseOf(k) = Current(i)
                                          /\ ~(k = head /\ At("finish") /\ loop.sent)}
           replies == {r \in Request : response[r] = Current(i)}
<1> SUFFICES Cardinality(senders) + Cardinality(holders) + Cardinality(replies) = 1
  OBVIOUS
<1>1. SlotsTypeOK /\ slot[i] \in SlotRecord BY DEF SInv, SlotsTypeOK
<1>2. Current(i) # None /\ Current(i).slot = i /\ Current(i).gen = slot[i].gen
  <2>1. Current(i) \in Leases BY <1>1 DEF Current, Lease, Leases, SlotRecord
  <2>2. QED BY <2>1, SmallFacts DEF Current, Lease
<1>3. Cardinality({}) = 0 BY FS_EmptySet
<1>4. \A x : Cardinality({x}) = 1 BY FS_Singleton
<1>5. \A r \in senders : slot[i].state = "assembling" /\ slot[i].request = r
  <2>1. ASSUME NEW r \in senders PROVE slot[i].state = "assembling" /\ slot[i].request = r
    <3>1. ClientOK(r) BY DEF SInv, ClientsHold
    <3>2. QED BY <1>2, <3>1 DEF ClientOK, Valid, StateOf
  <2>2. QED BY <2>1
<1>6. \A r \in replies : slot[i].state = "sending" /\ slot[i].request = r
  <2>1. ASSUME NEW r \in replies PROVE slot[i].state = "sending" /\ slot[i].request = r
    <3>1. ClientOK(r) BY DEF SInv, ClientsHold
    <3>2. QED BY <1>2, <3>1 DEF ClientOK, Valid, StateOf
  <2>2. QED BY <2>1
<1>7. \A k \in holders : \/ slot[i].state \in {"queued", "ready", "cancelled"}
                         \/ k = head /\ At("send") /\ slot[i].state = "sending" /\ replies = {}
  <2>1. ASSUME NEW k \in holders
        PROVE  \/ slot[i].state \in {"queued", "ready", "cancelled"}
               \/ k = head /\ At("send") /\ slot[i].state = "sending" /\ replies = {}
    <3>1. Valid(LeaseOf(k)) /\ StateOf(LeaseOf(k)) = slot[i].state BY <1>2 DEF Valid, StateOf
    <3>2. CASE k # head \/ loop.pc \in {"idle", "answer", "ready"}
      BY <3>1, <3>2 DEF SInv, JobsHold, InLine
    <3>3. CASE k = head /\ loop.pc \in {"take", "send", "finish"}
      <4>1. LeaseOf(k) = JobLease BY <3>3 DEF LeaseOf, JobLease, Job
      <4>2. CASE At("take") BY <3>1, <4>1, <4>2 DEF SInv, JobsHold
      <4>3. CASE At("send") BY <3>1, <3>3, <4>1, <4>3 DEF SInv, JobsHold
      <4>4. CASE At("finish")
        <5>1. ~loop.sent BY <3>3, <4>4
        <5>2. QED BY <3>1, <4>1, <4>4, <5>1 DEF SInv, JobsHold
      <4>5. QED BY <3>3, <4>2, <4>3, <4>4 DEF At
    <3>4. QED BY <1>1, <3>2, <3>3 DEF SlotsTypeOK, Pc
  <2>2. QED BY <2>1
<1>8. \A k, m \in holders : k = m BY DEF SInv, JobsWait
<1>9. SlotOK(i) BY DEF SInv, SlotsHeld
<1>10. CASE slot[i].state = "assembling"
  <2>1. slot[i].request \in senders BY <1>9, <1>10 DEF SlotOK
  <2>2. senders = {slot[i].request} BY <1>5, <2>1
  <2>3. holders = {} /\ replies = {} BY <1>6, <1>7, <1>10
  <2> HIDE DEF senders, holders, replies
  <2>4. Cardinality(senders) = 1 /\ Cardinality(holders) = 0 /\ Cardinality(replies) = 0
    BY <1>3, <1>4, <2>2, <2>3
  <2>5. QED BY <2>4
<1>11. CASE slot[i].state \in {"queued", "ready", "cancelled"}
  <2>1. PICK k \in Entries : Pending(k) /\ LeaseOf(k) = Current(i) BY <1>9, <1>11 DEF SlotOK
  <2>2. k \in holders BY <2>1 DEF Pending
  <2>3. holders = {k} BY <1>8, <2>2
  <2>4. senders = {} /\ replies = {} BY <1>5, <1>6, <1>11
  <2> HIDE DEF senders, holders, replies
  <2>5. Cardinality(senders) = 0 /\ Cardinality(holders) = 1 /\ Cardinality(replies) = 0
    BY <1>3, <1>4, <2>3, <2>4
  <2>6. QED BY <2>5
<1>12. CASE slot[i].state = "sending"
  <2>1. senders = {} BY <1>5, <1>12
  <2>2. CASE replies # {}
    <3>1. PICK r \in replies : TRUE BY <2>2
    <3>2. replies = {r} BY <1>6
    <3>3. holders = {} BY <1>7, <1>12, <2>2
    <3> HIDE DEF senders, holders, replies
    <3>4. Cardinality(senders) = 0 /\ Cardinality(holders) = 0 /\ Cardinality(replies) = 1
      BY <1>3, <1>4, <2>1, <3>2, <3>3
    <3>5. QED BY <3>4
  <2>3. CASE replies = {}
    <3>1. At("send") /\ JobLease = Current(i) BY <1>9, <1>12, <2>3 DEF SlotOK
    <3>2. count > 0 BY <3>1 DEF SInv, RingOK, At
    <3>3. head \in QueuedJobs /\ LeaseOf(head) = Current(i) BY <3>1, <3>2, HeadFacts
    <3>4. head \in holders BY <3>1, <3>3 DEF At
    <3>5. holders = {head} BY <1>8, <3>4
    <3> HIDE DEF senders, holders, replies
    <3>6. Cardinality(senders) = 0 /\ Cardinality(holders) = 1 /\ Cardinality(replies) = 0
      BY <1>3, <1>4, <2>1, <2>3, <3>5
    <3>7. QED BY <3>6
  <2>4. QED BY <2>2, <2>3
<1>13. QED BY <1>1, <1>10, <1>11, <1>12 DEF SlotRecord, SlotState

(* The invariant gives every client an answer of its own. *)
LEMMA SInvIsEnough == SInv => AnswersDoNotCross
<1> SUFFICES ASSUME SInv PROVE AnswersDoNotCross OBVIOUS
<1>1. ASSUME NEW r \in Request
      PROVE  /\ response[r] # None =>
                   /\ slot[response[r].slot].gen = response[r].gen
                   /\ slot[response[r].slot].state = "sending"
                   /\ slot[response[r].slot].holds = AnswerTo(r)
             /\ client[r].got \in {None, RefusalOf(r), AnswerTo(r)}
  BY DEF SInv, ClientsHold, ClientOK, Valid, StateOf
<1>2. ASSUME NEW k \in QueuedJobs, k # head \/ At("idle")
      PROVE  slot[jobs[k].slot].gen = jobs[k].gen /\ slot[jobs[k].slot].state \in {"queued", "cancelled"}
  BY <1>2 DEF SInv, JobsHold, InLine, Valid, StateOf, LeaseOf, Lease, At
<1>3. QED BY <1>1, <1>2, OneHolder DEF AnswersDoNotCross, Current, LeaseOf

(* sendSlot, _fillBuffer and the destructor of a response: whatever the order in
   which connections go, slots are given back and reserved again and jobs come to
   their end, no client is sent another request's answer, and no slot is lost or
   held twice. *)
THEOREM AnswersStayApart == Spec => []AnswersDoNotCross
<1>1. QED BY SlotsInvariant, SInvIsEnough, PTL

-----------------------------------------------------------------------------
(* The line of jobs: the ring read from its head, and what clients were told. *)

(* The sequence of the ring lists the requests of its jobs, the head first. *)
LEMMA RingSeqIs ==
    ASSUME SInv
    PROVE  /\ RingSeq \in Seq(Request) /\ Len(RingSeq) = count /\ count \in Nat
           /\ \A k \in 1..count : /\ RingSeq[k] = jobs[Wrap(head + (k - 1))].request
                                  /\ Wrap(head + (k - 1)) \in QueuedJobs
           /\ count > 0 => Head(RingSeq) = Job.request
<1>1. SlotsTypeOK /\ head \in Entries /\ count \in 0..JobCapacity /\ count \in Nat
      /\ JobCapacity \in Nat \ {0}
  BY SmallFacts DEF SInv, SlotsTypeOK
<1>2. QueuedJobs = {Wrap(head + k) : k \in 0..(count - 1)} BY <1>1, QueueIsWrapped
<1>3. ASSUME NEW k \in 1..count
      PROVE  /\ (head + k - 1) % JobCapacity = Wrap(head + (k - 1))
             /\ Wrap(head + (k - 1)) \in QueuedJobs
             /\ jobs[Wrap(head + (k - 1))].request \in Request
  <2>1. k - 1 \in 0..(count - 1) /\ head + (k - 1) \in 0..(2 * JobCapacity - 1)
        /\ head + k - 1 = head + (k - 1)
    BY <1>1 DEF Entries
  <2>2. (head + (k - 1)) % JobCapacity = Wrap(head + (k - 1)) BY <2>1, WrapIsMod
  <2>3. Wrap(head + (k - 1)) \in QueuedJobs BY <1>2, <2>1
  <2>4. jobs[Wrap(head + (k - 1))].request \in Request BY <2>3 DEF SInv, JobsWait, JobOK
  <2>5. QED BY <2>1, <2>2, <2>3, <2>4
<1>4. RingSeq = [k \in 1..count |-> jobs[Wrap(head + (k - 1))].request] BY <1>3 DEF RingSeq
<1>5. RingSeq \in Seq(Request) /\ Len(RingSeq) = count
  <2>1. RingSeq \in [1..count -> Request] BY <1>3, <1>4
  <2>2. QED BY <1>1, <2>1
<1>6. count > 0 => Head(RingSeq) = Job.request
  <2>1. SUFFICES ASSUME count > 0 PROVE Head(RingSeq) = Job.request OBVIOUS
  <2>2. 1 \in 1..count /\ Wrap(head + (1 - 1)) = head BY <1>1, <2>1 DEF Wrap, Entries
  <2>3. RingSeq[1] = jobs[head].request BY <1>4, <2>2
  <2>4. QED BY <1>5, <2>3 DEF Job
<1>7. QED BY <1>1, <1>3, <1>4, <1>5, <1>6

LineNow == IF At("idle") THEN RingSeq ELSE Tail(RingSeq)

(* Whoever stands in the line is past the point where it could be refused. *)
LEMMA LineIsPast ==
    ASSUME SInv
    PROVE  /\ LineNow \in Seq(Request)
           /\ \A r \in ToSet(LineNow) \cup ToSet(ran) : r \in Request /\ client[r].phase \in Past
<1>1. RingSeq \in Seq(Request) /\ Len(RingSeq) = count /\ count \in Nat BY RingSeqIs
<1>2. ~At("idle") => count > 0 BY DEF SInv, RingOK
<1>3. LineNow \in Seq(Request) /\ ToSet(LineNow) \subseteq ToSet(RingSeq)
  <2>1. CASE At("idle") BY <1>1, <2>1 DEF LineNow
  <2>2. CASE ~At("idle")
    <3>1. Tail(RingSeq) \in Seq(Request) /\ Len(Tail(RingSeq)) = count - 1
          /\ \A k \in 1..(count - 1) : Tail(RingSeq)[k] = RingSeq[k + 1]
      BY <1>1, <1>2, <2>2
    <3>2. DOMAIN Tail(RingSeq) = 1..(count - 1) /\ DOMAIN RingSeq = 1..count BY <1>1, <3>1
    <3>3. \A k \in 1..(count - 1) : k + 1 \in 1..count BY <1>1
    <3>4. QED BY <2>2, <3>1, <3>2, <3>3 DEF LineNow, ToSet
  <2>3. QED BY <2>1, <2>2
<1>4. \A r \in ToSet(RingSeq) : r \in Request /\ client[r].phase \in Past
  <2>1. DOMAIN RingSeq = 1..count BY <1>1
  <2>2. ASSUME NEW k \in 1..count
        PROVE  RingSeq[k] \in Request /\ client[RingSeq[k]].phase \in Past
    BY RingSeqIs DEF SInv, JobsWait, JobOK, Past
  <2>3. QED BY <2>1, <2>2 DEF ToSet
<1>5. \A r \in ToSet(ran) : r \in Request /\ client[r].phase \in Past
  BY DEF SInv, RanOnce, SlotsTypeOK, Past, Range, ToSet
<1>6. QED BY <1>3, <1>4, <1>5

(* What a client was told, by what it has received. *)
Say(r, g) ==
    CASE g = None -> "nothing"
      [] g = RefusalOf(r) -> "refused"
      [] g = AnswerTo(r) -> "own"
      [] OTHER -> "of another"

(* What a client has got is nothing, a refusal or its own answer. *)
LEMMA SayIs ==
    ASSUME NEW r \in Request
    PROVE  /\ Say(r, None) = "nothing" /\ Say(r, RefusalOf(r)) = "refused"
           /\ Say(r, AnswerTo(r)) = "own"
<1>1. None # RefusalOf(r) /\ None # AnswerTo(r) /\ RefusalOf(r) # AnswerTo(r) BY SmallFacts
<1>2. QED BY <1>1 DEF Say

ToldNow == [r \in Request |-> Told(r)]

(* A step that gives no client anything changes nothing that was told. *)
LEMMA ToldSame ==
    ASSUME \A q \in Request : client'[q].got = client[q].got
    PROVE  ToldNow' = ToldNow
<1>1. \A q \in Request : Told(q)' = Told(q)
  <2>1. ASSUME NEW q \in Request PROVE Told(q)' = Told(q)
    <3>1. Told(q) = Say(q, client[q].got) /\ Told(q)' = Say(q, client'[q].got)
      BY DEF Told, Say, RefusalOf, AnswerTo
    <3>2. QED BY <3>1
  <2>2. QED BY <2>1
<1>2. QED BY <1>1 DEF ToldNow

(* A step that gives one client something changes what that client was told. *)
LEMMA ToldChanges ==
    ASSUME NEW r \in Request, \A q \in Request \ {r} : client'[q].got = client[q].got,
           NEW word, Say(r, client'[r].got) = word
    PROVE  ToldNow' = [ToldNow EXCEPT ![r] = word]
<1>1. \A q \in Request : Told(q) = Say(q, client[q].got) /\ Told(q)' = Say(q, client'[q].got)
  BY DEF Told, Say, RefusalOf, AnswerTo
<1>2. \A q \in Request \ {r} : Told(q)' = Told(q) BY <1>1
<1>3. Told(r)' = word BY <1>1
<1>4. QED BY <1>2, <1>3 DEF ToldNow

(* The ring read again after the step. *)
LEMMA RingSeqAgain ==
    ASSUME SlotsTypeOK, head' = head, count' = count,
           \A k \in Entries : jobs'[k].request = jobs[k].request
    PROVE  RingSeq' = RingSeq
<1>1. head \in Entries /\ count \in 0..JobCapacity /\ JobCapacity \in Nat \ {0}
  BY SmallFacts DEF SlotsTypeOK
<1>2. ASSUME NEW k \in 1..count PROVE (head + k - 1) % JobCapacity \in Entries
  <2>1. head + k - 1 \in 0..(2 * JobCapacity - 1) BY <1>1 DEF Entries
  <2>2. QED BY <2>1, WrapIsMod
<1>3. QED BY <1>2 DEF RingSeq

(* An enqueued job joins the line at its end. *)
LEMMA RingSeqGrows ==
    ASSUME SInv, SInv', count < JobCapacity, NEW r \in Request, head' = head, count' = count + 1,
           NEW b, b.request = r, jobs' = [jobs EXCEPT ![tail] = b]
    PROVE  RingSeq' = Append(RingSeq, r)
<1>1. SlotsTypeOK /\ RingOK /\ head \in Entries /\ count \in 0..JobCapacity /\ count \in Nat
      /\ JobCapacity \in Nat \ {0}
  BY SmallFacts DEF SInv, SlotsTypeOK
<1>2. tail \in Entries /\ tail \notin QueuedJobs BY <1>1, QueueGrows
<1>3. /\ RingSeq \in Seq(Request) /\ Len(RingSeq) = count
      /\ \A k \in 1..count : /\ RingSeq[k] = jobs[Wrap(head + (k - 1))].request
                             /\ Wrap(head + (k - 1)) \in QueuedJobs
  BY RingSeqIs
<1>4. QueuedJobs \subseteq Entries BY <1>1, QueueIsWrapped
<1>5. \A k \in 1..(count + 1) : (head + k - 1) % JobCapacity = Wrap(head + (k - 1))
  <2>1. ASSUME NEW k \in 1..(count + 1) PROVE (head + k - 1) % JobCapacity = Wrap(head + (k - 1))
    <3>1. head + k - 1 \in 0..(2 * JobCapacity - 1) /\ head + k - 1 = head + (k - 1)
      BY <1>1 DEF Entries
    <3>2. QED BY <3>1, WrapIsMod
  <2>2. QED BY <2>1
<1>6. RingSeq' = [k \in 1..(count + 1) |-> jobs'[Wrap(head + (k - 1))].request]
  BY <1>5 DEF RingSeq
<1>7. \A k \in 1..count : RingSeq'[k] = RingSeq[k]
  <2>1. ASSUME NEW k \in 1..count PROVE RingSeq'[k] = RingSeq[k]
    <3>1. Wrap(head + (k - 1)) \in Entries /\ Wrap(head + (k - 1)) # tail BY <1>2, <1>3, <1>4
    <3>2. jobs'[Wrap(head + (k - 1))] = jobs[Wrap(head + (k - 1))] BY <1>1, <3>1 DEF SlotsTypeOK
    <3>3. k \in 1..(count + 1) BY <1>1
    <3>4. QED BY <1>3, <1>6, <3>2, <3>3
  <2>2. QED BY <2>1
<1>8. RingSeq'[count + 1] = r
  <2>1. tail = Wrap(head + count) /\ head + ((count + 1) - 1) = head + count /\ count + 1 \in 1..(count + 1)
    <3>1. head + count \in 0..(2 * JobCapacity - 1) BY <1>1 DEF Entries
    <3>2. tail = Wrap(head + count) BY <1>1, <3>1, WrapIsMod DEF RingOK
    <3>3. QED BY <1>1, <3>2 DEF Entries
  <2>2. jobs'[tail].request = r BY <1>1, <1>2 DEF SlotsTypeOK
  <2>3. QED BY <1>6, <2>1, <2>2
<1>9. /\ Append(RingSeq, r) \in Seq(Request) /\ Len(Append(RingSeq, r)) = count + 1
      /\ \A k \in 1..count : Append(RingSeq, r)[k] = RingSeq[k]
      /\ Append(RingSeq, r)[count + 1] = r
  BY <1>3, AppendProperties
<1>10. RingSeq' \in Seq(Request) /\ Len(RingSeq') = count + 1
  <2>1. \A k \in 1..(count + 1) : k \in 1..count \/ k = count + 1 BY <1>1
  <2>2. \A k \in 1..(count + 1) : RingSeq'[k] \in Request BY <1>3, <1>7, <1>8, <2>1, ElementOfSeq
  <2>3. RingSeq' \in [1..(count + 1) -> Request] BY <1>6, <2>2
  <2>4. QED BY <1>1, <2>3
<1>11. \A k \in 1..(count + 1) : RingSeq'[k] = Append(RingSeq, r)[k]
  <2>1. \A k \in 1..(count + 1) : k \in 1..count \/ k = count + 1 BY <1>1
  <2>2. QED BY <1>7, <1>8, <1>9, <2>1
<1>12. QED BY <1>9, <1>10, <1>11, SeqEqual

(* A finished job leaves the line at its head. *)
LEMMA RingSeqShrinks ==
    ASSUME SInv, count > 0, jobs' = jobs, head' = (head + 1) % JobCapacity, count' = count - 1
    PROVE  RingSeq' = Tail(RingSeq)
<1>1. SlotsTypeOK /\ head \in Entries /\ count \in 0..JobCapacity /\ count \in Nat
      /\ JobCapacity \in Nat \ {0}
  BY SmallFacts DEF SInv, SlotsTypeOK
<1>2. head' = Wrap(head + 1) /\ head' \in Entries
  <2>1. head + 1 \in 0..(2 * JobCapacity - 1) BY <1>1 DEF Entries
  <2>2. QED BY <2>1, WrapIsMod
<1>3. /\ RingSeq \in Seq(Request) /\ Len(RingSeq) = count
      /\ \A k \in 1..count : RingSeq[k] = jobs[Wrap(head + (k - 1))].request
  BY RingSeqIs
<1>4. RingSeq # <<>> BY <1>1, <1>3
<1>5. /\ Tail(RingSeq) \in Seq(Request) /\ Len(Tail(RingSeq)) = count - 1
      /\ \A k \in 1..(count - 1) : Tail(RingSeq)[k] = RingSeq[k + 1]
  BY <1>3, <1>4, HeadTailProperties
<1>6. \A k \in 1..(count - 1) : (head' + k - 1) % JobCapacity = Wrap(head + ((k + 1) - 1))
  <2>1. ASSUME NEW k \in 1..(count - 1)
        PROVE  (head' + k - 1) % JobCapacity = Wrap(head + ((k + 1) - 1))
    <3>1. head' + k - 1 \in 0..(2 * JobCapacity - 1) BY <1>1, <1>2 DEF Entries
    <3>2. (head' + k - 1) % JobCapacity = Wrap(head' + k - 1) BY <3>1, WrapIsMod
    <3>3. Wrap(head' + k - 1) = Wrap(head + ((k + 1) - 1)) BY <1>1, <1>2 DEF Wrap, Entries
    <3>4. QED BY <3>2, <3>3
  <2>2. QED BY <2>1
<1>7. RingSeq' = [k \in 1..(count - 1) |-> RingSeq[k + 1]]
  <2>1. \A k \in 1..(count - 1) : k + 1 \in 1..count BY <1>1
  <2>2. \A k \in 1..(count - 1) :
           jobs'[(head' + k - 1) % JobCapacity].request = RingSeq[k + 1]
    BY <1>3, <1>6, <2>1
  <2>3. RingSeq' = [k \in 1..(count - 1) |-> jobs'[(head' + k - 1) % JobCapacity].request]
    BY DEF RingSeq
  <2>4. QED BY <2>2, <2>3
<1>8. RingSeq' \in Seq(Request) /\ Len(RingSeq') = count - 1
  <2>1. \A k \in 1..(count - 1) : RingSeq[k + 1] \in Request
    <3>1. \A k \in 1..(count - 1) : k + 1 \in 1..Len(RingSeq) BY <1>1, <1>3
    <3>2. QED BY <1>3, <3>1, ElementOfSeq
  <2>2. RingSeq' \in [1..(count - 1) -> Request] /\ count - 1 \in Nat BY <1>1, <1>7, <2>1
  <2>3. QED BY <2>2
<1>9. QED BY <1>5, <1>7, <1>8, SeqEqual

-----------------------------------------------------------------------------
(* Each step is a step of the line, or leaves it alone. *)

LineAccept(r) ==
    /\ r \notin ToSet(LineNow) \cup ToSet(ran) /\ ToldNow[r] = "nothing"
    /\ LineNow' = Append(LineNow, r) /\ ran' = ran /\ ToldNow' = ToldNow
LineRefuse(r) ==
    /\ r \notin ToSet(LineNow) \cup ToSet(ran) /\ ToldNow[r] = "nothing"
    /\ ToldNow' = [ToldNow EXCEPT ![r] = "refused"] /\ LineNow' = LineNow /\ ran' = ran
LineCarryOut ==
    /\ LineNow # <<>> /\ LineNow' = Tail(LineNow)
    /\ ran' = Append(ran, Head(LineNow)) /\ ToldNow' = ToldNow
LineDrop ==
    /\ LineNow # <<>> /\ Kind[Head(LineNow)] = "read" /\ LineNow' = Tail(LineNow)
    /\ ran' = ran /\ ToldNow' = ToldNow
LineTell(r) ==
    /\ r \in ToSet(ran) /\ ToldNow[r] = "nothing"
    /\ ToldNow' = [ToldNow EXCEPT ![r] = "own"] /\ LineNow' = LineNow /\ ran' = ran
LineStays == LineNow' = LineNow /\ ran' = ran /\ ToldNow' = ToldNow

(* Each move the transport makes is the step of the line of jobs of the same name,
   or a stutter. *)
LEMMA LineMoves ==
    /\ \A r \in Request : LineAccept(r) \/ LineRefuse(r) \/ LineTell(r) => Line!LineNext
    /\ LineCarryOut \/ LineDrop => Line!LineNext
    /\ LineStays => UNCHANGED Line!lineVars
<1> USE DEF LineNow, ToldNow
<1>1. ASSUME NEW r \in Request PROVE LineAccept(r) \/ LineRefuse(r) \/ LineTell(r) => Line!LineNext
  <2>1. LineAccept(r) => Line!Accept(r) BY DEF LineAccept, Line!Accept, ToSet, Line!ToSet
  <2>2. LineRefuse(r) => Line!Refuse(r) BY DEF LineRefuse, Line!Refuse, ToSet, Line!ToSet
  <2>3. LineTell(r) => Line!Tell(r) BY DEF LineTell, Line!Tell, ToSet, Line!ToSet
  <2>4. QED BY <2>1, <2>2, <2>3 DEF Line!LineNext
<1>2. LineCarryOut => Line!CarryOut BY DEF LineCarryOut, Line!CarryOut
<1>3. LineDrop => Line!Drop BY DEF LineDrop, Line!Drop
<1>4. LineStays => UNCHANGED Line!lineVars BY DEF LineStays, Line!lineVars
<1>5. QED BY <1>1, <1>2, <1>3, <1>4 DEF Line!LineNext

(* A client that has got nothing was told nothing. *)
LEMMA ToldNothing ==
    ASSUME SInv, NEW r \in Request, client[r].got = None
    PROVE  ToldNow[r] = "nothing"
<1>1. Told(r) = Say(r, client[r].got) BY DEF Told, Say
<1>2. QED BY <1>1, SayIs DEF ToldNow

(* A refused request is refused in the line. *)
LEMMA RefuseMove ==
    ASSUME SInv, NEW r \in Request, client[r].phase \in {"new", "sending"}, NEW l, Refused(r, l),
           UNCHANGED <<ring, loop, ran>>
    PROVE  LineRefuse(r)
<1>1. SlotsTypeOK /\ ClientOK(r) BY DEF SInv, ClientsHold
<1>2. jobs' = jobs /\ head' = head /\ tail' = tail /\ count' = count /\ loop' = loop /\ ran' = ran
  BY DEF ring
<1>3. /\ \A q \in Request \ {r} : client'[q].got = client[q].got
      /\ client'[r].got = RefusalOf(r)
  BY <1>1 DEF Refused, SlotsTypeOK
<1>4. ToldNow' = [ToldNow EXCEPT ![r] = "refused"]
  <2>1. Say(r, client'[r].got) = "refused" BY <1>3, SayIs
  <2>2. QED BY <1>3, <2>1, ToldChanges
<1>5. RingSeq' = RingSeq BY <1>2 DEF RingSeq
<1>6. LineNow' = LineNow BY <1>2, <1>5 DEF LineNow, At
<1>7. r \notin ToSet(LineNow) \cup ToSet(ran) BY LineIsPast DEF Past
<1>8. ToldNow[r] = "nothing" BY <1>1, ToldNothing DEF ClientOK
<1>9. QED BY <1>2, <1>4, <1>6, <1>7, <1>8 DEF LineRefuse

(* An enqueued request is accepted by the line. *)
LEMMA AcceptMove ==
    ASSUME SInv, SInv', NEW r \in Request, client[r].phase \in {"new", "sending"}, NEW s, NEW l,
           ~JobRingFull, Enqueued(s, r, l), UNCHANGED <<loop, ran>>
    PROVE  LineAccept(r)
<1>1. SlotsTypeOK /\ ClientOK(r) /\ RingOK BY DEF SInv, ClientsHold
<1>2. count < JobCapacity BY <1>1, SmallFacts DEF JobRingFull, SlotsTypeOK
<1>3. head' = head /\ count' = count + 1 /\ loop' = loop /\ ran' = ran BY DEF Enqueued
<1>4. \E b : b.request = r /\ jobs' = [jobs EXCEPT ![tail] = b]
  <2>1. PICK w : jobs' = [jobs EXCEPT ![tail] = [request |-> r, slot |-> l.slot, gen |-> l.gen,
                                                 cancelled |-> FALSE, waits |-> w]]
    BY DEF Enqueued
  <2>2. [request |-> r, slot |-> l.slot, gen |-> l.gen, cancelled |-> FALSE, waits |-> w].request = r
    OBVIOUS
  <2>3. QED BY <2>1, <2>2
<1>5. RingSeq' = Append(RingSeq, r) BY <1>2, <1>3, <1>4, RingSeqGrows
<1>6. RingSeq \in Seq(Request) /\ Len(RingSeq) = count /\ count \in Nat BY RingSeqIs
<1>7. LineNow' = Append(LineNow, r)
  <2>1. CASE At("idle") BY <1>3, <1>5, <2>1 DEF LineNow, At
  <2>2. CASE ~At("idle")
    <3>1. count > 0 BY <1>1, <2>2 DEF RingOK
    <3>2. Tail(Append(RingSeq, r)) = Append(Tail(RingSeq), r) BY <1>6, <3>1
    <3>3. QED BY <1>3, <1>5, <2>2, <3>2 DEF LineNow, At
  <2>3. QED BY <2>1, <2>2
<1>8. \A q \in Request : client'[q].got = client[q].got
  <2>1. client \in [Request -> ClientRecord] BY <1>1 DEF SlotsTypeOK
  <2>2. client' = [client EXCEPT ![r] = [client[r] EXCEPT !.phase = "waiting", !.lease = l]]
    BY <2>1 DEF Enqueued
  <2>3. [client[r] EXCEPT !.phase = "waiting", !.lease = l].got = client[r].got
    BY <2>1 DEF ClientRecord
  <2>4. QED BY <2>1, <2>2, <2>3
<1>9. ToldNow' = ToldNow BY <1>8, ToldSame
<1>10. r \notin ToSet(LineNow) \cup ToSet(ran) BY LineIsPast DEF Past
<1>11. ToldNow[r] = "nothing" BY <1>1, ToldNothing DEF ClientOK
<1>12. QED BY <1>3, <1>7, <1>9, <1>10, <1>11 DEF LineAccept

(* A step that moves neither the ring nor what was told is a stutter of the line. *)
LEMMA StayMove ==
    ASSUME SInv, head' = head, count' = count, ran' = ran, At("idle")' = At("idle"),
           \A k \in Entries : jobs'[k].request = jobs[k].request,
           \A q \in Request : client'[q].got = client[q].got
    PROVE  LineStays
<1>1. RingSeq' = RingSeq BY RingSeqAgain DEF SInv
<1>2. ToldNow' = ToldNow BY ToldSame
<1>3. QED BY <1>1, <1>2 DEF LineStays, LineNow

(* The callbacks: one accepts or refuses its request, or tells an answer, or
   leaves the line as it is. *)
LEMMA TcpLine ==
    ASSUME SInv, SInv', NEW r \in Request, TcpStep(r)
    PROVE  LineStays \/ LineAccept(r) \/ LineRefuse(r) \/ LineTell(r)
<1>1. SlotsTypeOK /\ ClientOK(r) /\ client \in [Request -> ClientRecord] /\ client[r] \in ClientRecord
  BY DEF SInv, ClientsHold, SlotsTypeOK
<1>2. CASE TurnDown(r)
  <2>1. UNCHANGED <<ring, loop, ran>> BY <1>2 DEF TurnDown
  <2>2. QED BY <1>2, <2>1, RefuseMove DEF TurnDown
<1>3. CASE BodyStarts(r)
  <2>1. UNCHANGED <<ring, loop, ran>> /\ client[r].phase = "new" BY <1>3 DEF BodyStarts
  <2>2. CASE Refused(r, None) BY <2>1, <2>2, RefuseMove
  <2>3. CASE client' = [client EXCEPT ![r].phase = "sending", ![r].lease = NextLease]
    <3>1. client' = [client EXCEPT ![r] = [client[r] EXCEPT !.phase = "sending", !.lease = NextLease]]
      BY <1>1, <2>3
    <3>2. [client[r] EXCEPT !.phase = "sending", !.lease = NextLease].got = client[r].got
      BY <1>1 DEF ClientRecord
    <3>3. \A q \in Request : client'[q].got = client[q].got BY <1>1, <3>1, <3>2
    <3>4. QED BY <2>1, <3>3, StayMove DEF ring, At
  <2>4. QED BY <1>3, <2>2, <2>3 DEF BodyStarts
<1>4. CASE BodyGoesWrong(r)
  <2>1. UNCHANGED <<ring, loop, ran>> /\ client[r].phase = "sending" BY <1>4 DEF BodyGoesWrong
  <2>2. CASE Refused(r, client[r].lease) BY <2>1, <2>2, RefuseMove
  <2>3. CASE UNCHANGED client BY <2>1, <2>3, StayMove DEF ring, At
  <2>4. QED BY <1>4, <2>2, <2>3 DEF BodyGoesWrong
<1>5. CASE BodyComplete(r)
  <2>1. UNCHANGED <<loop, ran>> /\ client[r].phase = "sending" BY <1>5 DEF BodyComplete
  <2>2. CASE Refused(r, client[r].lease) /\ UNCHANGED ring
    <3>1. UNCHANGED <<ring, loop, ran>> BY <2>1, <2>2
    <3>2. QED BY <2>1, <2>2, <3>1, RefuseMove
  <2>3. CASE ~JobRingFull /\ Enqueued(slot, r, client[r].lease)
    BY <2>1, <2>3, AcceptMove
  <2>4. QED BY <1>5, <2>2, <2>3 DEF BodyComplete, Enqueue
<1>6. CASE BodylessRequest(r)
  <2>1. UNCHANGED <<loop, ran>> /\ client[r].phase = "new" BY <1>6 DEF BodylessRequest
  <2>2. CASE (Refused(r, None) \/ Refused(r, NextLease)) /\ UNCHANGED ring
    <3>1. UNCHANGED <<ring, loop, ran>> BY <2>1, <2>2
    <3>2. QED BY <2>1, <2>2, <3>1, RefuseMove
  <2>3. CASE ~JobRingFull /\ Enqueued(Reserved(slot, Reservable, r), r, NextLease)
    BY <2>1, <2>3, AcceptMove
  <2>4. QED BY <1>6, <2>2, <2>3 DEF BodylessRequest, Enqueue
<1>7. CASE Disconnect(r)
  <2>1. head' = head /\ count' = count /\ loop' = loop /\ ran' = ran BY <1>7 DEF Disconnect
  <2>2. \A k \in Entries : jobs'[k].request = jobs[k].request
    <3>1. jobs' = jobs \/ \E l \in Leases : jobs' = JobsCancelled(l)
      BY <1>1, <1>7 DEF Disconnect, ClientRecord
    <3>2. ASSUME NEW l \in Leases, jobs' = JobsCancelled(l), NEW k \in Entries
          PROVE  jobs'[k].request = jobs[k].request
      <4>1. jobs \in [Entries -> JobRecord] /\ jobs[k] \in JobRecord BY <1>1 DEF SlotsTypeOK
      <4>2. jobs'[k] \in {jobs[k], [jobs[k] EXCEPT !.cancelled = TRUE]}
        BY <3>2, <4>1 DEF JobsCancelled
      <4>3. [jobs[k] EXCEPT !.cancelled = TRUE].request = jobs[k].request BY <4>1 DEF JobRecord
      <4>4. QED BY <4>2, <4>3
    <3>3. QED BY <3>1, <3>2
  <2>3. \A q \in Request : client'[q].got = client[q].got
    <3>1. client' = [client EXCEPT ![r] = [client[r] EXCEPT !.phase = "gone", !.lease = None]]
      BY <1>1, <1>7 DEF Disconnect
    <3>2. [client[r] EXCEPT !.phase = "gone", !.lease = None].got = client[r].got
      BY <1>1 DEF ClientRecord
    <3>3. QED BY <1>1, <3>1, <3>2
  <2>4. QED BY <2>1, <2>2, <2>3, StayMove DEF At
<1>8. CASE Deliver(r)
  <2>1. /\ jobs' = jobs /\ head' = head /\ count' = count /\ loop' = loop /\ ran' = ran
        /\ response[r] # None
    BY <1>8 DEF Deliver, ring
  <2>2. /\ client[r].got = None /\ r \in Range(ran)
        /\ slot[response[r].slot].holds = AnswerTo(r)
    BY <1>1, <2>1 DEF ClientOK
  <2>3. client'[r].got = AnswerTo(r) /\ \A q \in Request \ {r} : client'[q].got = client[q].got
    <3>1. client' = [client EXCEPT ![r] = [client[r] EXCEPT !.got = AnswerTo(r)]]
      BY <1>1, <1>8, <2>2 DEF Deliver
    <3>2. [client[r] EXCEPT !.got = AnswerTo(r)].got = AnswerTo(r) BY <1>1 DEF ClientRecord
    <3>3. QED BY <1>1, <3>1, <3>2
  <2>4. ToldNow' = [ToldNow EXCEPT ![r] = "own"]
    <3>1. Say(r, client'[r].got) = "own" BY <2>3, SayIs
    <3>2. QED BY <2>3, <3>1, ToldChanges
  <2>5. LineNow' = LineNow BY <2>1 DEF LineNow, RingSeq, At
  <2>6. ToldNow[r] = "nothing" BY <2>2, ToldNothing
  <2>7. r \in ToSet(ran) BY <2>2 DEF ToSet, Range
  <2>8. QED BY <2>1, <2>4, <2>5, <2>6, <2>7 DEF LineTell
<1>9. QED BY <1>2, <1>3, <1>4, <1>5, <1>6, <1>7, <1>8 DEF TcpStep

(* The loop: it carries out the request at the head, or drops a read nobody waits
   for, and otherwise leaves the line as it is. *)
LEMMA LoopLine ==
    ASSUME SInv, SInv', LoopStep
    PROVE  LineStays \/ LineCarryOut \/ LineDrop
<1>1. SlotsTypeOK /\ RingOK BY DEF SInv
<1>2. RingSeq \in Seq(Request) /\ Len(RingSeq) = count /\ count \in Nat
      /\ (count > 0 => Head(RingSeq) = Job.request /\ RingSeq # <<>>)
  <2>1. RingSeq \in Seq(Request) /\ Len(RingSeq) = count /\ count \in Nat
        /\ (count > 0 => Head(RingSeq) = Job.request) BY RingSeqIs
  <2>2. QED BY <2>1
<1>3. CASE PollAgain
  <2>1. /\ head' = head /\ count' = count /\ loop' = loop /\ ran' = ran /\ client' = client
        /\ count > 0
    BY <1>3 DEF PollAgain, tcpVars
  <2>2. \A k \in Entries : jobs'[k].request = jobs[k].request
    <3>1. jobs[head] \in JobRecord /\ jobs \in [Entries -> JobRecord] /\ head \in Entries
      BY <1>1, <2>1, HeadFacts DEF SlotsTypeOK
    <3>2. jobs' = [jobs EXCEPT ![head] = [jobs[head] EXCEPT !.waits = jobs[head].waits - 1]]
      BY <1>3, <3>1 DEF PollAgain
    <3>3. [jobs[head] EXCEPT !.waits = jobs[head].waits - 1].request = jobs[head].request
      BY <3>1 DEF JobRecord
    <3>4. QED BY <3>1, <3>2, <3>3
  <2>3. QED BY <2>1, <2>2, StayMove DEF At
<1>4. CASE PollDrops
  <2>1. /\ At("idle") /\ count > 0 /\ ~At("idle")' /\ jobs' = jobs /\ head' = head /\ count' = count
        /\ ran' = ran /\ client' = client /\ Kind[Job.request] = "read"
    BY <1>4 DEF PollDrops, GiveUp, Abandoned, ring, tcpVars, At
  <2>2. RingSeq' = RingSeq /\ ToldNow' = ToldNow BY <2>1, ToldSame DEF RingSeq
  <2>3. QED BY <1>2, <2>1, <2>2 DEF LineDrop, LineNow
<1>5. CASE PollExecutes
  <2>1. /\ At("idle") /\ count > 0 /\ jobs' = jobs /\ head' = head /\ count' = count
        /\ ran' = Append(ran, Job.request) /\ client' = client /\ loop' = [loop EXCEPT !.pc = "answer"]
    BY <1>5 DEF PollExecutes, Go, ring, tcpVars
  <2>2. ~At("idle")' BY <1>1, <2>1 DEF At, SlotsTypeOK
  <2>3. RingSeq' = RingSeq /\ ToldNow' = ToldNow BY <2>1, ToldSame DEF RingSeq
  <2>4. QED BY <1>2, <2>1, <2>2, <2>3 DEF LineCarryOut, LineNow
<1>6. CASE WriteAnswer \/ MarkReady \/ TakeSlot
  <2>1. jobs' = jobs /\ head' = head /\ count' = count /\ ran' = ran /\ client' = client
    BY <1>6 DEF WriteAnswer, MarkReady, TakeSlot, ring, tcpVars
  <2>2. ~At("idle") BY <1>6 DEF WriteAnswer, MarkReady, TakeSlot, At
  <2>3. ~At("idle")'
    <3>1. loop \in [pc : Pc, sent : BOOLEAN] BY <1>1 DEF SlotsTypeOK
    <3>2. GiveUp \/ Go("ready") \/ Go("take") \/ Go("send")
      BY <1>6 DEF WriteAnswer, MarkReady, TakeSlot
    <3>3. QED BY <3>1, <3>2 DEF GiveUp, Go, At
  <2>4. At("idle")' = At("idle") BY Zenon, <2>2, <2>3 DEF At
  <2>5. QED BY <2>1, <2>4, StayMove
<1>7. CASE SendSlot
  <2>1. /\ jobs' = jobs /\ head' = head /\ count' = count /\ ran' = ran /\ At("send") BY <1>7 DEF SendSlot, ring
  <2>2. ~At("idle") /\ ~At("idle")' BY <1>7, <2>1 DEF SendSlot, GiveUp, At
  <2>3. \A q \in Request : client'[q].got = client[q].got
    <3>1. CASE client' = client BY <3>1
    <3>2. CASE client' = [client EXCEPT ![slot[Job.slot].request].phase = "answered"]
      <4>1. \A q \in Request : client[q] \in ClientRecord BY <1>1 DEF SlotsTypeOK
      <4>2. client \in [Request -> ClientRecord] BY <1>1 DEF SlotsTypeOK
      <4>3. \A q \in Request : client'[q] \in {client[q], [client[q] EXCEPT !.phase = "answered"]}
        BY <3>2, <4>2
      <4>4. \A q \in Request : [client[q] EXCEPT !.phase = "answered"].got = client[q].got
        BY <4>1 DEF ClientRecord
      <4>5. QED BY <4>3, <4>4
    <3>3. QED BY <1>7, <3>1, <3>2 DEF SendSlot, tcpVars
  <2>4. At("idle")' = At("idle") BY Zenon, <2>2 DEF At
  <2>5. QED BY <2>1, <2>3, <2>4, StayMove
<1>8. CASE FinishJob
  <2>1. /\ At("finish") /\ jobs' = jobs /\ head' = (head + 1) % JobCapacity /\ count' = count - 1
        /\ ran' = ran /\ client' = client /\ loop' = [loop EXCEPT !.pc = "idle"]
    BY <1>8 DEF FinishJob, tcpVars, Go
  <2>2. ~At("idle") /\ At("idle")' BY <1>1, <2>1 DEF At, SlotsTypeOK
  <2>3. count > 0 BY <1>1, <2>2 DEF RingOK
  <2>4. RingSeq' = Tail(RingSeq) BY <2>1, <2>3, RingSeqShrinks
  <2>5. ToldNow' = ToldNow BY <2>1, ToldSame
  <2>6. QED BY <2>1, <2>2, <2>4, <2>5 DEF LineStays, LineNow
<1>9. QED BY <1>3, <1>4, <1>5, <1>6, <1>7, <1>8 DEF LoopStep

(* Every step of the transport is a step of the line of jobs or a stutter. *)
LEMMA LineStep == SInv /\ SInv' /\ [Next]_vars => [Line!LineNext]_(Line!lineVars)
<1> SUFFICES ASSUME SInv, SInv', [Next]_vars PROVE Line!LineNext \/ UNCHANGED Line!lineVars
  OBVIOUS
<1>1. CASE LoopStep BY <1>1, LoopLine, LineMoves
<1>2. ASSUME NEW r \in Request, TcpStep(r) PROVE Line!LineNext \/ UNCHANGED Line!lineVars
  BY <1>2, TcpLine, LineMoves
<1>3. CASE UNCHANGED vars
  <2>1. head' = head /\ count' = count /\ ran' = ran /\ loop' = loop /\ jobs' = jobs /\ client' = client
    BY <1>3 DEF vars, ring, tcpVars
  <2>2. LineStays BY <2>1, StayMove DEF At
  <2>3. QED BY <2>2, LineMoves
<1>4. QED BY <1>1, <1>2, <1>3 DEF Next

(* The transport starts with an empty line. *)
LEMMA LineStart == Init => Line!LineInit
<1> SUFFICES ASSUME Init PROVE Line!LineInit OBVIOUS
<1>1. SInv BY InitSInv
<1>2. RingSeq = <<>>
  <2>1. RingSeq \in Seq(Request) /\ Len(RingSeq) = count BY <1>1, RingSeqIs
  <2>2. count = 0 BY DEF Init
  <2>3. QED BY <2>1, <2>2
<1>3. At("idle") /\ ran = <<>> BY DEF Init, At
<1>4. ToldNow = [r \in Request |-> "nothing"]
  <2>1. \A r \in Request : ToldNow[r] = "nothing" BY <1>1, ToldNothing DEF Init
  <2>2. QED BY <2>1 DEF ToldNow
<1>5. QED BY <1>2, <1>3, <1>4 DEF Line!LineInit, ToldNow

(* The transport implements the line of jobs: accepted requests are carried out in
   the order they were accepted, each at most once; only a read may leave without;
   and a client hears its own outcome, or that it was not accepted. *)
THEOREM TransportImplementsLine == Spec => ImplementsLine
<1>1. QED BY LineStart, LineStep, SlotsInvariant, PTL DEF Spec, ImplementsLine, Line!LineSpec
=============================================================================
