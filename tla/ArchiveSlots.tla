---------------------------- MODULE ArchiveSlots ---------------------------
(***************************************************************************)
(* lib/NetworkManager/ArchiveRoutes.cpp and ArchiveResponse.cpp: requests  *)
(* handed from the AsyncTCP task to the owner loop and answers handed      *)
(* back, through response slots and a ring of jobs.                        *)
(*                                                                         *)
(* The AsyncTCP task runs the callbacks, one at a time; each is one action *)
(* (a callback touches only its own assembling slot outside the lock).     *)
(* The owner loop's poll() is cut at every point where the lock is given   *)
(* back or shared state is read again: loop.pc.  A request is one HTTP     *)
(* exchange; a client that retries is another request.  A buffer is told   *)
(* apart by what it holds: the body or the answer of a request.            *)
(***************************************************************************)
EXTENDS Naturals, Sequences, FiniteSets, SequencesExt

CONSTANTS
    Request,
    Kind,         \* request -> "command", "mutation", "delete" or "read"
    SlotCount,    \* slotCount_
    JobCapacity,  \* jobCapacity_
    None,         \* model value
    MaxWaits,     \* bound: polls a job's bounded preparation may take
    MaxStarved    \* bound: allocations of a response that fail

ASSUME SlotsAssumption ==
    /\ SlotCount \in Nat \ {0} /\ JobCapacity \in Nat \ {0}
    /\ MaxWaits \in Nat /\ MaxStarved \in Nat
    /\ Kind \in [Request -> {"command", "mutation", "delete", "read"}]
    /\ None \notin Request
    /\ None \notin [slot : Nat, gen : Nat]
                \cup [of : Request, what : {"body", "answer", "refusal"}]

Slots == 1..SlotCount
HasBody(r) == Kind[r] \in {"command", "mutation"}

VARIABLES
    slot,      \* ResponseSlot: [state, gen, cancelled, invalid, request, holds]
    jobs,      \* jobs_: [request, slot, gen, cancelled, waits]
    head, tail, count,  \* jobHead_, jobTail_, jobCount_
    loop,      \* the owner loop inside poll(): [pc, sent]
    client,    \* a request's connection: [phase, lease, got]
    response,  \* the live ArchiveResponse of a request: its lease, or None
    starved,   \* requests whose response could not be allocated
    ran        \* history: requests carried out, in order

tcpVars == <<client, response>>
ring == <<jobs, head, tail, count>>
vars == <<slot, ring, loop, tcpVars, starved, ran>>

BodyOf(r) == [of |-> r, what |-> "body"]
AnswerTo(r) == [of |-> r, what |-> "answer"]
RefusalOf(r) == [of |-> r, what |-> "refusal"]
NoJob == [request |-> None, slot |-> 0, gen |-> 0, cancelled |-> FALSE, waits |-> 0]

Init ==
    /\ slot = [i \in Slots |-> [state |-> "free", gen |-> 0, cancelled |-> FALSE,
                                invalid |-> FALSE, request |-> None, holds |-> None]]
    /\ jobs = [k \in 0..(JobCapacity - 1) |-> NoJob]
    /\ head = 0 /\ tail = 0 /\ count = 0
    /\ loop = [pc |-> "idle", sent |-> FALSE]
    /\ client = [r \in Request |-> [phase |-> "new", lease |-> None, got |-> None]]
    /\ response = [r \in Request |-> None]
    /\ starved = {} /\ ran = <<>>

-----------------------------------------------------------------------------
(* Leases.  A lease is a slot and the generation it was reserved under. *)
Lease(i, g) == [slot |-> i, gen |-> g]

(* Mutant: the slot is given back whoever has it by now. *)
ReleasedAnyway(s, l) ==
    [s EXCEPT ![l.slot].state = "free", ![l.slot].cancelled = FALSE, ![l.slot].invalid = FALSE]

(* releaseSlotLocked *)
Released(s, l) ==
    IF s[l.slot].gen # l.gen THEN s
    ELSE [s EXCEPT ![l.slot].state = "free", ![l.slot].cancelled = FALSE, ![l.slot].invalid = FALSE]

FreeSlots == {i \in Slots : slot[i].state = "free"}
Reservable == CHOOSE i \in FreeSlots : \A j \in FreeSlots : i <= j

(* reserveSlot, with the continuation stored in the slot right after it. *)
Reserved(s, i, r) ==
    [s EXCEPT ![i].state = "assembling", ![i].gen = @ + 1, ![i].cancelled = FALSE,
              ![i].invalid = FALSE, ![i].request = r]
NextLease == Lease(Reservable, slot[Reservable].gen + 1)

(* sendImmediateError: the connection has its answer and will close. *)
Refused(r, lease) == client' = [client EXCEPT ![r] = [phase |-> "answered", lease |-> lease,
                                                     got |-> RefusalOf(r)]]

(* enqueueCommand, enqueueMutation and enqueueRead, into slots s.  Mutant: the
   entry keeps the cancellation of the job that used it before. *)
JobRingFull == count >= JobCapacity
EnqueuedStale(s, r, l) ==
    /\ jobs' = [jobs EXCEPT ![tail] = [request |-> r, slot |-> l.slot, gen |-> l.gen,
                                       cancelled |-> jobs[tail].cancelled, waits |-> 0]]
    /\ tail' = (tail + 1) % JobCapacity /\ count' = count + 1 /\ UNCHANGED head
    /\ slot' = [s EXCEPT ![l.slot].state = "queued"]
    /\ client' = [client EXCEPT ![r].phase = "waiting", ![r].lease = l]
Enqueued(s, r, l) ==
    /\ \E w \in IF Kind[r] = "delete" THEN {0} ELSE 0..MaxWaits :
          jobs' = [jobs EXCEPT ![tail] = [request |-> r, slot |-> l.slot, gen |-> l.gen,
                                          cancelled |-> FALSE, waits |-> w]]
    /\ tail' = (tail + 1) % JobCapacity /\ count' = count + 1 /\ UNCHANGED head
    /\ slot' = [s EXCEPT ![l.slot].state = "queued"]
    /\ client' = [client EXCEPT ![r].phase = "waiting", ![r].lease = l]
Enqueue(s, r, l) ==
    IF JobRingFull
    THEN slot' = Released(s, l) /\ Refused(r, l) /\ UNCHANGED ring
    ELSE Enqueued(s, r, l)

-----------------------------------------------------------------------------
(* AsyncTCP callbacks *)

(* A request turned down before it touches a slot: route, device header,
   arguments, announced length. *)
TurnDown(r) ==
    /\ client[r].phase = "new"
    /\ Refused(r, None)
    /\ UNCHANGED <<slot, ring, loop, response, starved, ran>>

(* onBody, first chunk *)
BodyStarts(r) ==
    /\ HasBody(r) /\ client[r].phase = "new"
    /\ \/ /\ FreeSlots = {}
          /\ Refused(r, None) /\ UNCHANGED slot
       \/ /\ FreeSlots # {}
          /\ slot' = [Reserved(slot, Reservable, r) EXCEPT ![Reservable].holds = BodyOf(r)]
          /\ client' = [client EXCEPT ![r].phase = "sending", ![r].lease = NextLease]
    /\ UNCHANGED <<ring, loop, response, starved, ran>>

(* onBody, a later chunk: out of order, or past the limit of the body. *)
BodyGoesWrong(r) ==
    /\ client[r].phase = "sending"
    /\ \/ slot' = [slot EXCEPT ![client[r].lease.slot].invalid = TRUE] /\ UNCHANGED client
       \/ slot' = Released(slot, client[r].lease) /\ Refused(r, client[r].lease)
    /\ UNCHANGED <<ring, loop, response, starved, ran>>

(* onRequest with its body: handleCommandRequest, handleMarkerRequest. *)
BodyComplete(r) ==
    /\ client[r].phase = "sending"
    /\ LET l == client[r].lease
       IN  \/ slot' = Released(slot, l) /\ Refused(r, l) /\ UNCHANGED ring
           \/ ~slot[l.slot].invalid /\ Enqueue(slot, r, l)
    /\ UNCHANGED <<loop, response, starved, ran>>

(* onRequest without one: handleBodylessRequest. *)
BodylessRequest(r) ==
    /\ ~HasBody(r) /\ client[r].phase = "new"
    /\ \/ FreeSlots = {} /\ Refused(r, None) /\ UNCHANGED <<slot, ring>>
       \/ FreeSlots # {} /\ Enqueue(Reserved(slot, Reservable, r), r, NextLease)
    /\ UNCHANGED <<loop, response, starved, ran>>

(* onDisconnected, of the callback installed for a lease. *)
AfterDisconnect(s, l) ==
    IF s[l.slot].gen # l.gen THEN s
    ELSE IF s[l.slot].state = "assembling"
         THEN [s EXCEPT ![l.slot].state = "free", ![l.slot].invalid = FALSE]
    ELSE IF s[l.slot].state \in {"queued", "ready"}
         THEN [s EXCEPT ![l.slot].state = "cancelled", ![l.slot].cancelled = TRUE]
    ELSE s
Cancels(l) == slot[l.slot].gen = l.gen /\ slot[l.slot].state \in {"queued", "ready"}
JobsCancelled(l) ==
    [k \in DOMAIN jobs |->
        IF jobs[k].slot = l.slot /\ jobs[k].gen = l.gen
        THEN [jobs[k] EXCEPT !.cancelled = TRUE] ELSE jobs[k]]

(* The connection goes: the callback first, then the request with its response,
   whose destructor gives the slot back. *)
Disconnect(r) ==
    /\ client[r].phase \in {"sending", "waiting", "answered"}
    /\ client' = [client EXCEPT ![r].phase = "gone", ![r].lease = None]
    /\ response' = [response EXCEPT ![r] = None]
    /\ LET l == client[r].lease
       IN  IF l = None THEN UNCHANGED <<slot, jobs>>
           ELSE /\ jobs' = IF Cancels(l) THEN JobsCancelled(l) ELSE jobs
                /\ slot' = IF response[r] = None THEN AfterDisconnect(slot, l)
                           ELSE Released(AfterDisconnect(slot, l), response[r])
    /\ UNCHANGED <<head, tail, count, loop, starved, ran>>

(* ArchiveResponse::_fillBuffer to the last byte, then its destructor. *)
Deliver(r) ==
    /\ response[r] # None
    /\ client' = [client EXCEPT ![r].got = slot[response[r].slot].holds]
    /\ slot' = Released(slot, response[r])
    /\ response' = [response EXCEPT ![r] = None]
    /\ UNCHANGED <<ring, loop, starved, ran>>

-----------------------------------------------------------------------------
(* poll() on the owner loop, which works on the job at the head of the ring. *)
Job == jobs[head]
JobLease == Lease(Job.slot, Job.gen)
At(pc) == loop.pc = pc
AbandonedOfAnyKind == Job.cancelled  \* mutant
Abandoned == Kind[Job.request] = "read" /\ Job.cancelled
Go(pc) == loop' = [loop EXCEPT !.pc = pc]
GiveUp == loop' = [pc |-> "finish", sent |-> FALSE]

(* The bounded preparation (run metadata, marker cache, one page of a list) has
   not come to its end: the job stays at the head. *)
PollAgain ==
    /\ At("idle") /\ count > 0 /\ ~Abandoned /\ Job.waits > 0
    /\ jobs' = [jobs EXCEPT ![head].waits = @ - 1]
    /\ UNCHANGED <<slot, head, tail, count, loop, tcpVars, starved, ran>>

(* A read nobody waits for any more is not begun. *)
PollDrops ==
    /\ At("idle") /\ count > 0 /\ Abandoned
    /\ GiveUp
    /\ UNCHANGED <<slot, ring, tcpVars, starved, ran>>

(* The handler runs: the command, the deletion, the mutation, the read. *)
PollExecutes ==
    /\ At("idle") /\ count > 0 /\ ~Abandoned /\ Job.waits = 0
    /\ ran' = Append(ran, Job.request)
    /\ Go("answer")
    /\ UNCHANGED <<slot, ring, tcpVars, starved>>

(* The answer is written into the slot, unless a change was cancelled meanwhile;
   a read does not look again. *)
WriteAnswer ==
    /\ At("answer")
    /\ IF Job.cancelled /\ Kind[Job.request] # "read"
       THEN GiveUp /\ UNCHANGED slot
       ELSE slot' = [slot EXCEPT ![Job.slot].holds = AnswerTo(Job.request)] /\ Go("ready")
    /\ UNCHANGED <<ring, tcpVars, starved, ran>>

Sendable(l) == slot[l.slot].gen = l.gen /\ slot[l.slot].state = "queued" /\ ~slot[l.slot].cancelled

MarkReady ==
    /\ At("ready")
    /\ IF Sendable(JobLease)
       THEN slot' = [slot EXCEPT ![Job.slot].state = "ready"] /\ Go("take")
       ELSE GiveUp /\ UNCHANGED slot
    /\ UNCHANGED <<ring, tcpVars, starved, ran>>

(* sendSlot under the lock *)
TakeSlot ==
    /\ At("take")
    /\ IF slot[Job.slot].gen = Job.gen /\ slot[Job.slot].state = "ready" /\ ~slot[Job.slot].cancelled
       THEN slot' = [slot EXCEPT ![Job.slot].state = "sending"] /\ Go("send")
       ELSE GiveUp /\ UNCHANGED slot
    /\ UNCHANGED <<ring, tcpVars, starved, ran>>

(* sendSlot after it: the request is looked up again, and may be gone.  One that
   goes between this look and send() takes the response with it. *)
SendSlot ==
    LET r == slot[Job.slot].request
    IN  /\ At("send")
        /\ \/ /\ client[r].phase = "waiting"
              /\ response' = [response EXCEPT ![r] = JobLease]
              /\ client' = [client EXCEPT ![r].phase = "answered"]
              /\ loop' = [pc |-> "finish", sent |-> TRUE]
              /\ UNCHANGED <<slot, starved>>
           \/ /\ client[r].phase = "waiting" /\ Cardinality(starved) < MaxStarved
              /\ starved' = starved \cup {r}
              /\ slot' = Released(slot, JobLease) /\ GiveUp /\ UNCHANGED tcpVars
           \/ /\ client[r].phase # "waiting"
              /\ slot' = Released(slot, JobLease)
              /\ loop' \in [pc : {"finish"}, sent : BOOLEAN]
              /\ UNCHANGED <<tcpVars, starved>>
        /\ UNCHANGED <<ring, ran>>

FinishJob ==
    /\ At("finish")
    /\ slot' = IF loop.sent THEN slot ELSE Released(slot, JobLease)
    /\ head' = (head + 1) % JobCapacity /\ count' = count - 1
    /\ Go("idle")
    /\ UNCHANGED <<jobs, tail, tcpVars, starved, ran>>

-----------------------------------------------------------------------------
LoopStep ==
    PollAgain \/ PollDrops \/ PollExecutes \/ WriteAnswer \/ MarkReady \/ TakeSlot \/ SendSlot
    \/ FinishJob
TcpStep(r) ==
    \/ TurnDown(r) \/ BodyStarts(r) \/ BodyGoesWrong(r) \/ BodyComplete(r)
    \/ BodylessRequest(r) \/ Disconnect(r) \/ Deliver(r)

Next == LoopStep \/ \E r \in Request : TcpStep(r)

(* The loop turns; the TCP task writes what it was given; and a client in the
   middle of its body goes on, or the server's timeout closes its connection. *)
Fairness ==
    /\ WF_vars(LoopStep)
    /\ \A r \in Request : WF_vars(Deliver(r)) /\ WF_vars(BodyComplete(r))

Spec == Init /\ [][Next]_vars /\ Fairness

-----------------------------------------------------------------------------
QueuedJobs == {(head + k) % JobCapacity : k \in 0..(count - 1)}

(* Answers do not cross: as long as a response is being copied out, its slot is
   under the lease it was made with and holds the answer of that very request, and
   what a client has received is a refusal or its own answer.  This rests on no
   slot being lost or held twice: one that is not free belongs to exactly one of a
   connected client sending its body, a job in the ring (one whose answer has just
   been sent apart) and a live response, and is nobody else's while a job waits. *)
AnswersDoNotCross ==
    /\ \A r \in Request :
          /\ response[r] # None =>
                LET s == slot[response[r].slot]
                IN  s.gen = response[r].gen /\ s.state = "sending" /\ s.holds = AnswerTo(r)
          /\ client[r].got \in {None, RefusalOf(r), AnswerTo(r)}
    /\ \A i \in Slots :
          LET lease == Lease(i, slot[i].gen)
              senders == {r \in Request : client[r].phase = "sending" /\ client[r].lease = lease}
              holders == {k \in QueuedJobs : Lease(jobs[k].slot, jobs[k].gen) = lease
                                             /\ ~(k = head /\ At("finish") /\ loop.sent)}
              replies == {r \in Request : response[r] = lease}
          IN  slot[i].state # "free" =>
                 Cardinality(senders) + Cardinality(holders) + Cardinality(replies) = 1
    /\ \A k \in QueuedJobs :
          k # head \/ At("idle") => slot[jobs[k].slot].gen = jobs[k].gen
                                    /\ slot[jobs[k].slot].state \in {"queued", "cancelled"}

(* The transport implements the line of jobs. *)
RingSeq == [k \in 1..count |-> jobs[(head + k - 1) % JobCapacity].request]
Told(r) ==
    CASE client[r].got = None -> "nothing"
      [] client[r].got = RefusalOf(r) -> "refused"
      [] client[r].got = AnswerTo(r) -> "own"
      [] OTHER -> "of another"
Line == INSTANCE JobLine WITH
    line <- IF At("idle") THEN RingSeq ELSE Tail(RingSeq),
    applied <- ran,
    told <- [r \in Request |-> Told(r)]
ImplementsLine == Line!LineSpec

(* A client whose request was accepted is answered, unless it leaves or its
   response could not be allocated; and every slot comes back. *)
AcceptedAnswered ==
    /\ \A r \in Request :
          client[r].phase = "waiting" ~>
             (client[r].phase = "gone" \/ client[r].got # None \/ r \in starved)
    /\ \A i \in Slots : slot[i].state # "free" ~> slot[i].state = "free"
=============================================================================
