------------------------------ MODULE JobLine ------------------------------
(***************************************************************************)
(* What the HTTP transport promises its clients: accepted requests stand   *)
(* in one line; each is carried out when its turn comes, once; only a read *)
(* may leave the line without being carried out; and nobody is told more   *)
(* than the outcome of his own request, or that it was not accepted.       *)
(***************************************************************************)
EXTENDS Naturals, Sequences, SequencesExt

CONSTANTS Request, Kind

VARIABLES
    line,     \* accepted requests whose turn has not come
    applied,  \* requests carried out, in order
    told      \* what each client was told: "nothing", "refused" or "own"

lineVars == <<line, applied, told>>

LineInit ==
    /\ line = <<>> /\ applied = <<>>
    /\ told = [r \in Request |-> "nothing"]

Accept(r) ==
    /\ r \notin ToSet(line) \cup ToSet(applied) /\ told[r] = "nothing"
    /\ line' = Append(line, r)
    /\ UNCHANGED <<applied, told>>

Refuse(r) ==
    /\ r \notin ToSet(line) \cup ToSet(applied) /\ told[r] = "nothing"
    /\ told' = [told EXCEPT ![r] = "refused"]
    /\ UNCHANGED <<line, applied>>

CarryOut ==
    /\ line # <<>>
    /\ line' = Tail(line) /\ applied' = Append(applied, Head(line))
    /\ UNCHANGED told

Drop ==
    /\ line # <<>> /\ Kind[Head(line)] = "read"
    /\ line' = Tail(line)
    /\ UNCHANGED <<applied, told>>

Tell(r) ==
    /\ r \in ToSet(applied) /\ told[r] = "nothing"
    /\ told' = [told EXCEPT ![r] = "own"]
    /\ UNCHANGED <<line, applied>>

LineNext == CarryOut \/ Drop \/ \E r \in Request : Accept(r) \/ Refuse(r) \/ Tell(r)

LineSpec == LineInit /\ [][LineNext]_lineVars
=============================================================================
