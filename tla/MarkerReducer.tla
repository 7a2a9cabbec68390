--------------------------- MODULE MarkerReducer ---------------------------
(***************************************************************************)
(* lib/RunLog/MarkerReducer.cpp: what a run's event journal says of its    *)
(* markers.  A journal is the sequence of its frames; the revision of a    *)
(* frame is its position, since decoding stops at the first frame whose    *)
(* revision is not the next one.  The hash indexes of the code are lookups *)
(* over the frames ingested so far.                                        *)
(***************************************************************************)
EXTENDS Naturals, Sequences, FiniteSetsExt

CONSTANTS
    Op,      \* operation ids
    Marker,  \* marker ids
    NoOp,    \* run.started and run.ended carry no operation
    NoMarker

ASSUME ReducerAssumption == NoOp \notin Op /\ NoMarker \notin Marker

Started == [kind |-> "started", op |-> NoOp, id |-> NoMarker, base |-> 0]
Ended   == [kind |-> "ended",   op |-> NoOp, id |-> NoMarker, base |-> 0]

(* A marker mutation and the frame that records it: the note and the time are
   left out, base stands for everything a changed body could change. *)
Mutation == [kind : {"created", "updated", "deleted"}, op : Op, id : Marker, base : Nat]
Frame == Mutation \cup {Started, Ended}

(* Mutant of Recorded: the newest frame is not in the index yet. *)
RecordedButLast(journal, op) == {i \in 1..(Len(journal) - 1) : journal[i].op = op}

(* lookupOperation(): the revision that recorded the operation. *)
Recorded(journal, op) == {i \in 1..Len(journal) : journal[i].op = op}

(* lookupMarker(): the revision of the marker's latest mutation, 0 if none. *)
Latest(journal, id) ==
    Max({i \in 1..Len(journal) : journal[i].id = id} \cup {0})

Exists(journal, id) ==
    Latest(journal, id) # 0 /\ journal[Latest(journal, id)].kind # "deleted"

(* What mutateMarkerStep() requires of a mutation no journal records yet. *)
Applicable(journal, m) ==
    IF m.kind = "created" THEN m.base = 0 /\ Latest(journal, m.id) = 0
    ELSE Exists(journal, m.id) /\ m.base = Latest(journal, m.id)

(* ingestNext(): the frames a reducer that has ingested journal accepts next.
   A frame it rejects makes the whole run CORRUPT_RUN for the marker routes. *)
Accepts(journal, f) ==
    CASE f.kind = "started" -> journal = <<>>
      [] f.kind = "ended" -> journal # <<>> /\ \A i \in 1..Len(journal) : journal[i].kind # "ended"
      [] f.kind = "created" -> /\ journal # <<>> /\ Recorded(journal, f.op) = {}
                               /\ f.base = 0 /\ Latest(journal, f.id) = 0
      [] OTHER -> /\ journal # <<>> /\ Recorded(journal, f.op) = {}
                  /\ Exists(journal, f.id) /\ f.base = Latest(journal, f.id)
=============================================================================
