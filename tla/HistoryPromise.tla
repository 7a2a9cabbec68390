--------------------------- MODULE HistoryPromise --------------------------
(***************************************************************************)
(* The abstract history: one window, and the calls that change it.  The    *)
(* calls are the interface: `call` is what was asked last.                 *)
(***************************************************************************)
EXTENDS HistoryWindow

VARIABLES hist, call

NoCall == [op |-> "none"]
ClearCall(run) == [op |-> "clear", run |-> run]
PushCall(s) == [op |-> "push", sample |-> s]
RestoreCall(c) == [op |-> "restore", bucket |-> c]
FlushCall == [op |-> "flush"]

Applied(w, c) ==
    CASE c.op = "clear"   -> Empty(c.run)
      [] c.op = "push"    -> Pushed(w, c.sample)
      [] c.op = "restore" -> Restored(w, c.bucket)
      [] c.op = "flush"   -> Finalize(w)

PromiseInit == hist = Empty(0) /\ call = NoCall

PromiseNext == call' # NoCall /\ hist' = Applied(hist, call')

(* The history is always the window its calls have built. *)
PromiseSpec == PromiseInit /\ [][PromiseNext]_<<hist, call>>
=============================================================================
