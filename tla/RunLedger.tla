----------------------------- MODULE RunLedger -----------------------------
(***************************************************************************)
(* What the run archive promises to whoever reads it after a power loss:   *)
(* a ledger of runs.  At most one run is open; its log only grows; a run   *)
(* is concluded once; a run concluded healthy is frozen; a new run is      *)
(* numbered above every run present; a run leaves only as a whole.         *)
(***************************************************************************)
EXTENDS Naturals, Sequences, SequencesExt

CONSTANTS Run, Reading, Verdict, StorageError, Unended

VARIABLES
    phase,    \* "absent", "open" or "closed", for each run
    log,      \* the records certain to survive
    outcome   \* the terminal status certain to survive

ledgerVars == <<phase, log, outcome>>

LedgerInit ==
    /\ phase = [r \in Run |-> "absent"]
    /\ log = [r \in Run |-> <<>>]
    /\ outcome = [r \in Run |-> Unended]

Same(r) == phase'[r] = phase[r] /\ log'[r] = log[r] /\ outcome'[r] = outcome[r]

(* A run appears, opened for writing or abandoned half made. *)
Create(r) ==
    /\ phase[r] = "absent" /\ phase'[r] \in {"open", "closed"}
    /\ \A s \in Run : phase[s] # "absent" => s < r
    /\ \A s \in Run : phase[s] # "open"
    /\ log'[r] = <<>> /\ outcome'[r] = Unended

(* The open run gains records, and may end with or without a verdict. *)
Write(r) ==
    /\ phase[r] = "open" /\ phase'[r] \in {"open", "closed"}
    /\ IsPrefix(log[r], log'[r])
    /\ outcome'[r] # Unended => phase'[r] = "closed"

(* A run that stopped on an error may turn out to hold more than was promised:
   records or a verdict written but never acknowledged. *)
Settle(r) ==
    /\ phase[r] = "closed" /\ phase'[r] = "closed"
    /\ IsPrefix(log[r], log'[r])
    /\ outcome[r] # Unended => outcome'[r] = outcome[r]
    /\ outcome[r] \notin {Unended, StorageError} => log'[r] = log[r]

Depart(r) ==
    /\ phase[r] = "closed" /\ phase'[r] = "absent"
    /\ log'[r] = <<>> /\ outcome'[r] = Unended

LedgerNext ==
    \A r \in Run : Same(r) \/ Create(r) \/ Write(r) \/ Settle(r) \/ Depart(r)

LedgerSpec == LedgerInit /\ [][LedgerNext]_ledgerVars
=============================================================================
