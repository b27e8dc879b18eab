--------------------------- MODULE DecisionLedger ---------------------------
(***************************************************************************)
(* What reconciliation promises whoever audits it.  A command is answered  *)
(* at most once, and its entry stays as it was written.  An entry leaves   *)
(* the task undecided or decides it, in the same step as the hold is       *)
(* settled; once it is decided nothing is entered any more.                *)
(* (lib/task-reconciliation.ts: reconcileTask.)                            *)
(***************************************************************************)
CONSTANTS
    Commands,        \* command ids
    Entries,         \* answers; each has a status
    NoEntry          \* the command has not been answered

VARIABLES
    ledger,          \* the entry of each command
    status,          \* "reconciling", "completed" or "failed"
    charge           \* what became of the credits on hold

Init ==
    /\ ledger = [c \in Commands |-> NoEntry]
    /\ status = "reconciling"
    /\ charge = "held"

\* The new entry is whatever the ledger says of c afterwards.
Answer(c) ==
    LET e == ledger'[c] IN
    /\ status = "reconciling" /\ ledger[c] = NoEntry
    /\ e \in Entries /\ ledger' = [ledger EXCEPT ![c] = e]
    /\ status' = e.status
    /\ charge' = CASE e.status = "completed" -> "charged"
                   [] e.status = "failed"    -> "released"
                   [] OTHER                  -> "held"

Next == \E c \in Commands : Answer(c)

Spec == Init /\ [][Next]_<<ledger, status, charge>>

=============================================================================
