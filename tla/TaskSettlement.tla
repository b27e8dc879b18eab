--------------------------- MODULE TaskSettlement ---------------------------
(***************************************************************************)
(* What the queue promises whoever pays for a generation task, with no     *)
(* word about workers, leases or upstream.  The task is open; it may be    *)
(* put aside for reconciliation, from where only a decision of success or  *)
(* failure gets it out; and it ends once, charged if and only if it        *)
(* completed.  (db/task-transitions.ts: finishTask, cancelTasks,           *)
(* reconcileTasks.)                                                        *)
(***************************************************************************)
VARIABLES
    stage,           \* "open" stands for queued and in_progress
    charge           \* what became of the credits put on hold

Ended == {"completed", "failed", "cancelled"}

Init == stage = "open" /\ charge = "held"

PutAside ==
    /\ stage = "open"
    /\ stage' = "reconciling"
    /\ UNCHANGED charge

Settle(outcome) ==
    /\ stage \notin Ended
    /\ outcome = "cancelled" => stage = "open"
    /\ stage' = outcome
    /\ charge' \in IF outcome = "completed" THEN {"full", "delivered"}
                                            ELSE {"released"}

Next == PutAside \/ \E outcome \in Ended : Settle(outcome)

Spec == Init /\ [][Next]_<<stage, charge>>

=============================================================================
