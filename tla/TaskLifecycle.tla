---------------------------- MODULE TaskLifecycle ----------------------------
(***************************************************************************)
(* One generation task of the queue, from submission to its terminal       *)
(* status: the row in `tasks`, the executions that worker processes run on *)
(* it, the recovery scans, the shutdown recovery, the user's cancellation, *)
(* and the settlement of the billing hold.                                 *)
(*                                                                         *)
(* Rows of different tasks meet only when they are claimed (TaskClaim), so *)
(* this module follows one row.  Every database transaction of the code is *)
(* one action; what happens between two transactions interleaves.          *)
(*                                                                         *)
(* A claim's token is a random UUID: it names one execution, and is never  *)
(* used twice.  The lease is a BOOLEAN ("lease_expires_at > now"), and so  *)
(* is `due` ("next_retry_at is null or has passed").                       *)
(***************************************************************************)
EXTENDS Integers, FiniteSets

CONSTANTS
    Token,           \* tokens, one for each claim the instance allows
    NoToken,         \* execution_token is null
    Worker,          \* worker processes
    NoWorker,        \* a token nobody has claimed with yet
    Images,          \* upstream requests one attempt fans out to
    MaxCalls,        \* no request is sent again once so many are counted
    MaxAttempts,     \* MAX_ATTEMPTS of lib/retry.ts
    AsyncRoutes,     \* the routes a channel may have: TRUE submits and polls
    Stoppable,       \* the workers that may receive SIGTERM
    NoCandidate      \* a worker's recovery has no row in hand

ASSUME ConstantsAssumption ==
    /\ Images \in Nat \ {0}
    /\ MaxCalls \in Nat
    /\ MaxAttempts \in Nat \ {0}
    /\ AsyncRoutes \subseteq BOOLEAN
    /\ Stoppable \subseteq Worker
    /\ NoToken \notin Token

VARIABLES
    row,             \* the task's row
    billing,         \* its reservation, as the finalizeTask hook leaves it
    exec,            \* the executions, by token
    worker,          \* the worker processes
    scan             \* the candidate each worker's recovery has read

vars == <<row, billing, exec, worker, scan>>

Slot     == 1 .. Images
Terminal == {"completed", "failed", "cancelled"}
Status   == {"queued", "in_progress", "reconciling"} \cup Terminal

\* What is kept of a result: every image asked for, fewer with the gap
\* recorded in partial_failure, or fewer with nothing recorded.
Payload  == {"none", "whole", "noted", "short"}

\* The outcome of callUpstream: images, or the class of what it threw.
Result   == Payload \cup {"partial", "empty", "rejected", "refused",
                          "unknown", "unknownRecon", "abort"}

\* One request of a call, which may be sent more than once: not sent yet, to be
\* sent again, about to be counted, sent; answered with an image, without one,
\* with an async id, with an error that may be retried or not; transport lost;
\* never sent because the count failed; cut off before or after it was sent.
SlotState == {"none", "again", "committing", "inflight", "ok", "empty", "accepted",
              "rejected", "refused", "unknown", "unsent", "cut", "dropped"}

Phase == {"unused", "preparing", "calling", "polling", "settling",
          "archiving", "publishing", "ended", "died"}

WorkerState == {"up", "stopping", "aborted", "recovering", "down"}

Row ==
    [status : Status, token : Token \cup {NoToken}, lease : BOOLEAN,
     due : BOOLEAN, attempts : 0 .. MaxAttempts, calls : Nat,
     ids : SUBSET Slot, archive : Payload, recon : BOOLEAN, cloud : BOOLEAN]

Billing ==
    [hold : {"held", "full", "delivered", "released"}, finals : Nat, payload : Payload]

\* Only images are archived and published.
Execution ==
    {e \in [worker : Worker \cup {NoWorker}, phase : Phase, aborted : BOOLEAN,
            async : BOOLEAN, attempts : 0 .. MaxAttempts - 1, calls : Nat,
            ids : SUBSET Slot, recon : BOOLEAN, archive : Payload, saved : BOOLEAN,
            result : Result, slot : [Slot -> SlotState]] :
        e.phase \in {"archiving", "publishing"} => e.result \in Payload}

Candidate ==
    [named : BOOLEAN, token : Token, attempts : 0 .. MaxAttempts - 1,
     calls : Nat, ids : SUBSET Slot, archive : Payload, recon : BOOLEAN]

\* Only a failed row has used up its attempts.
TypeOK ==
    /\ row \in Row
    /\ row.status # "failed" => row.attempts < MaxAttempts
    /\ row.status = "in_progress" => row.token \in Token
    /\ billing \in Billing
    /\ exec \in [Token -> Execution]
    /\ worker \in [Worker -> WorkerState]
    /\ scan \in [Worker -> Candidate \cup {NoCandidate}]

-----------------------------------------------------------------------------
(* Reading the state *)

LivePhase == Phase \ {"unused", "ended", "died"}
Live(t)   == exec[t].phase \in LivePhase

\* The executions in a worker's `running` map.
Running(w) == {t \in Token : Live(t) /\ exec[t].worker = w}

\* Mutants of Owns: a fence that forgets the status, or the lease.
OwnsWhateverStatus(t) == row.token = t /\ row.lease
OwnsWithoutLease(t) == row.status = "in_progress" /\ row.token = t

\* The fence of every write of an execution: status, token and lease.
Owns(t) == row.status = "in_progress" /\ row.token = t /\ row.lease

SlotsIn(t, S) == {s \in Slot : exec[t].slot[s] \in S}

-----------------------------------------------------------------------------
(* The writes to the row, shared by the executions and the recoveries *)

\* Mutant of Requeued: the stored upstream ids are cleared with the rest.
RequeuedFromScratch(r, attempts, due) ==
    [r EXCEPT !.status = "queued", !.token = NoToken, !.lease = FALSE,
              !.attempts = attempts, !.due = due, !.ids = {}]

Requeued(r, attempts, due) ==
    [r EXCEPT !.status = "queued", !.token = NoToken, !.lease = FALSE,
              !.attempts = attempts, !.due = due]

\* requeueTaskArchive leaves the token and the lease on the queued row.
ArchiveRequeued(r, archive, due) ==
    [r EXCEPT !.status = "queued", !.archive = archive, !.due = due]

MayReconcile(r) == r.recon /\ r.status = "in_progress" /\ r.calls > 0

Reconciling(r) ==
    [r EXCEPT !.status = "reconciling", !.token = NoToken, !.lease = FALSE,
              !.due = FALSE]

Finished(r, status, preserve) ==
    [r EXCEPT !.status = status,
              !.archive = IF preserve THEN @ ELSE "none"]

\* finalizeTask: a completed task is charged its frozen hold, or what was
\* delivered when the payload records a gap; any other outcome releases it.
Finalized(status, payload) ==
    [hold    |-> IF status # "completed" THEN "released"
                 ELSE IF payload = "noted" THEN "delivered" ELSE "full",
     finals  |-> billing.finals + 1,
     payload |-> IF status = "completed" THEN payload ELSE "none"]

\* A fenced finishTask by execution t.
Finish(t, status, payload, preserve) ==
    IF Owns(t)
    THEN /\ row' = Finished(row, status, preserve)
         /\ billing' = Finalized(status, payload)
    ELSE UNCHANGED <<row, billing>>

\* execution.reconcile: marks the row first when the error requires it.
Reconcile(t, require) ==
    LET marked == [row EXCEPT !.recon = @ \/ require] IN
    /\ row' = IF ~Owns(t) THEN row
              ELSE IF MayReconcile(marked) THEN Reconciling(marked)
              ELSE marked
    /\ UNCHANGED billing

\* execution.finish sends an unknown result to reconciliation when the task
\* asks for it.
FinishUnknown(t) ==
    IF exec[t].recon THEN Reconcile(t, FALSE)
                     ELSE Finish(t, "failed", "none", FALSE)

\* When an execution is over, or its process is, only what upstream saw of it
\* remains.
Over(t, phase) ==
    [worker |-> NoWorker, phase |-> phase, aborted |-> FALSE, async |-> FALSE,
     attempts |-> 0, calls |-> 0, ids |-> {}, recon |-> FALSE,
     archive |-> "none", saved |-> FALSE, result |-> "none",
     slot |-> exec[t].slot]

Become(t, e) == exec' = [exec EXCEPT ![t] = e]
End(t) == Become(t, Over(t, "ended"))

-----------------------------------------------------------------------------
\* Only a batch item asks for reconciliation from the start, and its task makes
\* one request.
Init ==
    /\ row \in [status : {"queued"}, token : {NoToken}, lease : {FALSE},
                due : {TRUE}, attempts : {0}, calls : {0}, ids : {{}},
                archive : {"none"}, cloud : BOOLEAN,
                recon : IF Images = 1 THEN BOOLEAN ELSE {FALSE}]
    /\ billing = [hold |-> "held", finals |-> 0, payload |-> "none"]
    /\ exec = [t \in Token |->
                 [worker |-> NoWorker, phase |-> "unused", aborted |-> FALSE,
                  async |-> FALSE, attempts |-> 0, calls |-> 0, ids |-> {},
                  recon |-> FALSE, archive |-> "none", saved |-> FALSE,
                  result |-> "none", slot |-> [s \in Slot |-> "none"]]]
    /\ worker = [w \in Worker |-> "up"]
    /\ scan = [w \in Worker |-> NoCandidate]

(***************************************************************************)
(* An execution, from its claim to its last write.                         *)
(***************************************************************************)

\* claimTaskExecution: the row is read as it is written, and the execution
\* works from that copy from here on.
Claim(w, t) ==
    /\ exec[t].phase = "unused"
    /\ worker[w] = "up"
    /\ Running(w) = {}
    /\ row.status = "queued" /\ row.due
    /\ row' = [row EXCEPT !.status = "in_progress", !.token = t, !.lease = TRUE]
    /\ Become(t, [exec[t] EXCEPT !.worker = w, !.phase = "preparing",
                                 !.attempts = row.attempts,
                                 !.calls = row.calls, !.ids = row.ids,
                                 !.recon = row.recon, !.archive = row.archive])
    /\ UNCHANGED <<billing, worker, scan>>

\* A saved result waits to be archived: the model is not called again.
PrepareArchive(t) ==
    /\ exec[t].phase = "preparing" /\ exec[t].archive # "none"
    /\ Become(t, [exec[t] EXCEPT !.phase = "archiving", !.saved = TRUE,
                                 !.result = exec[t].archive])
    /\ UNCHANGED <<row, billing, worker, scan>>

\* preserveInputs is fenced; a task that does not preserve its inputs calls
\* upstream without touching the row.  Stored ids are polled, never resubmitted.
PrepareInputs(t) ==
    /\ exec[t].phase = "preparing" /\ exec[t].archive = "none"
    /\ IF (exec[t].recon \/ row.cloud) /\ ~Owns(t)
       THEN End(t)
       ELSE \E async \in AsyncRoutes :
              Become(t, [exec[t] EXCEPT
                  !.async = async,
                  !.phase = IF exec[t].ids = {} THEN "calling" ELSE "polling"])
    /\ UNCHANGED <<row, billing, worker, scan>>

\* Reading the inputs fails (object storage): never worth a retry.
PrepareFails(t) ==
    /\ exec[t].phase = "preparing" /\ exec[t].archive = "none"
    /\ Become(t, [exec[t] EXCEPT !.phase = "settling", !.result = "refused"])
    /\ UNCHANGED <<row, billing, worker, scan>>

SetSlot(t, s, state) == Become(t, [exec[t] EXCEPT !.slot[s] = state])

\* performFetch reads the signal, then awaits the count of the invocation.
BeginDispatch(t, s) ==
    /\ exec[t].phase = "calling" /\ exec[t].slot[s] \in {"none", "again"}
    /\ SetSlot(t, s, IF exec[t].aborted THEN "cut" ELSE "committing")
    /\ UNCHANGED <<row, billing, worker, scan>>

\* The request waited for its turn until the hard timeout: it was not sent.
QueueTimesOut(t, s) ==
    /\ exec[t].phase = "calling" /\ exec[t].slot[s] \in {"none", "again"}
    /\ SetSlot(t, s, "refused")
    /\ UNCHANGED <<row, billing, worker, scan>>

\* recordUpstreamInvocation / recordDispatchIntent.  The transport starts in
\* the same turn of the event loop; an abort that came first then cuts it off.
CommitDispatch(t, s) ==
    /\ exec[t].phase = "calling" /\ exec[t].slot[s] = "committing"
    /\ IF Owns(t)
       THEN /\ row' = [row EXCEPT !.calls = @ + 1]
            /\ SetSlot(t, s, IF exec[t].aborted THEN "dropped" ELSE "inflight")
       ELSE /\ Become(t, [exec[t] EXCEPT !.slot[s] = "cut", !.aborted = TRUE])
            /\ UNCHANGED row
    /\ UNCHANGED <<billing, worker, scan>>

\* The count itself fails; whether it reached the database is not known.
DispatchFails(t, s) ==
    /\ exec[t].phase = "calling" /\ exec[t].slot[s] = "committing"
    /\ row' \in {row} \cup (IF Owns(t) THEN {[row EXCEPT !.calls = @ + 1]} ELSE {})
    /\ SetSlot(t, s, IF exec[t].aborted THEN "refused" ELSE "unsent")
    /\ UNCHANGED <<billing, worker, scan>>

Respond(t, s) ==
    /\ exec[t].phase = "calling" /\ exec[t].slot[s] = "inflight"
    /\ \E answer \in {"rejected", "refused", "unknown"}
                     \cup (IF exec[t].async THEN {"accepted"} ELSE {"ok", "empty"})
                     \cup (IF exec[t].aborted THEN {"dropped"} ELSE {}) :
         SetSlot(t, s, answer)
    /\ UNCHANGED <<row, billing, worker, scan>>

\* A request that was turned away for certain is sent again inside the call, and
\* counted again: after the backoff of a 429, to the fallback model, or with the
\* next key.
SendAgain(t, s) ==
    /\ exec[t].phase = "calling" /\ exec[t].slot[s] = "inflight"
    /\ row.calls < MaxCalls
    /\ SetSlot(t, s, "again")
    /\ UNCHANGED <<row, billing, worker, scan>>

\* The second route of callGptDualRoute, once the first has failed for certain.
\* (When the first is left in doubt the call is DirectRoute's.)
SwitchRoute(t) ==
    /\ exec[t].phase = "calling" /\ ~exec[t].aborted
    /\ SlotsIn(t, {"rejected"}) # {} /\ SlotsIn(t, {"rejected", "refused"}) = Slot
    /\ row.calls < MaxCalls
    /\ \E async \in AsyncRoutes :
         Become(t, [exec[t] EXCEPT !.async = async, !.slot = [s \in Slot |-> "again"]])
    /\ UNCHANGED <<row, billing, worker, scan>>

\* What a failed request throws, by its slot.
ErrorOf(state) ==
    CASE state \in {"unknown", "unsent"} -> "unknown"
      [] state = "rejected"              -> "rejected"
      [] state = "refused"               -> "refused"
      [] OTHER                           -> "abort"

FailedSlots(t)  == SlotsIn(t, SlotState \ {"ok", "empty", "accepted"})
UnknownSlots(t) == SlotsIn(t, {"unknown", "unsent"})
FirstError(t)   ==
    ErrorOf(exec[t].slot[CHOOSE s \in FailedSlots(t) :
                            \A r \in FailedSlots(t) : s <= r])

\* fanOutRequests / collectFanOutResults over the settled requests.
SyncResult(t) ==
    LET images    == SlotsIn(t, {"ok"})
        delivered == SlotsIn(t, {"ok", "empty"})
    IN CASE FailedSlots(t) = {} ->
              IF images = {} THEN "empty" ELSE IF images = Slot THEN "whole" ELSE "short"
         [] FailedSlots(t) # {} /\ exec[t].recon ->
              IF delivered # {} \/ UnknownSlots(t) # {} THEN "unknown" ELSE FirstError(t)
         [] FailedSlots(t) # {} /\ ~exec[t].recon /\ UnknownSlots(t) # {} ->
              IF delivered # {} /\ ~exec[t].aborted THEN "unknownRecon" ELSE "unknown"
         [] OTHER ->
              IF delivered = {} \/ exec[t].aborted THEN FirstError(t)
              ELSE IF images = {} THEN "empty" ELSE "noted"

\* fanOutFailure prefers an unknown outcome only when the task is already
\* marked for reconciliation; otherwise the first failure decides.
AsyncError(t) ==
    IF exec[t].recon /\ UnknownSlots(t) # {} THEN "unknown" ELSE FirstError(t)

Settled(t) == SlotsIn(t, {"none", "again", "committing", "inflight"}) = {}

Collect(t) ==
    /\ exec[t].phase = "calling" /\ Settled(t) /\ ~exec[t].async
    /\ Become(t, [exec[t] EXCEPT !.phase = "settling", !.result = SyncResult(t)])
    /\ UNCHANGED <<row, billing, worker, scan>>

\* collectTaskIds: every accepted id is stored in one fenced write, which may
\* fail; then a failure among the requests ends the call, else polling starts.
CollectIds(t) ==
    LET accepted == SlotsIn(t, {"accepted"})
        result == IF FailedSlots(t) = {} THEN "none"
                  ELSE IF accepted # {} THEN "unknownRecon" ELSE AsyncError(t)
        phase  == IF result = "none" THEN "polling" ELSE "settling"
        stored == [row EXCEPT !.ids = accepted]
    IN /\ exec[t].phase = "calling" /\ Settled(t) /\ exec[t].async
       /\ \/ /\ row' = IF accepted # {} /\ Owns(t) THEN stored ELSE row
             /\ Become(t, [exec[t] EXCEPT !.phase = phase, !.result = result,
                                          !.aborted = @ \/ (accepted # {} /\ ~Owns(t))])
          \/ /\ accepted # {}                     \* it failed, committed or not
             /\ Become(t, [exec[t] EXCEPT !.phase = "settling", !.result = "unknownRecon"])
             /\ row' \in {row} \cup (IF Owns(t) THEN {stored} ELSE {})
       /\ UNCHANGED <<billing, worker, scan>>

\* The ids execution t polls, and how many results it expects: the count of
\* every request the row ever made, when it resumes stored ids.
PolledIds(t) == IF exec[t].ids # {} THEN exec[t].ids ELSE SlotsIn(t, {"accepted"})
Expected(t)  == IF exec[t].ids # {} THEN exec[t].calls ELSE Images

\* Polling to the end, with the final lookup after the hard timeout.
Poll(t) ==
    /\ exec[t].phase = "polling"
    /\ \E result \in {"rejected", "refused", "unknown"}
                     \cup (IF exec[t].aborted THEN {"abort"} ELSE {})
                     \cup (IF Cardinality(PolledIds(t)) < Expected(t) THEN {"partial"}
                           ELSE {"whole", "empty"}
                                \cup (IF Images > 1 THEN {"short"} ELSE {})) :
         Become(t, [exec[t] EXCEPT !.phase = "settling", !.result = result])
    /\ UNCHANGED <<row, billing, worker, scan>>

-----------------------------------------------------------------------------
(* What an execution does with the outcome of the call.  Each of its writes  *)
(* is a transaction of its own, so a takeover, a cancellation or a crash can *)
(* come between any two of them.                                             *)

\* Images arrived.  An account's task checkpoints its payload first; when the
\* checkpoint cannot be written the bytes in hand are archived all the same.
SettleImages(t) ==
    /\ exec[t].phase = "settling" /\ exec[t].result \in Payload
    /\ IF ~row.cloud
       THEN /\ Become(t, [exec[t] EXCEPT !.phase = "archiving"])
            /\ UNCHANGED row
       ELSE \/ /\ Owns(t)
               /\ row' = [row EXCEPT !.archive = exec[t].result]
               /\ Become(t, [exec[t] EXCEPT !.phase = "archiving",
                                            !.archive = exec[t].result])
            \/ /\ ~Owns(t) /\ End(t) /\ UNCHANGED row
            \/ /\ Become(t, [exec[t] EXCEPT !.phase = "archiving",
                                            !.archive = exec[t].result])
               /\ UNCHANGED row
    /\ UNCHANGED <<billing, worker, scan>>

\* Every polled id answered, but the row counts more requests than ids.  A task
\* under reconciliation is never requeued for polling, so it does not get here.
SettlePartial(t) ==
    LET found == IF PolledIds(t) = Slot THEN "whole" ELSE "short" IN
    /\ exec[t].phase = "settling" /\ exec[t].result = "partial"
    /\ ~exec[t].recon
    /\ \/ /\ row.cloud                          \* deliver what there is
          /\ row' = IF Owns(t) THEN ArchiveRequeued(row, found, FALSE) ELSE row
          /\ UNCHANGED billing
       \/ Finish(t, "failed", "none", FALSE)     \* nothing kept
    /\ End(t)
    /\ UNCHANGED <<worker, scan>>

SettleUnknown(t) ==
    /\ exec[t].phase = "settling"
    /\ \/ exec[t].result = "unknown" /\ FinishUnknown(t)
       \/ exec[t].result = "unknownRecon" /\ Reconcile(t, TRUE)
    /\ End(t)
    /\ UNCHANGED <<worker, scan>>

\* Mutants of SettleRetry: no last attempt, and an attempt that is not counted.
RetryForever(t) ==
    /\ exec[t].phase = "settling" /\ exec[t].result \in {"rejected", "empty"}
    /\ ~exec[t].recon
    /\ row' = IF Owns(t) THEN Requeued(row, exec[t].attempts + 1, FALSE) ELSE row
    /\ End(t)
    /\ UNCHANGED <<billing, worker, scan>>

RetryUncounted(t) ==
    /\ exec[t].phase = "settling" /\ exec[t].result \in {"rejected", "empty"}
    /\ ~exec[t].recon /\ exec[t].attempts + 1 < MaxAttempts
    /\ row' = IF Owns(t) THEN Requeued(row, exec[t].attempts, FALSE) ELSE row
    /\ End(t)
    /\ UNCHANGED <<billing, worker, scan>>

\* tryScheduleRetry: never for a task under reconciliation, and not past the
\* last attempt.  Masked edits and refused prompts skip it.
SettleRetry(t) ==
    /\ exec[t].phase = "settling" /\ exec[t].result \in {"rejected", "empty"}
    /\ ~exec[t].recon /\ exec[t].attempts + 1 < MaxAttempts
    /\ row' = IF Owns(t) THEN Requeued(row, exec[t].attempts + 1, FALSE) ELSE row
    /\ End(t)
    /\ UNCHANGED <<billing, worker, scan>>

SettleFailure(t) ==
    /\ exec[t].phase = "settling"
    /\ exec[t].result \in {"rejected", "refused", "empty"}
    /\ Finish(t, "failed", "none", FALSE)
    /\ End(t)
    /\ UNCHANGED <<worker, scan>>

\* AbortError: whoever aborted the execution writes the row, not the execution.
SettleAbort(t) ==
    /\ exec[t].phase = "settling" /\ exec[t].result = "abort"
    /\ End(t)
    /\ UNCHANGED <<row, billing, worker, scan>>

\* The bytes are in the store; an account's task checkpoints that.
Spool(t) ==
    /\ exec[t].phase = "archiving"
    /\ IF exec[t].archive = "none" \/ Owns(t)
       THEN /\ Become(t, [exec[t] EXCEPT !.phase = "publishing"])
            /\ row' = IF exec[t].archive = "none" THEN row
                      ELSE [row EXCEPT !.archive = exec[t].archive]
       ELSE End(t) /\ UNCHANGED row
    /\ UNCHANGED <<billing, worker, scan>>

Publish(t) ==
    /\ exec[t].phase = "publishing"
    /\ Finish(t, "completed", exec[t].result, FALSE)
    /\ End(t)
    /\ UNCHANGED <<worker, scan>>

\* An archive retry finds an original gone: its result stays unknown.
PublishMissing(t) ==
    /\ exec[t].phase = "publishing"
    /\ exec[t].saved
    /\ FinishUnknown(t)
    /\ End(t)
    /\ UNCHANGED <<worker, scan>>

\* Archiving fails: a saved payload goes back to the queue to be archived again,
\* until its hour is over; without one the failure is judged like upstream's.
ArchiveFails(t) ==
    /\ exec[t].phase \in {"archiving", "publishing"}
    /\ \/ /\ exec[t].archive # "none"
          /\ row' = IF Owns(t) THEN ArchiveRequeued(row, exec[t].archive, FALSE) ELSE row
          /\ End(t) /\ UNCHANGED billing
       \/ /\ exec[t].archive # "none"
          /\ Finish(t, "failed", "none", TRUE) /\ End(t)
       \/ /\ \E class \in {"rejected", "refused"} :
               /\ exec[t].archive # "none" => class = "refused"
               /\ Become(t, [exec[t] EXCEPT !.phase = "settling", !.result = class])
          /\ UNCHANGED <<row, billing>>
       \/ exec[t].aborted /\ End(t) /\ UNCHANGED <<row, billing>>
    /\ UNCHANGED <<worker, scan>>

\* An archive retry finds its hour over before it starts.
ArchiveExpires(t) ==
    /\ exec[t].phase = "preparing" /\ exec[t].archive # "none"
    /\ Finish(t, "failed", "none", TRUE)
    /\ End(t)
    /\ UNCHANGED <<worker, scan>>

\* executeTask throws (a write of its catch clause failed): runTask reconciles
\* or fails the row, and when these writes fail too the row is left as it is.
Interrupted(t) ==
    /\ exec[t].phase \in {"preparing", "settling", "archiving", "publishing"}
    /\ \/ /\ Owns(t) /\ MayReconcile(row) /\ Reconcile(t, FALSE)
       \/ /\ ~(Owns(t) /\ MayReconcile(row))
          /\ Finish(t, "failed", "none", TRUE)
       \/ UNCHANGED <<row, billing>>
    /\ End(t)
    /\ UNCHANGED <<worker, scan>>

\* The heartbeat finds the row in other hands, or fails so close to the end of
\* the lease that it gives up (leaseLostAfterFailedRenewal); or the scheduler
\* sees that the row is no longer in progress.
LoseLease(t) ==
    /\ Live(t) /\ ~exec[t].aborted
    /\ Become(t, [exec[t] EXCEPT !.aborted = TRUE])
    /\ UNCHANGED <<row, billing, worker, scan>>

(***************************************************************************)
(* The other writers of the row.                                           *)
(***************************************************************************)

\* Mutants of Cancel: the status is not read again under the lock, a counted
\* request is forgotten, or a reconciling task may be cancelled.
CancelUnlocked ==
    /\ row' = [row EXCEPT !.status = "cancelled"]
    /\ billing' = Finalized("cancelled", "none")
    /\ UNCHANGED <<exec, worker, scan>>

CancelOutright ==
    /\ row.status \in {"queued", "in_progress"}
    /\ row' = [row EXCEPT !.status = "cancelled"]
    /\ billing' = Finalized("cancelled", "none")
    /\ UNCHANGED <<exec, worker, scan>>

CancelReconciling ==
    /\ row.status \in {"queued", "in_progress", "reconciling"}
    /\ IF MayReconcile(row)
       THEN row' = Reconciling(row) /\ UNCHANGED billing
       ELSE /\ row' = [row EXCEPT !.status = "cancelled"]
            /\ billing' = Finalized("cancelled", "none")
    /\ UNCHANGED <<exec, worker, scan>>

\* cancelTasks: one transaction under row locks.  A counted request of a task
\* under reconciliation keeps its hold; anything else is cancelled.
Cancel ==
    /\ row.status \in {"queued", "in_progress"}
    /\ IF MayReconcile(row)
       THEN row' = Reconciling(row) /\ UNCHANGED billing
       ELSE /\ row' = [row EXCEPT !.status = "cancelled"]
            /\ billing' = Finalized("cancelled", "none")
    /\ UNCHANGED <<exec, worker, scan>>

\* The last transaction of a reconciliation command: finishTask on a
\* reconciling row.  A saved payload is delivered as it is; any other result
\* was looked up or given by an operator, and is whole.
SettleReconciliation ==
    /\ row.status = "reconciling" /\ row.recon
    /\ \E status \in {"completed", "failed"},
          payload \in {"whole"} \cup ({row.archive} \ {"none"}) :
         /\ row' = Finished(row, status, FALSE)
         /\ billing' = Finalized(status, payload)
    /\ UNCHANGED <<exec, worker, scan>>

LeaseExpires ==
    /\ row.status = "in_progress" /\ row.lease
    /\ row' = [row EXCEPT !.lease = FALSE]
    /\ UNCHANGED <<billing, exec, worker, scan>>

BackoffPasses ==
    /\ row.status = "queued" /\ ~row.due
    /\ row' = [row EXCEPT !.due = TRUE]
    /\ UNCHANGED <<billing, exec, worker, scan>>

\* Mutant of CandidateOf: upstream_invocation_count is not selected.
CandidateWithoutCalls(named) ==
    [named |-> named, token |-> row.token, attempts |-> row.attempts,
     calls |-> 0, ids |-> row.ids, archive |-> row.archive, recon |-> row.recon]

CandidateOf(named) ==
    [named |-> named, token |-> row.token, attempts |-> row.attempts,
     calls |-> row.calls, ids |-> row.ids, archive |-> row.archive,
     recon |-> row.recon]

\* Mutant of ScanRead: rows with upstream ids are left to whoever polls them.
ScanReadUnsubmitted(w) ==
    /\ worker[w] = "up" /\ scan[w] = NoCandidate
    /\ row.status = "in_progress" /\ ~row.lease /\ Running(w) = {}
    /\ row.ids = {}
    /\ scan' = [scan EXCEPT ![w] = CandidateOf(FALSE)]
    /\ UNCHANGED <<row, billing, exec, worker>>

\* recoverAbandonedTasks reads the rows whose lease is over, except its own.
ScanRead(w) ==
    /\ worker[w] = "up" /\ scan[w] = NoCandidate
    /\ row.status = "in_progress" /\ ~row.lease /\ Running(w) = {}
    /\ scan' = [scan EXCEPT ![w] = CandidateOf(FALSE)]
    /\ UNCHANGED <<row, billing, exec, worker>>

\* recoverTasks decides on what it read and writes if the row is still in
\* progress under the same token (and, for the scan, still out of its lease).
RecoverWrite(w) ==
    LET c == scan[w]
        failed == c.attempts + 1
        covered == /\ row.status = "in_progress" /\ row.token = c.token
                   /\ c.named \/ ~row.lease
    IN /\ c # NoCandidate
       /\ CASE ~covered -> UNCHANGED <<row, billing>>
            [] covered /\ c.archive # "none" ->
                 row' = ArchiveRequeued(row, c.archive, TRUE) /\ UNCHANGED billing
            [] covered /\ c.archive = "none" /\ c.recon /\ c.calls > 0 ->
                 /\ row' = IF MayReconcile(row) THEN Reconciling(row) ELSE row
                 /\ UNCHANGED billing
            [] covered /\ c.archive = "none" /\ ~(c.recon /\ c.calls > 0) /\ c.ids # {} ->
                 row' = Requeued(row, row.attempts, TRUE) /\ UNCHANGED billing
            [] OTHER ->
                 IF c.calls = 0 /\ failed < MaxAttempts
                 THEN row' = Requeued(row, failed, FALSE) /\ UNCHANGED billing
                 ELSE /\ row' = [Finished(row, "failed", FALSE) EXCEPT !.attempts = failed]
                      /\ billing' = Finalized("failed", "none")
       /\ scan' = [scan EXCEPT ![w] = NoCandidate]

RecoverScanned(w) ==
    /\ worker[w] = "up" /\ RecoverWrite(w)
    /\ UNCHANGED <<exec, worker>>

(***************************************************************************)
(* The worker processes.                                                   *)
(***************************************************************************)

Killed(w) ==
    [t \in Token |-> IF t \in Running(w) THEN Over(t, "died") ELSE exec[t]]

\* SIGTERM: no more claims and scans; the running tasks may drain.
Terminate(w) ==
    /\ w \in Stoppable /\ worker[w] = "up" /\ scan[w] = NoCandidate
    /\ worker' = [worker EXCEPT ![w] = "stopping"]
    /\ UNCHANGED <<row, billing, exec, scan>>

\* Everything drained: the process exits.
Drained(w) ==
    /\ worker[w] = "stopping" /\ Running(w) = {}
    /\ worker' = [worker EXCEPT ![w] = "down"]
    /\ UNCHANGED <<row, billing, exec, scan>>

\* The drain window is over: the ids of the running tasks are taken down and
\* all of them are aborted.
AbortAll(w) ==
    /\ worker[w] = "stopping" /\ Running(w) # {}
    /\ worker' = [worker EXCEPT ![w] = "aborted"]
    /\ exec' = [t \in Token |-> IF t \in Running(w)
                                THEN [exec[t] EXCEPT !.aborted = TRUE] ELSE exec[t]]
    /\ UNCHANGED <<row, billing, scan>>

\* After the settle window, recoverTasksByIds reads the named rows that are in
\* progress, whoever holds them.
NamedRead(w) ==
    /\ worker[w] = "aborted"
    /\ IF row.status = "in_progress"
       THEN /\ scan' = [scan EXCEPT ![w] = CandidateOf(TRUE)]
            /\ worker' = [worker EXCEPT ![w] = "recovering"]
            /\ UNCHANGED exec
       ELSE /\ worker' = [worker EXCEPT ![w] = "down"]
            /\ exec' = Killed(w)
            /\ UNCHANGED scan
    /\ UNCHANGED <<row, billing>>

RecoverNamed(w) ==
    /\ worker[w] = "recovering" /\ RecoverWrite(w)
    /\ worker' = [worker EXCEPT ![w] = "down"]
    /\ exec' = Killed(w)

Crash(w) ==
    /\ worker[w] # "down"
    /\ worker' = [worker EXCEPT ![w] = "down"]
    /\ exec' = Killed(w)
    /\ scan' = [scan EXCEPT ![w] = NoCandidate]
    /\ UNCHANGED <<row, billing>>

Restart(w) ==
    /\ worker[w] = "down"
    /\ worker' = [worker EXCEPT ![w] = "up"]
    /\ UNCHANGED <<row, billing, exec, scan>>

-----------------------------------------------------------------------------
Request(t, s) ==
    BeginDispatch(t, s) \/ QueueTimesOut(t, s) \/ CommitDispatch(t, s)
    \/ DispatchFails(t, s) \/ Respond(t, s) \/ SendAgain(t, s)

Execute(t) ==
    \/ PrepareArchive(t) \/ PrepareInputs(t) \/ PrepareFails(t) \/ ArchiveExpires(t)
    \/ \E s \in Slot : Request(t, s)
    \/ SwitchRoute(t) \/ Collect(t) \/ CollectIds(t) \/ Poll(t)
    \/ SettleImages(t) \/ SettlePartial(t) \/ SettleUnknown(t)
    \/ SettleRetry(t) \/ SettleFailure(t) \/ SettleAbort(t)
    \/ Spool(t) \/ Publish(t) \/ PublishMissing(t) \/ ArchiveFails(t)
    \/ Interrupted(t)

Recover(w) == ScanRead(w) \/ RecoverScanned(w)

Process(w) ==
    Terminate(w) \/ Drained(w) \/ AbortAll(w) \/ NamedRead(w)
    \/ RecoverNamed(w) \/ Crash(w) \/ Restart(w)

Next ==
    \/ \E w \in Worker, t \in Token : Claim(w, t)
    \/ \E t \in Token : Execute(t) \/ LoseLease(t)
    \/ \E w \in Worker : Recover(w) \/ Process(w)
    \/ Cancel \/ SettleReconciliation \/ LeaseExpires \/ BackoffPasses

Spec == Init /\ [][Next]_vars

-----------------------------------------------------------------------------
(* What must hold *)

\* Upstream may still be working on, or have finished and billed, a request
\* whose outcome the row cannot tell.
Unresolved(t) ==
    \/ SlotsIn(t, {"inflight", "dropped", "unknown"}) # {}
    \/ ~(SlotsIn(t, {"accepted"}) \subseteq row.ids)

\* The reservation is settled when, and only when, the row becomes terminal;
\* it is settled once, and the way the status says: finishTask and cancelTasks
\* do both in one transaction, whoever races for the row.
HoldSettledOnce ==
    /\ billing.finals = IF row.status \in Terminal THEN 1 ELSE 0
    /\ billing.hold = "held"     <=> row.status \notin Terminal
    /\ billing.hold = "released" <=> row.status \in {"failed", "cancelled"}

\* A terminal row is never written again: not by the execution that was cut
\* off, not by one that lost its lease, not by a recovery with an old candidate.
TerminalIsFinal ==
    [][row.status \in Terminal =>
          row'.status = row.status /\ row'.archive = row.archive /\ billing' = billing]_vars

\* Once upstream ids are stored they are only polled: no later execution,
\* retry or recovery drops them or sends one more counted request.
StoredIdsOnlyPolled ==
    [][row.ids # {} => row'.ids = row.ids /\ row'.calls = row.calls]_vars

\* A request is sent for the row only while every request of every other
\* execution has an outcome the row knows: nothing is generated twice because
\* the first answer was lost.
NoRepeatWhileUnresolved ==
    [][row'.calls > row.calls =>
          \A t \in Token : t # row.token => ~Unresolved(t)]_vars

\* A task under reconciliation with an unresolved request keeps its hold until
\* a reconciliation command decides: no failure, cancellation, recovery or
\* retry releases or charges it.
UnresolvedHoldKept ==
    [][/\ row.recon /\ billing.hold = "held" /\ billing'.hold # "held"
       /\ \E t \in Token : Unresolved(t)
       => row.status = "reconciling"]_vars

\* Whatever crashes and recovers, at most MaxAttempts executions of a task turn to
\* upstream: a requeue uses up an attempt, or hands over stored ids or a saved
\* payload and nothing is sent for it again.  (How often one execution sends is
\* bounded by its backoffs, keys and routes, not by the attempts.)
AttemptBudget ==
    Cardinality({t \in Token : \E s \in Slot : exec[t].slot[s] # "none"}) <= MaxAttempts

\* The row and its hold do what TaskSettlement promises, whoever writes them: a
\* reconciling task never goes back to the queue and is never cancelled, and the
\* charge is decided in the step that ends the task.
Settlement ==
    INSTANCE TaskSettlement WITH
        stage  <- IF row.status \in {"queued", "in_progress"} THEN "open" ELSE row.status,
        charge <- billing.hold

SettlementKept == Settlement!Spec

\* The scan acts on a row it read in an earlier transaction; when its write
\* still finds that row, nothing it decided on has changed meanwhile.
ScanIsCurrent ==
    \A w \in Worker :
        /\ scan[w] # NoCandidate
        /\ row.status = "in_progress" /\ ~row.lease /\ row.token = scan[w].token
        /\ ~scan[w].named
        => scan[w] = CandidateOf(FALSE)

\* The rows that the shutdown recovery writes are those of executions whose
\* upstream requests were cut off (db/maintenance.ts: "their fetches are
\* already broken, but nobody wrote a terminal status").
NamedExecutionIsCutOff ==
    \A w \in Worker :
        worker[w] = "recovering" /\ Live(scan[w].token)
            => exec[scan[w].token].aborted

\* A result counts as partial only when an accepted request is missing from
\* it (lib/upstream/errors.ts: "some images done, the rest unknown").
PartialLacksAnImage ==
    \A t \in Token : exec[t].result = "partial" => PolledIds(t) # Slot

-----------------------------------------------------------------------------
(* Progress.  An execution comes to an end: upstream calls have a hard       *)
(* timeout.  A lease runs out once its execution no longer renews it.  A     *)
(* worker comes back and, again and again, stays up long enough to scan; a   *)
(* scan also happens between two claims of a busy worker.                    *)

Orphaned == row.status = "in_progress" /\ (row.token \in Token => ~Live(row.token))

FairSpec ==
    /\ Spec
    /\ \A t \in Token : WF_vars(Execute(t))
    /\ WF_vars(Orphaned /\ LeaseExpires)
    /\ \A w \in Worker :
         /\ WF_vars(Restart(w))
         /\ WF_vars(Drained(w) \/ AbortAll(w) \/ NamedRead(w) \/ RecoverNamed(w))
    /\ SF_vars(\E w \in Worker : ScanRead(w))
    /\ SF_vars(\E w \in Worker : RecoverScanned(w))

\* A task whose execution died, gave up or could not write is taken over: it
\* is queued again, reconciled or ended.
OrphanIsRecovered == Orphaned ~> row.status # "in_progress"

=============================================================================
