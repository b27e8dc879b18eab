------------------------- MODULE TaskReconciliation -------------------------
(***************************************************************************)
(* What happens to a task once it waits for reconciliation: the commands   *)
(* operators send, with their leases and audits; the sweeps in which       *)
(* workers look up its result by themselves, and refund it when there is   *)
(* none; and the answers of upstream that executions cut off earlier still *)
(* report.                                                                 *)
(*                                                                         *)
(* A call of reconcileTask is a claim in one transaction, work outside any *)
(* transaction, and a decision in another one.  `window` counts the five   *)
(* minute intervals (AUTO_RECONCILE_AFTER_MS) since the task entered       *)
(* reconciliation.                                                         *)
(***************************************************************************)
EXTENDS Integers, FiniteSets

CONSTANTS
    Call,            \* calls of reconcileTask; each makes its own token
    NoCall,          \* execution_token is null; a sweep waits for no call
    Command,         \* command ids of operators
    Evidence,        \* what an operator may write, and confirm as a result
    System,          \* the evidence of a sweep
    Sweep,           \* runs of the stale scan timer, in any worker
    UpstreamId,      \* ids of the requests counted for the task
    MaxWindow,       \* bound on the window
    NoEntry          \* no audit has this id

ASSUME ConstantsAssumption ==
    /\ NoCall \notin Call
    /\ System \notin Evidence
    /\ MaxWindow \in Nat
    /\ IsFiniteSet(UpstreamId)
    /\ Evidence \cap {"none", "saved", "polled"} = {}

VARIABLES
    row,             \* the task's row, with the ids its dispatches recorded
    billing,         \* its reservation
    audits,          \* the audit of each command
    started,         \* what its ":started" audit says
    call,            \* the calls
    files,           \* what lies under each output prefix
    sweep,           \* the sweeps
    window,          \* the time
    upstream         \* what each request will have come to when it ends

vars == <<row, billing, audits, started, call, files, sweep, window, upstream>>

Window   == 0 .. MaxWindow
Decided  == {"completed", "failed"}

\* A command id of a sweep: one look-up in a window, one verdict for good.
AutoLookup(w) == <<"auto-lookup", w>>
AutoNone      == <<"auto-none", 0>>
Commands      == Command \cup {AutoLookup(w) : w \in Window} \cup {AutoNone}

\* What an audit's digest is taken over.
Body == [action : {"lookup", "confirm_success", "confirm_no_result"},
         evidence : Evidence \cup {System}]

\* The images a result is made of: the checkpoint of the execution, what the
\* look-up found, or what an operator gave.
Payload == {"none", "saved", "polled"} \cup Evidence

Reason == {"none", "archive_incomplete", "manual_verification_required",
           "upstream_result_unknown"}

Entry == [body : Body, status : {"reconciling"} \cup Decided, reason : Reason,
          ids : SUBSET UpstreamId]

ASSUME EntryAssumption == NoEntry \notin Entry

\* The outputs of the execution, or of one call.
Prefix == {NoCall} \cup Call

Row == [status : {"reconciling"} \cup Decided, token : Call \cup {NoCall},
        lease : BOOLEAN, due : 0 .. MaxWindow + 1, ids : SUBSET UpstreamId,
        dispatched : SUBSET UpstreamId, saved : BOOLEAN,
        result : Prefix]

CallPhase == {"unused", "checking", "polling", "archiving", "verifying",
              "deciding", "closing", "over"}

CallState == [phase : CallPhase, command : Commands, body : Body,
              ids : SUBSET UpstreamId, payload : Payload, found : BOOLEAN,
              reason : Reason, answer : Entry \cup {NoEntry}]

SweepState == [phase : {"idle", "lookup", "lookingUp", "verdict", "judging", "defer"},
               window : Window, call : Call \cup {NoCall}]

TypeOK ==
    /\ row \in Row
    /\ billing \in [hold : {"held", "charged", "released"}, finals : Nat]
    /\ audits \in [Commands -> Entry \cup {NoEntry}]
    /\ started \in [Commands -> Body \cup {NoEntry}]
    /\ call \in [Call -> CallState]
    /\ files \in [Prefix -> Payload]
    /\ sweep \in [Sweep -> SweepState]
    /\ window \in Window
    /\ upstream \in [UpstreamId -> {"images", "blank"}]

-----------------------------------------------------------------------------
(* Reading the state *)

Live(k)  == call[k].phase \notin {"unused", "over"}
Known    == row.ids \cup row.dispatched
Held     == row.token # NoCall /\ row.lease
LookedUp == \E c \in Commands : audits[c] # NoEntry /\ audits[c].body.action = "lookup"

\* Mutant of Owns: the status is compared, the token and the lease are not.
OwnsByStatus(k) == row.status = "reconciling"

\* The fence of a call: status, token and lease.
Owns(k) == row.status = "reconciling" /\ row.token = k /\ row.lease

Become(k, e) == call' = [call EXCEPT ![k] = e]

With(phase, c, b, answer) ==
    [phase |-> phase, command |-> c, body |-> b, ids |-> {}, payload |-> "none",
     found |-> FALSE, reason |-> "none", answer |-> answer]

Lookup == [action |-> "lookup", evidence |-> System]
NoResult == [action |-> "confirm_no_result", evidence |-> System]

\* What matters of a call once it is over is the answer it gave, if it gave one.
Blank(phase) == With(phase, AutoNone, Lookup, NoEntry)

-----------------------------------------------------------------------------
\* db/task-transitions.ts leaves the row without a token and due in five minutes.
Init ==
    /\ row \in [status : {"reconciling"}, token : {NoCall}, lease : {FALSE},
                due : {1}, ids : SUBSET UpstreamId, dispatched : {{}},
                saved : BOOLEAN, result : {NoCall}]
    /\ billing = [hold |-> "held", finals |-> 0]
    /\ audits = [c \in Commands |-> NoEntry]
    /\ started = [c \in Commands |-> NoEntry]
    /\ call = [k \in Call |-> Blank("unused")]
    /\ files = [p \in Prefix |-> IF p = NoCall /\ row.saved THEN "saved" ELSE "none"]
    /\ sweep = [s \in Sweep |-> [phase |-> "idle", window |-> 0, call |-> NoCall]]
    /\ window = 0
    /\ upstream \in [UpstreamId -> {"images", "blank"}]

(***************************************************************************)
(* reconcileTask.                                                          *)
(***************************************************************************)

\* The command was answered before.
Replays(c, b) == audits[c] # NoEntry /\ audits[c].body = b

\* Mutant of Admits: the audit of the command is not read.
AdmitsAgain(c, b) ==
    /\ row.status = "reconciling" /\ started[c] \in {NoEntry, b}
    /\ ~Held
    /\ b.action = "lookup" \/ Known = {} \/ LookedUp

\* What the claim transaction lets through.  A call it refuses, or tells that
\* the command is in progress, changes nothing.
Admits(c, b) ==
    /\ audits[c] = NoEntry
    /\ row.status = "reconciling" /\ started[c] \in {NoEntry, b}
    /\ ~Held
    /\ b.action = "lookup" \/ Known = {} \/ LookedUp

Claim(k, c, b) ==
    /\ call[k].phase = "unused" /\ Admits(c, b)
    /\ row' = [row EXCEPT !.token = k, !.lease = TRUE]
    /\ started' = [started EXCEPT ![c] = b]
    /\ Become(k, [With("polling", c, b, NoEntry) EXCEPT
           !.phase = CASE b.action = "confirm_no_result" -> "deciding"
                       [] b.action = "confirm_success"   -> "archiving"
                       [] OTHER -> IF row.saved THEN "checking" ELSE @,
           !.payload = IF b.action = "confirm_success" THEN b.evidence ELSE "none",
           !.found = b.action = "confirm_no_result",
           !.ids = Known])
    /\ UNCHANGED <<billing, audits, files, window, upstream>>

Replay(k, c, b) ==
    /\ call[k].phase = "unused" /\ Replays(c, b)
    /\ Become(k, With("over", c, b, audits[c]))
    /\ UNCHANGED <<row, billing, audits, started, files, window, upstream>>

\* An operator sends a command, for the first time or again.
Operate(k) ==
    /\ \E c \in Command, b \in [action : {"lookup", "confirm_success", "confirm_no_result"},
                                evidence : Evidence] :
         Claim(k, c, b) \/ Replay(k, c, b)
    /\ UNCHANGED sweep

OfCall == <<row, billing, audits, started, sweep, window, upstream>>

GiveUp(k, reason) ==
    Become(k, [call[k] EXCEPT !.phase = "deciding", !.payload = "none", !.reason = reason])

\* The look-up of a task with a checkpoint.  If upstream could be asked instead
\* (and the archive is in the cloud) it makes sure that the saved files are there:
\* they are, they are lost, or the storage does not answer.
Check(k) ==
    /\ call[k].phase = "checking"
    /\ \/ Become(k, [call[k] EXCEPT !.phase = "archiving", !.payload = "saved"])
       \/ /\ call[k].ids # {}
          /\ \/ Become(k, [call[k] EXCEPT !.phase = "polling"])
             \/ GiveUp(k, "archive_incomplete")
    /\ UNCHANGED <<OfCall, files>>

\* callUpstream with pollOnly: every id must have come to an end, and there must
\* be as many as requests were counted.  It may always find a request failed or not
\* at its end, or fail itself.
Poll(k) ==
    LET ids == call[k].ids IN
       /\ call[k].phase = "polling"
       /\ \/ ids = {} /\ GiveUp(k, "manual_verification_required")
          \/ ids # {} /\ GiveUp(k, "upstream_result_unknown")
          \/ /\ ids # {} /\ Cardinality(ids) >= Cardinality(UpstreamId)
             /\ IF \E i \in ids : upstream[i] = "images"
                THEN Become(k, [call[k] EXCEPT !.phase = "archiving", !.payload = "polled"])
                ELSE GiveUp(k, "manual_verification_required")
       /\ UNCHANGED <<OfCall, files>>

\* Mutant of PrefixOf: all calls write where the execution did.
SharedPrefix(k) == NoCall

\* A checkpoint is completed in place; any other result has its own prefix.
PrefixOf(k) == IF call[k].payload = "saved" THEN NoCall ELSE k

\* Writing the files.  If it fails half way it is as if Verify did.
Archive(k) ==
    /\ call[k].phase = "archiving"
    /\ \/ /\ Become(k, [call[k] EXCEPT !.phase = "verifying"])
          /\ files' = [files EXCEPT ![PrefixOf(k)] = call[k].payload]
       \/ /\ GiveUp(k, "archive_incomplete")
          /\ UNCHANGED files
    /\ UNCHANGED OfCall

\* Before anything is published the call makes sure that it still holds the task
\* and was not aborted.
Verify(k) ==
    /\ call[k].phase = "verifying"
    /\ \/ GiveUp(k, "archive_incomplete")
       \/ /\ Owns(k)
          /\ Become(k, [call[k] EXCEPT !.phase = "deciding", !.found = TRUE])
    /\ UNCHANGED <<OfCall, files>>

\* The status the decision writes: a look-up without a result leaves the task.
Verdict(k) ==
    IF ~call[k].found THEN "reconciling"
    ELSE IF call[k].body.action = "confirm_no_result" THEN "failed" ELSE "completed"

\* Mutant of EntryOf: the audit does not say what became of the task.
EntryWithoutStatus(k) ==
    [body |-> call[k].body, reason |-> call[k].reason, ids |-> call[k].ids]

EntryOf(k) ==
    [body |-> call[k].body, status |-> Verdict(k), reason |-> call[k].reason,
     ids |-> call[k].ids]

\* The last transaction: finishTask, the audit, and the task is let go.
Decide(k) ==
    /\ call[k].phase = "deciding"
    /\ Owns(k)
    /\ row' = [row EXCEPT !.status = Verdict(k), !.token = NoCall, !.lease = FALSE,
                          !.result = IF Verdict(k) = "completed" THEN PrefixOf(k) ELSE @]
    /\ billing' = CASE Verdict(k) = "reconciling" -> billing
                    [] Verdict(k) = "completed" -> [hold |-> "charged", finals |-> billing.finals + 1]
                    [] OTHER -> [hold |-> "released", finals |-> billing.finals + 1]
    /\ audits' = [audits EXCEPT ![call[k].command] = EntryOf(k)]
    /\ Become(k, With("over", call[k].command, call[k].body, EntryOf(k)))
    /\ UNCHANGED <<started, files, sweep, window, upstream>>

\* It finds that the task is not its own any more or that the heartbeat has
\* aborted the call, which it does when a renewal finds the same or fails; or the
\* transaction fails.
DecisionFails(k) ==
    /\ call[k].phase = "deciding"
    /\ Become(k, Blank("closing"))
    /\ UNCHANGED <<OfCall, files>>

\* Mutant of Close: whoever holds the task is put out.
CloseWhoeverHolds(k) ==
    /\ call[k].phase = "closing"
    /\ row' = IF row.status = "reconciling"
              THEN [row EXCEPT !.token = NoCall, !.lease = FALSE] ELSE row
    /\ Become(k, Blank("over"))
    /\ UNCHANGED <<billing, audits, started, files, sweep, window, upstream>>

\* The finally clause, for a call that did not come to its decision.
Close(k) ==
    /\ call[k].phase = "closing"
    /\ row' = IF row.status = "reconciling" /\ row.token = k
              THEN [row EXCEPT !.token = NoCall, !.lease = FALSE] ELSE row
    /\ Become(k, Blank("over"))
    /\ UNCHANGED <<billing, audits, started, files, sweep, window, upstream>>

LeaseExpires ==
    /\ row.lease
    /\ row' = [row EXCEPT !.lease = FALSE]
    /\ UNCHANGED <<billing, audits, started, call, files, sweep, window, upstream>>

\* The process of a call ends, and with it the sweep that made the call.
Crash(k) ==
    /\ Live(k)
    /\ Become(k, Blank("over"))
    /\ sweep' = [s \in Sweep |->
                    IF sweep[s].call = k
                    THEN [sweep[s] EXCEPT !.phase = "idle", !.call = NoCall] ELSE sweep[s]]
    /\ UNCHANGED <<row, billing, audits, started, files, window, upstream>>

(***************************************************************************)
(* Sweeps (lib/auto-reconcile.ts).  The timer does not wait for the last   *)
(* one, so two of one worker may overlap like those of two.                *)
(***************************************************************************)

Go(s, phase) == sweep' = [sweep EXCEPT ![s].phase = phase, ![s].call = NoCall]

Tick ==
    /\ window < MaxWindow
    /\ window' = window + 1
    /\ UNCHANGED <<row, billing, audits, started, call, files, sweep, upstream>>

\* The time is read once, with the rows.
SweepRead(s) ==
    /\ sweep[s].phase = "idle"
    /\ row.status = "reconciling" /\ row.due <= window /\ ~Held
    /\ sweep' = [sweep EXCEPT ![s] = [phase |-> "lookup", window |-> window, call |-> NoCall]]
    /\ UNCHANGED <<row, billing, audits, started, call, files, window, upstream>>

\* A sweep makes a call in `phase` and waits for it in `waiting`; a call that is
\* refused, or in progress elsewhere, is left for the next time.
SweepCalls(s, phase, waiting, c, b) ==
    /\ sweep[s].phase = phase
    /\ \/ \E k \in Call :
            /\ Claim(k, c, b) \/ Replay(k, c, b)
            /\ sweep' = [sweep EXCEPT ![s].phase = waiting, ![s].call = k]
       \/ /\ ~Admits(c, b) /\ ~Replays(c, b)
          /\ Go(s, "defer")
          /\ UNCHANGED <<row, billing, audits, started, call, files, window, upstream>>

SweepLooksUp(s) ==
    SweepCalls(s, "lookup", "lookingUp", AutoLookup(sweep[s].window),
               Lookup)

SweepConfirms(s) ==
    SweepCalls(s, "verdict", "judging", AutoNone,
               NoResult)

\* Mutant of ConfirmsNoResult: an unknown result is taken for none.
ConfirmsUnknown(e) ==
    e.reason \in {"manual_verification_required", "upstream_result_unknown"} /\ Known # {}

\* shouldConfirmNoResult, over the ids there are after the answer.
ConfirmsNoResult(e) == e.reason = "manual_verification_required" /\ Known # {}

SweepReturns(s) ==
    LET answer == call[sweep[s].call].answer IN
    /\ sweep[s].phase \in {"lookingUp", "judging"} /\ call[sweep[s].call].phase = "over"
    /\ CASE answer = NoEntry -> Go(s, "defer")
         [] answer # NoEntry /\ answer.status \in Decided -> Go(s, "idle")
         [] OTHER -> Go(s, IF sweep[s].phase = "lookingUp" /\ ConfirmsNoResult(answer)
                           THEN "verdict" ELSE "defer")
    /\ UNCHANGED <<row, billing, audits, started, call, files, window, upstream>>

SweepDefers(s) ==
    /\ sweep[s].phase = "defer"
    /\ row' \in IF row.status = "reconciling"
                THEN {[row EXCEPT !.due = w] : w \in sweep[s].window + 1 .. MaxWindow + 1}
                ELSE {row}
    /\ Go(s, "idle")
    /\ UNCHANGED <<billing, audits, started, call, files, window, upstream>>

\* The process of a sweep ends between two of its steps.
SweepDies(s) ==
    /\ sweep[s].phase \in {"verdict", "defer"}
    /\ Go(s, "idle")
    /\ UNCHANGED <<row, billing, audits, started, call, files, window, upstream>>

\* recordDispatchTaskId: an execution that was cut off reports an id late; it
\* needs no lease for that.
LateId(i) ==
    /\ i \notin Known
    /\ row' = [row EXCEPT !.dispatched = @ \cup {i}]
    /\ UNCHANGED <<billing, audits, started, call, files, sweep, window, upstream>>

-----------------------------------------------------------------------------
Work(k) ==
    Check(k) \/ Poll(k) \/ Archive(k) \/ Verify(k) \/ Decide(k)
    \/ DecisionFails(k) \/ Close(k)

SweepStep(s) ==
    SweepRead(s) \/ SweepLooksUp(s) \/ SweepReturns(s) \/ SweepConfirms(s) \/ SweepDefers(s) \/ SweepDies(s)

Next ==
    \/ \E k \in Call : Operate(k) \/ Work(k) \/ Crash(k)
    \/ \E s \in Sweep : SweepStep(s)
    \/ \E i \in UpstreamId : LateId(i)
    \/ Tick \/ LeaseExpires

Spec == Init /\ [][Next]_vars

-----------------------------------------------------------------------------
(* What must hold *)

\* Commands that repeat, race or outlive their lease leave a ledger: one answer
\* for a command and for good, at most one decision, settled in the same step
\* and nothing entered after it.
Ledger == INSTANCE DecisionLedger WITH
    Commands <- Commands, Entries <- Entry, NoEntry <- NoEntry,
    ledger <- audits, status <- row.status, charge <- billing.hold

LedgerKept == Ledger!Spec

\* Every caller that gets an answer, by deciding or by repeating the command,
\* gets the one in the audit; and the task is settled once if one of these
\* answers decided it, and not at all otherwise.
AnswersAgree ==
    /\ \A k \in Call : call[k].answer # NoEntry => call[k].answer = audits[call[k].command]
    /\ billing.finals =
         Cardinality({c \in Commands : audits[c] # NoEntry /\ audits[c].status \in Decided})

\* A call that holds the task under a running lease loses it by its own decision
\* or end only: no older call, and no sweep, takes it away or lets it go.
HolderIsLeftAlone ==
    [][\A k \in Call :
          row.token = k /\ row.lease /\ Live(k) /\ row'.token # k
              => call'[k].phase = "over"]_vars

\* The files a completed task was completed with stay as they were, whatever a
\* call that lost its lease goes on writing.
ResultIsStable ==
    [][row.status = "completed" => files'[row.result] = files[row.result]]_vars

\* When a sweep refunds a task, every id stored on the row, and every id a late
\* execution had reported by the time its look-up began, this one or the one it
\* repeats, was polled to its end and had no image: not one that was pending or
\* could not be asked for.  (An id that is reported after that is not asked for,
\* and is counted by auto-reconcile.ts:98: see IdsAreQueriedFirst.)
RefundedWorkIsBlank ==
    [][\A s \in Sweep :
          sweep[s].phase = "judging" /\ row.status = "reconciling" /\ row'.status = "failed"
             /\ audits'[AutoNone] # audits[AutoNone]
              => \A i \in row.ids \cup audits[AutoLookup(sweep[s].window)].ids :
                     upstream[i] = "blank"]_vars

\* The command that fails a task knew no upstream id but those a look-up asked for
\* (docs/adr/0015: "Operators query existing upstream task IDs before resolving the
\* task"; an audit records the ids its command read).
IdsAreQueriedFirst ==
    [][\A c \in Commands :
          row.status = "reconciling" /\ row'.status = "failed" /\ audits'[c] # audits[c] =>
              \A i \in audits'[c].ids : \E d \in Commands :
                  /\ audits[d] # NoEntry /\ audits[d].body.action = "lookup"
                  /\ i \in audits[d].ids]_vars

=============================================================================
