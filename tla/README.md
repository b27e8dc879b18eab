# Formal models of Muvloom

TLA+ specifications of the parts of Muvloom whose correctness depends on the
order in which processes, crashes and lost answers happen. Each module is
translated from the code (paths below are relative to `src/`); `PROJECT.json`
maps every definition to the lines it stands for and lists the hazards the
properties are about.

    tlc -workers 2 -config MC_TaskLifecycle.cfg MC_TaskLifecycle
    tlapm TaskLifecycleProofs.tla
    tlapm TaskRecoveryProofs.tla
    tlapm TaskDoubtProofs.tla
    tlapm TaskReconciliationProofs.tla
    tlapm AgentInboxProofs.tla
    tlapm AgentProgressProofs.tla
    tlapm DirectRouteProofs.tla
    tlapm WebSessionProofs.tla

## 1. The system

Muvloom is a TypeScript monorepo with a Go command line client. The BFF
(`apps/bff`, Elysia on Bun, Postgres through drizzle) runs as two kinds of
process over one database: HTTP servers and workers. There are several of each
(a rollout overlaps old and new ones), and everything they share is in the
database.

| Part | State it keeps | Operations | What is hard | What makes it correct |
|---|---|---|---|---|
| Task queue: `db/task-transitions.ts`, `workers/task-execution.ts`, `workers/task-runner.ts` | `tasks` row (status, execution token, lease, attempts, invocation count, upstream ids, saved payload, reconciliation flag), `task_dispatches`, the billing reservation | claim, renew, count an invocation, store ids, requeue, archive, finish, cancel | a worker that is slow, cut off or dead while another takes over; writes that arrive late | one end, one settlement; no second generation while the first may have happened |
| Upstream calls: `lib/upstream.ts`, `lib/upstream/*` | requests in flight (memory) | fan out, submit, poll, merge, classify errors | failures in different requests at once; answers lost after the work was done | what is charged is what was delivered; an unknown outcome is never retried |
| Recovery and shutdown: `db/maintenance.ts`, `worker-index.ts` | the candidates of a scan (memory) | scan, recover by id, drain, abort | reads in one transaction, writes in another | a dead execution's row is recovered, a live one's is not |
| Scheduler and claim limits: `workers/task-scheduler.ts`, `runnable-tasks.ts`, `task-execution.ts` | running map, counts under locks | poll, claim | limits counted over rows that others are changing | limits per account, turn and provider |
| Reconciliation: `lib/task-reconciliation.ts`, `lib/auto-reconcile.ts` | audits, the lease of a command | look up, confirm, alert | repeated commands, lost leases, crashes | a command decides once; its replay gives the same answer |
| Upstream quota: `lib/upstream/scheduler.ts`, `concurrency.ts`, `gpt-budget.ts`, `gpt-keys.ts` | buckets, leases, budget holds | acquire, heartbeat, release, cool down, record usage | windows and expiring leases under concurrency | no window over its limit; no slot lost |
| Agent: `lib/agent/execution.ts`, `inbox.ts`, `start-turn.ts`, `wake.ts` | conversation lease, inbox entries, turns, background jobs | start, interject, stop, drain, wake | turns that end while messages arrive; processes that die | one turn at a time; each message consumed once, none lost |
| Batches and stage authorizations: `lib/agent/batch-execution.ts`, `stage-authorizations.ts` | plans, items, authorizations | submit items, consume, revise | revision during execution | an authorization pays for what it was given for |
| Analysis tasks: `lib/analysis-tasks.ts` | `analysis_tasks`, attempts | claim, record attempt, finalize, recover | as for the queue | as for the queue |
| Sessions: `lib/user-session.ts`; CLI: `lib/cli/auth.ts`, `cli-go` | token families, retired tokens, device codes | refresh, exchange, revoke | concurrent refreshes, lost answers | a lost answer never logs the user out; a request renews once, a revoked family never again |
| Canvas and library sync: `lib/canvasSync*.ts`, `lib/sync.ts`, `apps/web/src/lib/sync` | Yjs documents, versions, pending set | join, push, pull | offline edits, notifications lost | nothing local is lost |
| Media, admin, website, deployment | files, settings | input and output | | |

The parts meet in the `tasks` row. HTTP handlers submit and cancel; a worker's
scheduler polls for runnable rows and claims them; its executions write through
`TaskExecutionHandle`, whose every statement is fenced by status, token and
lease; the recovery scans of every worker take over rows whose lease ran out;
reconciliation commands end the rows nobody else may end. `finishTask` and
`cancelTasks` call the billing hook in their own transaction: the billing
module itself is a private package and is modelled only by what these calls
rely on.

## 2. Plan

| Order | Module | Composes or refines | State |
|---|---|---|---|
| 1 | `TaskSettlement` | the promise of the queue | done |
| 2 | `TaskLifecycle` | implements `TaskSettlement` | done |
| 3 | `TaskLifecycleProofs`, `TaskRecoveryProofs`, `TaskDoubtProofs` | theorems about `TaskLifecycle`: row and hold, takeover and count, requests in doubt | done; see section 11 |
| 4 | `DecisionLedger`, `TaskReconciliation`, `TaskReconciliationProofs` | commands, sweeps and late ids on a reconciling row; implements `DecisionLedger` | done |
| 5 | `DirectRoute`, `DirectRouteProofs` | calls over two routes and several keys, with the bucket, the budget holds and the verdict on a group | done |
| 6 | `Transcript`, `AgentInbox`, `AgentInboxProofs`, `AgentProgressProofs` | one conversation: lease, inbox, drain, interjection, stop, seal, wakes; implements `Transcript` | done |
| 7 | `SignIn`, `WebSession`, `WebSessionProofs` | one sign-in: token family, cookies, journal and tabs; implements `SignIn` | done |
| 8 | `TaskClaim` | several tasks: locks, limits and slots held during a backoff; claims in flight at SIGTERM | planned |

Theorems planned: the type invariant and main safety invariant of `TaskClaim`.

## 3. TaskLifecycle

One row and everyone who writes it. Rows of different tasks interact only
through the limits under which a claim is admitted, so one row is enough for
every property stated here. Each database transaction is an action; a sequence
`await read; ...; await write` of the code is two.

State:

| Variable | Code |
|---|---|
| `row` | the task's row; `lease` stands for `lease_expires_at > now`, `due` for `next_retry_at` null or passed, `calls` for `upstream_invocation_count`, `ids` for `upstream_task_ids`, `archive` for `archive_payload`, `recon` for `reconciliation_required`, `cloud` for a task that preserves its inputs |
| `billing` | the reservation as the `finalizeTask` hook leaves it, and how often it was called |
| `exec` | one record per token: what the execution copied from the row at its claim, where `executeTask` is, and each upstream request's `slot` |
| `worker` | up, draining, aborted, recovering by id, down |
| `scan` | the candidate a worker's recovery read and has not yet acted on |

A token is a fresh UUID, so a used token is never claimed with again. `Token` is
therefore also the bound on the number of executions. An execution that is over keeps only its `slot`s: what
upstream saw of it.

Actions, in the order of an execution: `Claim`; `PrepareInputs`,
`PrepareArchive`, `PrepareFails`, `ArchiveExpires` (the start of `executeTask`); per request
`BeginDispatch` (signal read, then the count awaited), `CommitDispatch` (the
fenced count, after which the transport starts), `DispatchFails`,
`QueueTimesOut`, `Respond`, `SendAgain`; `SwitchRoute` and then `Collect` (synchronous merge), `CollectIds`
(storing what was accepted) and `Poll`; then the branches of the catch clause:
`SettleImages`, `SettlePartial`, `SettleUnknown`, `SettleRetry`,
`SettleFailure`, `SettleAbort`; then `Spool`, `Publish`, `PublishMissing`,
`ArchiveFails`; `Interrupted` is `runTask`'s catch, and `LoseLease` the
heartbeat. Other writers: `Cancel`, `SettleReconciliation`, the scans
(`ScanRead`, `RecoverScanned`) and the shutdown (`Terminate`, `Drained`,
`AbortAll`, `NamedRead`, `RecoverNamed`). `Crash` may happen anywhere.

Choices worth knowing:

* Errors are kept by what the code tells apart: retryable (`rejected`), not
  retryable (`refused`), outcome unknown (`unknown`, or `unknownRecon` when it asks for
  reconciliation), aborted, partial. A result is `whole`,
  `noted` (fewer images, with the gap in `partial_failure`) or `short` (fewer, with nothing recorded).
* A slot is one request of the call, and not one dispatch: `upstream_invocation_count` grows at every dispatch, and a request that was turned
  away is dispatched again in the same call, after the backoff of a 429 (`vertex.ts:95`), to the fallback model (`upstream.ts:1316`) or with the next key
  (`upstream.ts:476`). `SendAgain` is any of these, at any answer; `SwitchRoute` is the second route (`upstream.ts:751`), which starts all requests over
  and may have the other transport. Whether an error may really be followed by another dispatch depends on the provider and is left
  open, which only adds behaviour. A second route after a first one whose outcome is unknown is `DirectRoute`'s (section 7), and not in this module.
* `Interrupted` also covers a process that fails half way through its own
  clean-up; its three disjuncts are the two writes and neither.
* A worker scans only while it has nothing running, since `ownedIds` leaves its
  own rows out and the model has one row.
* Only batch items ask for reconciliation when they are submitted
  (`lib/agent/batch-execution.ts:279`), with one image each, so
  `Init` allows `recon` with one request only.
* A claim is made only by a worker that is up. In the code a claim that was
  already sent when SIGTERM arrives may still land during the drain; see the
  hazards.

## 4. TaskSettlement

What the queue promises: an open task may be put aside for reconciliation; a
task ends once; from reconciliation it is never cancelled or reopened; the charge is
decided in the step that ends it. `SettlementKept` is the refinement: `queued`
and `in_progress` are `open`, the charge is the hold of the reservation.

## 5. DecisionLedger and TaskReconciliation

What happens to a row after `TaskLifecycle` has set it to `reconciling`: the
operator commands of `lib/task-reconciliation.ts`, the sweeps of
`lib/auto-reconcile.ts`, which send commands of their own, and the upstream ids
that executions cut off earlier report late.

`DecisionLedger` is the promise: the audits are a ledger in which a command is
answered once and for good, an entry decides the task or leaves it, the charge
follows in the same step, and nothing is entered after a decision. `LedgerKept`
is the refinement (`audits`, `row.status`, `billing.hold`).

| Variable | Code |
|---|---|
| `row` | status, the token of the call that holds it, `lease` (`lease_expires_at > now`), `due` (`next_retry_at`), the ids stored on the task (`ids`) and on its dispatches (`dispatched`), `saved` for `archive_payload`, and the prefix that `result_payload` refers to |
| `billing` | the reservation, and how often it was settled |
| `audits`, `started` | the rows of `operator_audits`: the answer of each command, and the body it was started with |
| `call` | one record per call of `reconcileTask`: where it is, what it copied at its claim, what it found |
| `files` | what lies under each output prefix |
| `sweep`, `window` | the runs of the timer, and the five minute window of the time |
| `upstream` | what every counted request has come to, images or none, once it ends |

`Operate` is a call by an operator: `Claim`, or `Replay` of an answered command.
A refused call, or one that is told that its command is in progress, changes
nothing. Then `Check` (a checkpoint, and whether its files are still there),
`Poll`, `Archive`, `Verify` and `Decide`, each one `await` or transaction of the
code; `DecisionFails` and `Close` are the last transaction failing and the
`finally` clause. `SweepRead`, `SweepLooksUp`, `SweepReturns`, `SweepConfirms`
and `SweepDefers` are a sweep over the one row. `Crash`, `SweepDies` and `LeaseExpires`
may happen anywhere.

Choices worth knowing:

* A lease may run out at any time, although the code renews it every ten
  seconds: the renewal may fail or be late. The abort by the heartbeat is not a
  state of its own; a call that is aborted does what `GiveUp` or `DecisionFails` do.
* A request may be found unfinished or failed at any poll; only when all of
  them have ended, and there are as many ids as requests counted, does `upstream`
  decide what is found.
* A checkpoint is a payload that the queue has checked before it stored it, and
  is taken as deliverable.
* A command id of a sweep contains the window, so two sweeps of one window
  repeat each other's look-up, and every sweep repeats the one refund command.
* The timer does not wait for the last sweep, so sweeps of one worker overlap like
  those of two; `Sweep` makes no difference between them. A sweep's call
  dies with it.
* The alert of an overdue task is left out (see the hazards).

## 6. Transcript and AgentInbox

One conversation with the agent: the inbox (`lib/agent/inbox.ts`,
`conversation-inbox.ts`), the lease under which one process at a time runs a turn
for it (`execution.ts`), the drain that takes the next entry and starts a turn
(`start-turn.ts`, `turn-preparation.ts`), the turn (`turn.ts`), what is written
for a turn that was cut off (`events.ts`, `interrupted.ts`), and the wakes of
background jobs (`wake.ts`).

`Transcript` is the promise: a message is heard at most once, under one turn;
turns are heard one after the other; what is given back to the user is not
heard. `TranscriptKept` is the refinement (`said`, and the rows that are `cancelled`).

| Variable | Code |
|---|---|
| `inbox` | the rows of `agent_inbox`: messages by client id, the wake of a turn's job, the continuation of a turn; `by` is `consumed_turn_id` |
| `exec` | the row of `agent_executions`; `fresh` stands for a heartbeat younger than the lease |
| `turn` | a drain and then the turn it starts, in the memory of its process: `quiet` is the sender's message (`quietFor`), `todo` the turns still to seal, `src` the entry it read, `queue` the accepted interjections not yet written |
| `log` | whether the database has events of the turn, its footer (`agent_turns`) and who wrote it, and the last event |
| `said` | the user messages of `agent_messages`, by the turn that wrote them |
| `job` | the background job of a turn (`agent_jobs` and its task) |
| `looking`, `claiming` | drains before `claimWaitingOutSeal`, by process; the set element is the sender's message, or `NoMsg` for a drain nobody waits for |
| `sealer` | a process in `sealAbandonedTurns` or `recoverAbandonedExecution` |
| `promotion`, `stop` | calls of `promoteToInterjection` and `stopConversationTurn` |
| `proc`, `faults` | up, draining, down |

A drain is `Look` (is there an entry, is a turn registered here), `Claim` or
`GiveUp`, `Seal` for every turn without an end, `Pick`, then `Commit` (the
transaction that takes the entry and stores the message), `Pass`, `Leave`,
`Refuse` and `Refused`, or `Dropped`. A turn is `Start`, `Persist`, `WriteQueue`,
`SubmitJob`, `Close`, `Flush`, `Footer`, `End`, or `Lost`; then `Release`,
`Ask` and `Handoff`, the order of `handOff` and `pickUpNextTurn`. The user does `Send`, `Withdraw`,
`PromoteCall`, `StopBegin`; `PromoteClaim`, `PromoteLand`, `PromoteRequeue` and
`StopReturn`, `StopAbort` are what follows from it, one step for each `await`.
`EndJob`, `SweepJobs` and `Sweep` are the worker and the five second timer.
`Expire`, `Crash` and `DrainBegin` are the faults.

Choices worth knowing:

* What is fenced by the lease in the code is fenced here, and no more: events, the
  footer, the claim of an interjection and its requeue are written by a turn that
  may have lost the lease.
* A seal reads the footer, the taken rows and the jobs before the transaction that writes
  the footer and the continuation; both are one step, since only the turn itself could write in between
  and only the late footer of a turn that lost its lease would.
* Whether two minutes have passed since the first job ended (`late`) is left
  open, and a wake or message may be refused or skipped for any reason that depends on the credits.
* Cancelling the jobs of a stopped turn may fail, in the stop and again at the close of the turn (`conversation-inbox.ts:323`, `turn.ts:1022`): the
  error is logged, the job runs on and the turn goes on to its footer. `CancelJob` has both outcomes; `stop` remembers a failure as `missed`.
* A conversation has one job for each turn, so the batch of a turn is that job.
* `Crash` keeps the id of a turn that left a trace in the database; ids of drains
  that took nothing are used again (`NextId`), which bounds the instances by turns
  and not by attempts.
* The wait of `GiveUp` for a seal or a closing turn only makes the drain later.
  `awaitConversationHandoff` likewise delays a `Send`, with a limit.

## 7. DirectRoute

Calls of a GPT image model (`callGptDualRoute` in `lib/upstream.ts`) and what they share
in the database: the bucket of images per minute and requests in flight
(`lib/upstream/scheduler.ts`), the monthly budget of each direct key with its holds
(`gpt-budget.ts`), and the state of the keys (`gpt-keys.ts`). A call runs in a process of its own; several
calls of one process differ from this only in dying together.

| Variable | Code |
|---|---|
| `call` | the locals of `callGptDualRoute` and `callDirectTryingKeys`: the key in use and those `exclude`d, `spare` (`another`), whether this is the first of two routes, `unsure` (`firstUnknown`), why the call was `stop`ped, how long it `life`s, what it came to |
| `req` | the requests of the group on the current key: waiting for the bucket, granted a lease, sent (`loose` and `adrift`: without one, because the database failed), and how they ended |
| `lease` | `scheduler_leases`: one row for an attempt, with the age of its images and the time since its last heartbeat |
| `cool` | `scheduler_buckets.cooldown_until` |
| `hold`, `usage` | `gpt_direct_budget_holds` and `gpt_direct_usage` of the current month |
| `disabled`, `chill` | `gpt_direct_key_state` |
| `ran`, `aired`, `billed` | history: that a request may have run, when images were granted, what was billed under a hold |

A call is `StartDirect` or `StartSub2api`. On the direct route it is `Reserve` (the next
key that is open and has room, with its hold), `Exhausted` or `Halt`; for each request `Grant`, `Deny` or
`Bypass`, `Dispatch` or `NotSent`, and `Return`; then the verdict on the group with
`Settle` (usage in place of the hold) or `GiveBack` (the hold is deleted, a rejected key is put out of use, and the next
one tried). `Leave` is the end of the route: the other one, or the end of the call. `SwitchAway`,
`Cancel` and `TimeOut` stop a call while its requests are anywhere. `Tick` is time, and with a set of calls
a stall of their processes; `NewMonth`, `Restore` and `Crash` come from outside.

Choices worth knowing:

* Time is in ticks and relative: a row has an age or a rest of its term, and disappears when
  nothing counts it any more. `WF_vars(Tick({}))` lets time pass, and no tick passes a live call's deadline.
* The rows one attempt has in several buckets are written, renewed and
  released by the same statements, so they are one row, and the bucket has both limits.
* The probe of `directAvailableNow` takes a lease and gives it back at once; between the two it
  can only make others wait. It is a test, with the sweep that it commits.
* The walk over the keys is one step: the key that is taken is checked and held under its own lock, and the keys before it
  could only have come free since. A read of `another` that fails is not modelled.
* The request to sub2api is one step, with any end. What an accepted asynchronous task does is `TaskLifecycle`'s part; the breaker is
  open or not, as the instance likes.
* A bill may be above its estimate: the estimate prices the output only and takes quality `auto` as medium (`gpt-budget.ts:38`, `:51`), the bill adds the input
  and the output there really was (`:42`). `billed` counts what the estimate had set aside (`Covered`). A cost that no
  hold covers any more, because the month ended in between, is usage and not `billed`.
* The cached sum of `spentSince` is for display; reservations and look-ups read afresh.

## 8. WebSession

One sign-in of the web client (ADR 0030): the family of refresh tokens and its access session on the server
(`lib/user-session.ts`), and in the browser the cookies, the journal of request keys (`sessionRefreshJournal.ts`) and
the tabs that renew the sign-in (`authClient.ts`). `SignIn` is what it promises.

| Variable | Code |
|---|---|
| `chain` | the current token and the retired ones of the family: a token is the number of its generation, and `chain[n + 1]` is the key by which `successorRefresh` derived it from token `n` |
| `revoked`, `term` | `revoked_at`; whether the 30 days of a refresh have `lapsed`, or the 90 days of the family are `over` |
| `session` | the row of `user_sessions` of the family |
| `jar` | the two cookies, shared by the tabs |
| `journal` | the record of IndexedDB: `pending` and `completed` |
| `tab` | what each tab is at: the keys it has read, the cookies it sent or was given, the answer; `alone` and `failed` are history |
| `stray` | requests whose tab gave up, and that the server may still get |
| `minted`, `misled` | history: the keys that were made; that an answer put older cookies back, or that the new token of a change of password was lost |

A renewal is `Acquire` (one transaction of the journal), `Send`, `Refresh` (the transaction of the server), then `Accepted` (the
cookies), and `Complete` (the journal): `postSessionRefresh`, with `Superseded` and `Refused` for its two answers 409 and the repair by the
last completed key, and the second and third attempt of `restoreAndRefreshSession`. `GiveUp` is a time limit, a lost connection or a closed tab
at any of these steps; `ServeStray` the request that arrives nevertheless. A change of password, the
sign-out of other devices and this one's are `Ask`, `Authenticate` (before the handler),
the transaction, and the answer or `Lost`. `Revoke` comes from elsewhere.

Choices worth knowing:

* Transactions are atomic: each locks the row of the family before it decides. A change of password locks the session first and a
  refresh the family first; if PostgreSQL ends one of them for that, it is a failed request (`GiveUp`, or the second
  disjunct of `ChangePassword`).
* Web Locks only remove interleavings (ADR 0030), so tabs do not wait for each other.
* 401 and 409 `refresh_raced` are one refusal: the client treats them alike, up to the wording.
* A change of password whose access was rotated between `Authenticate` and the transaction revokes its own family too, as
  the code does (`user-session.ts:495`), and so does the sign-out of the others (`:369`).


## 9. The runs

`Token`, `Worker` and, below, `Call` and `Sweep` are symmetric in the safety runs without shutdown.

| Run | Instance | Properties |
|---|---|---|
| `lifecycle` | one image, both routes, 3 executions, 2 workers, 2 attempts, no SIGTERM | `TypeOK`, `HoldSettledOnce`, `AttemptBudget`, `ScanIsCurrent`, `TerminalIsFinal`, `NoRepeatWhileUnresolved`, `UnresolvedHoldKept`, `SettlementKept`, `StoredIdsOnlyPolled` |
| `lifecycle_shutdown` | one worker that may be stopped and restarted, 2 executions, fairness | `HoldSettledOnce`, `OrphanIsRecovered` |
| `repeat_after_mixed_failures` | two images, asynchronous route | finding: `NoRepeatWhileUnresolved` is violated |
| `shutdown_recovers_live_execution` | 2 workers that may be stopped | finding: `NamedExecutionIsCutOff` |
| `whole_result_reported_partial` | one image, asynchronous, 3 executions | finding: `PartialLacksAnImage` |
| `reconciliation` | one operator command, one sweep, 3 calls, one upstream id, 2 windows | `TypeOK`, `AnswersAgree`, `LedgerKept`, `HolderIsLeftAlone`, `ResultIsStable`, `RefundedWorkIsBlank` |
| `unasked_id_refunded` | 2 operator commands, 2 calls, no sweep | finding: `IdsAreQueriedFirst` is violated |
| `agent_inbox` | 2 messages of which the second may become an interjection and the first be refused, 2 turns, one process that may stall once, a stop | `TypeOK`, `HeardOnce`, `EndedTurnWroteAll`, `StartedInOrder`, `NothingStranded`, `TranscriptKept` |
| `agent_recovery` | one message that may be withdrawn, 3 turns, a job, a stop, 2 processes of which one may crash or drain; fairness | `FinishedIsNotContinued`, `StoppedTurnHasNoJob`, `InboxRunsEmpty`, `EveryTurnEnds`, `JobIsReported` |
| `direct_route` | one call in two requests, two keys, one place in flight, one fault; fairness | `TypeOK`, `UnsureIsReported`, `HoldOutlivesDoubt`, `KeySwitchIsClean`, `EveryCallEnds` |
| `direct_budget` | two calls of one request on one key whose cap admits one and a half, one order above the limit of images, one fault | `WindowKept`, `InFlightKept`, `BudgetKept` |
| `web_session` | two tabs, three keys, one change of password, one request that arrives late | `TypeOK`, `Recoverable`, `RefreshWorks`, `SignInKept` |

What the properties of the core say:

* `HoldSettledOnce`: however cancellations, late writes and recoveries race, the
  hold is settled exactly when the row becomes terminal, once, in the way its
  status says.
* `TerminalIsFinal`: nothing is written after that.
* `NoRepeatWhileUnresolved`: no request is sent while one of another execution
  may still be running, or may have been done, without the row knowing.
  It holds for one image without shutdown. With two images
  the code breaks it (first finding); with SIGTERM the read by id
  can put a candidate of an execution that has since sent its request back in
  the queue, which is the second finding at an earlier step.
* `UnresolvedHoldKept`: nothing but a reconciliation command settles the hold of
  a task under reconciliation with such a request.
* `StoredIdsOnlyPolled`: stored ids are never submitted again.
* `AttemptBudget`: whatever crashes, at most `MaxAttempts` executions turn to upstream. It is not about the number of requests: that of one execution is bounded
  by its backoffs, keys and routes, and the count in the row has no bound in terms of the attempts.
* `ScanIsCurrent`: if the write of a scan finds the token it read, then nothing
  else it read has changed. This is why the fence by token is enough for a
  decision taken outside the transaction.
* `OrphanIsRecovered`: a row in progress whose execution is gone does not stay so.

What those of reconciliation say:

* `LedgerKept`, `AnswersAgree`: a command that is repeated, by whomever and after
  whatever crash, is answered once; the task is settled by at most one of them.
* `HolderIsLeftAlone`, `ResultIsStable`: a call that outlived its lease neither
  puts its successor out nor writes over what the successor published.
* `RefundedWorkIsBlank`: a sweep refunds only if every id stored on the task, and every id reported by the time of the look-up it goes by, was
  polled to its end and had no image. An id reported after that look-up is not covered: see section 10.

What those of the agent say:

* `TranscriptKept`, `HeardOnce`: whoever reaches a message first, a drain, an
  interjection, a stop, a withdrawal, and whatever leases are lost on the way, it is
  heard once or given back, and turns do not interleave in the transcript.
* `EndedTurnWroteAll`: a turn with a footer of its own wrote all it took.
* `StartedInOrder`: messages that were never claimed for a running turn are heard in the order of the inbox.
* `NothingStranded`: without faults, nobody relies on the timer: when all drains
  and turns are over, nothing waits. A refused message is left out: its sender is told and does
  not look again, so a message behind it waits for the next sweep.
* `FinishedIsNotContinued`: a turn that wrote its footer is not started again, wherever its process died.
* `StoppedTurnHasNoJob`: a job that was being submitted while the user stopped the turn, or that the stop failed to cancel,
  runs on only if the last attempt to cancel it failed.
* `InboxRunsEmpty`, `EveryTurnEnds`, `JobIsReported`: what waits is taken, what
  was seen gets its last event, what a job came to is reported, although a
  process dies or drains at any step.

What those of the direct route say:

* `KeySwitchIsClean`: however the requests of a group ended, the group is sent on another key only if
  none of them may have run. The error that is thrown for the group must not be the rejection when another outcome is unknown.
* `HoldOutlivesDoubt`: and as long as one may have run, the hold stays or becomes usage.
* `UnsureIsReported`: a call that may have produced images on either route is not
  reported as failed for certain, which the queue would repeat. Behind an error of the database it may be.
* `WindowKept`, `InFlightKept`: rows are swept, released, given back and forgotten, and still no window of a minute has more grants than the
  limit, nor are more requests in flight. The order above the limit is alone in its window.
* `BudgetKept`: no interleaving of reservation, usage, expiry and the end of the month counts a cost in neither place. The cap is exceeded only by what
  bills exceed their estimates, which the code accepts, or by bills whose hold was gone.
* `EveryCallEnds`: no call waits for ever, however full the bucket is.

What those of the session say:

* `SignInKept`: a request renews the sign-in once, however often and in whatever order it arrives; one access is accepted at a
  time, and none once the family is revoked, which nothing undoes.
* `Recoverable`: whatever was lost, the browser can go on: its cookie is current, or the journal has the key that leads from its
  cookie to the current one. The exceptions are those of ADR 0030.
* `RefreshWorks`: and a renewal that nothing disturbs then succeeds, whatever the journal holds, also from a cookie that a late answer put
  one generation back.

### Bounds

Three executions are the smallest number with which a dead or slow execution, its
successor, and the successor's successor meet on one row: a stale
write, a stale candidate and a live owner at the same time. Two workers are needed for a scan by
another process; a third would only repeat a role, since a worker takes part through
one execution and one candidate. `MaxAttempts = 2` (3 in the code) has an
attempt that may be retried and one that may not. Two images are the smallest
fan-out with mixed outcomes, and the runs that need it keep to two executions.
`MaxCalls` bounds `SendAgain` and `SwitchRoute`, by the count in the row: 2 lets one request be sent twice, or over both routes, and
a later execution send once more, which is as much as guards on the count tell apart (none, as many as asked for, more).
The instances with two images that violate a property use 3. `finals` needs no bound.

For reconciliation, three calls are a call that outlives its lease, its successor,
and a caller that repeats either's command; one operator command suffices
because the sweep's are further ones. Two windows are a first look-up and one after
a deferral. Overlapping sweeps, of which one keeps an answer while the other goes on to the next window, are left to
the proofs, which hold for any number of sweeps and windows. One upstream id that is stored at first or reported late
shows every order of reports and look-ups of a single request; fan-outs of several ids under
reconciliation are not instantiated. These runs state no fairness and no liveness.
`StoredIdsOnlyPolled` has one image here; the theorem of section 11 covers any number.

For the agent, two messages and two turns are a turn, its successor, and a message that
may belong to either; a stall makes the first turn outlive its lease. Two processes
matter when one of them goes away; three turns then are the one that is cut off, its
continuation, and the wake of its job. `Promotable`, `Refusable`, `Withdrawable`, `MayStop` and `Kinds`
switch the behaviours that an instance has, so that each run has those that
interact: a run with all of them would not end. `MaxPending` (10 in the code) is not reached by senders
of one message each; a requeued message can exceed it, and nothing relies on it.

For the direct route, two requests are a group with two outcomes, two keys a rejection with and without a successor, and one fault
is any one step at which a process or the database fails. `Window`, `Cooldown` and `Deadline` of one tick
are the smallest with a before and an after: a request can wait for the window to pass, and the deadline can overtake it. `HoldTTL`
exceeds `Deadline`, as `DIRECT_HOLD_TTL_MS` does. Budgets and competing calls do not need a second key: the cap
of 3 with estimates of 2 admits a second call only once the first has cost less. The second call is billed 3, above its estimate.

For the session, two tabs race, and three keys are one that was completed, one that is pending and one
that must be new. The bounds of `MC_WebSession` leave out that anything new is begun once the sign-in cannot be renewed, that two tabs do
something other than renewing at once, and that one does while a late request is on its way. This run states no fairness.

### Fairness

`FairSpec` assumes that an execution goes on (upstream calls and queue waits
have hard timeouts, so every `await` ends), that a lease nobody renews runs out
(it is 60 s of wall clock), that a stopped worker is restarted (containers have
a restart policy), that the shutdown goes on, and, strongly, that some worker
gets to read and to write a scan: a ten second timer
(`worker-index.ts:122`) runs between any two claims of a busy worker, and a row
that is read and then overtaken is read again. `Crash`, `Cancel`, `LoseLease` and `Claim`
have no fairness: nothing makes them happen.

`AgentInbox` needs only `WF_vars(System)`: if a step of a drain, a turn, a seal, a stop, an
interjection, a job or the sweep is possible, some such step happens. They are
awaited promises with time limits and a timer, and the steps of one conversation are finite in number
between two actions of the user; nothing is assumed of their order.

`DirectRoute` assumes that time passes (`WF_vars(Tick({}))`) and that a live process goes on with its call
(`WF_vars(Step(c))`: promises with time limits). `SwitchAway`, `Cancel`, `Crash`, stalls, `NewMonth` and `Restore` have no fairness.

## 10. What the findings show

Each violation run ends in a trace of the code as it is; `PROJECT.json` quotes
the comment, document or test it contradicts.

1. Two asynchronous submissions, 429 and a broken connection: the first failure
   decides, the task is retried, and the second submission may be paid for twice.
2. `recoverTasksByIds` reads rows by id and status. A row that another worker took over
   and claimed between the abort and the read is requeued or failed under its new execution.
3. After a retried submission, a resumed task waits for as many results as were
   ever counted, and calls a whole result partial.
4. A look-up that had no id to ask for admits a later refund of a task whose id was
   reported in between: the command knows the id and nobody asked upstream about it.

Behaviour that the models show, and that no run checks:

* A stop waits for the claims of interjections that are on their way. A message whose claim had
  just been answered, and which the closing turn then refuses, is put back behind
  the stop: it is not given back with the others, and the next drain starts a turn for it
  (`PromoteRequeue` after `StopReturn`; `conversation-inbox.ts:81`, against its comment at 275).
* A group on the direct route with one image delivered and one request unknown throws
  `UpstreamResultUnknownError`. That is a route failure, and `eligible` does not ask whether an image was
  delivered, so the whole order is sent to sub2api once more (`Leave` with the verdict `"part"`), against
  the comment at `upstream.ts:569` and ADR 0028, by which partial results do not change the route.
* When the call is stopped after one request was rejected with 429, and another was cut off by the stop, the 429 is
  thrown and the hold deleted without a usage, although the other request may be billed.
  This is the exception that `HoldOutlivesDoubt` states. Without a stop the unknown outcome comes first.
* A database error while a hold is given back takes the place of the upstream's error (`ran = "hidden"`).
* The limits are about grants: a request may be sent later than its grant, so
  that sends can be closer together than the window.

* When the first route was left in doubt and the second answers 200 without an image, the second counts as done (`upstream.ts:756`): the outcome is `empty`,
  which the queue repeats, although the first route's request may still run. `TaskLifecycle` leaves a second route behind a doubtful
  one out, and `DirectRoute` has no empty answers.
* The finding of `unasked_id_refunded` has a form without operators: an id reported between the look-up of a sweep and the count of ids at
  `auto-reconcile.ts:98` is counted, nobody asked for it, and the task is refunded. `AutoNone` can take this step in
  `TaskReconciliation`; `IdsAreQueriedFirst` forbids it; its run shows the form with operators,
  and TLC finds this one too when the instance has a sweep and no operator command.
* A fan-out in which one request answers 200 without an image is charged in full: `withPartialFailure` records a gap for rejected requests only
  (`upstream.ts:1432`), so the payload has fewer images than asked and no `partial_failure` (`Collect` with `"short"`).
* Without Web Locks, a repair by the completed key also completes the pending key of another tab, whose request may still be on its way
  (`Complete` after the second attempt). Nothing is lost by it: the late request rotates, or is refused.

Smaller observations, not stated as properties: `turn.ts:1111` says that a turn that lost
its lease writes no more, but events and the footer are not fenced; ADR 0012's order of pickup
is refined by `turnOrder` (`inbox.ts:449`); a crash between the transaction that takes a
message and the turn's first stored event leaves a turn without an end; the notification of a
wake (`wake.ts:167`) has no listener, and the sweep does its work.

## 11. What is proved

`TaskLifecycleProofs` has no bound: any number of workers, executions, images
and attempts.

* `TypeCorrect`: `Spec => []TypeOK`. `TypeOK` is inductive because it carries two
  facts beyond types: only a failed row has used up its attempts, and a row
  in progress has a token.
* `SettledOnce` and `Final`. Every step is shown to be one of three kinds of change to
  `<<row, billing>>` (`RowStep`: nothing; an open row that stays open or goes to
  reconciliation, its hold untouched; an end together with its settlement).
  `HoldSettledOnce` is then inductive by the kinds alone, and `TerminalIsFinal`
  follows from their guards.
* `Implementation`: `Spec => SettlementKept`, from the same case analysis: each kind is
  a step of `TaskSettlement` or a stutter.
* `OnlyPolled`: `Spec => StoredIdsOnlyPolled`. The property alone is not
  inductive: an execution decides to poll or to submit by the ids it read when
  it claimed. `IdsKnown` adds what the execution that owns the row knows: until it has
  decided, its copy has the row's ids, and while it submits the row has none. An execution
  that lost the row may be wrong about it, and is stopped by the fence.

`TaskRecoveryProofs` has no bound either, with or without SIGTERM. Its invariant `Inv` says
that a token the row or a recovery knows is no longer free (`TokensUsed`), so that a claim is the
only way to a new one; that while one token holds the row, the candidate of a recovery (`CandidateKept`) and the copy of the
execution (`CopyKept`) agree with it; and how many executions have called upstream (`Spent`). Every step is shown to do one of a few
things to the row (`Writes`: it stays, returns to the queue, waits or ends), to each execution (`Moves`) and to the candidates (`ScanMoves`).

* `ScanCurrent`: `Spec => []ScanIsCurrent`. A row out of its lease that stays in progress is not written at all (`Holds`).
* `BudgetKept`: `Spec => []AttemptBudget`. The bound alone is not inductive: `Spent` counts the executions that have called upstream or still may
  (`Spenders`), one for each attempt used up and one in hand. A row with ids or a payload may return to the queue without using up an attempt, and the
  executions that follow are none of them.

`TaskDoubtProofs` assumes `Stoppable = {}`: workers are killed at any step and come back, but none is told to stop. The
assumption is needed. The recovery by id at shutdown names rows whose executions may still count a request after it has read them, or
are live on another worker (the finding of `shutdown_recovers_live_execution`); it then requeues or fails the row by the count it
read, and both properties fail in instances with SIGTERM. They are checked and proved without it, for any workers, claims and attempts.

* `HoldKept`: `Spec => UnresolvedHoldKept`, for any number of images. A task of several images is marked only in the step that puts
  it aside (`ReconKept`), so an open marked task makes one request.
* `NotRepeated`: `Spec => NoRepeatWhileUnresolved`, for `Images = 1`; with two it is the violated run.
* The invariant `Guarded` adds to `Inv` that what has reached upstream was counted (`Counted`), and for one request that nobody but
  the holder of the row has one in doubt (`OthersClear`), nor the holder once the row has ids or a payload, or the lease and a result
  that tells (`HolderClear`). A step that sends and gathers nothing keeps it when what it does is `Careful`: executions go on from what they
  know (`Follows`), the row goes back to the queue only with nothing in doubt (`RowFollows`), and so with the hold (`HoldSafe`). Claims, requests and the
  gathering of answers are proved one by one.

`TaskReconciliationProofs` has no bound either: any number of calls, commands, sweeps,
ids and windows. It assumes that tokens are not `NoCall`, that the evidence of a
sweep is not an operator's, that payloads have different names, and that `NoEntry`
is no entry. Its invariant `IInv` was checked by TLC on its instance first.

* `Inductive`: `Spec => []IInv`. The heart is `Unanswered`: the command that the holder
  of the token works on has no audit. A claim establishes it, because the audit is
  looked up under the row's lock, and only the holder can end it. Without it nothing says
  that two calls with one command, of which the first lost its lease, do not both
  enter an audit.
* `KeepsLedger` (`Spec => LedgerKept`): a decision finds no audit of its command and an
  untouched hold, so it is an `Answer`; every other step is a stutter.
* `Agreement` (`AnswersAgree`): by `Counted`, at most one audit decides, and the hold is
  settled exactly then.
* `LeftAlone` (`HolderIsLeftAlone`): by cases, from the guards on token and lease.
* `Stability` (`ResultIsStable`): by `Kept`, the prefix of a result is either a finished call's, or
  the execution's, under which nothing but the checkpoint is ever written.
* `RefundsBlank` (`RefundedWorkIsBlank`), by `Blanks` and `SweepsBlank`: an answer that nothing was found, in a call, an audit
  or the memory of a sweep, means that every stored id was at its end and blank. Stored ids do not change any more, so the answer stays true
  however old it is when the sweep goes by it. Of the ids a late execution had reported, `Asked` says the same for those the audit of
  the look-up names, and `Waited` that a sweep which judges has such an audit; an audit is never written again (`AuditsStay`).


`AgentInboxProofs` has no bound: any messages, processes, turns, jobs, faults and
switches. It assumes that `NoMsg` is no entry and no process, that messages are
not wakes or continuations, and that there are finitely many.

* `TypeCorrect`: `Spec => []TypeOK`, from `Typed`, which adds that a drain that goes on
  with an entry has one and that a claim has its turn.
* `Invariance`: `Spec => []Inv`. `Placed` is why a message is heard once: what is
  heard is a row taken by the turn that said it (`Heard`), by a turn past its start (`Spoke`); an
  interjection is in one place only, on its way or in the queue of the turn that took it (`Queued`,
  `OnItsWay`); and the holder of the lease is the last turn there is (`LastClaim`), because an id
  is made by the drain that claims. `Written`, `Ended` and `NoJobLeft` say what the
  closing steps leave. Steps that neither hear nor take anything are proved
  together (`CalmStep`, `JoblessStep`), then one step for each of the others (`KeptStep`).
* `OncePerMessage` (`HeardOnce`), `WroteAll` (`EndedTurnWroteAll`) and `NoJobAfterStop`
  (`StoppedTurnHasNoJob`) follow from `Inv`.
* `Implementation`: `Spec => TranscriptKept`. Only `Commit`, `WriteQueue` and `Flush` hear, under
  the lease, so that no later turn has spoken (`LatestHolder`).
* `HeardInOrder`: `Spec => []StartedInOrder`, by `InOrder`. What was heard being in order is not inductive: the next
  turn could hear what came before. `Behind` says that nothing waits that came before what was heard, `Ahead` that
  a turn that is being prepared is for the first that waits, which its last check under the lease makes sure of
  (`CommitOrder`), and `Numbers` that a new message comes last. Every other step leaves the messages as they are or takes
  some out (`Orderly`).

`AgentProgressProofs` builds on it, under the same assumptions.

* `NotContinued`: `Spec => []FinishedIsNotContinued`. The property says nothing of the step that continues a turn, so `Unsealed`
  adds that a turn is not closed by another one, nor planned to be, until its own footer stands. That holds because
  a process plans to close a turn only when it takes the lease, and a turn that still writes has it (`HeldOn`), with
  a process that lives, as long as no lease runs out under one. The steps are sorted by what they do to turns, lease and rows (`TurnStep`,
  `LeaseStep`, `RowStep`, `FaultStep`), once for this theorem and the next.
* `NobodyForgotten`: `Spec => []NothingStranded`, by `Hope`: while a message waits, somebody is `OnTheWay`, a drain that looks or claims, a turn
  that is `Hopeful` because it will look again or take the message, or an interjection that its turn gives back. A turn that was
  refused for its own message is not (`Sated`): the drain does not look again, and the message was
  taken by another turn. `Steady` says that without faults a lease is with a turn that needs it, so that a drain that finds
  it taken leaves the message to somebody (`DrainHope`), and `Called` that a refused claim had a turn.

`DirectRouteProofs` has no bound: any calls, requests, keys, limits, terms and faults. It assumes `CallAssumption`,
`LimitAssumption` and `HoldAssumption`.

* `TypeCorrect`: `Spec => []TypeOK`. `TypeOK` is inductive by itself; `Typed` is the same in named parts.
* `FailureIsCertain` (`UnsureIsReported`), `NoKeyAfterDoubt` (`KeySwitchIsClean`) and `HoldKept` (`HoldOutlivesDoubt`), by the
  invariant `Sound`. It says of every call that a group is only sent on a key it reserved (`KeyGiven`), that requests are cut off only
  in a call that was stopped (`CutHalted`), and that a call of which a request may have run carries that on, as `unsure`, until it ends (`Trail`). The properties alone
  are not inductive: what `Thrown` picks says nothing of the other requests unless it is known that an
  outcome without an answer is an unknown one, or belongs to a stopped call.
* `InFlightBounded` (`InFlightKept`), by `Bounded`: no more live rows than the limit (`Few`), and each request in flight that was never stalled has a live row
  with a fresh heartbeat (`AllFresh`), so that the sweep never takes it. The requests in flight then map one to one into the live rows.
* `WindowBounded` (`WindowKept`), by `Windows`. The sum alone is not inductive: a row could be swept or given back while its grant still
  counts. `AllCounted` says that every grant within the window has a row that is no older, so that what a reservation adds up
  (`Windowed(Swept)`) covers what was granted; one order above the limit is granted only when nothing counts (`GrantWithin`).
* `BudgetBounded` (`BudgetKept`), by `AllPaid`: what was billed for held calls is part of the usage. A reservation therefore
  checks at least what the property adds up (`ReservePaid`), and what counts of a settlement is no more than the hold was for (`CoveredCost`, `SettlePaid`), whatever the bill.

Both need facts about sums over finite sets, and a theorem of induction cannot be used here, because it takes an operator as a parameter. `SumsExist`, `SumStep`
and `SumMonotone` are proved with a minimal counterexample instead (`MinimalExists`): of the finite sets that break the claim one has
no smaller one that does, because proper inclusion is well-founded. For this the sums of the model are taken over functions (`Images`, `SlotEstimate`).

`WebSessionProofs` has no bound: any tabs, keys, changes of the password and late requests. It
assumes `KeyAssumption` and `BoundAssumption`.

* `TypeCorrect`: `Spec => []TypeOK`, by `Typed`, which adds that an operation that shows a key has one (`Shows`).
* `Implementation`: `Spec => SignInKept`. A rotation shows a key that no generation has, so it is a first renewal of `SignIn`; everything
  else that changes the server is a replacement, a lapse or an end.
* `WayKept` (`Recoverable`), by `Inv`. The property alone is not inductive: a late request could rotate with a key that nobody keeps.
  As long as cookies advance and the family lives, `Sound` says of each operation, and `SoundRequest` of each late request, that its cookie is none newer than the browser's,
  that its key is used or is the pending one, and that the completed key it would repair with belongs to the cookie it was sent with
  or an earlier one, so that the repair has nothing to repair. A rotation therefore starts from the browser's cookie with the pending key (`RenewedWayOn`),
  and a pending key is only taken off the journal once the cookie it leads to is there (`CompleteHeld`).
* `RenewalSucceeds` (`RefreshWorks`), by `WorksInv`: while nothing disturbs a renewal, nobody else can act without disturbing it (`WorksStep`), so that what the tab knows of
  journal, cookie and chain stays true (`Succeeds`). It is refused only from a cookie that the completed key leads on from; in a later round its key is
  new, because every key in the chain was made (`KeysMade`). This does not need `Inv`: it holds after a late answer has put the cookie back.

Only model-checked: `OrphanIsRecovered`, `InboxRunsEmpty`, `EveryTurnEnds`, `JobIsReported` and `EveryCallEnds`
(liveness under fairness is out of the prover's reach).
The violated properties are of course not theorems.

## 12. Not modelled, and why

* The billing module is not in the repository. `Finalized` is what its callers
  pass and rely on.
* Alerts of reconciliation, claim limits, the CLI's authorization: the plan of section 2.
* Of the upstream quota: the gate of the Vertex channels, the bucket and breaker of sub2api, the admin's views and settings.
* Of the agent: the clarification and the tool gate that hold entries back, direct
  interjections that never were in the inbox, several jobs of one turn and what is left of a batch, the
  count of consecutive wakes, errors of the database in the middle of a drain, confirmations and the model loop.
* Of the sessions: those from before the families (`upgradeLegacySession`), clients that send no key, the 30 seconds of grace, which choose between
  two refusals, a second sign-in in the same browser, OAuth.
* Video tasks follow the asynchronous path with one request; analysis tasks
  repeat the pattern of the queue with another table.
* Payload formats, image processing, object storage: data. The models keep only
  whether a payload is there, complete, and readable.
* Client state, forms, the website, deployment scripts: no property stated here
  depends on them.
