------------------------------ MODULE AgentInbox ------------------------------
(***************************************************************************)
(* One conversation with the agent: the inbox its messages, the wakes of   *)
(* its background jobs and the continuations of interrupted turns wait in; *)
(* the lease under which one process at a time runs a turn for it; the     *)
(* turns; and what may happen to a message at any of their steps: it is    *)
(* withdrawn, joins the running turn, or is given back by a stop.          *)
(*                                                                         *)
(* Every statement or transaction on the database is one step, and so is   *)
(* every stretch of JavaScript between two awaits that matters to another  *)
(* step.  The model has one conversation, at most one background job for   *)
(* each turn, and no clarification or tool gate that holds entries back.   *)
(***************************************************************************)
EXTENDS Naturals, FiniteSets

CONSTANTS
    Msg,             \* client ids of the messages the user sends
    Inst,            \* BFF processes
    NoMsg,           \* a drain that answers no sender; a turn without an entry
    MaxTurns,        \* bound on the turns that are started
    MaxPending,      \* AGENT_QUEUE_MAX_PENDING
    MaxJobs,         \* bound on the background jobs
    MaxFaults,       \* bound on crashes, stalls and drains
    Promotable,      \* bound: the messages the user makes an interjection
    Refusable,       \* bound: the messages whose turn the billing refuses
    Withdrawable,    \* bound: the messages the user withdraws
    MayStop,         \* bound: TRUE where the user stops a turn (one)
    Kinds            \* bound: the faults that happen: "crash", "stall", "drain"

Turn == 1 .. MaxTurns
NoTurn == 0
SealId == MaxTurns + 1      \* a process that only writes what a turn left out

\* An entry of the inbox: a message, the wake for the jobs of a turn, or the
\* continuation of a turn that was interrupted.
Wake(t)   == <<"wake", t>>
Resume(t) == <<"resume", t>>
Wakes     == {Wake(t) : t \in Turn}
Resumes   == {Resume(t) : t \in Turn}
Entry     == Msg \cup Wakes \cup Resumes

ASSUME BoundsAssumption ==
    /\ MaxTurns \in Nat /\ MaxPending \in Nat /\ MaxJobs \in Nat /\ MaxFaults \in Nat
    /\ Promotable \subseteq Msg /\ Refusable \subseteq Msg /\ Withdrawable \subseteq Msg
    /\ MayStop \in BOOLEAN /\ Kinds \subseteq {"crash", "stall", "drain"}
ASSUME NamesAssumption ==
    /\ NoMsg \notin Entry \cup Inst /\ Msg \cap (Wakes \cup Resumes) = {}
    /\ IsFiniteSet(Msg)

VARIABLES
    inbox,           \* the rows of agent_inbox
    exec,            \* the row of agent_executions
    turn,            \* the turns, in the process that runs them
    log,             \* what the database knows of a turn
    said,            \* the turns under which a message stands in the transcript
    job,             \* the background job of a turn
    looking,         \* the drains of a process that are about to look
    claiming,        \* those that have seen an entry and go for the lease
    sealer,          \* the turns a process seals outside of a turn
    proc,            \* the state of each process
    promotion,       \* what became of making a message an interjection
    stop,            \* the stops the user asked for
    faults           \* crashes, stalls and drains so far

vars == <<inbox, exec, turn, log, said, job, looking, claiming, sealer, proc,
          promotion, stop, faults>>

-----------------------------------------------------------------------------
(* Types                                                                   *)

Row == [st : {"absent", "pending", "consumed", "cancelled", "failed"},
        seq : Nat, by : Turn \cup {NoTurn}]

Execution == [holder : Turn \cup {NoTurn, SealId}, inst : Inst \cup {NoMsg},
              running : BOOLEAN, fresh : BOOLEAN]

\* The phases of a drain that has taken nothing, of a turn with an open event
\* log, and of either.
Early   == {"free", "claimed", "preparing", "leaving", "refusing"}
Open    == {"running", "closing", "flushed", "footed"}
Phase   == Early \cup {"committed", "handoff", "released", "relaying", "delivering",
                       "over"} \cup Open

TurnState == [at : Phase, inst : Inst \cup {NoMsg}, quiet : Msg \cup {NoMsg},
              todo : SUBSET Turn, src : Entry \cup {NoMsg}, aborted : BOOLEAN,
              queue : SUBSET Msg]

Log == [events : BOOLEAN, footer : {"none", "own", "sealed"}, terminal : BOOLEAN]

Promotion == [at : {"idle", "calling", "won", "in", "refused", "requeued", "lost"},
              turn : Turn \cup {NoTurn}]

TypeOK ==
    /\ inbox \in [Entry -> Row]
    /\ \A e \in Entry : inbox[e].st \in {"absent", "pending"} => inbox[e].by = NoTurn
    /\ \A e \in Entry : inbox[e].st = "consumed" => inbox[e].by \in Turn
    /\ exec \in Execution
    /\ turn \in [Turn -> TurnState]
    /\ log \in [Turn -> Log]
    /\ said \in [Msg -> SUBSET Turn]
    /\ job \in [Turn -> {"none", "running", "ended", "cancelled", "delivered"}]
    /\ looking \in [Inst -> SUBSET (Msg \cup {NoMsg})]
    /\ claiming \in [Inst -> SUBSET (Msg \cup {NoMsg})]
    /\ sealer \in [Inst -> [on : BOOLEAN, todo : SUBSET Turn]]
    /\ proc \in [Inst -> {"up", "draining", "down"}]
    /\ promotion \in [Msg -> Promotion]
    /\ stop \in [Turn -> {"no", "waiting", "returned", "done", "missed"}]
    /\ faults \in Nat

NewTurn == [at |-> "free", inst |-> NoMsg, quiet |-> NoMsg, todo |-> {},
            src |-> NoMsg, aborted |-> FALSE, queue |-> {}]
NoSeal == [on |-> FALSE, todo |-> {}]

Init ==
    /\ inbox = [e \in Entry |-> [st |-> "absent", seq |-> 0, by |-> NoTurn]]
    /\ exec = [holder |-> NoTurn, inst |-> NoMsg, running |-> FALSE, fresh |-> FALSE]
    /\ turn = [t \in Turn |-> NewTurn]
    /\ log = [t \in Turn |-> [events |-> FALSE, footer |-> "none", terminal |-> FALSE]]
    /\ said = [m \in Msg |-> {}]
    /\ job = [t \in Turn |-> "none"]
    /\ looking = [i \in Inst |-> {}]
    /\ claiming = [i \in Inst |-> {}]
    /\ sealer = [i \in Inst |-> NoSeal]
    /\ proc = [i \in Inst |-> "up"]
    /\ promotion = [m \in Msg |-> [at |-> "idle", turn |-> NoTurn]]
    /\ stop = [t \in Turn |-> "no"]
    /\ faults = 0

-----------------------------------------------------------------------------
(* The lease                                                               *)

\* Mutants: a lease that never runs out, and one that is not asked for.
HeldForEver == exec.running
OwnsOnce(t) == turn[t].inst # NoMsg

Held      == exec.running /\ exec.fresh
Owns(t)   == exec.running /\ exec.holder = t /\ exec.inst = turn[t].inst
Renewed   == [exec EXCEPT !.fresh = TRUE]
Leased(h, i)   == [holder |-> h, inst |-> i, running |-> TRUE, fresh |-> TRUE]
Released(h, i) == IF exec.holder = h /\ exec.inst = i
                     THEN [exec EXCEPT !.running = FALSE] ELSE exec

\* The event logs a process has open, and the turn its registry has for the
\* conversation: the last one that started there.
OpenLogs(i)   == {t \in Turn : turn[t].inst = i /\ turn[t].at \in Open}
Registered(i) == {t \in OpenLogs(i) : \A u \in OpenLogs(i) : u <= t}

\* Ids are made when a drain claims; one that left no trace is used again.
Unused(t) == \A u \in Turn : u >= t => turn[u].at = "free"
NextId(t) == Unused(t) /\ \A u \in Turn : u < t => ~Unused(u)
Put(t, r)    == [turn EXCEPT ![t] = r]
Free(t)      == Put(t, NewTurn)
At(t, phase) == Put(t, [turn[t] EXCEPT !.at = phase])
Gone(t)      == [NewTurn EXCEPT !.at = "over", !.inst = turn[t].inst]

-----------------------------------------------------------------------------
(* The inbox                                                               *)

Pending(e) == inbox[e].st = "pending"
Waiting    == {e \in Entry : Pending(e)}

\* A new row has the number after the highest.
LastSeq == Cardinality({e \in Entry : inbox[e].st # "absent"})
NewRow(st, k) == [st |-> st, seq |-> LastSeq + k, by |-> NoTurn]

\* Mutant of Before: messages come as they please.
BeforeInAnyOrder(d, e) == d \notin Wakes \/ e \in Wakes

\* Messages and continuations by their number, wakes last.
Before(d, e) == \/ d \notin Wakes /\ e \in Wakes
                \/ (d \in Wakes <=> e \in Wakes) /\ inbox[d].seq < inbox[e].seq
IsNext(e)    == Pending(e) /\ \A d \in Waiting : d # e => Before(e, d)

\* A withdrawal: of what waits, or could not be started.
Withdrawn(m) ==
    IF m # NoMsg /\ inbox[m].st \in {"pending", "failed"}
       THEN [inbox EXCEPT ![m].st = "cancelled"] ELSE inbox

Taken(es, t) == [e \in Entry |-> IF e \in es
                                    THEN [inbox[e] EXCEPT !.st = "consumed", !.by = t]
                                    ELSE inbox[e]]

TakenBy(t) == {e \in Entry : inbox[e].st = "consumed" /\ inbox[e].by = t}

-----------------------------------------------------------------------------
(* Wakes                                                                   *)

\* Mutant of Due: a job that was cancelled is not delivered.
DueOfEnded(jobs, late) ==
    {t \in Turn : /\ jobs[t] = "ended"
                  /\ (late /\ job[t] = "ended") \/ ~(Held /\ exec.holder = t)}

\* Jobs that have ended are due once the turn that submitted them has let go
\* of the lease, or two minutes have passed (late).
JobOver == {"ended", "cancelled"}
Due(jobs, late) ==
    {t \in Turn : /\ jobs[t] \in JobOver
                  /\ (late /\ job[t] \in JobOver) \/ ~(Held /\ exec.holder = t)}

\* A job the user cancelled wakes nobody.
WithWakes(ts, jobs) ==
    LET waking == {t \in ts : jobs[t] = "ended"}
    IN  [e \in Entry |->
           IF \E t \in waking : e = Wake(t)
              THEN NewRow("pending", Cardinality({u \in waking : u <= e[2]}))
              ELSE inbox[e]]
Reported(ts, jobs) == [t \in Turn |-> IF t \in ts THEN "delivered" ELSE jobs[t]]
Delivers(jobs, late) ==
    /\ inbox' = WithWakes(Due(jobs, late), jobs)
    /\ job' = Reported(Due(jobs, late), jobs)

\* The transaction that ends a job delivers whatever of the conversation is
\* due by then.
Ends(t, how) == \E late \in BOOLEAN : Delivers([job EXCEPT ![t] = how], late)

-----------------------------------------------------------------------------
(* The user sends and withdraws                                            *)

\* A message enters the inbox; where no turn runs, its sender drains at once.
Send(m, i) ==
    /\ proc[i] # "down"
    /\ inbox[m].st = "absent"
    /\ Cardinality({n \in Msg : Pending(n)}) < MaxPending
    /\ inbox' = [inbox EXCEPT ![m] = NewRow("pending", 1)]
    /\ looking' = [looking EXCEPT ![i] = @ \cup {m}]
    /\ UNCHANGED <<exec, turn, log, said, job, claiming, sealer, proc, promotion,
                   stop, faults>>

\* A message is withdrawn; one the inbox does not have yet leaves a row that
\* turns the late submission away.
Withdraw(m) ==
    /\ inbox[m].st \in {"absent", "pending", "failed"}
    /\ inbox' = IF inbox[m].st = "absent"
                   THEN [inbox EXCEPT ![m] = NewRow("cancelled", 1)] ELSE Withdrawn(m)
    /\ UNCHANGED <<exec, turn, log, said, job, looking, claiming, sealer, proc,
                   promotion, stop, faults>>

-----------------------------------------------------------------------------
(* A drain, up to its lease                                                *)

\* A sender whose process has a turn open leaves its message to that turn (and
\* no longer asks when it comes round again); a process that is shutting down
\* hands its sender's message back.
Look(q, i) ==
    /\ q \in looking[i]
    /\ looking' = [looking EXCEPT ![i] = @ \ {q}]
    /\ \/ /\ \/ q # NoMsg /\ Registered(i) # {}
             \/ proc[i] = "up" /\ Waiting = {}
             \/ proc[i] = "draining" /\ ~(q # NoMsg /\ IsNext(q))
          /\ UNCHANGED <<inbox, claiming>>
       \/ /\ proc[i] = "draining" /\ q # NoMsg /\ IsNext(q)
          /\ inbox' = Withdrawn(q)
          /\ UNCHANGED claiming
       \/ /\ proc[i] = "up" /\ Waiting # {}
          /\ claiming' = [claiming EXCEPT ![i] = @ \cup {q}]
          /\ UNCHANGED inbox
    /\ UNCHANGED <<exec, turn, log, said, job, sealer, proc, promotion, stop, faults>>

\* Mutant of Unterminated: a turn with a footer passes for ended.
UnterminatedWithoutFooter(i) ==
    {t \in Turn : log[t].events /\ log[t].footer = "none"} \ OpenLogs(i)

\* The turns that have events in the database and no end, and are not open
\* in this process.
Unterminated(i) == {t \in Turn : log[t].events /\ ~log[t].terminal} \ OpenLogs(i)

Claim(q, i, t) ==
    /\ q \in claiming[i] /\ ~Held /\ NextId(t)
    /\ claiming' = [claiming EXCEPT ![i] = @ \ {q}]
    /\ exec' = Leased(t, i)
    /\ turn' = Put(t, [NewTurn EXCEPT !.at = "claimed", !.inst = i, !.quiet = q,
                                      !.todo = Unterminated(i)])
    /\ UNCHANGED <<inbox, log, said, job, looking, sealer, proc, promotion, stop,
                   faults>>

\* Somebody holds the lease, and will come for the entry.  While that is a
\* seal, or a turn this process has closed, the drain may wait for it first.
GiveUp(q, i) ==
    /\ q \in claiming[i] /\ Held
    /\ claiming' = [claiming EXCEPT ![i] = @ \ {q}]
    /\ UNCHANGED <<inbox, exec, turn, log, said, job, looking, sealer, proc,
                   promotion, stop, faults>>

-----------------------------------------------------------------------------
(* What an interrupted turn left out                                       *)

\* A turn is continued once: not the continuation, and not a turn that took
\* nothing out of the inbox.
Continued(u) ==
    IF /\ TakenBy(u) # {} /\ TakenBy(u) \cap Resumes = {}
       /\ inbox[Resume(u)].st = "absent"
       THEN [inbox EXCEPT ![Resume(u)] = NewRow("pending", 1)] ELSE inbox

\* Mutant of SealFooter: the turn's own footer is not looked for.
SealFooterAgain(u) ==
    /\ log[u].footer # "sealed"
    /\ inbox' = Continued(u)
    /\ log' = [log EXCEPT ![u].footer = IF @ = "own" THEN "own" ELSE "sealed"]

\* The continuation and the footer are written in one transaction (what is
\* read before it is read with it); the last event follows.
SealFooter(u) ==
    /\ log[u].footer = "none"
    /\ inbox' = Continued(u)
    /\ log' = [log EXCEPT ![u].footer = "sealed"]

SealEnd(u) ==
    /\ log[u].footer # "none"
    /\ log' = [log EXCEPT ![u].terminal = TRUE]

\* The drain of turn t writes what earlier turns left out.
Seal(t, u) ==
    /\ turn[t].at = "claimed" /\ u \in turn[t].todo
    /\ \/ SealFooter(u) /\ UNCHANGED turn
       \/ /\ SealEnd(u)
          /\ turn' = Put(t, [turn[t] EXCEPT !.todo = @ \ {u}])
          /\ UNCHANGED inbox
    /\ UNCHANGED <<exec, said, job, looking, claiming, sealer, proc, promotion, stop,
                   faults>>

\* Outside of a turn: the sweep, for a lease whose holder is gone, and a read
\* of the conversation.
SealerClaim(i) ==
    /\ proc[i] # "down" /\ ~sealer[i].on /\ ~Held
    /\ (proc[i] = "up" /\ exec.running) \/ Unterminated(i) # {}
    /\ exec' = Leased(SealId, i)
    /\ sealer' = [sealer EXCEPT ![i] = [on |-> TRUE, todo |-> Unterminated(i)]]
    /\ UNCHANGED <<inbox, turn, log, said, job, looking, claiming, proc, promotion,
                   stop, faults>>

SealerSeal(i, u) ==
    /\ sealer[i].on /\ u \in sealer[i].todo
    /\ \/ SealFooter(u) /\ UNCHANGED sealer
       \/ /\ SealEnd(u)
          /\ sealer' = [sealer EXCEPT ![i].todo = @ \ {u}]
          /\ UNCHANGED inbox
    /\ UNCHANGED <<exec, turn, said, job, looking, claiming, proc, promotion, stop,
                   faults>>

SealerRelease(i) ==
    /\ sealer[i].on /\ sealer[i].todo = {}
    /\ sealer' = [sealer EXCEPT ![i] = NoSeal]
    /\ exec' = Released(SealId, i)
    /\ UNCHANGED <<inbox, turn, log, said, job, looking, claiming, proc, promotion,
                   stop, faults>>
-----------------------------------------------------------------------------
(* From the lease to a turn                                                *)

\* The next entry is read; without one the drain lets go.
Pick(t) ==
    /\ turn[t].at = "claimed" /\ turn[t].todo = {}
    /\ \/ \E e \in Entry :
             /\ IsNext(e)
             /\ turn' = Put(t, [turn[t] EXCEPT !.at = "preparing", !.src = e])
       \/ Waiting = {} /\ turn' = At(t, "leaving")
    /\ UNCHANGED <<inbox, exec, log, said, job, looking, claiming, sealer, proc,
                   promotion, stop, faults>>

\* One transaction under the lease takes the entry, and for a message also
\* the wakes that wait (unless the credits do not cover them), and stores what
\* the user said.
Commit(t) ==
    LET src == turn[t].src
    IN  /\ turn[t].at = "preparing" /\ Owns(t) /\ Pending(src)
        /\ \E more \in IF src \in Msg THEN {{}, Waiting \cap Wakes} ELSE {{}} :
              inbox' = Taken({src} \cup more, t)
        /\ said' = IF src \in Msg THEN [said EXCEPT ![src] = @ \cup {t}] ELSE said
        /\ turn' = At(t, "committed")
        /\ exec' = Renewed
        /\ UNCHANGED <<log, job, looking, claiming, sealer, proc, promotion, stop,
                       faults>>

\* The entry is gone, or the wake is not worth a turn (the limit on
\* consecutive wakes, the credits, nothing left to look at): the drain lets go
\* and looks again.
Pass(t) ==
    LET src == turn[t].src
    IN  /\ turn[t].at = "preparing" /\ Owns(t)
        /\ \/ ~Pending(src) /\ UNCHANGED inbox
           \/ /\ src \in Wakes /\ Pending(src)
              /\ \/ inbox' = [inbox EXCEPT ![src].st = "cancelled"]
                 \/ inbox' = Taken({src}, t)
        /\ turn' = At(t, "leaving")
        /\ exec' = Renewed
        /\ UNCHANGED <<log, said, job, looking, claiming, sealer, proc, promotion,
                       stop, faults>>

\* Mutant of Leave: the drain does not look again.
LeaveForGood(t) ==
    /\ turn[t].at = "leaving"
    /\ exec' = Released(t, turn[t].inst)
    /\ turn' = Free(t)
    /\ UNCHANGED <<inbox, log, said, job, looking, claiming, sealer, proc, promotion,
                   stop, faults>>

\* The lease is let go and the drain looks again: what came in while it held
\* the lease found it taken.
Leave(t) ==
    /\ turn[t].at = "leaving"
    /\ exec' = Released(t, turn[t].inst)
    /\ looking' = [looking EXCEPT ![turn[t].inst] = @ \cup {turn[t].quiet}]
    /\ turn' = Free(t)
    /\ UNCHANGED <<inbox, log, said, job, claiming, sealer, proc, promotion, stop,
                   faults>>

\* The billing refuses the turn: the lease is let go, ...
Refuse(t) ==
    /\ turn[t].at = "preparing" /\ Owns(t)
    /\ turn[t].src \in Refusable /\ Pending(turn[t].src)
    /\ exec' = Released(t, turn[t].inst)
    /\ turn' = At(t, "refusing")
    /\ UNCHANGED <<inbox, log, said, job, looking, claiming, sealer, proc, promotion,
                   stop, faults>>

\* ... and the message goes back to its sender, or is marked failed.
Refused(t) ==
    LET src == turn[t].src
    IN  /\ turn[t].at = "refusing"
        /\ IF src = turn[t].quiet
              THEN inbox' = Withdrawn(src) /\ UNCHANGED looking
              ELSE /\ inbox' = IF Pending(src) THEN [inbox EXCEPT ![src].st = "failed"]
                                               ELSE inbox
                   /\ looking' = [looking EXCEPT ![turn[t].inst] = @ \cup {turn[t].quiet}]
        /\ turn' = Free(t)
        /\ UNCHANGED <<exec, log, said, job, claiming, sealer, proc, promotion, stop,
                       faults>>

\* The lease is lost before the turn starts: the sender is told, and what it
\* sent is withdrawn unless the turn has taken it.
Dropped(t) ==
    /\ turn[t].at \in {"preparing", "committed"} /\ ~Owns(t)
    /\ inbox' = Withdrawn(turn[t].quiet)
    /\ turn' = IF turn[t].at = "preparing" THEN Free(t) ELSE Put(t, Gone(t))
    /\ UNCHANGED <<exec, log, said, job, looking, claiming, sealer, proc, promotion,
                   stop, faults>>

Start(t) ==
    /\ turn[t].at = "committed" /\ Owns(t)
    /\ turn' = Put(t, [turn[t] EXCEPT !.at = "running", !.quiet = NoMsg, !.src = NoMsg])
    /\ exec' = Renewed
    /\ UNCHANGED <<inbox, log, said, job, looking, claiming, sealer, proc, promotion,
                   stop, faults>>

-----------------------------------------------------------------------------
(* A turn that runs                                                        *)

\* Events are written without the lease.
Persist(t) ==
    /\ turn[t].at \in Open /\ ~log[t].events
    /\ log' = [log EXCEPT ![t].events = TRUE]
    /\ UNCHANGED <<inbox, exec, turn, said, job, looking, claiming, sealer, proc,
                   promotion, stop, faults>>

\* Interjections join the transcript at the next boundary of the reply.
WriteQueue(t) ==
    /\ turn[t].at = "running" /\ turn[t].queue # {} /\ Owns(t)
    /\ said' = [m \in Msg |-> IF m \in turn[t].queue THEN said[m] \cup {t} ELSE said[m]]
    /\ turn' = Put(t, [turn[t] EXCEPT !.queue = {}])
    /\ exec' = Renewed
    /\ UNCHANGED <<inbox, log, job, looking, claiming, sealer, proc, promotion, stop,
                   faults>>

SubmitJob(t) ==
    /\ turn[t].at = "running" /\ Owns(t) /\ job[t] = "none"
    /\ Cardinality({u \in Turn : job[u] # "none"}) < MaxJobs
    /\ job' = [job EXCEPT ![t] = "running"]
    /\ exec' = Renewed
    /\ UNCHANGED <<inbox, turn, log, said, looking, claiming, sealer, proc, promotion,
                   stop, faults>>

\* The heartbeat keeps the lease, or finds it lost and ends the turn.
Heartbeat(t) ==
    /\ turn[t].at \in Open \cup {"preparing", "committed", "handoff"}
    /\ \/ Owns(t) /\ ~exec.fresh /\ exec' = Renewed /\ UNCHANGED turn
       \/ /\ ~Owns(t) /\ turn[t].at = "running" /\ ~turn[t].aborted
          /\ turn' = Put(t, [turn[t] EXCEPT !.aborted = TRUE])
          /\ UNCHANGED exec
    /\ UNCHANGED <<inbox, log, said, job, looking, claiming, sealer, proc, promotion,
                   stop, faults>>

\* The reply is over: no more interjections.
Close(t) ==
    /\ turn[t].at = "running"
    /\ turn' = Put(t, [turn[t] EXCEPT !.at = "closing", !.aborted = FALSE])
    /\ UNCHANGED <<inbox, exec, log, said, job, looking, claiming, sealer, proc,
                   promotion, stop, faults>>

\* Mutant of SubmittedLate: only a stop that is not over yet is looked at.
SubmittedBeforeAbort(t) == stop[t] = "returned" /\ job[t] = "running"

\* A turn that the user stopped has a job that the stop has not cancelled.
SubmittedLate(t) == stop[t] \in {"done", "missed"} /\ job[t] = "running"

\* The job of a stopped turn is cancelled; where that fails, the error is logged
\* and the job runs on to its end.
CancelJob(t) ==
    \/ Ends(t, "cancelled") /\ stop' = [stop EXCEPT ![t] = "done"]
    \/ stop' = [stop EXCEPT ![t] = "missed"] /\ UNCHANGED <<inbox, job>>

\* What the turn still has to say and its settlement, under the lease (a turn
\* that has nothing to say and is not billed does not ask for it); a turn the
\* user stopped cancels its job again.
Flush(t) ==
    /\ turn[t].at = "closing"
    /\ \/ Owns(t) /\ exec' = Renewed
       \/ turn[t].queue = {} /\ UNCHANGED exec
    /\ said' = [m \in Msg |-> IF m \in turn[t].queue THEN said[m] \cup {t} ELSE said[m]]
    /\ turn' = Put(t, [turn[t] EXCEPT !.at = "flushed", !.queue = {}])
    /\ IF SubmittedLate(t) THEN CancelJob(t) ELSE UNCHANGED <<inbox, job, stop>>
    /\ UNCHANGED <<log, looking, claiming, sealer, proc, promotion, faults>>

\* The lease is lost: nothing more is written.
Lost(t) ==
    /\ turn[t].at = "closing" /\ ~Owns(t)
    /\ turn' = Put(t, [turn[t] EXCEPT !.at = "handoff", !.queue = {}])
    /\ UNCHANGED <<inbox, exec, log, said, job, looking, claiming, sealer, proc,
                   promotion, stop, faults>>

\* The footer, without the lease; it replaces one written by a seal.
Footer(t) ==
    /\ turn[t].at = "flushed"
    /\ log' = [log EXCEPT ![t].footer = "own"]
    /\ turn' = At(t, "footed")
    /\ UNCHANGED <<inbox, exec, said, job, looking, claiming, sealer, proc, promotion,
                   stop, faults>>

\* The last event; the turn leaves the registry.
End(t) ==
    /\ turn[t].at = "footed"
    /\ log' = [log EXCEPT ![t].events = TRUE, ![t].terminal = TRUE]
    /\ turn' = At(t, "handoff")
    /\ UNCHANGED <<inbox, exec, said, job, looking, claiming, sealer, proc, promotion,
                   stop, faults>>

Release(t) ==
    /\ turn[t].at = "handoff"
    /\ exec' = Released(t, turn[t].inst)
    /\ turn' = At(t, "released")
    /\ UNCHANGED <<inbox, log, said, job, looking, claiming, sealer, proc, promotion,
                   stop, faults>>

\* The handoff asks whether an entry waits before it delivers the wakes that
\* are due, and drains if one does or the wakes brought one.
Ask(t) ==
    /\ turn[t].at = "released"
    /\ turn' = At(t, IF Waiting # {} THEN "relaying" ELSE "delivering")
    /\ UNCHANGED <<inbox, exec, log, said, job, looking, claiming, sealer, proc,
                   promotion, stop, faults>>

Handoff(t) ==
    /\ turn[t].at \in {"relaying", "delivering"}
    /\ \E late \in BOOLEAN :
          /\ Delivers(job, late)
          /\ looking' = IF \/ turn[t].at = "relaying"
                           \/ \E u \in Due(job, late) : job[u] = "ended"
                           THEN [looking EXCEPT ![turn[t].inst] = @ \cup {NoMsg}]
                           ELSE looking
    /\ turn' = At(t, "over")
    /\ UNCHANGED <<exec, log, said, claiming, sealer, proc, promotion, stop, faults>>
-----------------------------------------------------------------------------
(* Background jobs and the sweep                                           *)

\* A worker ends the job.
EndJob(t) ==
    /\ job[t] = "running"
    /\ Ends(t, "ended")
    /\ UNCHANGED <<exec, turn, log, said, looking, claiming, sealer, proc, promotion,
                   stop, faults>>

\* The sweep delivers what is due ...
SweepJobs(i) ==
    /\ proc[i] = "up"
    /\ \E late \in BOOLEAN : Due(job, late) # {} /\ Delivers(job, late)
    /\ UNCHANGED <<exec, turn, log, said, looking, claiming, sealer, proc, promotion,
                   stop, faults>>

\* ... and drains a conversation nobody runs a turn for.
Sweep(i) ==
    /\ proc[i] = "up" /\ ~Held /\ Waiting # {}
    /\ NoMsg \notin looking[i] \cup claiming[i]
    /\ looking' = [looking EXCEPT ![i] = @ \cup {NoMsg}]
    /\ UNCHANGED <<inbox, exec, turn, log, said, job, claiming, sealer, proc,
                   promotion, stop, faults>>

-----------------------------------------------------------------------------
(* A waiting message becomes an interjection                               *)

\* Mutant of Takes: a turn takes interjections while its log is open.
TakesWhileOpen(t) == turn[t].at \in Open

\* A turn takes interjections until its reply is over or it is aborted.
Takes(t) == turn[t].at = "running" /\ ~turn[t].aborted

\* The last check of the turn before the claim is sent to the database.
PromoteCall(m, t) ==
    /\ promotion[m].at = "idle" /\ Pending(m)
    /\ t \in Registered(turn[t].inst) /\ Takes(t)
    /\ stop[t] = "no"
    /\ promotion' = [promotion EXCEPT ![m] = [at |-> "calling", turn |-> t]]
    /\ UNCHANGED <<inbox, exec, turn, log, said, job, looking, claiming, sealer, proc,
                   stop, faults>>

\* Mutant of Claimable: the state of the row is not compared.
ClaimableWhateverState(m) == inbox[m].st # "absent"

\* Only a message that waits can be claimed.
Claimable(m) == Pending(m)

PromoteClaim(m) ==
    /\ promotion[m].at = "calling"
    /\ \/ /\ Claimable(m)
          /\ inbox' = Taken({m}, promotion[m].turn)
          /\ promotion' = [promotion EXCEPT ![m].at = "won"]
       \/ /\ ~Claimable(m)
          /\ promotion' = [promotion EXCEPT ![m] = [at |-> "idle", turn |-> NoTurn]]
          /\ UNCHANGED inbox
    /\ UNCHANGED <<exec, turn, log, said, job, looking, claiming, sealer, proc, stop,
                   faults>>

\* The answer comes back: the message joins the turn if that still takes any.
PromoteLand(m) ==
    LET t == promotion[m].turn
    IN  /\ promotion[m].at = "won"
        /\ IF Takes(t)
              THEN /\ turn' = Put(t, [turn[t] EXCEPT !.queue = @ \cup {m}])
                   /\ promotion' = [promotion EXCEPT ![m].at = "in"]
              ELSE /\ promotion' = [promotion EXCEPT ![m].at = "refused"]
                   /\ UNCHANGED turn
        /\ UNCHANGED <<inbox, exec, log, said, job, looking, claiming, sealer, proc,
                       stop, faults>>

\* Mutant of PutBack: the row keeps its turn.
PutBackWithTurn(m, t) == IF m \in TakenBy(t)
                            THEN [inbox EXCEPT ![m].st = "pending"] ELSE inbox

\* A message the turn took waits again.
PutBack(m, t) == IF m \in TakenBy(t)
                    THEN [inbox EXCEPT ![m].st = "pending", ![m].by = NoTurn] ELSE inbox

\* Otherwise it is put back, and picked up where the turn has already gone.
\* (Where it has, the stop it was to respect is forgotten with it.)
PromoteRequeue(m) ==
    LET t == promotion[m].turn
        i == turn[t].inst
    IN  /\ promotion[m].at = "refused"
        /\ inbox' = PutBack(m, t)
        /\ promotion' = [promotion EXCEPT ![m].at = "requeued"]
        /\ looking' = IF Registered(i) = {} THEN [looking EXCEPT ![i] = @ \cup {NoMsg}]
                                            ELSE looking
        /\ UNCHANGED <<exec, turn, log, said, job, claiming, sealer, proc, stop, faults>>

-----------------------------------------------------------------------------
(* The user stops a turn                                                   *)

\* From here on no claim for the turn begins, ...
StopBegin(t) ==
    /\ MayStop /\ \A u \in Turn : stop[u] = "no"
    /\ t \in Registered(turn[t].inst)
    /\ stop' = [stop EXCEPT ![t] = "waiting"]
    /\ UNCHANGED <<inbox, exec, turn, log, said, job, looking, claiming, sealer, proc,
                   promotion, faults>>

\* ... those on their way are waited for, and what waits is given back, ...
StopReturn(t) ==
    /\ stop[t] = "waiting"
    /\ \A m \in Msg : promotion[m].turn = t => promotion[m].at \notin {"calling", "won"}
    /\ inbox' = [e \in Entry |->
                   IF e \in Msg /\ inbox[e].st \in {"pending", "failed"}
                      THEN [inbox[e] EXCEPT !.st = "cancelled", !.by = t] ELSE inbox[e]]
    /\ stop' = [stop EXCEPT ![t] = "returned"]
    /\ UNCHANGED <<exec, turn, log, said, job, looking, claiming, sealer, proc,
                   promotion, faults>>

\* ... the turn is aborted and its job cancelled.
StopAbort(t) ==
    /\ stop[t] = "returned"
    /\ turn' = IF turn[t].at = "running" THEN Put(t, [turn[t] EXCEPT !.aborted = TRUE])
                                         ELSE turn
    /\ IF job[t] = "running"
          THEN CancelJob(t)
          ELSE stop' = [stop EXCEPT ![t] = "done"] /\ UNCHANGED <<inbox, job>>
    /\ UNCHANGED <<exec, log, said, looking, claiming, sealer, proc, promotion, faults>>

-----------------------------------------------------------------------------
(* Faults                                                                  *)

\* A lease runs out under its holder: at once where the holder is gone, and
\* for a process that lives because it stalls.
Expire ==
    /\ Held
    /\ \/ proc[exec.inst] = "down" /\ UNCHANGED faults
       \/ /\ "stall" \in Kinds /\ proc[exec.inst] # "down" /\ faults < MaxFaults
          /\ faults' = faults + 1
    /\ exec' = [exec EXCEPT !.fresh = FALSE]
    /\ UNCHANGED <<inbox, turn, log, said, job, looking, claiming, sealer, proc,
                   promotion, stop>>

\* A process dies with all it had in memory; another one goes on.
Crash(i) ==
    /\ "crash" \in Kinds /\ proc[i] # "down" /\ faults < MaxFaults
    /\ \E k \in Inst \ {i} : proc[k] = "up"
    /\ proc' = [proc EXCEPT ![i] = "down"]
    /\ turn' = [t \in Turn |->
                  IF turn[t].inst # i THEN turn[t]
                  ELSE IF turn[t].at \in Early THEN NewTurn ELSE Gone(t)]
    /\ promotion' = [m \in Msg |->
                       IF /\ promotion[m].at \in {"calling", "won", "refused"}
                          /\ turn[promotion[m].turn].inst = i
                          THEN [promotion[m] EXCEPT !.at = "lost"] ELSE promotion[m]]
    /\ stop' = [t \in Turn |-> IF turn[t].inst = i /\ stop[t] \in {"waiting", "returned"}
                                  THEN "no" ELSE stop[t]]
    /\ looking' = [looking EXCEPT ![i] = {}]
    /\ claiming' = [claiming EXCEPT ![i] = {}]
    /\ sealer' = [sealer EXCEPT ![i] = NoSeal]
    /\ faults' = faults + 1
    /\ UNCHANGED <<inbox, exec, log, said, job>>

\* A process is told to stop: it finishes its turns and starts none.
DrainBegin(i) ==
    /\ "drain" \in Kinds /\ proc[i] = "up" /\ faults < MaxFaults
    /\ \E k \in Inst \ {i} : proc[k] = "up"
    /\ proc' = [proc EXCEPT ![i] = "draining"]
    /\ faults' = faults + 1
    /\ UNCHANGED <<inbox, exec, turn, log, said, job, looking, claiming, sealer,
                   promotion, stop>>

-----------------------------------------------------------------------------

Drain(i) == \E q \in Msg \cup {NoMsg} :
    Look(q, i) \/ GiveUp(q, i) \/ \E t \in Turn : Claim(q, i, t)

\* The steps a drain and its turn take by themselves.
Runs(t) ==
    \/ \E u \in Turn : Seal(t, u)
    \/ Pick(t) \/ Commit(t) \/ Pass(t) \/ Leave(t) \/ Refuse(t) \/ Refused(t)
    \/ Dropped(t) \/ Start(t) \/ Persist(t) \/ Close(t) \/ Flush(t) \/ Lost(t)
    \/ Footer(t) \/ End(t) \/ Release(t) \/ Ask(t) \/ Handoff(t)

Promote(m) == PromoteClaim(m) \/ PromoteLand(m) \/ PromoteRequeue(m)

Seals(i) == SealerClaim(i) \/ SealerRelease(i) \/ \E u \in Turn : SealerSeal(i, u)

User ==
    \/ \E m \in Msg, i \in Inst : Send(m, i)
    \/ \E m \in Withdrawable : Withdraw(m)
    \/ \E m \in Promotable, t \in Turn : PromoteCall(m, t)
    \/ \E t \in Turn : StopBegin(t)

\* The lease of a process that is gone runs out.
ExpireGone == Expire /\ proc[exec.inst] = "down"

\* All that happens without the user and without a fault.
System ==
    \/ \E i \in Inst : Drain(i) \/ Seals(i) \/ SweepJobs(i) \/ Sweep(i)
    \/ \E t \in Turn : Runs(t) \/ EndJob(t) \/ StopReturn(t) \/ StopAbort(t)
    \/ \E m \in Msg : Promote(m)
    \/ ExpireGone

Next ==
    \/ User
    \/ System
    \/ \E t \in Turn : Heartbeat(t) \/ WriteQueue(t) \/ SubmitJob(t)
    \/ Expire
    \/ \E i \in Inst : Crash(i) \/ DrainBegin(i)

\* Something that can go on does go on: drains, turns, stops and interjections
\* are awaited promises, the sweep is a timer, the model call of a turn and its
\* tasks have time limits, and a lease nobody renews runs out.  Nothing is said
\* of which step comes first.
Fairness == WF_vars(System)

Spec     == Init /\ [][Next]_vars
FairSpec == Spec /\ Fairness
-----------------------------------------------------------------------------
(* Properties                                                              *)

\* The transcript, as the drains, interjections, stops, withdrawals, requeues
\* and turns that have lost their lease leave it, keeps what Transcript promises.
T == INSTANCE Transcript WITH Message <- Msg, Round <- Turn,
        back <- {m \in Msg : inbox[m].st = "cancelled"}
TranscriptKept == T!Spec

\* A message is heard once: it stands in the transcript under at most one
\* turn, whichever of the drains, interjections, stops, withdrawals and
\* requeues reached it first, across lost leases and crashes; and what was
\* withdrawn or given back to the user is not heard.
HeardOnce == \A m \in Msg : /\ \A t, u \in said[m] : t = u
                            /\ inbox[m].st = "cancelled" => said[m] = {}

\* A turn that ends with a footer of its own has written everything it took:
\* its message and every interjection it accepted.  A message it took and
\* could not accept is on its way back, or was lost with the process.
EndedTurnWroteAll ==
    \A m \in Msg, t \in Turn :
        /\ log[t].footer = "own" /\ m \in TakenBy(t)
        /\ promotion[m].at \notin {"won", "refused", "lost"}
        => t \in said[m]

\* Messages are heard in the order they entered the inbox, but for those that
\* were claimed for a running turn in between.
StartedInOrder ==
    \A m, n \in {k \in Msg : promotion[k].at = "idle"} :
        \A t \in said[m], u \in said[n] : inbox[m].seq < inbox[n].seq => t < u

\* No message waits for the sweep: while no process dies, stalls or shuts down
\* and no turn is refused to its sender, somebody is always on the way to a
\* message that waits: a drain, a turn, or an interjection that is claimed and
\* has not joined its turn.
Active(t) == turn[t].at \notin {"free", "over"}
NothingStranded ==
    (/\ faults = 0
     /\ \A m \in Refusable : inbox[m].st # "cancelled"
     /\ \A i \in Inst : looking[i] = {} /\ claiming[i] = {}
     /\ \A t \in Turn : ~Active(t)
     /\ \A m \in Msg : promotion[m].at \notin {"won", "refused"}) => Waiting \cap Msg = {}

\* A turn that the user stopped and that ended by itself leaves a job running
\* only if the last attempt to cancel it failed: what a tool was still submitting
\* when the stop came, and what the stop itself failed to cancel, is found when
\* the turn closes (stopConversationTurn; turn.ts:1020-1028).
StoppedTurnHasNoJob ==
    \A t \in Turn : stop[t] = "done" /\ log[t].footer = "own" => job[t] # "running"

\* A turn that ended by itself is not continued, wherever its process died:
\* the seal that finds its footer writes the last event and nothing else.  (A
\* turn whose lease ran out while it lived may be continued and still end.)
FinishedIsNotContinued ==
    "stall" \notin Kinds =>
        \A t \in Turn : log[t].footer = "own" => inbox[Resume(t)].st = "absent"

\* The inbox runs empty again and again, whichever process goes away: no entry
\* is forgotten, and no entry keeps coming back.
InboxRunsEmpty == []<>(Waiting = {})

\* Every turn of which a reader can have seen an event gets its last event.
EveryTurnEnds == []<>(\A t \in Turn : log[t].events => log[t].terminal)

\* The end of every job is reported, though its turn or the process dies.
JobIsReported == []<>(\A t \in Turn : job[t] # "none" => job[t] = "delivered")
=============================================================================
