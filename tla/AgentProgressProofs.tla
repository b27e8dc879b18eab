------------------------ MODULE AgentProgressProofs -------------------------
(***************************************************************************)
(* That a conversation goes on as it should, for any messages, processes   *)
(* and bounds: while no lease runs out under a process that lives, a turn  *)
(* that wrote its footer is not continued by the one that closes it; and   *)
(* without faults a message that waits has a turn, a drain or the sweep of *)
(* a start on its way to it.                                               *)
(***************************************************************************)
EXTENDS AgentInboxProofs

-----------------------------------------------------------------------------
(* What a step does to the turns, the lease, the logs and the rows *)

\* The phases in which a turn needs the lease; those before its first event,
\* and those before its footer.
Holding == {"claimed", "preparing", "leaving", "committed", "handoff"} \cup Open
Silent  == Early \cup {"committed"}
Writing == Silent \cup {"running", "closing", "flushed"}

\* How a turn goes on once it has claimed the lease.
Proceeds(s, r) ==
    /\ r.at \in Holding => s.at \in Holding
    /\ s.at \notin Early => r.at \notin Early
    /\ r.at # "free" => s.at # "free" /\ r.inst = s.inst
    /\ r.at = "refusing" => s.at = "refusing" /\ r.src = s.src /\ r.quiet = s.quiet
    /\ r.at \in Silent => s.at \in Silent
    /\ r.at \in Writing => s.at \in Writing
    /\ r.todo \subseteq s.todo

TurnsProceed == \A u \in Turn : Proceeds(turn[u], turn'[u])

Claims  == \E i \in Inst, q \in Msg \cup {NoMsg}, t \in Turn : Claim(q, i, t)
Refuses == \E t \in Turn : Refuse(t)

LEMMA SameProceed == UNCHANGED turn => TurnsProceed
  BY DEF TurnsProceed, Proceeds

LEMMA PutProceed ==
    ASSUME Turns, NEW t \in Turn, NEW r, Proceeds(turn[t], r), turn' \in {turn, Put(t, r)}
    PROVE  TurnsProceed
  <1>1. \A u \in Turn : Proceeds(turn[u], turn[u])
    BY DEF Proceeds
  <1>2. \A u \in Turn : turn'[u] \in {turn[u], IF u = t THEN r ELSE turn[u]}
    BY DEF Turns, Put
  <1> QED BY <1>1, <1>2 DEF TurnsProceed

\* The phases a turn passes from and to without a claim or a refusal.
Passes(a, b) ==
    /\ a # "free" /\ b \notin {"free", "refusing"}
    /\ b \in Holding => a \in Holding
    /\ a \in Early \/ b \notin Early
    /\ b \in Silent => a \in Silent
    /\ b \in Writing => a \in Writing

LEMMA AtProceed ==
    ASSUME Turns, NEW t \in Turn, NEW p \in Phase, Passes(turn[t].at, p), turn' = At(t, p)
    PROVE  TurnsProceed
  <1> DEFINE r == [turn[t] EXCEPT !.at = p]
  <1>1. turn[t] \in TurnState
    BY DEF Turns
  <1>2. r.at = p /\ r.inst = turn[t].inst /\ r.todo = turn[t].todo
    BY <1>1 DEF TurnState
  <1>3. turn' = Put(t, r)
    BY DEF At
  <1> HIDE DEF r
  <1>4. Proceeds(turn[t], r)
    BY <1>2 DEF Proceeds, Passes
  <1> QED BY <1>3, <1>4, PutProceed

LEMMA FreeProceed ==
    ASSUME Turns, NEW t \in Turn, turn[t].at \in Early, turn' = Free(t)
    PROVE  TurnsProceed
  <1>1. NewTurn.at = "free" /\ NewTurn.todo = {}
    BY DEF NewTurn
  <1>2. Proceeds(turn[t], NewTurn)
    BY <1>1 DEF Proceeds, Holding, Open, Silent, Writing, Early
  <1> QED BY <1>2, PutProceed DEF Free

\* A turn that changes without going to another phase.
LEMMA StayProceed ==
    ASSUME Turns, NEW t \in Turn, NEW r, turn' \in {turn, Put(t, r)},
           r.at = turn[t].at, r.inst = turn[t].inst, r.src = turn[t].src,
           r.quiet = turn[t].quiet, r.todo \subseteq turn[t].todo
    PROVE  TurnsProceed
  <1>1. Proceeds(turn[t], r)
    BY DEF Proceeds
  <1> QED BY <1>1, PutProceed

\* One that does.
LEMMA PassProceed ==
    ASSUME Turns, NEW t \in Turn, NEW r, turn' = Put(t, r),
           Passes(turn[t].at, r.at), r.inst = turn[t].inst, r.todo = turn[t].todo
    PROVE  TurnsProceed
  <1>1. Proceeds(turn[t], r)
    BY DEF Proceeds, Passes
  <1> QED BY <1>1, PutProceed

LEMMA Passages ==
    /\ Passes("claimed", "leaving") /\ Passes("claimed", "preparing")
    /\ Passes("preparing", "committed") /\ Passes("preparing", "leaving")
    /\ Passes("committed", "running") /\ Passes("running", "closing")
    /\ Passes("closing", "flushed") /\ Passes("closing", "handoff")
    /\ Passes("flushed", "footed") /\ Passes("footed", "handoff")
    /\ Passes("handoff", "released") /\ Passes("released", "relaying")
    /\ Passes("released", "delivering") /\ Passes("relaying", "over")
    /\ Passes("delivering", "over") /\ Passes("committed", "over")
  BY DEF Passes, Holding, Open, Early, Silent, Writing

\* Every step but a claim and a refusal lets all turns go on.
LEMMA TurnStep ==
    ASSUME Typed, Next
    PROVE  TurnsProceed \/ Claims \/ Refuses
  <1> USE DEF Typed
  <1>1. UNCHANGED turn => TurnsProceed
    BY SameProceed
  <1>2. ASSUME NEW t \in Turn, NEW u \in Turn, Seal(t, u) PROVE TurnsProceed
    <2> DEFINE r == [turn[t] EXCEPT !.todo = @ \ {u}]
    <2>1. turn[t] \in TurnState
      BY DEF Turns
    <2>2. /\ r.at = turn[t].at /\ r.inst = turn[t].inst /\ r.src = turn[t].src
          /\ r.quiet = turn[t].quiet /\ r.todo \subseteq turn[t].todo
      BY <2>1 DEF TurnState
    <2>3. turn' \in {turn, Put(t, r)}
      BY <1>2 DEF Seal, r
    <2> HIDE DEF r
    <2> QED BY <2>2, <2>3, StayProceed
  <1>3. ASSUME NEW t \in Turn, Pick(t) PROVE TurnsProceed
    <2>1. CASE turn' = At(t, "leaving")
      BY <1>3, <2>1, Passages, Phases, AtProceed DEF Pick
    <2>2. ASSUME NEW e \in Entry,
                 turn' = Put(t, [turn[t] EXCEPT !.at = "preparing", !.src = e])
          PROVE  TurnsProceed
      <3> DEFINE r == [turn[t] EXCEPT !.at = "preparing", !.src = e]
      <3>1. turn[t] \in TurnState
        BY DEF Turns
      <3>2. r.at = "preparing" /\ r.inst = turn[t].inst /\ r.todo = turn[t].todo
        BY <3>1 DEF TurnState
      <3>3. turn[t].at = "claimed"
        BY <1>3 DEF Pick
      <3>4. turn' = Put(t, r)
        BY <2>2 DEF r
      <3> HIDE DEF r
      <3> QED BY <3>2, <3>3, <3>4, Passages, PassProceed
    <2> QED BY <1>3, <2>1, <2>2 DEF Pick
  <1>4. ASSUME NEW t \in Turn, Commit(t) PROVE TurnsProceed
    BY <1>4, Passages, Phases, AtProceed DEF Commit
  <1>5. ASSUME NEW t \in Turn, Pass(t) PROVE TurnsProceed
    BY <1>5, Passages, Phases, AtProceed DEF Pass
  <1>6. ASSUME NEW t \in Turn, Leave(t) PROVE TurnsProceed
    BY <1>6, FreeProceed DEF Leave, Early
  <1>7. ASSUME NEW t \in Turn, Refused(t) PROVE TurnsProceed
    BY <1>7, FreeProceed DEF Refused, Early
  <1>8. ASSUME NEW t \in Turn, Dropped(t) PROVE TurnsProceed
    <2>1. CASE turn[t].at = "preparing"
      BY <1>8, <2>1, FreeProceed DEF Dropped, Early
    <2>2. CASE turn[t].at = "committed"
      <3>1. Gone(t).at = "over" /\ Gone(t).inst = turn[t].inst /\ Gone(t).todo = {}
        BY DEF Gone, NewTurn
      <3>2. Proceeds(turn[t], Gone(t))
        BY <2>2, <3>1 DEF Proceeds, Holding, Open, Early, Silent, Writing
      <3> QED BY <1>8, <2>2, <3>2, PutProceed DEF Dropped
    <2> QED BY <1>8, <2>1, <2>2 DEF Dropped
  <1>9. ASSUME NEW t \in Turn, Start(t) PROVE TurnsProceed
    <2> DEFINE r == [turn[t] EXCEPT !.at = "running", !.quiet = NoMsg, !.src = NoMsg]
    <2>1. turn[t] \in TurnState
      BY DEF Turns
    <2>2. r.at = "running" /\ r.inst = turn[t].inst /\ r.todo = turn[t].todo
      BY <2>1 DEF TurnState
    <2>3. turn' = Put(t, r) /\ turn[t].at = "committed"
      BY <1>9 DEF Start, r
    <2> HIDE DEF r
    <2> QED BY <2>2, <2>3, Passages, PassProceed
  <1>10. ASSUME NEW t \in Turn, WriteQueue(t) PROVE TurnsProceed
    <2> DEFINE r == [turn[t] EXCEPT !.queue = {}]
    <2>1. turn[t] \in TurnState
      BY DEF Turns
    <2>2. /\ r.at = turn[t].at /\ r.inst = turn[t].inst /\ r.src = turn[t].src
          /\ r.quiet = turn[t].quiet /\ r.todo \subseteq turn[t].todo
      BY <2>1 DEF TurnState
    <2>3. turn' \in {turn, Put(t, r)}
      BY <1>10 DEF WriteQueue, r
    <2> HIDE DEF r
    <2> QED BY <2>2, <2>3, StayProceed
  <1>11. ASSUME NEW t \in Turn, Heartbeat(t) \/ StopAbort(t) PROVE TurnsProceed
    <2> DEFINE r == [turn[t] EXCEPT !.aborted = TRUE]
    <2>1. turn[t] \in TurnState
      BY DEF Turns
    <2>2. /\ r.at = turn[t].at /\ r.inst = turn[t].inst /\ r.src = turn[t].src
          /\ r.quiet = turn[t].quiet /\ r.todo \subseteq turn[t].todo
      BY <2>1 DEF TurnState
    <2>3. turn' \in {turn, Put(t, r)}
      BY <1>11 DEF Heartbeat, StopAbort, r
    <2> HIDE DEF r
    <2> QED BY <2>2, <2>3, StayProceed
  <1>12. ASSUME NEW t \in Turn, Close(t) PROVE TurnsProceed
    <2> DEFINE r == [turn[t] EXCEPT !.at = "closing", !.aborted = FALSE]
    <2>1. turn[t] \in TurnState
      BY DEF Turns
    <2>2. r.at = "closing" /\ r.inst = turn[t].inst /\ r.todo = turn[t].todo
      BY <2>1 DEF TurnState
    <2>3. turn' = Put(t, r) /\ turn[t].at = "running"
      BY <1>12 DEF Close, r
    <2> HIDE DEF r
    <2> QED BY <2>2, <2>3, Passages, PassProceed
  <1>13. ASSUME NEW t \in Turn, Flush(t) PROVE TurnsProceed
    <2> DEFINE r == [turn[t] EXCEPT !.at = "flushed", !.queue = {}]
    <2>1. turn[t] \in TurnState
      BY DEF Turns
    <2>2. r.at = "flushed" /\ r.inst = turn[t].inst /\ r.todo = turn[t].todo
      BY <2>1 DEF TurnState
    <2>3. turn' = Put(t, r) /\ turn[t].at = "closing"
      BY <1>13 DEF Flush, r
    <2> HIDE DEF r
    <2> QED BY <2>2, <2>3, Passages, PassProceed
  <1>14. ASSUME NEW t \in Turn, Lost(t) PROVE TurnsProceed
    <2> DEFINE r == [turn[t] EXCEPT !.at = "handoff", !.queue = {}]
    <2>1. turn[t] \in TurnState
      BY DEF Turns
    <2>2. r.at = "handoff" /\ r.inst = turn[t].inst /\ r.todo = turn[t].todo
      BY <2>1 DEF TurnState
    <2>3. turn' = Put(t, r) /\ turn[t].at = "closing"
      BY <1>14 DEF Lost, r
    <2> HIDE DEF r
    <2> QED BY <2>2, <2>3, Passages, PassProceed
  <1>15. ASSUME NEW t \in Turn, Footer(t) \/ End(t) \/ Release(t) PROVE TurnsProceed
    BY <1>15, Passages, Phases, AtProceed DEF Footer, End, Release
  <1>16. ASSUME NEW t \in Turn, Ask(t) PROVE TurnsProceed
    BY <1>16, Passages, Phases, AtProceed DEF Ask
  <1>17. ASSUME NEW t \in Turn, Handoff(t) PROVE TurnsProceed
    BY <1>17, Passages, Phases, AtProceed DEF Handoff
  <1>18. ASSUME NEW m \in Msg, PromoteLand(m) PROVE TurnsProceed
    <2> DEFINE t == promotion[m].turn
    <2> DEFINE r == [turn[t] EXCEPT !.queue = @ \cup {m}]
    <2>1. t \in Turn
      BY <1>18 DEF PromoteLand, Calls
    <2>2. turn[t] \in TurnState
      BY <2>1 DEF Turns
    <2>3. /\ r.at = turn[t].at /\ r.inst = turn[t].inst /\ r.src = turn[t].src
          /\ r.quiet = turn[t].quiet /\ r.todo \subseteq turn[t].todo
      BY <2>2 DEF TurnState
    <2>4. turn' \in {turn, Put(t, r)}
      BY <1>18 DEF PromoteLand
    <2> HIDE DEF r, t
    <2> QED BY <2>1, <2>3, <2>4, StayProceed
  <1>19. ASSUME NEW i \in Inst, Crash(i) PROVE TurnsProceed
    <2>1. NewTurn.at = "free" /\ NewTurn.todo = {}
      BY DEF NewTurn
    <2>2. \A t \in Turn : /\ Gone(t).at = "over" /\ Gone(t).inst = turn[t].inst
                          /\ Gone(t).todo = {}
      BY DEF Gone, NewTurn
    <2> SUFFICES ASSUME NEW t \in Turn PROVE Proceeds(turn[t], turn'[t])
      BY DEF TurnsProceed
    <2>3. CASE turn[t].inst # i
      BY <1>19, <2>3 DEF Crash, Proceeds
    <2>4. CASE turn[t].inst = i /\ turn[t].at \in Early
      <3>1. turn'[t] = NewTurn
        BY <1>19, <2>4 DEF Crash
      <3> QED BY <2>1, <2>4, <3>1 DEF Proceeds, Holding, Open, Silent, Writing, Early
    <2>5. CASE turn[t].inst = i /\ turn[t].at \notin Early
      <3>1. turn'[t] = Gone(t)
        BY <1>19, <2>5 DEF Crash
      <3> QED BY <2>2, <2>5, <3>1 DEF Proceeds, Holding, Open, Silent, Writing, Early
    <2> QED BY <2>3, <2>4, <2>5
  <1> QED
    <2>1. CASE User
      BY <2>1, <1>1 DEF User, Send, Withdraw, PromoteCall, StopBegin
    <2>2. CASE \E i \in Inst : Drain(i)
      BY <2>2, <1>1 DEF Drain, Look, GiveUp, Claims
    <2>3. CASE \E i \in Inst : Seals(i)
      BY <2>3, <1>1 DEF Seals, SealerClaim, SealerSeal, SealerRelease
    <2>4. CASE \E i \in Inst : SweepJobs(i) \/ Sweep(i) \/ Crash(i) \/ DrainBegin(i)
      BY <2>4, <1>1, <1>19 DEF SweepJobs, Sweep, DrainBegin
    <2>5. CASE \E t \in Turn : Runs(t)
      <3>1. \A t \in Turn : Persist(t) => TurnsProceed
        BY <1>1 DEF Persist
      <3> QED BY <2>5, <3>1, <1>2, <1>3, <1>4, <1>5, <1>6, <1>7, <1>8, <1>9, <1>12,
              <1>13, <1>14, <1>15, <1>16, <1>17 DEF Runs, Refuses
    <2>6. CASE \E t \in Turn : EndJob(t) \/ StopReturn(t) \/ StopAbort(t)
      BY <2>6, <1>1, <1>11 DEF EndJob, StopReturn
    <2>7. CASE \E m \in Msg : Promote(m)
      BY <2>7, <1>1, <1>18 DEF Promote, PromoteClaim, PromoteRequeue
    <2>8. CASE \E t \in Turn : Heartbeat(t) \/ WriteQueue(t) \/ SubmitJob(t)
      BY <2>8, <1>1, <1>10, <1>11 DEF SubmitJob
    <2>9. CASE Expire
      BY <2>9, <1>1 DEF Expire
    <2> QED BY <2>1, <2>2, <2>3, <2>4, <2>5, <2>6, <2>7, <2>8, <2>9 DEF Next, System,
        ExpireGone

\* The lease stays with its holder, and is renewed if at all.
LeaseSame == /\ exec'.running = exec.running /\ exec'.holder = exec.holder
             /\ exec'.inst = exec.inst /\ (exec.fresh => exec'.fresh)

LetsGo == \/ \E t \in Turn : Leave(t) \/ Refuse(t) \/ Release(t)
          \/ \E i \in Inst : SealerRelease(i)

SealsNow == \E i \in Inst : SealerClaim(i)

LEMMA LeaseStep ==
    ASSUME Typed, Next
    PROVE  LeaseSame \/ Claims \/ SealsNow \/ LetsGo \/ Expire
  <1>1. UNCHANGED exec => LeaseSame
    BY DEF LeaseSame
  <1>2. exec' = Renewed => LeaseSame
    BY DEF LeaseSame, Renewed, Typed, Leases, Execution
  <1>3. CASE User
    BY <1>3, <1>1 DEF User, Send, Withdraw, PromoteCall, StopBegin
  <1>4. CASE \E i \in Inst : Drain(i)
    BY <1>4, <1>1 DEF Drain, Look, GiveUp, Claims
  <1>5. CASE \E i \in Inst : Seals(i)
    BY <1>5, <1>1 DEF Seals, SealerSeal, SealsNow, LetsGo
  <1>6. CASE \E i \in Inst : SweepJobs(i) \/ Sweep(i) \/ Crash(i) \/ DrainBegin(i)
    BY <1>6, <1>1 DEF SweepJobs, Sweep, Crash, DrainBegin
  <1>7. CASE \E t \in Turn : Runs(t)
    <2> SUFFICES ASSUME NEW t \in Turn, Runs(t), ~LetsGo
                 PROVE  LeaseSame
      BY <1>7
    <2>1. CASE (\E u \in Turn : Seal(t, u)) \/ Pick(t) \/ Refused(t) \/ Dropped(t) \/ Persist(t)
      BY <2>1, <1>1 DEF Seal, Pick, Refused, Dropped, Persist
    <2>2. CASE Close(t) \/ Lost(t) \/ Footer(t) \/ End(t) \/ Ask(t) \/ Handoff(t)
      BY <2>2, <1>1 DEF Close, Lost, Footer, End, Ask, Handoff
    <2>3. CASE Commit(t) \/ Pass(t) \/ Start(t)
      BY <2>3, <1>2 DEF Commit, Pass, Start
    <2>4. CASE Flush(t)
      BY <2>4, <1>1, <1>2 DEF Flush
    <2> QED BY <2>1, <2>2, <2>3, <2>4 DEF Runs, LetsGo
  <1>8. CASE \E t \in Turn : EndJob(t) \/ StopReturn(t) \/ StopAbort(t)
    BY <1>8, <1>1 DEF EndJob, StopReturn, StopAbort
  <1>9. CASE \E m \in Msg : Promote(m)
    BY <1>9, <1>1 DEF Promote, PromoteClaim, PromoteLand, PromoteRequeue
  <1>10. CASE \E t \in Turn : Heartbeat(t) \/ WriteQueue(t) \/ SubmitJob(t)
    BY <1>10, <1>1, <1>2 DEF Heartbeat, WriteQueue, SubmitJob
  <1>11. CASE Expire
    BY <1>11
  <1> QED BY <1>3, <1>4, <1>5, <1>6, <1>7, <1>8, <1>9, <1>10, <1>11 DEF Next, System,
      ExpireGone

Crashes == \E i \in Inst : Crash(i)
Drains  == \E i \in Inst : DrainBegin(i)

\* Faults are counted; processes stop for no other reason.
LEMMA FaultStep ==
    ASSUME Typed, Next
    PROVE  \/ UNCHANGED <<proc, faults>>
           \/ Expire /\ UNCHANGED proc
           \/ faults' = faults + 1 /\ (Crashes \/ Drains)
  <1> DEFINE Calmly == UNCHANGED <<proc, faults>>
  <1>1. CASE User
    BY <1>1 DEF User, Send, Withdraw, PromoteCall, StopBegin
  <1>2. CASE \E i \in Inst : Drain(i)
    BY <1>2 DEF Drain, Look, GiveUp, Claim
  <1>3. CASE \E i \in Inst : Seals(i)
    BY <1>3 DEF Seals, SealerClaim, SealerSeal, SealerRelease
  <1>4. CASE \E i \in Inst : SweepJobs(i) \/ Sweep(i) \/ Crash(i) \/ DrainBegin(i)
    BY <1>4 DEF SweepJobs, Sweep, Crash, DrainBegin, Crashes, Drains
  <1>5. CASE \E t \in Turn : Runs(t)
    <2> SUFFICES ASSUME NEW t \in Turn, Runs(t)
                 PROVE  Calmly
      BY <1>5
    <2>1. CASE (\E u \in Turn : Seal(t, u)) \/ Pick(t) \/ Refused(t) \/ Dropped(t) \/ Persist(t)
      BY <2>1 DEF Seal, Pick, Refused, Dropped, Persist
    <2>2. CASE Close(t) \/ Lost(t) \/ Footer(t) \/ End(t) \/ Ask(t) \/ Handoff(t)
      BY <2>2 DEF Close, Lost, Footer, End, Ask, Handoff
    <2>3. CASE Commit(t) \/ Pass(t) \/ Start(t) \/ Flush(t)
      BY <2>3 DEF Commit, Pass, Start, Flush
    <2>4. CASE Leave(t) \/ Refuse(t) \/ Release(t)
      BY <2>4 DEF Leave, Refuse, Release
    <2> QED BY <2>1, <2>2, <2>3, <2>4 DEF Runs
  <1>6. CASE \E t \in Turn : EndJob(t) \/ StopReturn(t) \/ StopAbort(t)
    BY <1>6 DEF EndJob, StopReturn, StopAbort
  <1>7. CASE \E m \in Msg : Promote(m)
    BY <1>7 DEF Promote, PromoteClaim, PromoteLand, PromoteRequeue
  <1>8. CASE \E t \in Turn : Heartbeat(t) \/ WriteQueue(t) \/ SubmitJob(t)
    BY <1>8 DEF Heartbeat, WriteQueue, SubmitJob
  <1>9. CASE Expire
    BY <1>9 DEF Expire
  <1> QED BY <1>1, <1>2, <1>3, <1>4, <1>5, <1>6, <1>7, <1>8, <1>9 DEF Next, System,
      ExpireGone

-----------------------------------------------------------------------------
(* Who holds the lease *)

\* While no lease runs out under a process that lives, every turn that needs
\* the lease has it, and its process lives; a process that is gone goes for no
\* lease.
Undisturbed == "stall" \notin Kinds \/ faults = 0
Holds(t) == /\ Owns(t) /\ exec.fresh
            /\ turn[t].inst \in Inst /\ proc[turn[t].inst] # "down"
HeldOn == Undisturbed => \A t \in Turn : turn[t].at \in Holding => Holds(t)
Lively == \A i \in Inst : claiming[i] # {} => proc[i] # "down"

LEMMA LivelyStep ==
    ASSUME Typed, Next, Lively
    PROVE  Lively'
  <1> USE DEF Typed
  <1>1. UNCHANGED <<claiming, proc>> => Lively'
    BY DEF Lively
  <1>2. CASE User
    BY <1>2, <1>1 DEF User, Send, Withdraw, PromoteCall, StopBegin
  <1>3. CASE \E i \in Inst : Drain(i)
    <2> SUFFICES ASSUME NEW i \in Inst, NEW q \in Msg \cup {NoMsg},
                        Look(q, i) \/ GiveUp(q, i) \/ \E t \in Turn : Claim(q, i, t)
                 PROVE  Lively'
      BY <1>3 DEF Drain
    <2>1. proc' = proc /\ \A k \in Inst : k # i => claiming'[k] = claiming[k]
      BY DEF Look, GiveUp, Claim, Local
    <2>2. proc[i] = "up" \/ claiming'[i] \subseteq claiming[i]
      BY DEF Look, GiveUp, Claim, Local
    <2> QED BY <2>1, <2>2 DEF Lively
  <1>4. CASE \E i \in Inst : Seals(i)
    BY <1>4, <1>1 DEF Seals, SealerClaim, SealerSeal, SealerRelease
  <1>5. CASE \E i \in Inst : SweepJobs(i) \/ Sweep(i)
    BY <1>5, <1>1 DEF SweepJobs, Sweep
  <1>6. CASE \E i \in Inst : Crash(i) \/ DrainBegin(i)
    BY <1>6 DEF Crash, DrainBegin, Lively, Local
  <1>7. CASE \E t \in Turn : Runs(t)
    <2> SUFFICES ASSUME NEW t \in Turn, Runs(t)
                 PROVE  UNCHANGED <<claiming, proc>>
      BY <1>7, <1>1
    <2>1. CASE (\E u \in Turn : Seal(t, u)) \/ Pick(t) \/ Refused(t) \/ Dropped(t) \/ Persist(t)
      BY <2>1 DEF Seal, Pick, Refused, Dropped, Persist
    <2>2. CASE Close(t) \/ Lost(t) \/ Footer(t) \/ End(t) \/ Ask(t) \/ Handoff(t)
      BY <2>2 DEF Close, Lost, Footer, End, Ask, Handoff
    <2>3. CASE Commit(t) \/ Pass(t) \/ Start(t) \/ Flush(t)
      BY <2>3 DEF Commit, Pass, Start, Flush
    <2>4. CASE Leave(t) \/ Refuse(t) \/ Release(t)
      BY <2>4 DEF Leave, Refuse, Release
    <2> QED BY <2>1, <2>2, <2>3, <2>4 DEF Runs
  <1>8. CASE \E t \in Turn : EndJob(t) \/ StopReturn(t) \/ StopAbort(t)
    BY <1>8, <1>1 DEF EndJob, StopReturn, StopAbort
  <1>9. CASE \E m \in Msg : Promote(m)
    BY <1>9, <1>1 DEF Promote, PromoteClaim, PromoteLand, PromoteRequeue
  <1>10. CASE \E t \in Turn : Heartbeat(t) \/ WriteQueue(t) \/ SubmitJob(t)
    BY <1>10, <1>1 DEF Heartbeat, WriteQueue, SubmitJob
  <1>11. CASE Expire
    BY <1>11, <1>1 DEF Expire
  <1> QED BY <1>2, <1>3, <1>4, <1>5, <1>6, <1>7, <1>8, <1>9, <1>10, <1>11 DEF Next,
      System, ExpireGone

LEMMA HeldStep ==
    ASSUME Typed, Next, HeldOn, Lively
    PROVE  HeldOn'
  <1> USE DEF Typed
  <1> SUFFICES ASSUME Undisturbed', NEW t \in Turn, turn'[t].at \in Holding
               PROVE  Holds(t)'
    BY DEF HeldOn
  <1>1. Undisturbed
    BY FaultStep DEF Undisturbed, Expire, Local
  <1>2. \A u \in Turn : turn[u].at \in Holding => Holds(u)
    BY <1>1 DEF HeldOn
  <1>3. ASSUME NEW i \in Inst, NEW q \in Msg \cup {NoMsg}, NEW u \in Turn, Claim(q, i, u)
        PROVE  Holds(t)'
    <2>1. turn[t].at \notin Holding \/ t = u
      BY <1>2, <1>3 DEF Claim, Holds, Owns, Held
    <2>2. t # u => turn'[t] = turn[t]
      BY <1>3 DEF Claim, Put, Turns
    <2>3. t = u
      BY <2>1, <2>2
    <2>4. exec'.running /\ exec'.holder = u /\ exec'.inst = i /\ exec'.fresh
      BY <1>3 DEF Claim, Leased
    <2>5. turn'[u].inst = i
      BY <1>3 DEF Claim, Put, NewTurn, Turns
    <2>6. proc'[i] # "down"
      BY <1>3 DEF Claim, Lively
    <2> QED BY <2>3, <2>4, <2>5, <2>6 DEF Holds, Owns
  <1>4. CASE TurnsProceed
    <2>1. Holds(t) /\ turn'[t].inst = turn[t].inst
      BY <1>2, <1>4 DEF TurnsProceed, Proceeds, Holding, Open
    <2>2. proc'[turn[t].inst] # "down"
      <3>1. CASE UNCHANGED proc
        BY <2>1, <3>1 DEF Holds
      <3>2. ASSUME NEW i \in Inst, DrainBegin(i)
            PROVE  proc'[turn[t].inst] # "down"
        BY <2>1, <3>2 DEF Holds, DrainBegin, Local
      <3>3. ASSUME NEW i \in Inst, Crash(i)
            PROVE  proc'[turn[t].inst] # "down"
        <4>1. NewTurn.at \notin Holding /\ Gone(t).at \notin Holding
          BY DEF NewTurn, Gone, Holding, Open
        <4>2. turn[t].inst # i
          BY <3>3, <4>1 DEF Crash
        <4> QED BY <2>1, <3>3, <4>2 DEF Holds, Crash, Local
      <3> QED BY <3>1, <3>2, <3>3, FaultStep DEF Crashes, Drains
    <2>3. exec'.running /\ exec'.holder = t /\ exec'.inst = turn[t].inst /\ exec'.fresh
      <3>1. exec.running /\ exec.holder = t /\ exec.inst = turn[t].inst /\ exec.fresh
        BY <2>1 DEF Holds, Owns
      <3>2. CASE LeaseSame
        BY <3>1, <3>2 DEF LeaseSame
      <3>3. CASE SealsNow
        BY <3>1, <3>3 DEF SealsNow, SealerClaim, Held
      <3>4. ASSUME NEW i \in Inst, SealerRelease(i)
            PROVE  exec' = exec
        BY <3>1, <3>4, Entries DEF SealerRelease, Released
      <3>5. ASSUME NEW u \in Turn, Leave(u) \/ Release(u)
            PROVE  FALSE
        <4>1. turn[u].at \in Holding
          BY <3>5 DEF Leave, Release, Holding
        <4>2. u = t
          BY <1>2, <3>1, <4>1 DEF Holds, Owns
        <4>3. turn'[t].at \in {"free", "released"}
          BY <3>5, <4>2 DEF Leave, Release, Free, At, Put, NewTurn, Turns, TurnState
        <4> QED BY <4>3 DEF Holding, Open
      <3>6. CASE Expire
        <4>1. proc[exec.inst] # "down"
          BY <2>1, <3>1 DEF Holds
        <4>2. faults' # 0 /\ "stall" \in Kinds
          BY <3>6, <4>1 DEF Expire, Local
        <4> QED BY <4>2 DEF Undisturbed
      <3>7. ASSUME NEW u \in Turn, Refuse(u)
            PROVE  FALSE
        <4>1. turn[u].at \in Holding
          BY <3>7 DEF Refuse, Holding
        <4>2. u = t
          BY <1>2, <3>1, <4>1 DEF Holds, Owns
        <4>3. turn'[t].at = "refusing"
          BY <3>7, <4>2 DEF Refuse, At, Put, Turns, TurnState
        <4> QED BY <4>3 DEF Holding, Open
      <3>8. Claims => Holds(t)'
        BY <1>3 DEF Claims
      <3> QED BY <2>1, <3>1, <3>2, <3>3, <3>4, <3>5, <3>6, <3>7, <3>8, LeaseStep DEF LetsGo,
              Holds, Owns
    <2> QED BY <2>1, <2>2, <2>3 DEF Holds, Owns
  <1>5. ASSUME NEW u \in Turn, Refuse(u)
        PROVE  Holds(t)'
    <2>1. turn[u].at \in Holding /\ Holds(u)
      BY <1>2, <1>5 DEF Refuse, Holding
    <2>2. turn'[u].at = "refusing" /\ (t # u => turn'[t] = turn[t])
      BY <1>5 DEF Refuse, At, Put, Turns, TurnState
    <2>3. t # u /\ Holds(t)
      BY <1>2, <2>2 DEF Holding, Open
    <2> QED BY <2>1, <2>3 DEF Holds, Owns
  <1> QED BY <1>3, <1>4, <1>5, TurnStep DEF Claims, Refuses

-----------------------------------------------------------------------------
(* A turn that ended by itself is not continued *)

\* The rows there are stay, a message that was given back stays so, and no turn
\* is continued.
Keeps(f) ==
    \A e \in Entry :
        /\ inbox[e].st # "absent" => f[e].st # "absent"
        /\ e \in Msg /\ inbox[e].st = "cancelled" => f[e].st = "cancelled"
        /\ e \in Resumes /\ inbox[e].st = "absent" => f[e].st = "absent"

SealsTurn(u) == \/ \E t \in Turn : Seal(t, u)
                \/ \E i \in Inst : SealerSeal(i, u)

LEMMA TakenKeeps ==
    ASSUME Inbox, NEW es \in SUBSET Entry, NEW t,
           \A e \in es : inbox[e].st = "pending"
    PROVE  Keeps(Taken(es, t))
  <1> DEFINE r(e) == [inbox[e] EXCEPT !.st = "consumed", !.by = t]
  <1>1. \A e \in Entry : r(e).st = "consumed"
    BY DEF Inbox, Rows, Row
  <1>2. Taken(es, t) = [e \in Entry |-> IF e \in es THEN r(e) ELSE inbox[e]]
    BY DEF Taken
  <1> HIDE DEF r
  <1> QED BY <1>1, <1>2 DEF Keeps

LEMMA MarkedKeeps ==
    ASSUME Inbox, NEW e \in Entry, inbox[e].st = "pending", NEW st \in {"cancelled", "failed"}
    PROVE  Keeps([inbox EXCEPT ![e].st = st])
  BY DEF Inbox, Rows, Row, Keeps

LEMMA WithdrawnKeeps ==
    ASSUME Inbox, NEW m \in Entry \cup {NoMsg}
    PROVE  Keeps(Withdrawn(m))
  BY DEF Inbox, Rows, Row, Keeps, Withdrawn

LEMMA NewKeeps ==
    ASSUME Inbox, NEW m \in Msg, inbox[m].st = "absent", NEW st \in {"pending", "cancelled"}
    PROVE  Keeps([inbox EXCEPT ![m] = NewRow(st, 1)])
  <1>1. NewRow(st, 1).st = st
    BY DEF NewRow
  <1> QED BY <1>1, Entries DEF Inbox, Rows, Row, Keeps

LEMMA WokenKeeps ==
    ASSUME Inbox, NEW ts \in SUBSET Turn, NEW jobs
    PROVE  Keeps(WithWakes(ts, jobs))
  <1> DEFINE waking == {t \in ts : jobs[t] = "ended"}
  <1> DEFINE rank(e) == Cardinality({u \in waking : u <= e[2]})
  <1>1. WithWakes(ts, jobs) =
          [e \in Entry |-> IF \E t \in waking : e = Wake(t)
                              THEN NewRow("pending", rank(e)) ELSE inbox[e]]
    BY DEF WithWakes
  <1>2. \A e : NewRow("pending", rank(e)).st = "pending"
    BY DEF NewRow
  <1>3. \A t \in waking : Wake(t) \in Wakes
    BY DEF Wakes
  <1>4. Wakes \cap Resumes = {}
    BY DEF Wakes, Resumes, Wake, Resume
  <1> HIDE DEF waking, rank
  <1> QED BY <1>1, <1>2, <1>3, <1>4, Entries DEF Keeps

LEMMA EndsKeeps ==
    ASSUME Inbox, NEW t \in Turn, NEW how, Ends(t, how)
    PROVE  Keeps(inbox')
  <1>1. \A jobs, late : Due(jobs, late) \subseteq Turn
    BY DEF Due
  <1> QED BY <1>1, WokenKeeps DEF Ends, Delivers

LEMMA DeliversKeeps ==
    ASSUME Inbox, NEW late, Delivers(job, late)
    PROVE  Keeps(inbox')
  <1>1. \A jobs : Due(jobs, late) \subseteq Turn
    BY DEF Due
  <1> QED BY <1>1, WokenKeeps DEF Delivers

LEMMA PutBackKeeps ==
    ASSUME Inbox, NEW m \in Msg, NEW t
    PROVE  Keeps(PutBack(m, t))
  <1> DEFINE r == [inbox[m] EXCEPT !.st = "pending", !.by = NoTurn]
  <1>1. r.st = "pending"
    BY Entries DEF Inbox, Rows, Row
  <1>2. PutBack(m, t) = inbox \/ (inbox[m].st = "consumed" /\ PutBack(m, t) = [inbox EXCEPT ![m] = r])
    BY Entries DEF PutBack, TakenBy, Inbox, Rows
  <1> HIDE DEF r
  <1> QED BY <1>1, <1>2, Entries DEF Inbox, Rows, Keeps

\* The turns that a process seals outside of a turn.
SealersGoOn == \A i \in Inst : /\ sealer'[i].todo \subseteq sealer[i].todo
                               /\ sealer'[i].on => sealer[i].on

Logging == \E t \in Turn : Persist(t) \/ Footer(t) \/ End(t)

LEMMA RowStep ==
    ASSUME Typed, Next
    PROVE  \/ UNCHANGED log /\ SealersGoOn /\ Keeps(inbox')
           \/ SealsNow
           \/ Logging
           \/ \E u \in Turn : SealsTurn(u)
  <1> USE DEF Typed
  <1> DEFINE Plainly == UNCHANGED log /\ SealersGoOn /\ Keeps(inbox')
  <1>1. UNCHANGED sealer => SealersGoOn
    BY DEF SealersGoOn
  <1>2. UNCHANGED inbox => Keeps(inbox')
    BY DEF Keeps
  <1>3. CASE User
    <2>1. ASSUME NEW m \in Msg, Withdraw(m) PROVE Keeps(inbox')
      <3>1. CASE inbox[m].st = "absent"
        BY <2>1, <3>1, NewKeeps DEF Withdraw
      <3>2. CASE inbox[m].st # "absent"
        BY <2>1, <3>2, WithdrawnKeeps, Entries DEF Withdraw
      <3> QED BY <3>1, <3>2
    <2>2. ASSUME NEW m \in Msg, NEW i \in Inst, Send(m, i) PROVE Keeps(inbox')
      BY <2>2, NewKeeps DEF Send
    <2>3. UNCHANGED <<log, sealer>>
      BY <1>3 DEF User, Send, Withdraw, PromoteCall, StopBegin
    <2>4. Keeps(inbox')
      <3>1. \A m \in Msg, t \in Turn : PromoteCall(m, t) => Keeps(inbox')
        BY <1>2 DEF PromoteCall
      <3>2. \A t \in Turn : StopBegin(t) => Keeps(inbox')
        BY <1>2 DEF StopBegin
      <3> QED BY <1>3, <2>1, <2>2, <3>1, <3>2, BoundsAssumption DEF User
    <2> QED BY <1>1, <2>3, <2>4
  <1>4. CASE \E i \in Inst : Drain(i)
    <2> SUFFICES ASSUME NEW i \in Inst, NEW q \in Msg \cup {NoMsg},
                        Look(q, i) \/ GiveUp(q, i) \/ \E t \in Turn : Claim(q, i, t)
                 PROVE  Plainly
      BY <1>4 DEF Drain
    <2>1. UNCHANGED <<log, sealer>>
      BY DEF Look, GiveUp, Claim
    <2>2. UNCHANGED inbox \/ inbox' = Withdrawn(q)
      BY DEF Look, GiveUp, Claim
    <2> QED BY <1>1, <1>2, <2>1, <2>2, WithdrawnKeeps, Entries
  <1>5. CASE \E i \in Inst : Seals(i)
    <2>1. ASSUME NEW i \in Inst, SealerRelease(i) PROVE Plainly
      <3>1. SealersGoOn
        BY <2>1 DEF SealerRelease, SealersGoOn, NoSeal, Local
      <3> QED BY <2>1, <3>1, <1>2 DEF SealerRelease
    <2> QED BY <1>5, <2>1 DEF Seals, SealsNow, SealsTurn
  <1>6. CASE \E i \in Inst : SweepJobs(i) \/ Sweep(i) \/ Crash(i) \/ DrainBegin(i)
    <2>1. ASSUME NEW i \in Inst, SweepJobs(i) PROVE Plainly
      BY <2>1, <1>1, DeliversKeeps DEF SweepJobs
    <2>2. ASSUME NEW i \in Inst, Crash(i) PROVE Plainly
      <3>1. SealersGoOn
        BY <2>2 DEF Crash, SealersGoOn, NoSeal, Local
      <3> QED BY <2>2, <3>1, <1>2 DEF Crash
    <2>3. ASSUME NEW i \in Inst, Sweep(i) \/ DrainBegin(i) PROVE Plainly
      BY <2>3, <1>1, <1>2 DEF Sweep, DrainBegin
    <2> QED BY <1>6, <2>1, <2>2, <2>3
  <1>7. CASE \E t \in Turn : Runs(t)
    <2> SUFFICES ASSUME NEW t \in Turn, Runs(t), ~Logging, ~\E u \in Turn : SealsTurn(u)
                 PROVE  Plainly
      BY <1>7
    <2>1. CASE Pick(t) \/ Start(t) \/ Leave(t) \/ Refuse(t) \/ Close(t) \/ Lost(t)
      BY <2>1, <1>1, <1>2 DEF Pick, Start, Leave, Refuse, Close, Lost
    <2>2. CASE Release(t) \/ Ask(t)
      BY <2>2, <1>1, <1>2 DEF Release, Ask
    <2>3. CASE Commit(t)
      <3>1. turn[t].src \in Entry /\ inbox[turn[t].src].st = "pending"
        BY <2>3 DEF Commit, Source, Pending
      <3>2. PICK more \in {{}, Waiting \cap Wakes} : inbox' = Taken({turn[t].src} \cup more, t)
        BY <2>3 DEF Commit
      <3>3. \A e \in {turn[t].src} \cup more : e \in Entry /\ inbox[e].st = "pending"
        BY <3>1, <3>2 DEF Waiting, Pending
      <3>4. Keeps(inbox')
        BY <3>2, <3>3, TakenKeeps
      <3> QED BY <2>3, <3>4, <1>1 DEF Commit
    <2>4. CASE Pass(t)
      <3>1. turn[t].src \in Entry
        BY <2>4 DEF Pass, Source
      <3>2. CASE inbox' = inbox
        BY <3>2, <2>4, <1>1, <1>2 DEF Pass
      <3>3. CASE Pending(turn[t].src) /\ inbox' = [inbox EXCEPT ![turn[t].src].st = "cancelled"]
        BY <2>4, <3>1, <3>3, <1>1, MarkedKeeps DEF Pass, Pending
      <3>4. CASE Pending(turn[t].src) /\ inbox' = Taken({turn[t].src}, t)
        BY <2>4, <3>1, <3>4, <1>1, TakenKeeps DEF Pass, Pending
      <3> QED BY <2>4, <3>2, <3>3, <3>4 DEF Pass
    <2>5. CASE Refused(t)
      <3>1. turn[t].src \in Entry
        BY <2>5 DEF Refused, Source
      <3>2. CASE inbox' = inbox
        BY <3>2, <2>5, <1>1, <1>2 DEF Refused
      <3>3. CASE Pending(turn[t].src) /\ inbox' = [inbox EXCEPT ![turn[t].src].st = "failed"]
        BY <2>5, <3>1, <3>3, <1>1, MarkedKeeps DEF Refused, Pending
      <3>4. CASE inbox' = Withdrawn(turn[t].src)
        BY <2>5, <3>1, <3>4, <1>1, WithdrawnKeeps DEF Refused
      <3> QED BY <2>5, <3>2, <3>3, <3>4 DEF Refused
    <2>6. CASE Dropped(t)
      BY <2>6, <1>1, WithdrawnKeeps, TurnFields, Entries DEF Dropped
    <2>7. CASE Flush(t)
      <3>1. Keeps(inbox')
        <4>1. CASE SubmittedLate(t)
          BY <2>7, <4>1, <1>2, EndsKeeps DEF Flush, CancelJob
        <4>2. CASE ~SubmittedLate(t)
          BY <2>7, <4>2, <1>2 DEF Flush
        <4> QED BY <4>1, <4>2
      <3> QED BY <2>7, <3>1, <1>1 DEF Flush
    <2>8. CASE Handoff(t)
      BY <2>8, <1>1, DeliversKeeps DEF Handoff
    <2> QED BY <2>1, <2>2, <2>3, <2>4, <2>5, <2>6, <2>7, <2>8 DEF Runs, Logging, SealsTurn
  <1>8. CASE \E t \in Turn : EndJob(t) \/ StopReturn(t) \/ StopAbort(t)
    <2>1. ASSUME NEW t \in Turn, EndJob(t) PROVE Plainly
      BY <2>1, <1>1, EndsKeeps DEF EndJob
    <2>2. ASSUME NEW t \in Turn, StopReturn(t) PROVE Plainly
      <3> DEFINE back(e) == [inbox[e] EXCEPT !.st = "cancelled", !.by = t]
      <3>1. \A e \in Entry : back(e).st = "cancelled"
        BY DEF Inbox, Rows, Row
      <3>2. inbox' = [e \in Entry |-> IF e \in Msg /\ inbox[e].st \in {"pending", "failed"}
                                         THEN back(e) ELSE inbox[e]]
        BY <2>2 DEF StopReturn
      <3> HIDE DEF back
      <3>3. Keeps(inbox')
        BY <3>1, <3>2, Entries DEF Keeps
      <3> QED BY <2>2, <3>3, <1>1 DEF StopReturn
    <2>3. ASSUME NEW t \in Turn, StopAbort(t) PROVE Plainly
      <3>1. CASE job[t] = "running"
        BY <2>3, <3>1, <1>1, <1>2, EndsKeeps DEF StopAbort, CancelJob
      <3>2. CASE job[t] # "running"
        BY <2>3, <3>2, <1>1, <1>2 DEF StopAbort
      <3> QED BY <3>1, <3>2
    <2> QED BY <1>8, <2>1, <2>2, <2>3
  <1>9. CASE \E m \in Msg : Promote(m)
    <2>1. ASSUME NEW m \in Msg, PromoteClaim(m) PROVE Plainly
      <3>1. CASE inbox' = inbox
        BY <2>1, <3>1, <1>1, <1>2 DEF PromoteClaim
      <3>2. CASE inbox[m].st = "pending" /\ inbox' = Taken({m}, promotion[m].turn)
        BY <2>1, <3>2, <1>1, TakenKeeps, Entries DEF PromoteClaim
      <3> QED BY <2>1, <3>1, <3>2 DEF PromoteClaim, Claimable, Pending
    <2>2. ASSUME NEW m \in Msg, PromoteLand(m) PROVE Plainly
      BY <2>2, <1>1, <1>2 DEF PromoteLand
    <2>3. ASSUME NEW m \in Msg, PromoteRequeue(m) PROVE Plainly
      BY <2>3, <1>1, PutBackKeeps DEF PromoteRequeue
    <2> QED BY <1>9, <2>1, <2>2, <2>3 DEF Promote
  <1>10. CASE \E t \in Turn : Heartbeat(t) \/ WriteQueue(t) \/ SubmitJob(t)
    BY <1>10, <1>1, <1>2 DEF Heartbeat, WriteQueue, SubmitJob
  <1>11. CASE Expire
    BY <1>11, <1>1, <1>2 DEF Expire
  <1> QED BY <1>3, <1>4, <1>5, <1>6, <1>7, <1>8, <1>9, <1>10, <1>11 DEF Next, System,
      ExpireGone

\* Where no lease runs out under a process that lives: a turn has no event
\* before it runs, and until its own footer stands it is not closed by another
\* one, not even planned to be; once it stands it is not continued.
Sealing(u) == \/ \E t \in Turn : u \in turn[t].todo
              \/ \E i \in Inst : u \in sealer[i].todo
Unclosed(t) == log[t].footer = "none" /\ inbox[Resume(t)].st = "absent" /\ ~Sealing(t)
Unsealed ==
    "stall" \notin Kinds =>
        \A t \in Turn :
            /\ turn[t].at \in Silent => ~log[t].events
            /\ turn[t].at \in Writing => Unclosed(t)
            /\ log[t].footer = "own" => inbox[Resume(t)].st = "absent"

\* A turn whose events another process finds without an end has ended.
LEMMA UnterminatedOver ==
    ASSUME Typed, HeldOn, Unsealed, "stall" \notin Kinds, ~Held,
           NEW i, NEW u \in Unterminated(i)
    PROVE  u \in Turn /\ turn[u].at \notin Writing
  <1>1. u \in Turn /\ log[u].events
    BY DEF Unterminated
  <1>2. turn[u].at \notin Silent
    BY <1>1 DEF Unsealed
  <1>3. turn[u].at \notin Holding
    BY <1>1 DEF HeldOn, Undisturbed, Holds, Owns, Held
  <1> QED BY <1>1, <1>2, <1>3 DEF Writing, Holding, Open

\* Resumptions are told apart by their turns.
LEMMA ResumeOf == \A t, u \in Turn : /\ Resume(t) \in Resumes /\ Resume(t) \in Entry
                                     /\ Resume(t) = Resume(u) => t = u
  BY Entries DEF Resume

LEMMA UnsealedStep ==
    ASSUME Typed, Next, HeldOn, Unsealed
    PROVE  Unsealed'
  <1> USE DEF Typed
  <1> SUFFICES ASSUME "stall" \notin Kinds, NEW t \in Turn
               PROVE  /\ turn'[t].at \in Silent => ~log'[t].events
                      /\ turn'[t].at \in Writing => Unclosed(t)'
                      /\ log'[t].footer = "own" => inbox'[Resume(t)].st = "absent"
    BY DEF Unsealed
  <1>1. /\ turn[t].at \in Silent => ~log[t].events
        /\ turn[t].at \in Writing => Unclosed(t)
        /\ log[t].footer = "own" => inbox[Resume(t)].st = "absent"
    BY DEF Unsealed
  <1>2. ASSUME NEW i \in Inst, NEW q \in Msg \cup {NoMsg}, NEW u \in Turn, Claim(q, i, u)
        PROVE  /\ turn'[t].at \in Silent => ~log'[t].events
               /\ turn'[t].at \in Writing => Unclosed(t)'
               /\ log'[t].footer = "own" => inbox'[Resume(t)].st = "absent"
    <2>1. turn[u].at = "free"
      BY <1>2 DEF Claim, NextId, Unused, Turn
    <2>2. turn'[u].todo = Unterminated(i) /\ \A w \in Turn : w # u => turn'[w] = turn[w]
      BY <1>2 DEF Claim, Put, NewTurn, Turns
    <2>3. turn'[t].at \in Writing => turn[t].at \in Writing
      BY <2>1, <2>2 DEF Writing, Silent, Early
    <2>4. turn'[t].at \in Silent => turn[t].at \in Silent
      BY <2>1, <2>2 DEF Silent, Early
    <2>5. UNCHANGED <<log, inbox, sealer>>
      BY <1>2 DEF Claim
    <2>6. turn[t].at \in Writing => t \notin Unterminated(i)
      BY <1>2, UnterminatedOver DEF Claim
    <2> QED BY <1>1, <2>2, <2>3, <2>4, <2>5, <2>6 DEF Unclosed, Sealing
  <1>3. ASSUME NEW u \in Turn, Refuse(u)
        PROVE  /\ turn'[t].at \in Silent => ~log'[t].events
               /\ turn'[t].at \in Writing => Unclosed(t)'
               /\ log'[t].footer = "own" => inbox'[Resume(t)].st = "absent"
    <2>1. UNCHANGED <<log, inbox, sealer>>
      BY <1>3 DEF Refuse
    <2>2. /\ turn[u].at = "preparing" /\ turn'[u].todo = turn[u].todo
          /\ \A w \in Turn : w # u => turn'[w] = turn[w]
      BY <1>3 DEF Refuse, At, Put, Turns, TurnState
    <2>3. turn'[t].at \in Silent => turn[t].at \in Silent
      BY <2>2 DEF Silent, Early
    <2>4. turn'[t].at \in Writing => turn[t].at \in Writing
      BY <2>2 DEF Writing, Silent, Early
    <2> QED BY <1>1, <2>1, <2>2, <2>3, <2>4 DEF Unclosed, Sealing
  <1>4. CASE TurnsProceed
    <2>1. /\ turn'[t].at \in Silent => turn[t].at \in Silent
          /\ turn'[t].at \in Writing => turn[t].at \in Writing
      BY <1>4 DEF TurnsProceed, Proceeds
    <2>2. \A u \in Turn : turn'[u].todo \subseteq turn[u].todo
      BY <1>4 DEF TurnsProceed, Proceeds
    <2>3. CASE UNCHANGED log /\ SealersGoOn /\ Keeps(inbox')
      <3>1. Sealing(t)' => Sealing(t)
        BY <2>2, <2>3 DEF Sealing, SealersGoOn
      <3> QED BY <1>1, <2>1, <2>3, <3>1, ResumeOf DEF Keeps, Unclosed
    <2>4. ASSUME NEW i \in Inst, SealerClaim(i)
          PROVE  /\ turn'[t].at \in Silent => ~log'[t].events
                 /\ turn'[t].at \in Writing => Unclosed(t)'
                 /\ log'[t].footer = "own" => inbox'[Resume(t)].st = "absent"
      <3>1. UNCHANGED <<log, inbox, turn>>
        BY <2>4 DEF SealerClaim
      <3>2. turn[t].at \in Writing => t \notin Unterminated(i)
        BY <2>4, UnterminatedOver DEF SealerClaim
      <3>3. \A k \in Inst : sealer'[k].todo = IF k = i THEN Unterminated(i) ELSE sealer[k].todo
        BY <2>4 DEF SealerClaim, Local
      <3> QED BY <1>1, <3>1, <3>2, <3>3 DEF Unclosed, Sealing
    <2>5. ASSUME NEW u \in Turn, SealsTurn(u)
          PROVE  /\ turn'[t].at \in Silent => ~log'[t].events
                 /\ turn'[t].at \in Writing => Unclosed(t)'
                 /\ log'[t].footer = "own" => inbox'[Resume(t)].st = "absent"
      <3>1. Sealing(u)
        BY <2>5 DEF SealsTurn, Seal, SealerSeal, Sealing
      <3>2. Sealing(t)' => Sealing(t)
        <4>1. \A i \in Inst : sealer'[i].todo \subseteq sealer[i].todo
          <5>1. ASSUME NEW k \in Inst, SealerSeal(k, u)
                PROVE  \A i \in Inst : sealer'[i].todo \subseteq sealer[i].todo
            <6> DEFINE r == [sealer[k] EXCEPT !.todo = @ \ {u}]
            <6>1. sealer[k] \in [on : BOOLEAN, todo : SUBSET Turn]
              BY DEF Local
            <6>2. r.todo = sealer[k].todo \ {u}
              BY <6>1
            <6>3. sealer' = sealer \/ sealer' = [sealer EXCEPT ![k] = r]
              BY <5>1 DEF SealerSeal
            <6> HIDE DEF r
            <6> QED BY <6>2, <6>3 DEF Local
          <5>2. (\E w \in Turn : Seal(w, u)) => UNCHANGED sealer
            BY DEF Seal
          <5> QED BY <2>5, <5>1, <5>2 DEF SealsTurn
        <4> QED BY <2>2, <4>1 DEF Sealing
      <3>3. SealFooter(u) \/ (SealEnd(u) /\ UNCHANGED inbox)
        BY <2>5 DEF SealsTurn, Seal, SealerSeal
      <3>4. t # u => log'[t] = log[t]
        BY <3>3 DEF SealFooter, SealEnd, Logs
      <3>5. log'[u].events = log[u].events
        BY <3>3 DEF SealFooter, SealEnd, Logs, Log
      <3>6. log'[u].footer = "own" => log[u].footer = "own" /\ UNCHANGED inbox
        BY <3>3 DEF SealFooter, SealEnd, Logs, Log
      <3>7. t # u => inbox'[Resume(t)] = inbox[Resume(t)]
        BY <3>3, ResumeOf DEF SealFooter, Continued, Inbox, Rows
      <3>8. CASE t = u
        BY <1>1, <2>1, <3>1, <3>5, <3>6, <3>8 DEF Unclosed
      <3>9. CASE t # u
        BY <1>1, <2>1, <3>2, <3>4, <3>7, <3>9 DEF Unclosed
      <3> QED BY <3>8, <3>9
    <2>6. ASSUME NEW u \in Turn, Persist(u) \/ Footer(u) \/ End(u)
          PROVE  /\ turn'[t].at \in Silent => ~log'[t].events
                 /\ turn'[t].at \in Writing => Unclosed(t)'
                 /\ log'[t].footer = "own" => inbox'[Resume(t)].st = "absent"
      <3>1. UNCHANGED <<inbox, sealer>>
        BY <2>6 DEF Persist, Footer, End
      <3>2. Sealing(t)' => Sealing(t)
        BY <2>2, <3>1 DEF Sealing
      <3>3. t # u => log'[t] = log[t]
        BY <2>6 DEF Persist, Footer, End, Logs
      <3>4. CASE t # u
        BY <1>1, <2>1, <3>1, <3>2, <3>3, <3>4 DEF Unclosed
      <3>5. CASE t = u /\ Persist(u)
        <4>1. turn'[t].at = turn[t].at /\ turn[t].at \notin Silent
          BY <3>5 DEF Persist, Open, Silent, Early
        <4>2. log'[t].footer = log[t].footer
          BY <3>5 DEF Persist, Logs, Log
        <4> QED BY <1>1, <3>1, <3>2, <4>1, <4>2 DEF Unclosed
      <3>6. CASE t = u /\ (Footer(u) \/ End(u))
        <4>1. /\ turn[t].at \in {"flushed", "footed"}
              /\ turn'[t].at \in {"footed", "handoff"}
          BY <3>6 DEF Footer, End, At, Put, Turns, TurnState
        <4>2. turn[t].at = "flushed" \/ log'[t].footer = log[t].footer
          BY <3>6 DEF Footer, End, Logs, Log
        <4> QED BY <1>1, <3>1, <4>1, <4>2 DEF Unclosed, Writing, Silent, Early
      <3> QED BY <2>6, <3>4, <3>5, <3>6
    <2> QED BY <2>3, <2>4, <2>5, <2>6, RowStep DEF SealsNow, Logging
  <1> QED BY <1>2, <1>3, <1>4, TurnStep DEF Claims, Refuses

LEMMA LeaseInit == Init => HeldOn /\ Lively /\ Unsealed
  <1> SUFFICES ASSUME Init PROVE HeldOn /\ Lively /\ Unsealed
    OBVIOUS
  <1>1. NewTurn.at = "free" /\ NewTurn.todo = {} /\ NoSeal.todo = {}
    BY DEF NewTurn, NoSeal
  <1>2. \A t \in Turn : turn[t].at = "free" /\ turn[t].todo = {}
    BY <1>1 DEF Init
  <1>3. HeldOn /\ Lively
    BY <1>2 DEF Init, HeldOn, Holding, Open, Lively
  <1>4. Unsealed
    BY <1>1, <1>2, ResumeOf DEF Init, Unsealed, Unclosed, Sealing
  <1> QED BY <1>3, <1>4

LEMMA LeaseStutter ==
    HeldOn /\ Lively /\ Unsealed /\ UNCHANGED vars => (HeldOn /\ Lively /\ Unsealed)'
  BY DEF vars, HeldOn, Undisturbed, Holds, Owns, Lively, Unsealed, Unclosed, Sealing

\* While no lease runs out under a process that lives, a turn that wrote its
\* footer is not continued, wherever its process died (seal-interrupted-turn.ts).
THEOREM NotContinued == Spec => []FinishedIsNotContinued
  <1> DEFINE Lease == HeldOn /\ Lively /\ Unsealed
  <1>1. Init => Typed /\ Lease
    BY TypedInit, LeaseInit
  <1>2. Typed /\ Lease /\ [Next]_vars => (Typed /\ Lease)'
    BY TypedStep, TypedStutter, HeldStep, LivelyStep, UnsealedStep, LeaseStutter
  <1>3. Lease => FinishedIsNotContinued
    BY DEF Unsealed, FinishedIsNotContinued
  <1> QED BY <1>1, <1>2, <1>3, PTL DEF Spec

-----------------------------------------------------------------------------
(* Somebody comes for a message that waits *)

LEMMA PutWhere ==
    ASSUME Turns, NEW u \in Turn, NEW r, turn' = Put(u, r)
    PROVE  turn'[u] = r /\ \A t \in Turn : t # u => turn'[t] = turn[t]
  BY DEF Turns, Put

LEMMA ClaimWhere ==
    ASSUME Typed, NEW i \in Inst, NEW q \in Msg \cup {NoMsg}, NEW u \in Turn, Claim(q, i, u)
    PROVE  /\ turn'[u].at = "claimed" /\ turn'[u].inst = i
           /\ \A t \in Turn : t # u => turn'[t] = turn[t]
  BY DEF Claim, Put, NewTurn, Typed, Turns

LEMMA AtWhere ==
    ASSUME Turns, NEW u \in Turn, NEW p \in Phase, turn' = At(u, p)
    PROVE  /\ turn'[u].at = p /\ turn'[u].src = turn[u].src
           /\ turn'[u].quiet = turn[u].quiet /\ turn'[u].inst = turn[u].inst
           /\ \A t \in Turn : t # u => turn'[t] = turn[t]
  <1> DEFINE r == [turn[u] EXCEPT !.at = p]
  <1>1. turn[u] \in TurnState
    BY DEF Turns
  <1>2. /\ r.at = p /\ r.src = turn[u].src /\ r.quiet = turn[u].quiet
        /\ r.inst = turn[u].inst
    BY <1>1 DEF TurnState
  <1>3. turn' = Put(u, r)
    BY DEF At
  <1> HIDE DEF r
  <1> QED BY <1>2, <1>3, PutWhere

\* A turn stays where it is, or goes on while it needs the lease.
Stays(t) == /\ turn'[t].at = turn[t].at /\ turn'[t].src = turn[t].src
            /\ turn'[t].quiet = turn[t].quiet
GoesOn(t) == /\ turn[t].at \in Holding /\ turn'[t].at \in Holding
             /\ turn[t].at \in Open => turn'[t].at \in Open
Moving(t) == Stays(t) \/ GoesOn(t)

\* The steps with which it does not.
Parts(t) == \/ Leave(t) \/ Refuse(t) \/ Refused(t) \/ Dropped(t) \/ Lost(t) \/ End(t)
            \/ Release(t) \/ Ask(t) \/ Handoff(t)

LEMMA MoveStep ==
    ASSUME Typed, Next, ~Claims, ~Crashes
    PROVE  \A t \in Turn : Moving(t) \/ Parts(t)
  <1> USE DEF Typed
  <1> DEFINE All == \A t \in Turn : Moving(t) \/ Parts(t)
  <1>1. UNCHANGED turn => All
    BY DEF Moving, Stays
  <1>2. ASSUME NEW u \in Turn, NEW r, turn' \in {turn, Put(u, r)},
               r.at = turn[u].at, r.src = turn[u].src, r.quiet = turn[u].quiet
        PROVE  All
    BY <1>2, PutWhere DEF Moving, Stays
  <1>3. ASSUME NEW u \in Turn, NEW r, turn' = Put(u, r),
               <<turn[u].at, r.at>> \in
                   {<<"claimed", "preparing">>, <<"committed", "running">>,
                    <<"running", "closing">>, <<"closing", "flushed">>}
        PROVE  All
    BY <1>3, PutWhere DEF Moving, Stays, GoesOn, Holding, Open
  <1>4. ASSUME NEW u \in Turn, NEW p \in Phase, turn' = At(u, p),
               <<turn[u].at, p>> \in
                   {<<"claimed", "leaving">>, <<"preparing", "committed">>,
                    <<"preparing", "leaving">>, <<"flushed", "footed">>}
        PROVE  All
    BY <1>4, AtWhere DEF Moving, Stays, GoesOn, Holding, Open
  <1>5. ASSUME NEW u \in Turn, Parts(u) PROVE All
    <2>1. \A t \in Turn : t # u => turn'[t] = turn[t]
      BY <1>5 DEF Parts, Leave, Refuse, Refused, Dropped, Lost, End, Release, Ask,
          Handoff, At, Free, Put, Turns
    <2> QED BY <1>5, <2>1 DEF Moving, Stays
  <1>6. ASSUME NEW t \in Turn, NEW u \in Turn, Seal(t, u) PROVE All
    <2> DEFINE r == [turn[t] EXCEPT !.todo = @ \ {u}]
    <2>1. turn[t] \in TurnState
      BY DEF Turns
    <2>2. r.at = turn[t].at /\ r.src = turn[t].src /\ r.quiet = turn[t].quiet
      BY <2>1 DEF TurnState
    <2>3. turn' \in {turn, Put(t, r)}
      BY <1>6 DEF Seal, r
    <2> HIDE DEF r
    <2> QED BY <2>2, <2>3, <1>2
  <1>7. ASSUME NEW t \in Turn, Pick(t) PROVE All
    <2>1. turn[t].at = "claimed"
      BY <1>7 DEF Pick
    <2>2. CASE turn' = At(t, "leaving")
      BY <2>1, <2>2, <1>4, Phases
    <2>3. ASSUME NEW e \in Entry,
                 turn' = Put(t, [turn[t] EXCEPT !.at = "preparing", !.src = e])
          PROVE  All
      <3> DEFINE r == [turn[t] EXCEPT !.at = "preparing", !.src = e]
      <3>1. turn[t] \in TurnState
        BY DEF Turns
      <3>2. r.at = "preparing"
        BY <3>1 DEF TurnState
      <3>3. turn' = Put(t, r)
        BY <2>3 DEF r
      <3> HIDE DEF r
      <3> QED BY <2>1, <3>2, <3>3, <1>3
    <2> QED BY <1>7, <2>2, <2>3 DEF Pick
  <1>8. ASSUME NEW t \in Turn, Commit(t) \/ Pass(t) \/ Footer(t) PROVE All
    <2>1. CASE Commit(t)
      BY <2>1, <1>4, Phases DEF Commit
    <2>2. CASE Pass(t)
      BY <2>2, <1>4, Phases DEF Pass
    <2>3. CASE Footer(t)
      BY <2>3, <1>4, Phases DEF Footer
    <2> QED BY <1>8, <2>1, <2>2, <2>3
  <1>9. ASSUME NEW t \in Turn, Start(t) PROVE All
    <2> DEFINE r == [turn[t] EXCEPT !.at = "running", !.quiet = NoMsg, !.src = NoMsg]
    <2>1. turn[t] \in TurnState
      BY DEF Turns
    <2>2. r.at = "running"
      BY <2>1 DEF TurnState
    <2>3. turn' = Put(t, r) /\ turn[t].at = "committed"
      BY <1>9 DEF Start, r
    <2> HIDE DEF r
    <2> QED BY <2>2, <2>3, <1>3
  <1>10. ASSUME NEW t \in Turn, WriteQueue(t) PROVE All
    <2> DEFINE r == [turn[t] EXCEPT !.queue = {}]
    <2>1. turn[t] \in TurnState
      BY DEF Turns
    <2>2. r.at = turn[t].at /\ r.src = turn[t].src /\ r.quiet = turn[t].quiet
      BY <2>1 DEF TurnState
    <2>3. turn' \in {turn, Put(t, r)}
      BY <1>10 DEF WriteQueue, r
    <2> HIDE DEF r
    <2> QED BY <2>2, <2>3, <1>2
  <1>11. ASSUME NEW t \in Turn, Heartbeat(t) \/ StopAbort(t) PROVE All
    <2> DEFINE r == [turn[t] EXCEPT !.aborted = TRUE]
    <2>1. turn[t] \in TurnState
      BY DEF Turns
    <2>2. r.at = turn[t].at /\ r.src = turn[t].src /\ r.quiet = turn[t].quiet
      BY <2>1 DEF TurnState
    <2>3. turn' \in {turn, Put(t, r)}
      BY <1>11 DEF Heartbeat, StopAbort, r
    <2> HIDE DEF r
    <2> QED BY <2>2, <2>3, <1>2
  <1>12. ASSUME NEW t \in Turn, Close(t) PROVE All
    <2> DEFINE r == [turn[t] EXCEPT !.at = "closing", !.aborted = FALSE]
    <2>1. turn[t] \in TurnState
      BY DEF Turns
    <2>2. r.at = "closing"
      BY <2>1 DEF TurnState
    <2>3. turn' = Put(t, r) /\ turn[t].at = "running"
      BY <1>12 DEF Close, r
    <2> HIDE DEF r
    <2> QED BY <2>2, <2>3, <1>3
  <1>13. ASSUME NEW t \in Turn, Flush(t) PROVE All
    <2> DEFINE r == [turn[t] EXCEPT !.at = "flushed", !.queue = {}]
    <2>1. turn[t] \in TurnState
      BY DEF Turns
    <2>2. r.at = "flushed"
      BY <2>1 DEF TurnState
    <2>3. turn' = Put(t, r) /\ turn[t].at = "closing"
      BY <1>13 DEF Flush, r
    <2> HIDE DEF r
    <2> QED BY <2>2, <2>3, <1>3
  <1>14. ASSUME NEW m \in Msg, PromoteLand(m) PROVE All
    <2> DEFINE t == promotion[m].turn
    <2> DEFINE r == [turn[t] EXCEPT !.queue = @ \cup {m}]
    <2>1. t \in Turn
      BY <1>14 DEF PromoteLand, Calls
    <2>2. turn[t] \in TurnState
      BY <2>1 DEF Turns
    <2>3. r.at = turn[t].at /\ r.src = turn[t].src /\ r.quiet = turn[t].quiet
      BY <2>2 DEF TurnState
    <2>4. turn' \in {turn, Put(t, r)}
      BY <1>14 DEF PromoteLand
    <2> HIDE DEF r, t
    <2> QED BY <2>1, <2>3, <2>4, <1>2
  <1> QED
    <2>1. CASE User
      BY <2>1, <1>1 DEF User, Send, Withdraw, PromoteCall, StopBegin
    <2>2. CASE \E i \in Inst : Drain(i)
      BY <2>2, <1>1 DEF Drain, Look, GiveUp, Claims
    <2>3. CASE \E i \in Inst : Seals(i)
      BY <2>3, <1>1 DEF Seals, SealerClaim, SealerSeal, SealerRelease
    <2>4. CASE \E i \in Inst : SweepJobs(i) \/ Sweep(i) \/ Crash(i) \/ DrainBegin(i)
      BY <2>4, <1>1 DEF SweepJobs, Sweep, DrainBegin, Crashes
    <2>5. CASE \E t \in Turn : Runs(t)
      <3>1. \A t \in Turn : Persist(t) => All
        BY <1>1 DEF Persist
      <3> QED BY <2>5, <3>1, <1>5, <1>6, <1>7, <1>8, <1>9, <1>12, <1>13 DEF Runs, Parts
    <2>6. CASE \E t \in Turn : EndJob(t) \/ StopReturn(t) \/ StopAbort(t)
      BY <2>6, <1>1, <1>11 DEF EndJob, StopReturn
    <2>7. CASE \E m \in Msg : Promote(m)
      BY <2>7, <1>1, <1>14 DEF Promote, PromoteClaim, PromoteRequeue
    <2>8. CASE \E t \in Turn : Heartbeat(t) \/ WriteQueue(t) \/ SubmitJob(t)
      BY <2>8, <1>1, <1>10, <1>11 DEF SubmitJob
    <2>9. CASE Expire
      BY <2>9, <1>1 DEF Expire
    <2> QED BY <2>1, <2>2, <2>3, <2>4, <2>5, <2>6, <2>7, <2>8, <2>9 DEF Next, System,
        ExpireGone

\* A turn has a process once it is claimed.
Located == \A t \in Turn : turn[t].at # "free" => turn[t].inst \in Inst

LEMMA LocatedStep ==
    ASSUME Typed, Next, Located
    PROVE  Located'
  <1> USE DEF Typed
  <1>1. CASE TurnsProceed
    BY <1>1 DEF Located, TurnsProceed, Proceeds
  <1>2. CASE Claims
    BY <1>2, ClaimWhere DEF Claims, Located
  <1>3. CASE Refuses
    BY <1>3, AtWhere, Phases DEF Refuses, Refuse, Located
  <1> QED BY <1>1, <1>2, <1>3, TurnStep

\* A turn that is refused is refused for what it was prepared with.
Refusing == \A t \in Turn : turn[t].at = "refusing" =>
                turn[t].src \in Refusable /\ inbox[turn[t].src].st # "absent"

LEMMA SealRows ==
    ASSUME Typed, NEW u \in Turn, SealsTurn(u)
    PROVE  /\ \A e \in Entry : \/ inbox'[e] = inbox[e]
                               \/ e \in Resumes /\ inbox'[e].st = "pending"
           /\ UNCHANGED <<looking, claiming, promotion, proc, faults>>
  <1>1. NewRow("pending", 1).st = "pending"
    BY DEF NewRow
  <1>2. inbox' = inbox \/ inbox' = Continued(u)
    BY DEF SealsTurn, Seal, SealerSeal, SealFooter, SealEnd
  <1>3. \A e \in Entry : \/ inbox'[e] = inbox[e]
                         \/ e \in Resumes /\ inbox'[e].st = "pending"
    BY <1>1, <1>2, ResumeOf DEF Continued, Typed, Inbox, Rows
  <1>4. UNCHANGED <<looking, claiming, promotion, proc, faults>>
    BY DEF SealsTurn, Seal, SealerSeal
  <1> QED BY <1>3, <1>4

\* The rows there are stay, and so does what was given back.
LEMMA RowsStay ==
    ASSUME Typed, Next
    PROVE  \A e \in Entry :
               /\ inbox[e].st # "absent" => inbox'[e].st # "absent"
               /\ e \in Msg /\ inbox[e].st = "cancelled" => inbox'[e].st = "cancelled"
  <1>1. CASE Keeps(inbox')
    BY <1>1 DEF Keeps
  <1>2. CASE SealsNow \/ Logging
    BY <1>2 DEF SealsNow, SealerClaim, Logging, Persist, Footer, End
  <1>3. CASE \E u \in Turn : SealsTurn(u)
    BY <1>3, SealRows, Entries
  <1> QED BY <1>1, <1>2, <1>3, RowStep

LEMMA RefusingStep ==
    ASSUME Typed, Next, Refusing
    PROVE  Refusing'
  <1> USE DEF Typed
  <1>1. CASE TurnsProceed
    <2>1. \A t \in Turn : turn[t].at = "refusing" => turn[t].src \in Entry
      BY DEF Source
    <2> QED BY <1>1, <2>1, RowsStay DEF Refusing, TurnsProceed, Proceeds
  <1>2. CASE Claims
    <2>1. inbox' = inbox
      BY <1>2 DEF Claims, Claim
    <2> QED BY <1>2, <2>1, ClaimWhere DEF Claims, Refusing
  <1>3. CASE Refuses
    <2>1. inbox' = inbox
      BY <1>3 DEF Refuses, Refuse
    <2> QED BY <1>3, <2>1, AtWhere, Phases DEF Refuses, Refuse, Refusing, Pending
  <1> QED BY <1>1, <1>2, <1>3, TurnStep

\* An interjection is made to a turn that has started.
Asking == {"calling", "won", "refused"}
Called == \A m \in Msg : promotion[m].at \in Asking =>
              promotion[m].turn \in Turn /\ turn[promotion[m].turn].at \notin Early

LEMMA CallStep ==
    ASSUME Typed, Next
    PROVE  \/ \A m \in Msg : promotion'[m].at \in Asking =>
                  promotion[m].at \in Asking /\ promotion'[m].turn = promotion[m].turn
           \/ \E m \in Promotable, t \in Turn : PromoteCall(m, t)
  <1> USE DEF Typed
  <1> DEFINE Calmly == \A m \in Msg : promotion'[m].at \in Asking =>
                          promotion[m].at \in Asking /\ promotion'[m].turn = promotion[m].turn
  <1>1. UNCHANGED promotion => Calmly
    OBVIOUS
  <1> HIDE DEF Calmly
  <1>2. CASE User
    BY <1>2, <1>1 DEF User, Send, Withdraw, StopBegin, Calmly
  <1>3. CASE \E i \in Inst : Drain(i)
    BY <1>3, <1>1 DEF Drain, Look, GiveUp, Claim
  <1>4. CASE \E i \in Inst : Seals(i)
    BY <1>4, <1>1 DEF Seals, SealerClaim, SealerSeal, SealerRelease
  <1>5. ASSUME NEW i \in Inst, Crash(i) PROVE Calmly
    BY <1>5 DEF Crash, Calls, Promotion, Calmly, Asking
  <1>6. CASE \E i \in Inst : SweepJobs(i) \/ Sweep(i) \/ DrainBegin(i)
    BY <1>6, <1>1 DEF SweepJobs, Sweep, DrainBegin
  <1>7. CASE \E t \in Turn : Runs(t)
    <2> SUFFICES ASSUME NEW t \in Turn, Runs(t)
                 PROVE  UNCHANGED promotion
      BY <1>7, <1>1
    <2>1. CASE (\E u \in Turn : Seal(t, u)) \/ Pick(t) \/ Refused(t) \/ Dropped(t) \/ Persist(t)
      BY <2>1 DEF Seal, Pick, Refused, Dropped, Persist
    <2>2. CASE Close(t) \/ Lost(t) \/ Footer(t) \/ End(t) \/ Ask(t) \/ Handoff(t)
      BY <2>2 DEF Close, Lost, Footer, End, Ask, Handoff
    <2>3. CASE Commit(t) \/ Pass(t) \/ Start(t) \/ Flush(t)
      BY <2>3 DEF Commit, Pass, Start, Flush
    <2>4. CASE Leave(t) \/ Refuse(t) \/ Release(t)
      BY <2>4 DEF Leave, Refuse, Release
    <2> QED BY <2>1, <2>2, <2>3, <2>4 DEF Runs
  <1>8. CASE \E t \in Turn : EndJob(t) \/ StopReturn(t) \/ StopAbort(t)
    BY <1>8, <1>1 DEF EndJob, StopReturn, StopAbort
  <1>9. ASSUME NEW m \in Msg, Promote(m) PROVE Calmly
    <2>1. \A n \in Msg : n # m => promotion'[n] = promotion[n]
      BY <1>9 DEF Promote, PromoteClaim, PromoteLand, PromoteRequeue, Calls
    <2>2. /\ promotion'[m].at \in Asking => promotion[m].at \in Asking
          /\ promotion'[m].at \in Asking => promotion'[m].turn = promotion[m].turn
      BY <1>9 DEF Promote, PromoteClaim, PromoteLand, PromoteRequeue, Calls, Promotion,
          Asking
    <2> QED BY <2>1, <2>2 DEF Calmly
  <1>10. CASE \E t \in Turn : Heartbeat(t) \/ WriteQueue(t) \/ SubmitJob(t)
    BY <1>10, <1>1 DEF Heartbeat, WriteQueue, SubmitJob
  <1>11. CASE Expire
    BY <1>11, <1>1 DEF Expire
  <1>12. CASE System
    BY <1>12, <1>3, <1>4, <1>6, <1>7, <1>8, <1>9, <1>11 DEF System, ExpireGone, Calmly
  <1>13. CASE \E i \in Inst : Crash(i) \/ DrainBegin(i)
    BY <1>13, <1>5, <1>6 DEF Calmly
  <1> QED BY <1>2, <1>10, <1>11, <1>12, <1>13 DEF Next

LEMMA CalledStep ==
    ASSUME Typed, Next, Called
    PROVE  Called'
  <1> USE DEF Typed
  <1>1. ASSUME NEW m \in Promotable, NEW t \in Turn, PromoteCall(m, t)
        PROVE  Called'
    <2>1. m \in Msg /\ turn' = turn /\ turn[t].at \notin Early
      BY <1>1, BoundsAssumption DEF PromoteCall, Registered, OpenLogs, Open, Early
    <2>2. /\ promotion'[m].turn = t
          /\ \A n \in Msg : n # m => promotion'[n] = promotion[n]
      BY <1>1, <2>1 DEF PromoteCall, Calls
    <2> QED BY <2>1, <2>2 DEF Called
  <1>2. CASE \A m \in Msg : promotion'[m].at \in Asking =>
                 promotion[m].at \in Asking /\ promotion'[m].turn = promotion[m].turn
    <2>1. \A t \in Turn : turn[t].at \notin Early => turn'[t].at \notin Early
      <3>1. CASE TurnsProceed
        BY <3>1 DEF TurnsProceed, Proceeds
      <3>2. CASE Claims
        <4>1. PICK i \in Inst, q \in Msg \cup {NoMsg}, u \in Turn : Claim(q, i, u)
          BY <3>2 DEF Claims
        <4>2. turn[u].at = "free" /\ \A t \in Turn : t # u => turn'[t] = turn[t]
          BY <4>1, PutWhere DEF Claim, NextId, Unused, Turn
        <4> QED BY <4>2 DEF Early
      <3>3. CASE Refuses
        BY <3>3, AtWhere, Phases DEF Refuses, Refuse, Early
      <3> QED BY <3>1, <3>2, <3>3, TurnStep
    <2> QED BY <1>2, <2>1 DEF Called
  <1> QED BY <1>1, <1>2, CallStep

\* Without faults: all processes are up and none seals outside of a turn; the
\* lease is free or with a turn that needs it; a turn with events and no end is
\* open.
AllUp    == \A i \in Inst : proc[i] = "up" /\ ~sealer[i].on
InUse    == exec.running => /\ exec.fresh /\ exec.holder \in Turn
                            /\ turn[exec.holder].at \in Holding
OpenTill == \A t \in Turn : log[t].events /\ ~log[t].terminal => turn[t].at \in Open
Steady   == faults = 0 => AllUp /\ InUse /\ OpenTill

LEMMA FaultFree ==
    ASSUME Typed, Next, faults' = 0, Steady, HeldOn
    PROVE  /\ faults = 0 /\ UNCHANGED proc /\ ~Crashes /\ ~SealsNow /\ ~Expire
           /\ \A t \in Turn : ~Dropped(t) /\ ~Lost(t)
  <1> USE DEF Typed
  <1>1. faults = 0 /\ UNCHANGED proc /\ ~Crashes
    BY FaultStep DEF Expire, Local, Crashes, Crash
  <1>2. \A t \in Turn : turn[t].at \in Holding => Holds(t)
    BY <1>1 DEF HeldOn, Undisturbed
  <1>3. AllUp /\ InUse /\ OpenTill
    BY <1>1 DEF Steady
  <1>4. ~SealsNow
    <2> SUFFICES ASSUME NEW i \in Inst, SealerClaim(i)
                 PROVE  FALSE
      BY DEF SealsNow
    <2>1. ~exec.running
      BY <1>3 DEF SealerClaim, Held, InUse
    <2>2. PICK u \in Turn : log[u].events /\ ~log[u].terminal
      BY <2>1 DEF SealerClaim, Unterminated
    <2>3. turn[u].at \in Holding
      BY <1>3, <2>2 DEF OpenTill, Holding
    <2> QED BY <1>2, <2>1, <2>3 DEF Holds, Owns
  <1>5. ~Expire
    <2> SUFFICES ASSUME Expire
                 PROVE  FALSE
      OBVIOUS
    <2>1. turn[exec.holder].at \in Holding /\ exec.holder \in Turn
      BY <1>3 DEF Expire, Held, InUse
    <2>2. exec.inst \in Inst
      BY <1>2, <2>1 DEF Holds, Owns
    <2>3. proc[exec.inst] = "up"
      BY <1>3, <2>2 DEF AllUp
    <2> QED BY <1>1, <2>3 DEF Expire
  <1>6. ASSUME NEW t \in Turn
        PROVE  ~Dropped(t) /\ ~Lost(t)
    BY <1>2 DEF Dropped, Lost, Holds, Holding, Open
  <1> QED BY <1>1, <1>4, <1>5, <1>6

LEMMA SteadyStep ==
    ASSUME Typed, Typed', Next, Steady, HeldOn
    PROVE  Steady'
  <1> USE DEF Typed
  <1> SUFFICES ASSUME faults' = 0
               PROVE  (AllUp /\ InUse /\ OpenTill)'
    BY DEF Steady
  <1>1. /\ faults = 0 /\ UNCHANGED proc /\ ~Crashes /\ ~SealsNow /\ ~Expire
        /\ \A t \in Turn : ~Dropped(t) /\ ~Lost(t)
    BY FaultFree
  <1>2. AllUp /\ InUse /\ OpenTill
    BY <1>1 DEF Steady
  <1>3. \A t \in Turn : turn[t].at \in Holding => Holds(t)
    BY <1>1 DEF HeldOn, Undisturbed
  <1>4. AllUp'
    <2>1. \A i \in Inst : sealer'[i].on => sealer[i].on
      <3>1. CASE SealersGoOn
        BY <3>1 DEF SealersGoOn
      <3>2. CASE Logging
        BY <3>2 DEF Logging, Persist, Footer, End
      <3>3. ASSUME NEW u \in Turn, SealsTurn(u)
            PROVE  \A i \in Inst : sealer'[i].on => sealer[i].on
        <4>1. \A i \in Inst : ~SealerSeal(i, u)
          BY <1>2 DEF AllUp, SealerSeal
        <4> QED BY <3>3, <4>1 DEF SealsTurn, Seal
      <3> QED BY <1>1, <3>1, <3>2, <3>3, RowStep
    <2> QED BY <1>1, <1>2, <2>1 DEF AllUp
  <1>5. ASSUME NEW i \in Inst, NEW q \in Msg \cup {NoMsg}, NEW u \in Turn, Claim(q, i, u)
        PROVE  (InUse /\ OpenTill)'
    <2>1. exec'.running /\ exec'.fresh /\ exec'.holder = u /\ log' = log
      BY <1>5 DEF Claim, Leased
    <2>2. turn'[u].at = "claimed" /\ \A t \in Turn : t # u => turn'[t] = turn[t]
      BY <1>5, ClaimWhere
    <2>3. turn[u].at = "free"
      BY <1>5 DEF Claim, NextId, Unused, Turn
    <2> QED BY <1>2, <2>1, <2>2, <2>3 DEF InUse, OpenTill, Holding, Open
  <1>6. CASE ~Claims
    <2>1. \A t \in Turn : Moving(t) \/ Parts(t)
      BY <1>1, <1>6, MoveStep
    <2>2. OpenTill'
      <3> SUFFICES ASSUME NEW t \in Turn, log'[t].events, ~log'[t].terminal
                   PROVE  turn'[t].at \in Open
        BY DEF OpenTill
      <3>1. turn[t].at \in Open
        <4>1. CASE UNCHANGED log
          BY <1>2, <4>1 DEF OpenTill
        <4>2. ASSUME NEW u \in Turn, SealsTurn(u)
              PROVE  turn[t].at \in Open
          <5>1. log'[t].events = log[t].events /\ (log[t].terminal => log'[t].terminal)
            <6>1. SealFooter(u) \/ SealEnd(u)
              BY <4>2 DEF SealsTurn, Seal, SealerSeal
            <6>2. log[t] \in Log
              BY DEF Logs
            <6>3. CASE SealFooter(u)
              BY <6>2, <6>3 DEF SealFooter, Logs, Log
            <6>4. CASE SealEnd(u)
              BY <6>2, <6>4 DEF SealEnd, Logs, Log
            <6> QED BY <6>1, <6>3, <6>4
          <5> QED BY <1>2, <5>1 DEF OpenTill
        <4>3. ASSUME NEW u \in Turn, Persist(u) \/ Footer(u) \/ End(u)
              PROVE  turn[t].at \in Open
          <5>1. CASE t = u
            BY <4>3, <5>1 DEF Persist, Footer, End, Open
          <5>2. CASE t # u
            BY <1>2, <4>3, <5>2 DEF Persist, Footer, End, OpenTill, Logs
          <5> QED BY <5>1, <5>2
        <4> QED BY <1>1, <4>1, <4>2, <4>3, RowStep DEF Logging
      <3>2. ~End(t)
        <4>1. End(t) => log'[t].terminal
          BY DEF End, Logs, Log
        <4> QED BY <4>1
      <3>3. Moving(t)
        BY <1>1, <2>1, <3>1, <3>2 DEF Parts, Leave, Refuse, Refused, Release, Ask, Handoff,
           Open
      <3> QED BY <3>1, <3>3 DEF Moving, Stays, GoesOn
    <2>3. InUse'
      <3> SUFFICES ASSUME exec'.running
                   PROVE  /\ exec'.fresh /\ exec'.holder \in Turn
                          /\ turn'[exec'.holder].at \in Holding
        BY DEF InUse
      <3>1. ASSUME NEW u \in Turn, Leave(u) \/ Refuse(u) \/ Release(u)
            PROVE  FALSE
        <4>1. Holds(u)
          BY <1>3, <3>1 DEF Leave, Refuse, Release, Holding
        <4>2. exec' = [exec EXCEPT !.running = FALSE]
          BY <3>1, <4>1 DEF Leave, Refuse, Release, Released, Holds, Owns
        <4> QED BY <4>2 DEF Leases, Execution
      <3>2. \A i \in Inst : ~SealerRelease(i)
        BY <1>2 DEF AllUp, SealerRelease
      <3>3. LeaseSame
        BY <1>1, <1>6, <3>1, <3>2, LeaseStep DEF LetsGo
      <3>4. /\ exec.fresh /\ exec.holder \in Turn /\ turn[exec.holder].at \in Holding
        BY <1>2, <3>3 DEF LeaseSame, InUse
      <3>5. \A t \in Turn : turn[t].at \in Holding => turn'[t].at \in Holding
        <4> SUFFICES ASSUME NEW t \in Turn, turn[t].at \in Holding
                     PROVE  turn'[t].at \in Holding
          OBVIOUS
        <4>1. CASE Moving(t)
          BY <4>1 DEF Moving, Stays, GoesOn
        <4>2. CASE End(t)
          BY <4>2, AtWhere, Phases DEF End, Holding
        <4> QED BY <1>1, <2>1, <3>1, <4>1, <4>2 DEF Parts, Refused, Ask, Handoff, Holding, Open
      <3> QED BY <3>3, <3>4, <3>5 DEF LeaseSame
    <2> QED BY <1>4, <2>2, <2>3
  <1> QED BY <1>4, <1>5, <1>6 DEF Claims

\* Somebody is on the way to what waits: a drain, a turn that will look again or
\* is heard, or an interjection whose turn gives it back.
Sated(t) == turn[t].at = "refusing" /\ turn[t].src = turn[t].quiet
            /\ inbox[turn[t].src].st = "consumed"
Hopeful(t) == Active(t) /\ turn[t].at # "delivering" /\ ~Sated(t)
OnTheWay == \/ \E i \in Inst : looking[i] \cup claiming[i] # {}
            \/ \E t \in Turn : Hopeful(t)
            \/ \E m \in Msg : promotion[m].at \in {"won", "refused"}
Unrefused == \A m \in Refusable : inbox[m].st # "cancelled"
Hope == faults = 0 /\ Unrefused /\ Waiting \cap Msg # {} => OnTheWay

LEMMA HopefulAt ==
    ASSUME NEW t \in Turn, turn'[t].at \in Holding \cup {"released", "relaying"}
    PROVE  Hope'
  BY DEF Hope, OnTheWay, Hopeful, Active, Sated, Holding, Open

LEMMA HopefulDrain ==
    ASSUME NEW i \in Inst, looking'[i] \cup claiming'[i] # {}
    PROVE  Hope'
  BY DEF Hope, OnTheWay

\* A step that takes nobody off the way.
LEMMA HopeSame ==
    ASSUME Typed, Next, Steady, HeldOn, Hope,
           UNCHANGED <<looking, claiming>>,
           \A t \in Turn : Stays(t) \/ ~Hopeful(t),
           \A m \in Msg : promotion[m].at \in {"won", "refused"} => promotion'[m] = promotion[m],
           \A m \in Msg : inbox'[m].st = "pending" => inbox[m].st = "pending",
           \A e \in Entry : inbox'[e].st = "consumed" => inbox[e].st = "consumed"
    PROVE  Hope'
  <1> SUFFICES ASSUME faults' = 0, Unrefused', (Waiting \cap Msg)' # {}
               PROVE  OnTheWay'
    BY DEF Hope
  <1>1. faults = 0
    BY FaultFree
  <1>2. Unrefused
    BY RowsStay, BoundsAssumption, Entries DEF Unrefused
  <1>3. Waiting \cap Msg # {}
    BY Entries DEF Waiting, Pending
  <1>4. OnTheWay
    BY <1>1, <1>2, <1>3 DEF Hope
  <1>5. ASSUME NEW t \in Turn, Hopeful(t)
        PROVE  Hopeful(t)'
    <2>1. Stays(t)
      BY <1>5
    <2>2. turn[t].at = "refusing" => turn[t].src \in Entry
      BY DEF Typed, Source
    <2> QED BY <1>5, <2>1, <2>2 DEF Hopeful, Active, Sated, Stays
  <1> QED BY <1>4, <1>5 DEF OnTheWay

LEMMA StayAll == UNCHANGED turn => \A t \in Turn : Stays(t)
  BY DEF Stays

\* The wakes that jobs leave are no messages, and wait.
LEMMA WokenRows ==
    ASSUME Inbox, NEW ts \in SUBSET Turn, NEW jobs
    PROVE  \A e \in Entry : WithWakes(ts, jobs)[e].st \in {"pending", inbox[e].st}
  <1> DEFINE waking == {t \in ts : jobs[t] = "ended"}
  <1> DEFINE rank(e) == Cardinality({u \in waking : u <= e[2]})
  <1>1. WithWakes(ts, jobs) =
          [e \in Entry |-> IF \E t \in waking : e = Wake(t)
                              THEN NewRow("pending", rank(e)) ELSE inbox[e]]
    BY DEF WithWakes
  <1>2. \A e : NewRow("pending", rank(e)).st = "pending"
    BY DEF NewRow
  <1> HIDE DEF waking, rank
  <1> QED BY <1>1, <1>2

LEMMA EndsRows ==
    ASSUME Inbox, NEW t \in Turn, NEW how, Ends(t, how)
    PROVE  /\ \A m \in Msg : inbox'[m] = inbox[m]
           /\ \A e \in Entry : inbox'[e].st = "consumed" => inbox[e].st = "consumed"
  <1>1. \A jobs, late : Due(jobs, late) \subseteq Turn
    BY DEF Due
  <1>2. PICK ts, jobs : ts \in SUBSET Turn /\ inbox' = WithWakes(ts, jobs)
    BY <1>1 DEF Ends, Delivers
  <1> QED BY <1>2, WokenRows, WokenSafe

LEMMA DeliversRows ==
    ASSUME Inbox, NEW late, Delivers(job, late)
    PROVE  /\ \A m \in Msg : inbox'[m] = inbox[m]
           /\ \A e \in Entry : inbox'[e].st = "consumed" => inbox[e].st = "consumed"
  <1>1. \A jobs : Due(jobs, late) \subseteq Turn
    BY DEF Due
  <1>2. PICK ts, jobs : ts \in SUBSET Turn /\ inbox' = WithWakes(ts, jobs)
    BY <1>1 DEF Delivers
  <1> QED BY <1>2, WokenRows, WokenSafe

LEMMA WithdrawnRows ==
    ASSUME Inbox, NEW q \in Entry \cup {NoMsg}, inbox' = Withdrawn(q)
    PROVE  /\ \A m \in Msg : inbox'[m].st = "pending" => inbox[m].st = "pending"
           /\ \A e \in Entry : inbox'[e].st = "consumed" => inbox[e].st = "consumed"
  BY Entries DEF Withdrawn, Inbox, Rows, Row

\* The billing gives a message back, or marks it: then the drain looks again,
\* and a turn whose message another one has taken is missed by nobody.
LEMMA RefusedHope ==
    ASSUME Typed, Next, Located, Refusing, Steady, HeldOn, Hope, NEW t \in Turn, Refused(t)
    PROVE  Hope'
  <1> USE DEF Typed
  <1> DEFINE src == turn[t].src
  <1>1. turn[t].at = "refusing" /\ src \in Refusable /\ inbox[src].st # "absent"
    BY DEF Refused, Refusing
  <1>2. src \in Msg /\ src \in Entry
    BY <1>1, BoundsAssumption, Entries
  <1>3. CASE src # turn[t].quiet
    <2>1. turn[t].inst \in Inst
      BY <1>1 DEF Located
    <2>2. looking' = [looking EXCEPT ![turn[t].inst] = @ \cup {turn[t].quiet}]
      BY <1>3 DEF Refused
    <2>3. looking \in [Inst -> SUBSET (Msg \cup {NoMsg})]
      BY DEF Local
    <2> HIDE DEF Typed
    <2>4. looking'[turn[t].inst] # {}
      BY <2>1, <2>2, <2>3
    <2> QED BY <2>1, <2>4, HopefulDrain
  <1>4. CASE src = turn[t].quiet /\ inbox[src].st = "consumed"
    <2>1. inbox' = Withdrawn(src) /\ UNCHANGED <<looking, claiming, promotion>>
      BY <1>4 DEF Refused
    <2>2. \A u \in Turn : Stays(u) \/ ~Hopeful(u)
      <3>1. \A u \in Turn : u # t => turn'[u] = turn[u]
        BY DEF Refused, Free, Put, Turns
      <3>2. ~Hopeful(t)
        BY <1>1, <1>4 DEF Hopeful, Sated
      <3> QED BY <3>1, <3>2 DEF Stays
    <2> QED BY <1>2, <2>1, <2>2, WithdrawnRows, HopeSame
  <1>5. CASE src = turn[t].quiet /\ inbox[src].st # "consumed"
    <2>1. inbox[src].st \in {"pending", "failed", "cancelled"}
      BY <1>1, <1>2, <1>5 DEF Inbox, Rows, Row
    <2>2. inbox' = IF inbox[src].st \in {"pending", "failed"}
                      THEN [inbox EXCEPT ![src].st = "cancelled"] ELSE inbox
      BY <1>2, <1>5, Entries DEF Refused, Withdrawn
    <2>3. inbox'[src].st = "cancelled"
      BY <1>2, <2>1, <2>2 DEF Inbox, Rows, Row
    <2> QED BY <1>1, <2>3 DEF Hope, Unrefused
  <1> QED BY <1>3, <1>4, <1>5

LEMMA HandoffHope ==
    ASSUME Typed, Next, Located, Steady, HeldOn, Hope, NEW t \in Turn, Handoff(t)
    PROVE  Hope'
  <1> USE DEF Typed
  <1>1. turn[t].inst \in Inst
    BY DEF Handoff, Located
  <1>2. looking' \in {looking, [looking EXCEPT ![turn[t].inst] = @ \cup {NoMsg}]}
    BY DEF Handoff
  <1>3. turn[t].at = "relaying" => looking' # looking \/ NoMsg \in looking[turn[t].inst]
    BY <1>1 DEF Handoff, Local
  <1>4. CASE NoMsg \in looking'[turn[t].inst]
    BY <1>1, <1>4, HopefulDrain
  <1>5. CASE NoMsg \notin looking'[turn[t].inst]
    <2>1. looking' = looking
      BY <1>1, <1>2, <1>5 DEF Local
    <2>2. turn[t].at = "delivering"
      BY <1>3, <1>5, <2>1 DEF Handoff
    <2>3. \A u \in Turn : Stays(u) \/ ~Hopeful(u)
      <3>1. \A u \in Turn : u # t => turn'[u] = turn[u]
        BY DEF Handoff, At, Put, Turns
      <3> QED BY <2>2, <3>1 DEF Stays, Hopeful
    <2>4. /\ \A m \in Msg : inbox'[m] = inbox[m]
          /\ \A e \in Entry : inbox'[e].st = "consumed" => inbox[e].st = "consumed"
      BY DeliversRows DEF Handoff
    <2>5. UNCHANGED <<claiming, promotion>>
      BY DEF Handoff
    <2> QED BY <2>1, <2>3, <2>4, <2>5, HopeSame
  <1> QED BY <1>4, <1>5

\* A drain looks, goes for the lease or leaves the entry to who has it.
LEMMA DrainHope ==
    ASSUME Typed, Next, Steady, HeldOn, Hope,
           NEW i \in Inst, NEW q \in Msg \cup {NoMsg},
           Look(q, i) \/ GiveUp(q, i) \/ \E t \in Turn : Claim(q, i, t)
    PROVE  Hope'
  <1> USE DEF Typed
  <1> SUFFICES ASSUME faults' = 0 PROVE Hope'
    BY DEF Hope
  <1>1. faults = 0
    BY FaultFree
  <1>2. AllUp /\ InUse
    BY <1>1 DEF Steady
  <1>3. CASE Look(q, i)
    <2>1. proc[i] = "up" /\ turn' = turn
      BY <1>2, <1>3 DEF AllUp, Look
    <2>2. CASE Registered(i) # {}
      <3>1. PICK t \in Turn : turn[t].at \in Open
        BY <2>2 DEF Registered, OpenLogs
      <3> QED BY <2>1, <3>1, HopefulAt DEF Holding
    <2>3. CASE Waiting = {} /\ UNCHANGED inbox
      BY <2>3 DEF Hope, Waiting, Pending
    <2>4. CASE claiming' = [claiming EXCEPT ![i] = @ \cup {q}]
      <3>1. claiming'[i] # {}
        BY <2>4 DEF Local
      <3> QED BY <3>1, HopefulDrain
    <2> QED BY <1>3, <2>1, <2>2, <2>3, <2>4 DEF Look
  <1>4. CASE GiveUp(q, i)
    <2>1. exec.holder \in Turn /\ turn[exec.holder].at \in Holding /\ turn' = turn
      BY <1>2, <1>4 DEF GiveUp, Held, InUse
    <2> QED BY <2>1, HopefulAt
  <1>5. ASSUME NEW t \in Turn, Claim(q, i, t)
        PROVE  Hope'
    <2>1. turn'[t].at = "claimed"
      BY <1>5, ClaimWhere
    <2> QED BY <2>1, HopefulAt DEF Holding
  <1> QED BY <1>3, <1>4, <1>5

LEMMA PromoteHope ==
    ASSUME Typed, Next, Located, Called, Steady, HeldOn, Hope, NEW m \in Msg, Promote(m)
    PROVE  Hope'
  <1> USE DEF Typed
  <1>1. CASE PromoteClaim(m)
    <2>1. CASE promotion' = [promotion EXCEPT ![m].at = "won"]
      <3>1. promotion'[m].at = "won"
        BY <2>1 DEF Calls, Promotion
      <3> QED BY <3>1 DEF Hope, OnTheWay
    <2>2. CASE promotion' = [promotion EXCEPT ![m] = [at |-> "idle", turn |-> NoTurn]]
               /\ UNCHANGED inbox
      <3>1. \A n \in Msg : promotion[n].at \in {"won", "refused"} => promotion'[n] = promotion[n]
        BY <1>1, <2>2 DEF PromoteClaim, Calls
      <3>2. UNCHANGED <<turn, looking, claiming>>
        BY <1>1 DEF PromoteClaim
      <3> QED BY <2>2, <3>1, <3>2, StayAll, HopeSame
    <2> QED BY <1>1, <2>1, <2>2 DEF PromoteClaim
  <1>2. CASE PromoteLand(m)
    <2> DEFINE t == promotion[m].turn
    <2>1. t \in Turn
      BY <1>2 DEF PromoteLand, Calls
    <2>2. CASE Takes(t)
      <3> DEFINE r == [turn[t] EXCEPT !.queue = @ \cup {m}]
      <3>1. turn[t] \in TurnState /\ turn[t].at = "running"
        BY <2>1, <2>2 DEF Turns, Takes
      <3>2. r.at = "running"
        BY <3>1 DEF TurnState
      <3>3. turn' = Put(t, r)
        BY <1>2, <2>2 DEF PromoteLand
      <3> HIDE DEF r, t
      <3>4. turn'[t].at = "running"
        BY <2>1, <3>2, <3>3, PutWhere
      <3> QED BY <2>1, <3>4, HopefulAt DEF Holding, Open
    <2>3. CASE ~Takes(t)
      <3>1. promotion'[m].at = "refused"
        BY <1>2, <2>3 DEF PromoteLand, Calls, Promotion
      <3> QED BY <3>1 DEF Hope, OnTheWay
    <2> QED BY <2>2, <2>3
  <1>3. CASE PromoteRequeue(m)
    <2> DEFINE t == promotion[m].turn
    <2>1. t \in Turn /\ turn[t].at \notin Early
      BY <1>3 DEF PromoteRequeue, Called, Asking
    <2>2. turn[t].inst \in Inst
      BY <2>1 DEF Located, Early
    <2>3. CASE Registered(turn[t].inst) = {}
      <3>1. looking' = [looking EXCEPT ![turn[t].inst] = @ \cup {NoMsg}]
        BY <1>3, <2>3 DEF PromoteRequeue
      <3>2. looking'[turn[t].inst] # {}
        BY <2>2, <3>1 DEF Local
      <3> QED BY <2>2, <3>2, HopefulDrain
    <2>4. CASE Registered(turn[t].inst) # {}
      <3>1. PICK u \in Turn : turn[u].at \in Open
        BY <2>4 DEF Registered, OpenLogs
      <3>2. turn' = turn
        BY <1>3 DEF PromoteRequeue
      <3> QED BY <3>1, <3>2, HopefulAt DEF Holding
    <2> QED BY <2>3, <2>4
  <1> QED BY <1>1, <1>2, <1>3 DEF Promote

LEMMA RunsHope ==
    ASSUME Typed, Next, Located, Refusing, Steady, HeldOn, Hope, NEW t \in Turn, Runs(t)
    PROVE  Hope'
  <1> USE DEF Typed
  <1> SUFFICES ASSUME faults' = 0 PROVE Hope'
    BY DEF Hope
  <1>1. ~Crashes /\ ~Dropped(t) /\ ~Lost(t) /\ faults = 0
    BY FaultFree
  <1>2. \A u \in Turn : turn[u].at \in Holding => Holds(u)
    BY <1>1 DEF HeldOn, Undisturbed
  <1>3. CASE Leave(t)
    <2>1. turn[t].inst \in Inst
      BY <1>3 DEF Leave, Located
    <2>2. looking'[turn[t].inst] # {}
      BY <1>3, <2>1 DEF Leave, Local
    <2> QED BY <2>1, <2>2, HopefulDrain
  <1>4. CASE Refuse(t)
    <2>1. turn'[t].at = "refusing" /\ turn'[t].src = turn[t].src /\ inbox' = inbox
      BY <1>4, AtWhere, Phases DEF Refuse
    <2>2. inbox[turn[t].src].st = "pending"
      BY <1>4 DEF Refuse, Pending
    <2> QED BY <2>1, <2>2 DEF Hope, OnTheWay, Hopeful, Active, Sated
  <1>5. CASE Refused(t)
    BY <1>5, RefusedHope
  <1>6. CASE Handoff(t)
    BY <1>6, HandoffHope
  <1>7. CASE Ask(t)
    <2>1. CASE Waiting = {}
      <3>1. inbox' = inbox
        BY <1>7 DEF Ask
      <3> QED BY <2>1, <3>1 DEF Hope, Waiting, Pending
    <2>2. CASE Waiting # {}
      <3>1. turn'[t].at = "relaying"
        BY <1>7, <2>2, AtWhere, Phases DEF Ask
      <3> QED BY <3>1, HopefulAt
    <2> QED BY <2>1, <2>2
  <1>8. CASE Release(t)
    <2>1. turn'[t].at = "released"
      BY <1>8, AtWhere, Phases DEF Release
    <2> QED BY <2>1, HopefulAt
  <1>9. CASE End(t)
    <2>1. turn'[t].at = "handoff"
      BY <1>9, AtWhere, Phases DEF End
    <2> QED BY <2>1, HopefulAt DEF Holding
  <1>10. CASE ~(Leave(t) \/ Refuse(t) \/ Refused(t) \/ Handoff(t) \/ Ask(t) \/ Release(t)
                \/ End(t))
    <2>1. turn[t].at \in Holding
      BY <1>1, <1>10 DEF Runs, Seal, Pick, Commit, Pass, Start, Persist, Close, Flush,
          Footer, Holding, Open
    <2>2. ~Claims
      <3>1. ~Held => turn[t].at \notin Holding
        BY <1>2 DEF Holds, Owns, Held
      <3> QED BY <2>1, <3>1 DEF Claims, Claim
    <2>3. Moving(t)
      BY <1>1, <1>10, <2>2, MoveStep DEF Parts
    <2>4. turn'[t].at \in Holding
      BY <2>1, <2>3 DEF Moving, Stays, GoesOn
    <2> QED BY <2>4, HopefulAt
  <1> QED BY <1>3, <1>4, <1>5, <1>6, <1>7, <1>8, <1>9, <1>10

LEMMA HopeStep ==
    ASSUME Typed, Next, Located, Called, Refusing, Steady, HeldOn, Hope
    PROVE  Hope'
  <1> USE DEF Typed
  <1>1. ASSUME UNCHANGED <<inbox, turn, looking, claiming, promotion>> PROVE Hope'
    BY <1>1, StayAll, HopeSame
  <1>2. ASSUME NEW m \in Msg, NEW i \in Inst, Send(m, i) PROVE Hope'
    <2>1. looking'[i] # {}
      BY <1>2 DEF Send, Local
    <2> QED BY <2>1, HopefulDrain
  <1>3. ASSUME NEW m \in Msg, Withdraw(m) PROVE Hope'
    <2>1. UNCHANGED <<turn, looking, claiming, promotion>>
      BY <1>3 DEF Withdraw
    <2>2. /\ \A n \in Msg : inbox'[n].st = "pending" => inbox[n].st = "pending"
          /\ \A e \in Entry : inbox'[e].st = "consumed" => inbox[e].st = "consumed"
      <3>1. CASE inbox[m].st = "absent"
        <4>1. NewRow("cancelled", 1).st = "cancelled"
          BY DEF NewRow
        <4>2. inbox' = [inbox EXCEPT ![m] = NewRow("cancelled", 1)]
          BY <1>3, <3>1 DEF Withdraw
        <4> QED BY <4>1, <4>2, Entries DEF Inbox, Rows
      <3>2. CASE inbox[m].st # "absent"
        BY <1>3, <3>2, WithdrawnRows, Entries DEF Withdraw
      <3> QED BY <3>1, <3>2
    <2> QED BY <2>1, <2>2, StayAll, HopeSame
  <1>4. ASSUME NEW m \in Promotable, NEW t \in Turn, PromoteCall(m, t) PROVE Hope'
    <2>1. UNCHANGED <<inbox, turn, looking, claiming>>
      BY <1>4 DEF PromoteCall
    <2>2. \A n \in Msg : promotion[n].at \in {"won", "refused"} => promotion'[n] = promotion[n]
      BY <1>4, BoundsAssumption DEF PromoteCall, Calls
    <2> QED BY <2>1, <2>2, StayAll, HopeSame
  <1>5. CASE \E i \in Inst : Drain(i)
    BY <1>5, DrainHope DEF Drain
  <1>6. ASSUME NEW i \in Inst, Seals(i) PROVE Hope'
    <2>1. CASE SealerClaim(i) \/ SealerRelease(i)
      BY <2>1, <1>1 DEF SealerClaim, SealerRelease
    <2>2. ASSUME NEW u \in Turn, SealerSeal(i, u) PROVE Hope'
      <3>1. SealsTurn(u) /\ turn' = turn
        BY <2>2 DEF SealsTurn, SealerSeal
      <3> QED BY <3>1, SealRows, Entries, StayAll, HopeSame
    <2> QED BY <1>6, <2>1, <2>2 DEF Seals
  <1>7. ASSUME NEW i \in Inst, SweepJobs(i) PROVE Hope'
    <2>1. UNCHANGED <<turn, looking, claiming, promotion>>
      BY <1>7 DEF SweepJobs
    <2>2. /\ \A m \in Msg : inbox'[m] = inbox[m]
          /\ \A e \in Entry : inbox'[e].st = "consumed" => inbox[e].st = "consumed"
      BY <1>7, DeliversRows DEF SweepJobs
    <2> QED BY <2>1, <2>2, StayAll, HopeSame
  <1>8. ASSUME NEW i \in Inst, Sweep(i) PROVE Hope'
    <2>1. looking'[i] # {}
      BY <1>8 DEF Sweep, Local
    <2> QED BY <2>1, HopefulDrain
  <1>9. ASSUME NEW i \in Inst, Crash(i) \/ DrainBegin(i) PROVE Hope'
    BY <1>9 DEF Crash, DrainBegin, Local, Hope
  <1>10. ASSUME NEW t \in Turn, EndJob(t) PROVE Hope'
    <2>1. UNCHANGED <<turn, looking, claiming, promotion>>
      BY <1>10 DEF EndJob
    <2>2. /\ \A m \in Msg : inbox'[m] = inbox[m]
          /\ \A e \in Entry : inbox'[e].st = "consumed" => inbox[e].st = "consumed"
      BY <1>10, EndsRows DEF EndJob
    <2> QED BY <2>1, <2>2, StayAll, HopeSame
  <1>11. ASSUME NEW t \in Turn, StopReturn(t) PROVE Hope'
    <2> DEFINE back(e) == [inbox[e] EXCEPT !.st = "cancelled", !.by = t]
    <2>1. \A e \in Entry : back(e).st = "cancelled"
      BY DEF Inbox, Rows, Row
    <2>2. inbox' = [e \in Entry |-> IF e \in Msg /\ inbox[e].st \in {"pending", "failed"}
                                       THEN back(e) ELSE inbox[e]]
      BY <1>11 DEF StopReturn
    <2> HIDE DEF back
    <2>3. /\ \A m \in Msg : inbox'[m].st = "pending" => inbox[m].st = "pending"
          /\ \A e \in Entry : inbox'[e].st = "consumed" => inbox[e].st = "consumed"
      BY <2>1, <2>2, Entries
    <2>4. UNCHANGED <<turn, looking, claiming, promotion>>
      BY <1>11 DEF StopReturn
    <2> QED BY <2>3, <2>4, StayAll, HopeSame
  <1>12. ASSUME NEW t \in Turn, StopAbort(t) PROVE Hope'
    <2>1. UNCHANGED <<looking, claiming, promotion>>
      BY <1>12 DEF StopAbort
    <2>2. \A u \in Turn : Stays(u)
      <3> DEFINE r == [turn[t] EXCEPT !.aborted = TRUE]
      <3>1. turn[t] \in TurnState
        BY DEF Turns
      <3>2. r.at = turn[t].at /\ r.src = turn[t].src /\ r.quiet = turn[t].quiet
        BY <3>1 DEF TurnState
      <3>3. turn' \in {turn, Put(t, r)}
        BY <1>12 DEF StopAbort, r
      <3> HIDE DEF r
      <3> QED BY <3>2, <3>3, PutWhere DEF Stays
    <2>3. /\ \A m \in Msg : inbox'[m] = inbox[m]
          /\ \A e \in Entry : inbox'[e].st = "consumed" => inbox[e].st = "consumed"
      <3>1. CASE job[t] = "running"
        BY <1>12, <3>1, EndsRows DEF StopAbort, CancelJob
      <3>2. CASE job[t] # "running"
        BY <1>12, <3>2 DEF StopAbort
      <3> QED BY <3>1, <3>2
    <2> QED BY <2>1, <2>2, <2>3, HopeSame
  <1>13. ASSUME NEW t \in Turn, Heartbeat(t) PROVE Hope'
    <2>1. UNCHANGED <<inbox, looking, claiming, promotion>>
      BY <1>13 DEF Heartbeat
    <2>2. \A u \in Turn : Stays(u)
      <3> DEFINE r == [turn[t] EXCEPT !.aborted = TRUE]
      <3>1. turn[t] \in TurnState
        BY DEF Turns
      <3>2. r.at = turn[t].at /\ r.src = turn[t].src /\ r.quiet = turn[t].quiet
        BY <3>1 DEF TurnState
      <3>3. turn' \in {turn, Put(t, r)}
        BY <1>13 DEF Heartbeat, r
      <3> HIDE DEF r
      <3> QED BY <3>2, <3>3, PutWhere DEF Stays
    <2> QED BY <2>1, <2>2, HopeSame
  <1>14. ASSUME NEW t \in Turn, WriteQueue(t) PROVE Hope'
    <2> DEFINE r == [turn[t] EXCEPT !.queue = {}]
    <2>1. turn[t] \in TurnState /\ turn[t].at = "running"
      BY <1>14 DEF Turns, WriteQueue
    <2>2. r.at = "running"
      BY <2>1 DEF TurnState
    <2>3. turn' = Put(t, r)
      BY <1>14 DEF WriteQueue, r
    <2> HIDE DEF r
    <2>4. turn'[t].at = "running"
      BY <2>2, <2>3, PutWhere
    <2> QED BY <2>4, HopefulAt DEF Holding, Open
  <1> QED
    <2>1. CASE User
      <3>1. \A t \in Turn : StopBegin(t) => Hope'
        BY <1>1 DEF StopBegin
      <3> QED BY <2>1, <3>1, BoundsAssumption, <1>2, <1>3, <1>4 DEF User
    <2>2. CASE \E i \in Inst : SweepJobs(i) \/ Sweep(i) \/ Crash(i) \/ DrainBegin(i)
      BY <2>2, <1>7, <1>8, <1>9
    <2>3. CASE \E t \in Turn : EndJob(t) \/ StopReturn(t) \/ StopAbort(t)
      BY <2>3, <1>10, <1>11, <1>12
    <2>4. CASE \E t \in Turn : Heartbeat(t) \/ WriteQueue(t) \/ SubmitJob(t)
      <3>1. \A t \in Turn : SubmitJob(t) => Hope'
        BY <1>1 DEF SubmitJob
      <3> QED BY <2>4, <3>1, <1>13, <1>14
    <2>5. CASE Expire
      BY <2>5, <1>1 DEF Expire
    <2> QED BY <2>1, <2>2, <2>3, <2>4, <2>5, <1>5, <1>6, RunsHope, PromoteHope DEF Next,
        System, ExpireGone

LEMMA HopeInit == Init => Located /\ Called /\ Refusing /\ Steady /\ Hope
  <1> SUFFICES ASSUME Init PROVE Located /\ Called /\ Refusing /\ Steady /\ Hope
    OBVIOUS
  <1>1. NewTurn.at = "free" /\ NoSeal.on = FALSE
    BY DEF NewTurn, NoSeal
  <1>2. \A t \in Turn : turn[t].at = "free"
    BY <1>1 DEF Init
  <1>3. Located /\ Refusing
    BY <1>2 DEF Located, Refusing
  <1>4. Called
    BY DEF Init, Called, Asking
  <1>5. Steady
    BY <1>1, <1>2 DEF Init, Steady, AllUp, InUse, OpenTill
  <1>6. Hope
    BY Entries DEF Init, Hope, Waiting, Pending
  <1> QED BY <1>3, <1>4, <1>5, <1>6

LEMMA HopeStutter ==
    ASSUME Located, Called, Refusing, Steady, Hope, UNCHANGED vars
    PROVE  (Located /\ Called /\ Refusing /\ Steady /\ Hope)'
  <1> USE DEF vars
  <1>1. Located' /\ Called' /\ Refusing'
    BY DEF Located, Called, Refusing
  <1>2. Steady'
    BY DEF Steady, AllUp, InUse, OpenTill
  <1>3. Hope'
    BY DEF Hope, OnTheWay, Hopeful, Active, Sated, Unrefused, Waiting, Pending
  <1> QED BY <1>1, <1>2, <1>3

\* While no process dies, stalls or shuts down and nobody is refused, no message
\* is left to the sweep (start-turn.ts, the drain that looks again; turn-run.ts,
\* the handoff; interject.ts, the message that is put back).
THEOREM NobodyForgotten == Spec => []NothingStranded
  <1> DEFINE Way == /\ HeldOn /\ Lively
                    /\ Located /\ Called /\ Refusing /\ Steady /\ Hope
  <1>1. Init => Typed /\ Way
    BY TypedInit, LeaseInit, HopeInit
  <1>2. Typed /\ Way /\ [Next]_vars => (Typed /\ Way)'
    <2> SUFFICES ASSUME Typed, Way, [Next]_vars PROVE (Typed /\ Way)'
      OBVIOUS
    <2>1. CASE Next
      <3>1. Typed'
        BY <2>1, TypedStep
      <3>2. HeldOn' /\ Lively' /\ Located' /\ Called' /\ Refusing'
        BY <2>1, HeldStep, LivelyStep, LocatedStep, CalledStep, RefusingStep
      <3>3. Steady'
        BY <2>1, <3>1, SteadyStep
      <3>4. Hope'
        BY <2>1, HopeStep
      <3> QED BY <3>1, <3>2, <3>3, <3>4
    <2>2. CASE UNCHANGED vars
      <3>1. HeldOn' /\ Lively'
        BY <2>2 DEF vars, HeldOn, Undisturbed, Holds, Owns, Lively
      <3> QED BY <2>2, <3>1, TypedStutter, HopeStutter
    <2> QED BY <2>1, <2>2
  <1>3. Way => NothingStranded
    <2> SUFFICES ASSUME Hope, ~NothingStranded PROVE FALSE
      OBVIOUS
    <2>1. OnTheWay
      BY DEF Hope, NothingStranded, Unrefused
    <2> QED BY <2>1 DEF OnTheWay, Hopeful, NothingStranded
  <1> QED BY <1>1, <1>2, <1>3, PTL DEF Spec
=============================================================================
