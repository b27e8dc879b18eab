---------------------- MODULE TaskReconciliationProofs ----------------------
(***************************************************************************)
(* Proofs about TaskReconciliation, for every set of calls, commands,      *)
(* sweeps and upstream ids and every number of windows.                    *)
(*                                                                         *)
(* The argument: a call that holds the token works on a command without an *)
(* audit (Unanswered), since the claim looked that up under the row lock   *)
(* and nobody but the holder enters an audit.  So an audit is entered once *)
(* per command, and the one that decides the task finds the hold untouched *)
(* (Counted).  Files of a completed task are safe because their prefix is  *)
(* either that of a call that is over or the execution's, to which nothing *)
(* but the checkpoint is written (Kept).                                   *)
(***************************************************************************)
EXTENDS TaskReconciliation, FiniteSetTheorems, TLAPS

Unanswered ==
    \A k \in Call :
        row.token = k /\ call[k].phase \notin {"unused", "closing", "over"}
            => audits[call[k].command] = NoEntry

Decisions == {c \in Commands : audits[c] # NoEntry /\ audits[c].status \in Decided}

Counted ==
    \/ row.status = "reconciling" /\ billing = [hold |-> "held", finals |-> 0] /\ Decisions = {}
    \/ row.status \in Decided /\ billing.finals = 1 /\ \E c \in Commands : Decisions = {c}

Answered ==
    \A k \in Call : call[k].answer # NoEntry => call[k].answer = audits[call[k].command]

Kept ==
    /\ row.saved => files[NoCall] = "saved"
    /\ \A k \in Call : call[k].phase = "checking" \/ call[k].payload = "saved" => row.saved
    /\ row.result # NoCall => call[row.result].phase = "over"

IInv == TypeOK /\ Unanswered /\ Counted /\ Answered /\ Kept

-----------------------------------------------------------------------------
(* The steps, apart from what sweeps remember *)

\* What a step may change, but for the sweeps and the time.
Core == <<row, billing, audits, started, call, files, upstream>>

SweepMoves == UNCHANGED Core

\* The bodies a command may have: results are an operator's.
Sent == {b \in Body : b.action = "confirm_success" => b.evidence \in Evidence}

\* The commands and bodies of operators and of sweeps are commands and bodies that
\* may be sent (lib/task-reconciliation.ts, auto-reconcile.ts).
LEMMA Inputs ==
    ASSUME TypeOK
    PROVE  /\ AutoNone \in Commands /\ Lookup \in Sent /\ NoResult \in Sent
           /\ Command \subseteq Commands
           /\ [action : {"lookup", "confirm_success", "confirm_no_result"},
               evidence : Evidence] \subseteq Sent
           /\ \A s \in Sweep : AutoLookup(sweep[s].window) \in Commands
  BY DEF TypeOK, SweepState, AutoNone, AutoLookup, Commands, Lookup, NoResult, Body, Sent

\* Every step is a claim or a replay of someone's command, a step of a call, the
\* end of a lease, a late id, a deferral, or changes only what sweeps remember.
LEMMA StepCases ==
    ASSUME TypeOK, Next
    PROVE  \/ \E k \in Call, c \in Commands, b \in Sent : Claim(k, c, b) \/ Replay(k, c, b)
           \/ \E k \in Call : Work(k) \/ Crash(k)
           \/ LeaseExpires
           \/ \E i \in UpstreamId : LateId(i)
           \/ \E s \in Sweep : SweepDefers(s)
           \/ SweepMoves
  <1>1. ASSUME NEW k \in Call, Operate(k)
        PROVE  \E c \in Commands, b \in Sent : Claim(k, c, b) \/ Replay(k, c, b)
    BY <1>1, Inputs DEF Operate
  <1>2. ASSUME NEW s \in Sweep, SweepLooksUp(s)
        PROVE  \/ \E k \in Call, c \in Commands, b \in Sent : Claim(k, c, b) \/ Replay(k, c, b)
               \/ SweepMoves
    BY <1>2, Inputs DEF SweepLooksUp, SweepCalls, SweepMoves, Core
  <1>3. ASSUME NEW s \in Sweep, SweepConfirms(s)
        PROVE  \/ \E k \in Call, c \in Commands, b \in Sent : Claim(k, c, b) \/ Replay(k, c, b)
               \/ SweepMoves
    BY <1>3, Inputs DEF SweepConfirms, SweepCalls, SweepMoves, Core
  <1>4. ASSUME NEW s \in Sweep, SweepRead(s) \/ SweepReturns(s) \/ SweepDies(s)
        PROVE  SweepMoves
    BY <1>4 DEF SweepRead, SweepReturns, SweepDies, SweepMoves, Core
  <1>5. Tick => SweepMoves
    BY DEF Tick, SweepMoves, Core
  <1>6. QED
    BY <1>1, <1>2, <1>3, <1>4, <1>5 DEF Next, SweepStep

-----------------------------------------------------------------------------
(* Type correctness *)

CoreType ==
    /\ row \in Row
    /\ billing \in [hold : {"held", "charged", "released"}, finals : Nat]
    /\ audits \in [Commands -> Entry \cup {NoEntry}]
    /\ started \in [Commands -> Body \cup {NoEntry}]
    /\ call \in [Call -> CallState]
    /\ files \in [Prefix -> Payload]
    /\ upstream \in [UpstreamId -> {"images", "blank"}]

SweepType == sweep \in [Sweep -> SweepState] /\ window \in Window

\* A call is over, or begins, in a state of calls (the early returns of
\* reconcileTask).
LEMMA WithType ==
    ASSUME NEW ph \in CallPhase, NEW c \in Commands, NEW b \in Body,
           NEW a \in Entry \cup {NoEntry}
    PROVE  With(ph, c, b, a) \in CallState
  BY DEF With, CallState, Payload, Reason

\* So is one that ends without an answer.
LEMMA BlankType ==
    ASSUME NEW ph \in CallPhase
    PROVE  Blank(ph) \in CallState
  BY WithType DEF Blank, Commands, AutoNone, Lookup, Body

\* The audit of a call is an entry, with the status that the task gets.
LEMMA EntryType ==
    ASSUME NEW k \in Call, call[k] \in CallState
    PROVE  /\ EntryOf(k) \in Entry /\ EntryOf(k) # NoEntry
           /\ EntryOf(k).status = Verdict(k)
           /\ Verdict(k) \in {"reconciling"} \cup Decided
  <1>1. Verdict(k) \in {"reconciling"} \cup Decided
    BY DEF Verdict, Decided
  <1>2. EntryOf(k) \in Entry /\ EntryOf(k).status = Verdict(k)
    BY <1>1 DEF EntryOf, Entry, CallState
  <1>3. QED
    BY <1>1, <1>2, EntryAssumption

\* The state of a call that goes on to a decision without a result.
LEMMA GiveUpType ==
    ASSUME call \in [Call -> CallState], NEW k \in Call, NEW r \in Reason, GiveUp(k, r)
    PROVE  call' \in [Call -> CallState]
  BY DEF GiveUp, Become, CallState, CallPhase, Payload

\* The state of a call that goes on to its next step.
LEMMA PhaseType ==
    ASSUME call \in [Call -> CallState], NEW k \in Call, NEW ph \in CallPhase, NEW p \in Payload
    PROVE  /\ Become(k, [call[k] EXCEPT !.phase = ph]) => call' \in [Call -> CallState]
           /\ Become(k, [call[k] EXCEPT !.phase = ph, !.payload = p])
                 => call' \in [Call -> CallState]
           /\ Become(k, [call[k] EXCEPT !.phase = ph, !.found = TRUE])
                 => call' \in [Call -> CallState]
  <1>1. call[k] \in CallState
    OBVIOUS
  <1>2. [call[k] EXCEPT !.phase = ph] \in CallState
    BY <1>1 DEF CallState
  <1>3. [call[k] EXCEPT !.phase = ph, !.payload = p] \in CallState
    BY <1>1 DEF CallState
  <1>4. [call[k] EXCEPT !.phase = ph, !.found = TRUE] \in CallState
    BY <1>1 DEF CallState
  <1>5. QED
    BY <1>2, <1>3, <1>4 DEF Become

\* The claim transaction leaves a row, a call and a started audit of their types.
LEMMA ClaimType ==
    ASSUME TypeOK, NEW k \in Call, NEW c \in Commands, NEW b \in Sent, Claim(k, c, b)
    PROVE  CoreType'
  <1> b \in Body
    BY DEF Sent
  <1>1. row' \in Row /\ started' \in [Commands -> Body \cup {NoEntry}]
    BY DEF TypeOK, Claim, Row, Prefix
  <1>2. DEFINE w == With("polling", c, b, NoEntry)
  <1>3. w \in CallState
    BY WithType DEF CallPhase
  <1>4. Known \in SUBSET UpstreamId
    BY DEF TypeOK, Row, Known
  <1>5. (IF b.action = "confirm_success" THEN b.evidence ELSE "none") \in Payload
    BY DEF Sent, Payload
  <1>6. call' \in [Call -> CallState]
    <2> DEFINE ph == CASE b.action = "confirm_no_result" -> "deciding"
                       [] b.action = "confirm_success"   -> "archiving"
                       [] OTHER -> IF row.saved THEN "checking" ELSE w.phase
               pay == IF b.action = "confirm_success" THEN b.evidence ELSE "none"
    <2>1. w.phase = "polling"
      BY DEF With
    <2>2. ph \in CallPhase
      BY <2>1 DEF CallPhase
    <2>3. call' = [call EXCEPT ![k] = [w EXCEPT !.phase = ph, !.payload = pay,
                      !.found = b.action = "confirm_no_result", !.ids = Known]]
      BY DEF Claim, Become
    <2> HIDE DEF w, ph, pay
    <2>4. [w EXCEPT !.phase = ph, !.payload = pay,
               !.found = b.action = "confirm_no_result", !.ids = Known] \in CallState
      BY <1>3, <1>4, <1>5, <2>2 DEF CallState, pay
    <2>5. call \in [Call -> CallState]
      BY DEF TypeOK
    <2>6. QED
      BY <2>3, <2>4, <2>5
  <1>7. QED
    BY <1>1, <1>6 DEF CoreType, TypeOK, Claim

\* A step of a call leaves all but the sweeps well typed (the work, the decision
\* and the finally clause of reconcileTask).
LEMMA WorkType ==
    ASSUME TypeOK, NEW k \in Call, Work(k)
    PROVE  CoreType'
  <1> USE DEF TypeOK
  <1>1. call[k] \in CallState /\ row \in Row
    OBVIOUS
  <1>0. /\ {"polling", "archiving", "verifying", "deciding"} \subseteq CallPhase
        /\ {"saved", "polled"} \subseteq Payload
        /\ {"archive_incomplete", "manual_verification_required",
            "upstream_result_unknown"} \subseteq Reason
    BY DEF CallPhase, Payload, Reason
  <1>2. CASE Check(k)
    <2>1. call' \in [Call -> CallState]
      BY <1>2, GiveUpType, PhaseType, <1>0 DEF Check
    <2>2. QED
      BY <1>2, <2>1 DEF Check, OfCall, CoreType
  <1>3. CASE Poll(k)
    <2>1. call' \in [Call -> CallState]
      BY <1>3, GiveUpType, PhaseType, <1>0 DEF Poll
    <2>2. QED
      BY <1>3, <2>1 DEF Poll, OfCall, CoreType
  <1>4. CASE Archive(k)
    <2>1. call' \in [Call -> CallState]
      BY <1>4, GiveUpType, PhaseType, <1>0 DEF Archive
    <2>2. files' \in [Prefix -> Payload]
      BY <1>1, <1>4 DEF Archive, CallState
    <2>3. QED
      BY <1>4, <2>1, <2>2 DEF Archive, OfCall, CoreType
  <1>5. CASE Verify(k)
    <2>1. call' \in [Call -> CallState]
      BY <1>5, GiveUpType, PhaseType, <1>0 DEF Verify
    <2>2. QED
      BY <1>5, <2>1 DEF Verify, OfCall, CoreType
  <1>6. CASE Decide(k)
    <2>1. EntryOf(k) \in Entry /\ Verdict(k) \in {"reconciling"} \cup Decided
      BY <1>1, EntryType
    <2>2. call[k].command \in Commands /\ call[k].body \in Body
      BY <1>1 DEF CallState
    <2>3. call' \in [Call -> CallState]
      BY <1>6, <2>1, <2>2, WithType DEF Decide, Become, CallPhase
    <2>4. audits' \in [Commands -> Entry \cup {NoEntry}]
      BY <1>6, <2>1, <2>2 DEF Decide
    <2>5. PrefixOf(k) \in Prefix
      BY DEF PrefixOf, Prefix
    <2>6. row' \in Row
      BY <1>1, <1>6, <2>1, <2>5 DEF Decide, Row
    <2>7. billing' \in [hold : {"held", "charged", "released"}, finals : Nat]
      BY <1>6, <2>1 DEF Decide, Decided
    <2>8. QED
      BY <1>6, <2>3, <2>4, <2>6, <2>7 DEF Decide, CoreType
  <1>7. CASE DecisionFails(k)
    <2>1. call' \in [Call -> CallState]
      BY <1>7, BlankType DEF DecisionFails, Become, CallPhase
    <2>2. QED
      BY <1>7, <2>1 DEF DecisionFails, OfCall, CoreType
  <1>8. CASE Close(k)
    <2>1. call' \in [Call -> CallState]
      BY <1>8, BlankType DEF Close, Become, CallPhase
    <2>2. row' \in Row
      BY <1>1, <1>8 DEF Close, Row
    <2>3. QED
      BY <1>8, <2>1, <2>2 DEF Close, CoreType
  <1>9. QED
    BY <1>2, <1>3, <1>4, <1>5, <1>6, <1>7, <1>8 DEF Work

\* Every step leaves all but the sweeps well typed.
LEMMA CoreTyped ==
    ASSUME TypeOK, Next
    PROVE  CoreType'
  <1>1. ASSUME NEW k \in Call, NEW c \in Commands, NEW b \in Sent, Replay(k, c, b)
        PROVE  CoreType'
    <2>1. b \in Body /\ audits[c] \in Entry \cup {NoEntry}
      BY DEF Sent, TypeOK
    <2>2. call' \in [Call -> CallState]
      BY <1>1, <2>1, WithType DEF Replay, Become, TypeOK, CallPhase
    <2>3. QED
      BY <1>1, <2>2 DEF Replay, TypeOK, CoreType
  <1>2. ASSUME NEW k \in Call, Crash(k)
        PROVE  CoreType'
    <2>1. call' \in [Call -> CallState]
      BY <1>2, BlankType DEF Crash, Become, TypeOK, CallPhase
    <2>2. QED
      BY <1>2, <2>1 DEF Crash, TypeOK, CoreType
  <1>3. CASE LeaseExpires
    BY <1>3 DEF LeaseExpires, TypeOK, CoreType, Row
  <1>4. ASSUME NEW i \in UpstreamId, LateId(i)
        PROVE  CoreType'
    BY <1>4 DEF LateId, TypeOK, CoreType, Row
  <1>5. ASSUME NEW s \in Sweep, SweepDefers(s)
        PROVE  CoreType'
    <2>1. sweep[s].window \in Window
      BY DEF TypeOK, SweepState
    <2>2. sweep[s].window + 1 .. MaxWindow + 1 \subseteq 0 .. MaxWindow + 1
      BY <2>1, ConstantsAssumption DEF Window
    <2>3. row' \in Row
      BY <1>5, <2>2 DEF SweepDefers, TypeOK, Row
    <2>4. QED
      BY <1>5, <2>3 DEF SweepDefers, TypeOK, CoreType
  <1>6. SweepMoves => CoreType'
    BY DEF SweepMoves, Core, TypeOK, CoreType
  <1>7. QED
    BY <1>1, <1>2, <1>3, <1>4, <1>5, <1>6, StepCases, ClaimType, WorkType

\* Every step leaves the sweeps well typed.
LEMMA SweepTyped ==
    ASSUME TypeOK, Next
    PROVE  SweepType'
  <1> USE DEF TypeOK, SweepType
  <1>1. ASSUME NEW s \in Sweep, NEW ph \in {"idle", "defer", "verdict"}, Go(s, ph)
        PROVE  sweep' \in [Sweep -> SweepState]
    BY <1>1 DEF Go, SweepState
  <1>2. ASSUME NEW s \in Sweep, NEW ph \in {"lookingUp", "judging"}, NEW c, NEW b, NEW q,
               SweepCalls(s, q, ph, c, b)
        PROVE  sweep' \in [Sweep -> SweepState]
    BY <1>1, <1>2 DEF SweepCalls, SweepState
  <1>3. ASSUME NEW s \in Sweep, SweepStep(s)
        PROVE  sweep' \in [Sweep -> SweepState]
    BY <1>1, <1>2, <1>3
       DEF SweepStep, SweepRead, SweepLooksUp, SweepReturns, SweepConfirms, SweepDefers,
           SweepDies, SweepState
  <1>4. ASSUME NEW s \in Sweep, SweepStep(s)
        PROVE  window' = window
    BY <1>4 DEF SweepStep, SweepRead, SweepLooksUp, SweepCalls, SweepReturns, SweepConfirms,
                SweepDefers, SweepDies, Claim, Replay
  <1>5. ASSUME NEW k \in Call, Operate(k) \/ Work(k)
        PROVE  UNCHANGED <<sweep, window>>
    BY <1>5 DEF Operate, Claim, Replay, Work, Check, Poll, Archive, Verify, Decide,
                DecisionFails, Close, OfCall
  <1>6. ASSUME NEW k \in Call, Crash(k)
        PROVE  SweepType'
    BY <1>6 DEF Crash, SweepState
  <1>7. CASE Tick
    BY <1>7, ConstantsAssumption DEF Tick, Window
  <1>8. CASE LeaseExpires \/ \E i \in UpstreamId : LateId(i)
    BY <1>8 DEF LeaseExpires, LateId
  <1>9. QED
    BY <1>3, <1>4, <1>5, <1>6, <1>7, <1>8 DEF Next

\* The initial states are well typed.
LEMMA InitType == Init => TypeOK
  <1> SUFFICES ASSUME Init PROVE TypeOK
    OBVIOUS
  <1>1. row \in Row
    <2>1. 1 \in 0 .. MaxWindow + 1 /\ {} \in SUBSET UpstreamId
      BY ConstantsAssumption
    <2>2. NoCall \in Call \cup {NoCall} /\ NoCall \in Prefix /\ FALSE \in BOOLEAN
      BY DEF Prefix
    <2>3. QED
      BY <2>1, <2>2 DEF Init, Row
  <1> files \in [Prefix -> Payload]
    BY DEF Init, Payload
  <1>2. call \in [Call -> CallState]
    BY BlankType DEF Init, CallPhase
  <1>3. QED
    BY <1>1, <1>2, ConstantsAssumption DEF Init, TypeOK, SweepState, Window

\* Every state is well typed.
THEOREM TypeCorrect == Spec => []TypeOK
  <1>1. TypeOK /\ [Next]_vars => TypeOK'
    <2>1. ASSUME TypeOK, Next PROVE TypeOK'
      BY <2>1, CoreTyped, SweepTyped DEF CoreType, SweepType, TypeOK
    <2>2. ASSUME TypeOK, UNCHANGED vars PROVE TypeOK'
      BY <2>2 DEF vars, TypeOK
    <2>3. QED
      BY <2>1, <2>2
  <1>2. QED
    BY InitType, <1>1, PTL DEF Spec

-----------------------------------------------------------------------------
(* What steps do to calls *)

\* A call that claims begins with its command, without an answer, and with the
\* checkpoint only if there is one.
LEMMA ClaimEffect ==
    ASSUME TypeOK, NEW k \in Call, NEW c \in Commands, NEW b \in Sent, Claim(k, c, b)
    PROVE  /\ call[k].phase = "unused"
           /\ call'[k].phase \notin {"unused", "closing", "over"}
           /\ call'[k].command = c /\ call'[k].answer = NoEntry
           /\ call'[k].payload # "saved"
           /\ call'[k].phase = "checking" => row.saved
           /\ \A j \in Call \ {k} : call'[j] = call[j]
  <1> DEFINE w == With("polling", c, b, NoEntry)
             ph == CASE b.action = "confirm_no_result" -> "deciding"
                     [] b.action = "confirm_success"   -> "archiving"
                     [] OTHER -> IF row.saved THEN "checking" ELSE w.phase
             pay == IF b.action = "confirm_success" THEN b.evidence ELSE "none"
  <1>1. call' = [call EXCEPT ![k] = [w EXCEPT !.phase = ph, !.payload = pay,
                    !.found = b.action = "confirm_no_result", !.ids = Known]]
    BY DEF Claim, Become
  <1>2. call'[k] = [w EXCEPT !.phase = ph, !.payload = pay,
                       !.found = b.action = "confirm_no_result", !.ids = Known]
    BY <1>1 DEF TypeOK
  <1>3. w = [phase |-> "polling", command |-> c, body |-> b, ids |-> {},
             payload |-> "none", found |-> FALSE, reason |-> "none", answer |-> NoEntry]
    BY DEF With
  <1>4. pay # "saved"
    BY ConstantsAssumption DEF Sent
  <1>5. ph \in {"deciding", "archiving", "checking", "polling"}
        /\ (ph = "checking" => row.saved)
    BY <1>3
  <1> HIDE DEF w, ph, pay
  <1>6. /\ call'[k].phase = ph /\ call'[k].payload = pay
        /\ call'[k].command = c /\ call'[k].answer = NoEntry
    BY <1>2, <1>3
  <1>7. \A j \in Call \ {k} : call'[j] = call[j]
    BY <1>1 DEF TypeOK
  <1>8. QED
    BY <1>4, <1>5, <1>6, <1>7 DEF Claim

\* Call k goes on to a phase with a payload, and nothing else of it that the
\* invariant speaks of changes.
Moves(k, ph, p) ==
    /\ call'[k].phase = ph /\ call'[k].payload = p
    /\ call'[k].command = call[k].command /\ call'[k].answer = call[k].answer
    /\ \A j \in Call \ {k} : call'[j] = call[j]

\* The ways in which the steps of a call say so.
LEMMA MoveForms ==
    ASSUME TypeOK, NEW k \in Call, NEW ph, NEW p, NEW r
    PROVE  /\ Become(k, [call[k] EXCEPT !.phase = ph]) => Moves(k, ph, call[k].payload)
           /\ Become(k, [call[k] EXCEPT !.phase = ph, !.found = TRUE])
                 => Moves(k, ph, call[k].payload)
           /\ Become(k, [call[k] EXCEPT !.phase = ph, !.payload = p]) => Moves(k, ph, p)
           /\ GiveUp(k, r) => Moves(k, "deciding", "none")
  <1>1. call[k] \in CallState /\ call \in [Call -> CallState]
    BY DEF TypeOK
  <1>2. ASSUME Become(k, [call[k] EXCEPT !.phase = ph])
        PROVE  Moves(k, ph, call[k].payload)
    <2>1. call'[k] = [call[k] EXCEPT !.phase = ph]
      BY <1>1, <1>2 DEF Become
    <2>2. QED
      BY <1>1, <1>2, <2>1 DEF Become, Moves, CallState
  <1>3. ASSUME Become(k, [call[k] EXCEPT !.phase = ph, !.found = TRUE])
        PROVE  Moves(k, ph, call[k].payload)
    <2>1. call'[k] = [call[k] EXCEPT !.phase = ph, !.found = TRUE]
      BY <1>1, <1>3 DEF Become
    <2>2. QED
      BY <1>1, <1>3, <2>1 DEF Become, Moves, CallState
  <1>4. ASSUME Become(k, [call[k] EXCEPT !.phase = ph, !.payload = p])
        PROVE  Moves(k, ph, p)
    <2>1. call'[k] = [call[k] EXCEPT !.phase = ph, !.payload = p]
      BY <1>1, <1>4 DEF Become
    <2>2. QED
      BY <1>1, <1>4, <2>1 DEF Become, Moves, CallState
  <1>5. ASSUME GiveUp(k, r)
        PROVE  Moves(k, "deciding", "none")
    <2>1. call'[k] = [call[k] EXCEPT !.phase = "deciding", !.payload = "none", !.reason = r]
      BY <1>1, <1>5 DEF Become, GiveUp
    <2>2. QED
      BY <1>1, <1>5, <2>1 DEF Become, GiveUp, Moves, CallState
  <1>6. QED
    BY <1>2, <1>3, <1>4, <1>5

\* A call on its way to the decision keeps its command and gives no answer; it has
\* the checkpoint only if there is one.
LEMMA WayEffect ==
    ASSUME TypeOK, NEW k \in Call, Check(k) \/ Poll(k) \/ Archive(k) \/ Verify(k)
    PROVE  /\ UNCHANGED <<row, billing, audits>>
           /\ call[k].phase \in {"checking", "polling", "archiving", "verifying"}
           /\ \E ph \in {"polling", "archiving", "verifying", "deciding"},
                 p \in {"none", "polled", "saved", call[k].payload} :
                 /\ Moves(k, ph, p)
                 /\ p = "saved" => call[k].phase = "checking" \/ call[k].payload = "saved"
  <1>1. CASE Check(k)
    BY <1>1, MoveForms DEF Check, OfCall
  <1>2. CASE Poll(k)
    BY <1>2, MoveForms DEF Poll, OfCall
  <1>3. CASE Archive(k)
    BY <1>3, MoveForms DEF Archive, OfCall
  <1>4. CASE Verify(k)
    BY <1>4, MoveForms DEF Verify, OfCall
  <1>5. QED
    BY <1>1, <1>2, <1>3, <1>4

\* A call that ends without an answer, or fails to decide, forgets what it did.
LEMMA EndEffect ==
    ASSUME TypeOK, NEW k \in Call, DecisionFails(k) \/ Close(k) \/ Crash(k)
    PROVE  /\ UNCHANGED <<billing, audits, files>>
           /\ call[k].phase \notin {"unused", "over"}
           /\ call'[k].phase \in {"closing", "over"}
           /\ call'[k].answer = NoEntry /\ call'[k].payload = "none"
           /\ \A j \in Call \ {k} : call'[j] = call[j]
           /\ row' = row \/ row' = [row EXCEPT !.token = NoCall, !.lease = FALSE]
  <1>1. call \in [Call -> CallState]
    BY DEF TypeOK
  <1>2. \A ph : Blank(ph).phase = ph /\ Blank(ph).answer = NoEntry /\ Blank(ph).payload = "none"
    BY DEF Blank, With
  <1>3. CASE DecisionFails(k)
    BY <1>1, <1>2, <1>3 DEF DecisionFails, Become, OfCall
  <1>4. CASE Close(k)
    BY <1>1, <1>2, <1>4 DEF Close, Become
  <1>5. CASE Crash(k)
    BY <1>1, <1>2, <1>5 DEF Crash, Become, Live
  <1>6. QED
    BY <1>3, <1>4, <1>5

\* The decision enters the audit of the command, answers with it and lets go.
LEMMA DecideEffect ==
    ASSUME TypeOK, NEW k \in Call, Decide(k)
    PROVE  /\ call[k].phase = "deciding" /\ Owns(k) /\ call[k].command \in Commands
           /\ audits' = [audits EXCEPT ![call[k].command] = EntryOf(k)]
           /\ row'.status = Verdict(k) /\ row'.token = NoCall /\ row'.saved = row.saved
           /\ row'.result = IF Verdict(k) = "completed" THEN PrefixOf(k) ELSE row.result
           /\ call'[k].phase = "over" /\ call'[k].command = call[k].command
           /\ call'[k].answer = EntryOf(k) /\ call'[k].payload = "none"
           /\ \A j \in Call \ {k} : call'[j] = call[j]
           /\ UNCHANGED files
  BY DEF Decide, TypeOK, CallState, Row, Become, With

\* A repeated command answers with its audit.
LEMMA ReplayEffect ==
    ASSUME TypeOK, NEW k \in Call, NEW c \in Commands, NEW b \in Sent, Replay(k, c, b)
    PROVE  /\ call[k].phase = "unused" /\ call'[k].phase = "over"
           /\ call'[k].command = c /\ call'[k].answer = audits[c] /\ call'[k].payload = "none"
           /\ \A j \in Call \ {k} : call'[j] = call[j]
           /\ UNCHANGED <<row, billing, audits, files>>
  BY DEF Replay, TypeOK, Become, With

\* Time, lost leases, late ids and deferrals touch neither calls nor audits.
LEMMA OtherEffect ==
    ASSUME TypeOK,
           LeaseExpires \/ (\E i \in UpstreamId : LateId(i))
             \/ (\E s \in Sweep : SweepDefers(s)) \/ SweepMoves
    PROVE  /\ UNCHANGED <<call, billing, audits, files>>
           /\ row'.status = row.status /\ row'.token = row.token
           /\ row'.saved = row.saved /\ row'.result = row.result
  <1>1. row \in Row
    BY DEF TypeOK
  <1>2. CASE LeaseExpires
    BY <1>1, <1>2 DEF LeaseExpires, Row
  <1>3. CASE \E i \in UpstreamId : LateId(i)
    BY <1>1, <1>3 DEF LateId, Row
  <1>4. CASE \E s \in Sweep : SweepDefers(s)
    BY <1>1, <1>4 DEF SweepDefers, Row
  <1>5. CASE SweepMoves
    BY <1>5 DEF SweepMoves, Core
  <1>6. QED
    BY <1>2, <1>3, <1>4, <1>5

\* A claim gives the task to its call and changes nothing else that is settled.
LEMMA ClaimRow ==
    ASSUME TypeOK, NEW k \in Call, NEW c \in Commands, NEW b \in Sent, Claim(k, c, b)
    PROVE  /\ row'.token = k /\ row.status = "reconciling" /\ row'.status = row.status
           /\ row'.saved = row.saved /\ row'.result = row.result
           /\ audits[c] = NoEntry /\ ~Held
           /\ UNCHANGED <<billing, audits, files>>
  BY DEF Claim, Admits, TypeOK, Row

-----------------------------------------------------------------------------
(* The inductive invariant *)

\* Nobody answers the command that the holder of the task is working on: a claim
\* reads the audit under the row's lock, and only the holder enters one.
LEMMA KeepsUnanswered ==
    ASSUME IInv, Next
    PROVE  Unanswered'
  <1> USE DEF IInv, Unanswered
  <1>1. ASSUME NEW k \in Call, NEW c \in Commands, NEW b \in Sent, Claim(k, c, b)
        PROVE  Unanswered'
    BY <1>1, ClaimEffect, ClaimRow
  <1>2. ASSUME NEW k \in Call, NEW c \in Commands, NEW b \in Sent, Replay(k, c, b)
        PROVE  Unanswered'
    BY <1>2, ReplayEffect
  <1>3. ASSUME NEW k \in Call, Check(k) \/ Poll(k) \/ Archive(k) \/ Verify(k)
        PROVE  Unanswered'
    BY <1>3, WayEffect DEF Moves
  <1>4. ASSUME NEW k \in Call, DecisionFails(k) \/ Close(k) \/ Crash(k)
        PROVE  Unanswered'
    <2>1. row'.token = row.token \/ row'.token = NoCall
      BY <1>4, EndEffect DEF TypeOK, Row
    <2>2. QED
      BY <1>4, <2>1, EndEffect, ConstantsAssumption
  <1>5. ASSUME NEW k \in Call, Decide(k)
        PROVE  Unanswered'
    BY <1>5, DecideEffect, ConstantsAssumption
  <1>6. ASSUME LeaseExpires \/ (\E i \in UpstreamId : LateId(i))
                 \/ (\E s \in Sweep : SweepDefers(s)) \/ SweepMoves
        PROVE  Unanswered'
    BY <1>6, OtherEffect
  <1>7. QED
    BY <1>1, <1>2, <1>3, <1>4, <1>5, <1>6, StepCases DEF Work

\* An answer that was given is the audit, which is not written again.
LEMMA KeepsAnswered ==
    ASSUME IInv, Next
    PROVE  Answered'
  <1> USE DEF IInv, Answered
  <1>1. ASSUME NEW k \in Call, NEW c \in Commands, NEW b \in Sent, Claim(k, c, b)
        PROVE  Answered'
    BY <1>1, ClaimEffect, ClaimRow
  <1>2. ASSUME NEW k \in Call, NEW c \in Commands, NEW b \in Sent, Replay(k, c, b)
        PROVE  Answered'
    BY <1>2, ReplayEffect
  <1>3. ASSUME NEW k \in Call, Check(k) \/ Poll(k) \/ Archive(k) \/ Verify(k)
        PROVE  Answered'
    BY <1>3, WayEffect DEF Moves
  <1>4. ASSUME NEW k \in Call, DecisionFails(k) \/ Close(k) \/ Crash(k)
        PROVE  Answered'
    BY <1>4, EndEffect
  <1>5. ASSUME NEW k \in Call, Decide(k)
        PROVE  Answered'
    <2>1. audits[call[k].command] = NoEntry
      BY <1>5, DecideEffect DEF Owns, Unanswered
    <2>2. audits'[call[k].command] = EntryOf(k)
      BY <1>5, DecideEffect DEF TypeOK
    <2>3. ASSUME NEW j \in Call \ {k}, call[j].answer # NoEntry
          PROVE  call[j].answer = audits'[call[j].command]
      <3>1. call[j].command # call[k].command
        BY <2>1, <2>3
      <3>2. call[j].command \in Commands
        BY DEF TypeOK, CallState
      <3>3. QED
        BY <1>5, <2>3, <3>1, <3>2, DecideEffect DEF TypeOK
    <2>4. QED
      BY <1>5, <2>2, <2>3, DecideEffect
  <1>6. ASSUME LeaseExpires \/ (\E i \in UpstreamId : LateId(i))
                 \/ (\E s \in Sweep : SweepDefers(s)) \/ SweepMoves
        PROVE  Answered'
    BY <1>6, OtherEffect
  <1>7. QED
    BY <1>1, <1>2, <1>3, <1>4, <1>5, <1>6, StepCases DEF Work

\* What a decision adds to the audits, and that it finds the hold untouched.
LEMMA DecideCounts ==
    ASSUME IInv, NEW k \in Call, Decide(k)
    PROVE  /\ audits[call[k].command] = NoEntry
           /\ billing = [hold |-> "held", finals |-> 0] /\ Decisions = {}
           /\ Decisions' = IF Verdict(k) \in Decided THEN {call[k].command} ELSE {}
  <1>1. audits[call[k].command] = NoEntry
    BY DecideEffect DEF IInv, Owns, Unanswered
  <1>2. billing = [hold |-> "held", finals |-> 0] /\ Decisions = {}
    BY DecideEffect DEF IInv, Owns, Counted, Decided
  <1>3. EntryOf(k) # NoEntry /\ EntryOf(k).status = Verdict(k)
    BY EntryType DEF IInv, TypeOK
  <1>4. \A c \in Commands \ {call[k].command} : audits'[c] = audits[c]
    BY DecideEffect DEF IInv, TypeOK
  <1>5. audits'[call[k].command] = EntryOf(k) /\ call[k].command \in Commands
    BY DecideEffect DEF IInv, TypeOK
  <1>6. QED
    BY <1>1, <1>2, <1>3, <1>4, <1>5 DEF Decisions

\* A task is settled when one audit decides it, and only then.
LEMMA KeepsCounted ==
    ASSUME IInv, Next
    PROVE  Counted'
  <1>1. ASSUME NEW k \in Call, Decide(k)
        PROVE  Counted'
    <2>1. /\ billing = [hold |-> "held", finals |-> 0]
          /\ Decisions' = IF Verdict(k) \in Decided THEN {call[k].command} ELSE {}
      BY <1>1, DecideCounts
    <2>2. row'.status = Verdict(k) /\ call[k].command \in Commands
      BY <1>1, DecideEffect DEF IInv
    <2>3. CASE Verdict(k) = "reconciling"
      BY <1>1, <2>1, <2>2, <2>3 DEF Counted, Decide, Decided
    <2>4. CASE Verdict(k) \in Decided
      <3>1. billing'.finals = 1
        BY <1>1, <2>1, <2>4 DEF Decide, Decided
      <3>2. QED
        BY <2>1, <2>2, <2>4, <3>1 DEF Counted
    <2>5. QED
      BY <2>3, <2>4, EntryType DEF IInv, TypeOK
  <1>2. ASSUME UNCHANGED <<billing, audits>>, row'.status = row.status
        PROVE  Counted'
    BY <1>2 DEF IInv, Counted, Decisions
  <1>3. ASSUME NEW k \in Call, DecisionFails(k) \/ Close(k) \/ Crash(k)
        PROVE  UNCHANGED <<billing, audits>> /\ row'.status = row.status
    BY <1>3, EndEffect DEF IInv, TypeOK, Row
  <1>4. QED
    BY <1>1, <1>2, <1>3, StepCases, ClaimRow, ReplayEffect, WayEffect, OtherEffect DEF Work, IInv

\* Only the checkpoint is written where the execution wrote it.
LEMMA ArchiveWrites ==
    ASSUME IInv, NEW k \in Call, Archive(k)
    PROVE  /\ call[k].phase = "archiving"
           /\ files' = files \/ files' = [files EXCEPT ![PrefixOf(k)] = call[k].payload]
           /\ PrefixOf(k) = NoCall => row.saved /\ call[k].payload = "saved"
  BY ConstantsAssumption DEF IInv, Kept, Archive, PrefixOf

\* The checkpoint stays under the execution's prefix, and the prefix a task was
\* completed with is that one or a finished call's.
LEMMA KeepsKept ==
    ASSUME IInv, Next
    PROVE  Kept'
  <1> USE DEF IInv, Kept
  <1>1. ASSUME NEW k \in Call, NEW c \in Commands, NEW b \in Sent, Claim(k, c, b)
        PROVE  Kept'
    BY <1>1, ClaimEffect, ClaimRow DEF TypeOK, Row, Prefix
  <1>2. ASSUME NEW k \in Call, NEW c \in Commands, NEW b \in Sent, Replay(k, c, b)
        PROVE  Kept'
    BY <1>2, ReplayEffect DEF TypeOK, Row, Prefix
  <1>3. ASSUME NEW k \in Call, Check(k) \/ Poll(k) \/ Archive(k) \/ Verify(k)
        PROVE  Kept'
    <2>1. row.saved => files'[NoCall] = "saved"
      <3>1. CASE Archive(k)
        BY <3>1, ArchiveWrites DEF TypeOK, Prefix
      <3>2. CASE ~Archive(k)
        BY <1>3, <3>2 DEF Check, Poll, Verify
      <3>3. QED
        BY <3>1, <3>2
    <2>2. UNCHANGED row
      BY <1>3, WayEffect
    <2>3. \A j \in Call : call'[j].phase = "checking" \/ call'[j].payload = "saved" => row.saved
      BY <1>3, WayEffect DEF Moves
    <2>4. row.result # NoCall => row.result \in Call /\ row.result # k
      BY <1>3, WayEffect DEF TypeOK, Row, Prefix
    <2>5. row.result # NoCall => call'[row.result].phase = "over"
      BY <1>3, <2>4, WayEffect DEF Moves
    <2>6. QED
      BY <2>1, <2>2, <2>3, <2>5
  <1>4. ASSUME NEW k \in Call, DecisionFails(k) \/ Close(k) \/ Crash(k)
        PROVE  Kept'
    <2>1. row'.saved = row.saved /\ row'.result = row.result
      BY <1>4, EndEffect DEF TypeOK, Row
    <2>2. row.result # NoCall => row.result \in Call /\ row.result # k
      BY <1>4, EndEffect DEF TypeOK, Row, Prefix
    <2>3. QED
      BY <1>4, <2>1, <2>2, EndEffect
  <1>5. ASSUME NEW k \in Call, Decide(k)
        PROVE  Kept'
    <2>1. row.result # NoCall => row.result \in Call /\ row.result # k
      BY <1>5, DecideEffect DEF TypeOK, Row, Prefix
    <2>2. row'.result \in {row.result, NoCall, k}
      BY <1>5, DecideEffect DEF PrefixOf
    <2>3. QED
      BY <1>5, <2>1, <2>2, DecideEffect
  <1>6. ASSUME LeaseExpires \/ (\E i \in UpstreamId : LateId(i))
                 \/ (\E s \in Sweep : SweepDefers(s)) \/ SweepMoves
        PROVE  Kept'
    BY <1>6, OtherEffect
  <1>7. QED
    BY <1>1, <1>2, <1>3, <1>4, <1>5, <1>6, StepCases DEF Work

\* The inductive invariant holds at first: nothing was claimed or answered.
LEMMA InitInductive == Init => IInv
  <1> SUFFICES ASSUME Init PROVE IInv
    OBVIOUS
  <1>1. TypeOK
    BY InitType
  <1>2. \A ph : Blank(ph).phase = ph /\ Blank(ph).answer = NoEntry /\ Blank(ph).payload = "none"
    BY DEF Blank, With
  <1>3. row.status = "reconciling" /\ row.result = NoCall
    BY DEF Init
  <1>4. Unanswered /\ Answered
    BY <1>2 DEF Init, Unanswered, Answered
  <1>5. Counted
    BY <1>3 DEF Init, Counted, Decisions
  <1>6. Kept
    BY <1>2, <1>3 DEF Init, Kept, Prefix
  <1>7. QED
    BY <1>1, <1>4, <1>5, <1>6 DEF IInv

\* Every step keeps it.
LEMMA NextInductive == IInv /\ [Next]_vars => IInv'
  <1>1. ASSUME IInv, Next PROVE IInv'
    BY <1>1, CoreTyped, SweepTyped, KeepsUnanswered, KeepsCounted, KeepsAnswered, KeepsKept
       DEF IInv, CoreType, SweepType, TypeOK
  <1>2. ASSUME IInv, UNCHANGED vars PROVE IInv'
    BY <1>2 DEF IInv, TypeOK, Unanswered, Counted, Decisions, Answered, Kept, vars
  <1>3. QED
    BY <1>1, <1>2

\* So every reachable state has it.
THEOREM Inductive == Spec => []IInv
  BY InitInductive, NextInductive, PTL DEF Spec

-----------------------------------------------------------------------------
(* The properties *)

\* Whoever gets an answer to a command gets the audited one, and the task is settled
\* as often as an audit decides it (the replay and the decision of reconcileTask).
THEOREM Agreement == Spec => []AnswersAgree
  <1>1. IInv => AnswersAgree
    <2> SUFFICES ASSUME IInv PROVE AnswersAgree
      OBVIOUS
    <2>1. billing.finals = Cardinality(Decisions)
      <3>1. CASE billing = [hold |-> "held", finals |-> 0] /\ Decisions = {}
        BY <3>1, FS_EmptySet
      <3>2. CASE billing.finals = 1 /\ \E c \in Commands : Decisions = {c}
        BY <3>2, FS_Singleton
      <3>3. QED
        BY <3>1, <3>2 DEF IInv, Counted
    <2>2. QED
      BY <2>1 DEF AnswersAgree, IInv, Answered, Decisions
  <1>2. QED
    BY <1>1, Inductive, PTL

\* The audits, the status and the reservation are the ledger that DecisionLedger
\* describes: every step of reconciliation answers one command or none.
THEOREM KeepsLedger == Spec => LedgerKept
  <1>1. Init => Ledger!Init
    BY DEF Init, Ledger!Init
  <1>2. ASSUME IInv, [Next]_vars
        PROVE  Ledger!Next \/ UNCHANGED <<audits, row.status, billing.hold>>
    <2>1. ASSUME NEW k \in Call, Decide(k)
          PROVE  Ledger!Answer(call[k].command) /\ call[k].command \in Commands
      <3> DEFINE c == call[k].command
                 e == EntryOf(k)
      <3>1. c \in Commands /\ row.status = "reconciling" /\ audits[c] = NoEntry
        BY <1>2, <2>1, DecideEffect, DecideCounts DEF IInv, Owns
      <3>2. audits' = [audits EXCEPT ![c] = e] /\ audits'[c] = e /\ row'.status = e.status
        BY <1>2, <2>1, DecideEffect, EntryType DEF IInv, TypeOK
      <3>3. e \in Entry /\ e.status = Verdict(k)
            /\ Verdict(k) \in {"reconciling"} \cup Decided
        BY <1>2, EntryType DEF IInv, TypeOK
      <3>4. billing.hold = "held"
        BY <1>2, <2>1, DecideCounts
      <3>5. billing'.hold = CASE e.status = "completed" -> "charged"
                              [] e.status = "failed"    -> "released"
                              [] OTHER                  -> "held"
        BY <2>1, <3>3, <3>4 DEF Decide, Decided
      <3>6. QED
        BY <3>1, <3>2, <3>3, <3>5 DEF Ledger!Answer
    <2>2. ASSUME NEW k \in Call, DecisionFails(k) \/ Close(k) \/ Crash(k)
          PROVE  UNCHANGED <<billing, audits>> /\ row'.status = row.status
      BY <1>2, <2>2, EndEffect DEF IInv, TypeOK, Row
    <2>3. CASE Next
      BY <1>2, <2>1, <2>2, <2>3, StepCases, ClaimRow, ReplayEffect, WayEffect, OtherEffect
         DEF Work, IInv, Ledger!Next
    <2>4. CASE UNCHANGED vars
      BY <2>4 DEF vars
    <2>5. QED
      BY <1>2, <2>3, <2>4
  <1>3. QED
    BY <1>1, <1>2, Inductive, PTL DEF Spec, LedgerKept, Ledger!Spec

\* A call that holds the task under a running lease is put out by nobody (Admits,
\* Owns and the finally clause compare tokens and leases).
THEOREM LeftAlone == Spec => HolderIsLeftAlone
  <1>1. ASSUME TypeOK, [Next]_vars
        PROVE  \A k \in Call :
                  row.token = k /\ row.lease /\ Live(k) /\ row'.token # k
                      => call'[k].phase = "over"
    <2> SUFFICES ASSUME NEW k \in Call, row.token = k, row.lease, row'.token # k
                 PROVE  call'[k].phase = "over"
      OBVIOUS
    <2>1. CASE UNCHANGED vars
      BY <2>1 DEF vars
    <2>2. ASSUME NEW j \in Call, NEW c \in Commands, NEW b \in Sent, Claim(j, c, b)
          PROVE  FALSE
      BY <1>1, <2>2, ClaimRow, ConstantsAssumption DEF Held
    <2>3. ASSUME NEW j \in Call, DecisionFails(j) \/ Crash(j)
          PROVE  FALSE
      BY <2>3 DEF DecisionFails, Crash, OfCall
    <2>4. ASSUME NEW j \in Call, Close(j)
          PROVE  call'[k].phase = "over"
      <3>1. j = k
        BY <2>4 DEF Close
      <3>2. QED
        BY <1>1, <2>4, <3>1 DEF Close, Become, Blank, With, TypeOK
    <2>5. ASSUME NEW j \in Call, Decide(j)
          PROVE  call'[k].phase = "over"
      BY <1>1, <2>5, DecideEffect DEF Owns
    <2>6. QED
      BY <1>1, <2>1, <2>2, <2>3, <2>4, <2>5, StepCases, ReplayEffect, WayEffect, OtherEffect
         DEF Work
  <1>2. QED
    BY <1>1, TypeCorrect, PTL DEF Spec, HolderIsLeftAlone

\* What a completed task was completed with is not written any more, by whatever
\* call goes on without its lease (the archive prefix of reconcileTask).
THEOREM Stability == Spec => ResultIsStable
  <1>1. ASSUME IInv, [Next]_vars
        PROVE  row.status = "completed" => files'[row.result] = files[row.result]
    <2>1. CASE UNCHANGED vars
      BY <2>1 DEF vars
    <2>2. ASSUME NEW k \in Call, Archive(k)
          PROVE  files'[row.result] = files[row.result]
      <3>1. row.result \in Prefix /\ files \in [Prefix -> Payload]
        BY <1>1 DEF IInv, TypeOK, Row
      <3>2. CASE row.result = PrefixOf(k)
        <4>1. row.result # k
          BY <1>1, <2>2, ArchiveWrites, ConstantsAssumption DEF IInv, Kept
        <4>2. row.result = NoCall
          BY <3>2, <4>1 DEF PrefixOf
        <4>3. QED
          BY <1>1, <2>2, <3>1, <3>2, <4>2, ArchiveWrites DEF IInv, Kept
      <3>3. CASE row.result # PrefixOf(k)
        BY <1>1, <2>2, <3>1, <3>3, ArchiveWrites
      <3>4. QED
        BY <3>2, <3>3
    <2>3. ASSUME NEW k \in Call, Check(k) \/ Poll(k) \/ Verify(k)
          PROVE  UNCHANGED files
      BY <2>3 DEF Check, Poll, Verify
    <2>4. QED
      BY <1>1, <2>1, <2>2, <2>3, StepCases, ClaimRow, ReplayEffect, EndEffect, DecideEffect,
         OtherEffect DEF IInv, Work
  <1>2. QED
    BY <1>1, Inductive, PTL DEF Spec, ResultIsStable

-----------------------------------------------------------------------------
(* What a sweep refunds                                                    *)

\* Every stored id was polled to its end and had no image.
AllBlank == \A i \in row.ids : upstream[i] = "blank"

NoneFound == "manual_verification_required"

\* Who says that there is nothing to find has asked for every stored id: a call
\* that is to ask knows them, and its answer, the audit and the sweep that goes by
\* it say so because they were all blank.
Blanks ==
    /\ \A k \in Call : call[k].phase \in {"checking", "polling"} => row.ids \subseteq call[k].ids
    /\ \A k \in Call : call[k].reason = NoneFound => AllBlank
    /\ \A k \in Call : call[k].answer # NoEntry /\ call[k].answer.reason = NoneFound => AllBlank
    /\ \A c \in Commands : audits[c] # NoEntry /\ audits[c].reason = NoneFound => AllBlank

SweepsBlank ==
    \A s \in Sweep :
        /\ sweep[s].phase \in {"verdict", "judging"} => AllBlank
        /\ sweep[s].phase \in {"lookingUp", "judging"} => sweep[s].call \in Call

\* The stored ids, and what their requests came to, are not changed by reconciliation
\* (LateId adds to the dispatches only).
LEMMA IdsStay ==
    ASSUME TypeOK, [Next]_vars
    PROVE  row'.ids = row.ids /\ upstream' = upstream /\ (AllBlank' <=> AllBlank)
  <1>1. row'.ids = row.ids /\ upstream' = upstream
    <2>1. row \in Row
      BY DEF TypeOK
    <2>2. ASSUME NEW k \in Call, NEW c \in Commands, NEW b \in Sent, Claim(k, c, b) \/ Replay(k, c, b)
          PROVE  row'.ids = row.ids /\ upstream' = upstream
      BY <2>1, <2>2 DEF Claim, Replay, Row
    <2>3. ASSUME NEW k \in Call, Work(k) \/ Crash(k)
          PROVE  row'.ids = row.ids /\ upstream' = upstream
      BY <2>1, <2>3 DEF Work, Check, Poll, Archive, Verify, Decide, DecisionFails, Close,
                        Crash, OfCall, Row
    <2>4. CASE LeaseExpires
      BY <2>1, <2>4 DEF LeaseExpires, Row
    <2>5. ASSUME NEW i \in UpstreamId, LateId(i)
          PROVE  row'.ids = row.ids /\ upstream' = upstream
      BY <2>1, <2>5 DEF LateId, Row
    <2>6. ASSUME NEW s \in Sweep, SweepDefers(s)
          PROVE  row'.ids = row.ids /\ upstream' = upstream
      BY <2>1, <2>6 DEF SweepDefers, Row
    <2>7. CASE SweepMoves \/ UNCHANGED vars
      BY <2>7 DEF SweepMoves, Core, vars
    <2>8. QED
      BY <2>2, <2>3, <2>4, <2>5, <2>6, <2>7, StepCases
  <1>2. QED
    BY <1>1 DEF AllBlank

\* A call that asks for no id, or finds every id it knows at its end without an
\* image, has found the stored ids blank (the branches of Poll).
LEMMA PollBlank ==
    ASSUME TypeOK, Blanks, NEW k \in Call, Poll(k), call'[k].reason = NoneFound
    PROVE  AllBlank
  <1>1. call[k] \in CallState /\ row.ids \subseteq call[k].ids
    BY DEF TypeOK, Blanks, Poll
  <1>2. CASE call[k].ids = {}
    BY <1>1, <1>2 DEF AllBlank
  <1>3. CASE call[k].ids # {} /\ \A i \in call[k].ids : upstream[i] # "images"
    BY <1>1, <1>3 DEF AllBlank, TypeOK, CallState
  <1>4. ASSUME Become(k, [call[k] EXCEPT !.phase = "archiving", !.payload = "polled"])
        PROVE  AllBlank
    BY <1>1, <1>4 DEF Become, Blanks, TypeOK, CallState
  <1>5. ASSUME GiveUp(k, "upstream_result_unknown")
        PROVE  AllBlank
    BY <1>1, <1>5 DEF GiveUp, Become, TypeOK, CallState, NoneFound
  <1>6. QED
    BY <1>2, <1>3, <1>4, <1>5 DEF Poll

\* What a call that starts knows of the ids, and what it has said so far.
LEMMA ClaimBlank ==
    ASSUME TypeOK, NEW k \in Call, NEW c \in Commands, NEW b \in Sent, Claim(k, c, b)
    PROVE  /\ call'[k].reason = "none" /\ call'[k].answer = NoEntry
           /\ row.ids \subseteq call'[k].ids
           /\ \A j \in Call \ {k} : call'[j] = call[j]
           /\ UNCHANGED audits
  <1> DEFINE w == With("polling", c, b, NoEntry)
             ph == CASE b.action = "confirm_no_result" -> "deciding"
                     [] b.action = "confirm_success"   -> "archiving"
                     [] OTHER -> IF row.saved THEN "checking" ELSE w.phase
             pay == IF b.action = "confirm_success" THEN b.evidence ELSE "none"
  <1>1. call' = [call EXCEPT ![k] = [w EXCEPT !.phase = ph, !.payload = pay,
                    !.found = b.action = "confirm_no_result", !.ids = Known]]
    BY DEF Claim, Become
  <1>2. call'[k] = [w EXCEPT !.phase = ph, !.payload = pay,
                       !.found = b.action = "confirm_no_result", !.ids = Known]
    BY <1>1 DEF TypeOK
  <1>3. w = [phase |-> "polling", command |-> c, body |-> b, ids |-> {},
             payload |-> "none", found |-> FALSE, reason |-> "none", answer |-> NoEntry]
    BY DEF With
  <1> HIDE DEF w, ph, pay
  <1>4. call'[k].reason = "none" /\ call'[k].answer = NoEntry /\ call'[k].ids = Known
    BY <1>2, <1>3
  <1>5. row.ids \subseteq Known
    BY DEF Known
  <1>6. \A j \in Call \ {k} : call'[j] = call[j]
    BY <1>1 DEF TypeOK
  <1>7. QED
    BY <1>4, <1>5, <1>6 DEF Claim

\* A call on its way keeps its ids; it changes its reason only to give up, and says that
\* there is nothing only when the ids are blank.
LEMMA WayBlank ==
    ASSUME TypeOK, Blanks, NEW k \in Call, Check(k) \/ Poll(k) \/ Archive(k) \/ Verify(k)
    PROVE  /\ call'[k].phase \in {"checking", "polling"} => row.ids \subseteq call'[k].ids
           /\ call'[k].reason = NoneFound => AllBlank
           /\ call'[k].answer = call[k].answer
           /\ \A j \in Call \ {k} : call'[j] = call[j]
           /\ UNCHANGED audits
  <1>1. call[k] \in CallState /\ call \in [Call -> CallState]
    BY DEF TypeOK
  <1>2. \E ph \in {"polling", "archiving", "verifying", "deciding"} : \E p : Moves(k, ph, p)
    BY WayEffect
  <1>3. CASE Check(k)
    <2>1. CASE Become(k, [call[k] EXCEPT !.phase = "archiving", !.payload = "saved"])
      BY <1>1, <1>2, <1>3, <2>1 DEF Become, Blanks, CallState, Moves, Check, OfCall
    <2>2. CASE Become(k, [call[k] EXCEPT !.phase = "polling"])
      BY <1>1, <1>2, <1>3, <2>2 DEF Become, Blanks, CallState, Moves, Check, OfCall
    <2>3. CASE GiveUp(k, "archive_incomplete")
      BY <1>1, <1>2, <1>3, <2>3 DEF GiveUp, Become, Blanks, CallState, Moves, Check, OfCall,
                                    NoneFound
    <2>4. QED
      BY <1>3, <2>1, <2>2, <2>3 DEF Check
  <1>4. CASE Poll(k)
    <2>1. call'[k].phase \in {"archiving", "deciding"}
      BY <1>1, <1>4 DEF Poll, GiveUp, Become, CallState
    <2>2. QED
      BY <1>2, <1>4, <2>1, PollBlank DEF Moves, Poll, OfCall
  <1>5. CASE Archive(k) \/ Verify(k)
    <2>1. /\ call'[k].phase \in {"verifying", "deciding"}
          /\ call'[k].reason \in {call[k].reason, "archive_incomplete"}
      <3>1. CASE Become(k, [call[k] EXCEPT !.phase = "verifying"])
        BY <1>1, <3>1 DEF Become, CallState
      <3>2. CASE GiveUp(k, "archive_incomplete")
        BY <1>1, <3>2 DEF GiveUp, Become, CallState
      <3>3. CASE Become(k, [call[k] EXCEPT !.phase = "deciding", !.found = TRUE])
        BY <1>1, <3>3 DEF Become, CallState
      <3>4. QED
        BY <1>5, <3>1, <3>2, <3>3 DEF Archive, Verify
    <2>2. UNCHANGED audits
      BY <1>5 DEF Archive, Verify, OfCall
    <2>3. QED
      BY <1>2, <2>1, <2>2 DEF Blanks, Moves, NoneFound
  <1>7. QED
    BY <1>3, <1>4, <1>5

\* A call says so in its answer only if it has the reason, and the audit likewise.
LEMMA KeepsBlanks ==
    ASSUME TypeOK, Blanks, Next
    PROVE  Blanks'
  <1>0. row'.ids = row.ids /\ (AllBlank' <=> AllBlank)
    BY IdsStay
  <1>1. ASSUME NEW k \in Call, NEW c \in Commands, NEW b \in Sent, Claim(k, c, b)
        PROVE  Blanks'
    BY <1>0, <1>1, ClaimBlank DEF Blanks, NoneFound
  <1>2. ASSUME NEW k \in Call, NEW c \in Commands, NEW b \in Sent, Replay(k, c, b)
        PROVE  Blanks'
    <2>1. call'[k].reason = "none" /\ call'[k].answer = audits[c] /\ call'[k].phase = "over"
      BY <1>2 DEF Replay, Become, With, TypeOK
    <2>2. QED
      BY <1>0, <1>2, <2>1, ReplayEffect DEF Blanks, NoneFound
  <1>3. ASSUME NEW k \in Call, Check(k) \/ Poll(k) \/ Archive(k) \/ Verify(k)
        PROVE  Blanks'
    BY <1>0, <1>3, WayBlank DEF Blanks
  <1>4. ASSUME NEW k \in Call, DecisionFails(k) \/ Close(k) \/ Crash(k)
        PROVE  Blanks'
    <2>1. call'[k].reason = "none"
      <3>1. \A ph : Blank(ph).reason = "none"
        BY DEF Blank, With
      <3>2. Become(k, Blank("closing")) \/ Become(k, Blank("over"))
        BY <1>4 DEF DecisionFails, Close, Crash
      <3>3. QED
        BY <3>1, <3>2 DEF Become, TypeOK
    <2>2. QED
      BY <1>0, <1>4, <2>1, EndEffect DEF Blanks, NoneFound
  <1>5. ASSUME NEW k \in Call, Decide(k)
        PROVE  Blanks'
    <2>1. call'[k].reason = "none"
      BY <1>5 DEF Decide, Become, With, TypeOK
    <2>2. EntryOf(k).reason = call[k].reason
      BY DEF EntryOf
    <2>3. \A c \in Commands : audits'[c] = audits[c] \/ audits'[c] = EntryOf(k)
      BY <1>5, DecideEffect DEF TypeOK
    <2>4. QED
      BY <1>0, <1>5, <2>1, <2>2, <2>3, DecideEffect DEF Blanks, NoneFound
  <1>6. ASSUME LeaseExpires \/ (\E i \in UpstreamId : LateId(i))
                 \/ (\E s \in Sweep : SweepDefers(s)) \/ SweepMoves
        PROVE  Blanks'
    BY <1>0, <1>6, OtherEffect DEF Blanks
  <1>7. QED
    BY <1>1, <1>2, <1>3, <1>4, <1>5, <1>6, StepCases DEF Work

\* A sweep goes on to a phase and waits for no call.
LEMMA GoEffect ==
    ASSUME sweep \in [Sweep -> SweepState], NEW s \in Sweep, NEW ph, Go(s, ph)
    PROVE  sweep'[s].phase = ph /\ \A r \in Sweep \ {s} : sweep'[r] = sweep[r]
  <1>1. sweep[s] \in SweepState
    OBVIOUS
  <1>2. sweep'[s] = [[sweep[s] EXCEPT !.phase = ph] EXCEPT !.call = NoCall]
    BY DEF Go
  <1>3. QED
    BY <1>1, <1>2 DEF Go, SweepState

\* A sweep that waits has a call to wait for.
LEMMA SweepCallsEffect ==
    ASSUME sweep \in [Sweep -> SweepState], NEW s \in Sweep, NEW q, NEW ph, NEW c, NEW b,
           SweepCalls(s, q, ph, c, b)
    PROVE  /\ \/ sweep'[s].phase = ph /\ sweep'[s].call \in Call
              \/ sweep'[s].phase = "defer"
           /\ \A r \in Sweep \ {s} : sweep'[r] = sweep[r]
  <1>1. ASSUME NEW k \in Call, sweep' = [sweep EXCEPT ![s].phase = ph, ![s].call = k]
        PROVE  /\ sweep'[s].phase = ph /\ sweep'[s].call = k
               /\ \A r \in Sweep \ {s} : sweep'[r] = sweep[r]
    <2>1. sweep'[s] = [[sweep[s] EXCEPT !.phase = ph] EXCEPT !.call = k]
      BY <1>1
    <2>2. sweep[s] \in SweepState
      OBVIOUS
    <2>3. QED
      BY <1>1, <2>1, <2>2 DEF SweepState
  <1>2. QED
    BY <1>1, GoEffect DEF SweepCalls

\* A sweep goes on to its verdict with an answer that found nothing.
LEMMA KeepsSweepsBlank ==
    ASSUME TypeOK, Blanks, SweepsBlank, Next
    PROVE  SweepsBlank'
  <1>0. AllBlank' <=> AllBlank
    BY IdsStay
  <1>1. sweep \in [Sweep -> SweepState]
    BY DEF TypeOK
  <1>2. ASSUME NEW s \in Sweep, SweepStep(s)
        PROVE  SweepsBlank'
    <2>1. CASE SweepRead(s)
      BY <1>0, <1>1, <2>1 DEF SweepRead, SweepsBlank
    <2>2. CASE SweepLooksUp(s)
      BY <1>0, <1>1, <2>2, SweepCallsEffect DEF SweepLooksUp, SweepsBlank
    <2>3. CASE SweepConfirms(s)
      <3>1. AllBlank
        BY <2>3 DEF SweepConfirms, SweepCalls, SweepsBlank
      <3>2. QED
        BY <1>0, <1>1, <2>3, <3>1, SweepCallsEffect DEF SweepConfirms, SweepsBlank
    <2>4. CASE SweepReturns(s)
      <3> DEFINE answer == call[sweep[s].call].answer
      <3>1. sweep[s].call \in Call
        BY <2>4 DEF SweepReturns, SweepsBlank
      <3>2. CASE answer # NoEntry /\ ConfirmsNoResult(answer)
        <4>1. AllBlank
          BY <3>1, <3>2 DEF ConfirmsNoResult, Blanks, NoneFound
        <4>2. Go(s, "defer") \/ Go(s, "idle") \/ Go(s, "verdict")
          BY <2>4 DEF SweepReturns
        <4>3. QED
          BY <1>0, <1>1, <4>1, <4>2, GoEffect DEF SweepsBlank
      <3>3. CASE ~(answer # NoEntry /\ ConfirmsNoResult(answer))
        <4>1. Go(s, "defer") \/ Go(s, "idle")
          BY <2>4, <3>3 DEF SweepReturns
        <4>2. QED
          BY <1>0, <1>1, <4>1, GoEffect DEF SweepsBlank
      <3>4. QED
        BY <3>2, <3>3
    <2>5. CASE SweepDefers(s) \/ SweepDies(s)
      BY <1>0, <1>1, <2>5, GoEffect DEF SweepDefers, SweepDies, SweepsBlank
    <2>6. QED
      BY <1>2, <2>1, <2>2, <2>3, <2>4, <2>5 DEF SweepStep
  <1>3. ASSUME NEW k \in Call, Crash(k)
        PROVE  SweepsBlank'
    <2>1. \A s \in Sweep : sweep'[s] = sweep[s] \/ sweep'[s].phase = "idle"
      BY <1>1, <1>3 DEF Crash, SweepState
    <2>2. QED
      BY <1>0, <2>1 DEF SweepsBlank
  <1>4. ASSUME UNCHANGED sweep
        PROVE  SweepsBlank'
    BY <1>0, <1>4 DEF SweepsBlank
  <1>5. ASSUME NEW k \in Call, Operate(k) \/ Work(k)
        PROVE  UNCHANGED sweep
    BY <1>5 DEF Operate, Work, Check, Poll, Archive, Verify, Decide, DecisionFails, Close, OfCall
  <1>6. Tick \/ LeaseExpires \/ (\E i \in UpstreamId : LateId(i)) => UNCHANGED sweep
    BY DEF Tick, LeaseExpires, LateId
  <1>7. QED
    BY <1>2, <1>3, <1>4, <1>5, <1>6 DEF Next

-----------------------------------------------------------------------------
(* What a sweep knows of the ids that were reported late                   *)

NoImage(ids) == \A i \in ids : upstream[i] = "blank"

\* Who says that there is nothing to find has found all the ids it knew blank.
Asked ==
    /\ \A k \in Call : call[k].reason = NoneFound => NoImage(call[k].ids)
    /\ \A c \in Commands :
          audits[c] # NoEntry /\ audits[c].reason = NoneFound => NoImage(audits[c].ids)

\* A call works on the look-up of window w, or has ended without an answer.
WorksOn(k, w) ==
    \/ call[k].phase \in {"closing", "over"} /\ call[k].answer = NoEntry
    \/ call[k].phase # "unused" /\ call[k].command = AutoLookup(w)

\* A sweep waits for the look-up of its window, and goes on to its verdict only when
\* the audit of that look-up says that there is nothing.
FoundNone(w) == audits[AutoLookup(w)] # NoEntry /\ audits[AutoLookup(w)].reason = NoneFound
Waited ==
    \A s \in Sweep :
        /\ sweep[s].phase = "lookingUp" =>
              sweep[s].call \in Call /\ WorksOn(sweep[s].call, sweep[s].window)
        /\ sweep[s].phase \in {"verdict", "judging"} => FoundNone(sweep[s].window)

\* Poll gives this reason for no id, or for ids that all came to nothing.
LEMMA PollAsked ==
    ASSUME TypeOK, Asked, NEW k \in Call, Check(k) \/ Poll(k) \/ Archive(k) \/ Verify(k)
    PROVE  /\ call'[k].ids = call[k].ids
           /\ call'[k].reason = NoneFound => NoImage(call[k].ids)
  <1>1. call[k] \in CallState /\ call \in [Call -> CallState]
    BY DEF TypeOK
  <1>2. ASSUME NEW r, GiveUp(k, r)
        PROVE  call'[k].ids = call[k].ids /\ call'[k].reason = r
    BY <1>1, <1>2 DEF GiveUp, Become, CallState
  <1>4. CASE \E ph, p : \/ Become(k, [call[k] EXCEPT !.phase = ph, !.payload = p])
                        \/ Become(k, [call[k] EXCEPT !.phase = ph])
                        \/ Become(k, [call[k] EXCEPT !.phase = ph, !.found = p])
    <2>1. call'[k].ids = call[k].ids /\ call'[k].reason = call[k].reason
      <3>1. PICK ph, p : \/ Become(k, [call[k] EXCEPT !.phase = ph, !.payload = p])
                         \/ Become(k, [call[k] EXCEPT !.phase = ph])
                         \/ Become(k, [call[k] EXCEPT !.phase = ph, !.found = p])
        BY <1>4
      <3>2. \/ call'[k] = [call[k] EXCEPT !.phase = ph, !.payload = p]
            \/ call'[k] = [call[k] EXCEPT !.phase = ph]
            \/ call'[k] = [call[k] EXCEPT !.phase = ph, !.found = p]
        BY <1>1, <3>1 DEF Become
      <3>3. QED
        BY <1>1, <3>2 DEF CallState
    <2>2. QED
      BY <2>1 DEF Asked
  <1>5. CASE GiveUp(k, "archive_incomplete") \/ GiveUp(k, "upstream_result_unknown")
    BY <1>2, <1>5 DEF NoneFound
  <1>6. CASE GiveUp(k, NoneFound) /\ call[k].ids = {}
    BY <1>2, <1>6 DEF NoImage
  <1>7. CASE GiveUp(k, NoneFound) /\ ~ \E i \in call[k].ids : upstream[i] = "images"
    BY <1>1, <1>2, <1>7 DEF NoImage, TypeOK, CallState
  <1>8. CASE Check(k)
    BY <1>4, <1>5, <1>8 DEF Check
  <1>9. CASE Poll(k)
    BY <1>4, <1>5, <1>6, <1>7, <1>9 DEF Poll, NoneFound
  <1>10. CASE Archive(k) \/ Verify(k)
    BY <1>4, <1>5, <1>10 DEF Archive, Verify
  <1>11. QED
    BY <1>8, <1>9, <1>10

\* A call that ends without an answer knows no id.
LEMMA EndAsked ==
    ASSUME TypeOK, NEW k \in Call, DecisionFails(k) \/ Close(k) \/ Crash(k)
    PROVE  call'[k].reason = "none"
  <1>1. \A ph : Blank(ph).reason = "none"
    BY DEF Blank, With
  <1>2. \E ph : Become(k, Blank(ph))
    BY DEF DecisionFails, Close, Crash
  <1>3. QED
    BY <1>1, <1>2 DEF Become, TypeOK

LEMMA KeepsAsked ==
    ASSUME TypeOK, Asked, Next
    PROVE  Asked'
  <1>0. upstream' = upstream
    BY IdsStay
  <1>1. ASSUME NEW k \in Call, NEW c \in Commands, NEW b \in Sent, Claim(k, c, b)
        PROVE  Asked'
    BY <1>0, <1>1, ClaimBlank DEF Asked, NoImage, NoneFound
  <1>2. ASSUME NEW k \in Call, NEW c \in Commands, NEW b \in Sent, Replay(k, c, b)
        PROVE  Asked'
    <2>1. call'[k].reason = "none"
      BY <1>2 DEF Replay, Become, With, TypeOK
    <2>2. QED
      BY <1>0, <1>2, <2>1, ReplayEffect DEF Asked, NoImage, NoneFound
  <1>3. ASSUME NEW k \in Call, Check(k) \/ Poll(k) \/ Archive(k) \/ Verify(k)
        PROVE  Asked'
    <2>1. UNCHANGED audits /\ \A j \in Call \ {k} : call'[j] = call[j]
      BY <1>3, WayEffect DEF Moves
    <2>2. QED
      BY <1>0, <1>3, <2>1, PollAsked DEF Asked, NoImage
  <1>4. ASSUME NEW k \in Call, DecisionFails(k) \/ Close(k) \/ Crash(k)
        PROVE  Asked'
    BY <1>0, <1>4, EndEffect, EndAsked DEF Asked, NoImage, NoneFound
  <1>5. ASSUME NEW k \in Call, Decide(k)
        PROVE  Asked'
    <2>1. EntryOf(k).reason = call[k].reason /\ EntryOf(k).ids = call[k].ids
      BY DEF EntryOf
    <2>2. call'[k].reason = "none"
      BY <1>5 DEF Decide, Become, With, TypeOK
    <2>3. \A c \in Commands : audits'[c] = audits[c] \/ audits'[c] = EntryOf(k)
      BY <1>5, DecideEffect DEF TypeOK
    <2>4. QED
      BY <1>0, <1>5, <2>1, <2>2, <2>3, DecideEffect DEF Asked, NoImage, NoneFound
  <1>6. ASSUME LeaseExpires \/ (\E i \in UpstreamId : LateId(i))
                 \/ (\E s \in Sweep : SweepDefers(s)) \/ SweepMoves
        PROVE  Asked'
    BY <1>0, <1>6, OtherEffect DEF Asked, NoImage
  <1>7. QED
    BY <1>1, <1>2, <1>3, <1>4, <1>5, <1>6, StepCases DEF Work

\* An audit is entered once, and a call goes on with the command it began with.
LEMMA AuditsStay ==
    ASSUME IInv, Next, NEW c \in Commands, audits[c] # NoEntry
    PROVE  audits'[c] = audits[c]
  <1>1. ASSUME NEW k \in Call, Decide(k)
        PROVE  audits'[c] = audits[c]
    BY <1>1, DecideEffect DEF IInv, Owns, Unanswered, TypeOK
  <1>2. QED
    BY <1>1, StepCases, ClaimRow, ReplayEffect, WayEffect, EndEffect, OtherEffect DEF Work, IInv

LEMMA WorksStays ==
    ASSUME TypeOK, Next, NEW j \in Call, NEW w, WorksOn(j, w)
    PROVE  WorksOn(j, w)'
  <1>0. call[j].phase # "unused"
    BY DEF WorksOn
  <1>1. ASSUME NEW k \in Call, NEW c \in Commands, NEW b \in Sent, Claim(k, c, b) \/ Replay(k, c, b)
        PROVE  WorksOn(j, w)'
    BY <1>0, <1>1, ClaimEffect, ReplayEffect DEF WorksOn
  <1>2. ASSUME NEW k \in Call, Check(k) \/ Poll(k) \/ Archive(k) \/ Verify(k)
        PROVE  WorksOn(j, w)'
    BY <1>2, WayEffect DEF Moves, WorksOn
  <1>3. ASSUME NEW k \in Call, DecisionFails(k) \/ Close(k) \/ Crash(k)
        PROVE  WorksOn(j, w)'
    BY <1>3, EndEffect DEF WorksOn
  <1>4. ASSUME NEW k \in Call, Decide(k)
        PROVE  WorksOn(j, w)'
    BY <1>4, DecideEffect DEF WorksOn
  <1>5. ASSUME LeaseExpires \/ (\E i \in UpstreamId : LateId(i))
                 \/ (\E s \in Sweep : SweepDefers(s)) \/ SweepMoves
        PROVE  WorksOn(j, w)'
    BY <1>5, OtherEffect DEF WorksOn
  <1>6. QED
    BY <1>1, <1>2, <1>3, <1>4, <1>5, StepCases DEF Work

\* What a sweep is to keep, and that it does while the sweep does not move.
Waits(s) ==
    /\ sweep[s].phase = "lookingUp" =>
          sweep[s].call \in Call /\ WorksOn(sweep[s].call, sweep[s].window)
    /\ sweep[s].phase \in {"verdict", "judging"} => FoundNone(sweep[s].window)

LEMMA FoundStays ==
    ASSUME IInv, Next, NEW s \in Sweep, NEW w, w = sweep[s].window, FoundNone(w)
    PROVE  FoundNone(w)'
  <1>1. AutoLookup(w) \in Commands
    BY Inputs DEF IInv
  <1>2. audits'[AutoLookup(w)] = audits[AutoLookup(w)]
    BY <1>1, AuditsStay DEF FoundNone
  <1>3. QED
    BY <1>2 DEF FoundNone, AutoLookup

LEMMA StillWaits ==
    ASSUME IInv, Next, NEW s \in Sweep, Waits(s), sweep'[s] = sweep[s]
    PROVE  Waits(s)'
  <1>1. PICK j, w : j = sweep[s].call /\ w = sweep[s].window
    OBVIOUS
  <1>2. j \in Call /\ WorksOn(j, w) => WorksOn(j, w)'
    BY WorksStays DEF IInv
  <1>3. FoundNone(w) => FoundNone(w)'
    BY <1>1, FoundStays
  <1>4. sweep[s].phase = "lookingUp" => j \in Call /\ WorksOn(j, w)'
    BY <1>1, <1>2 DEF Waits
  <1>5. sweep[s].phase \in {"verdict", "judging"} => FoundNone(w)'
    BY <1>1, <1>3 DEF Waits
  <1>6. sweep'[s].call = j /\ sweep'[s].window = w /\ sweep'[s].phase = sweep[s].phase
    BY <1>1
  <1>7. QED
    BY <1>4, <1>5, <1>6 DEF Waits, WorksOn, FoundNone

\* A sweep that moves on keeps its window.
LEMMA GoWindow ==
    ASSUME sweep \in [Sweep -> SweepState], NEW s \in Sweep, NEW ph, Go(s, ph)
    PROVE  sweep'[s].window = sweep[s].window /\ sweep'[s].phase = ph
  <1>1. sweep[s] \in SweepState
    OBVIOUS
  <1>2. sweep'[s] = [[sweep[s] EXCEPT !.phase = ph] EXCEPT !.call = NoCall]
    BY DEF Go
  <1>3. QED
    BY <1>1, <1>2 DEF SweepState

\* The call a sweep waits for works on its look-up, or repeats it.
LEMMA LooksUpWaits ==
    ASSUME IInv, Next, NEW s \in Sweep, SweepLooksUp(s)
    PROVE  Waits(s)'
  <1>1. sweep \in [Sweep -> SweepState] /\ sweep[s] \in SweepState
    BY DEF IInv, TypeOK
  <1>2. PICK w : w = sweep[s].window
    OBVIOUS
  <1>3. AutoLookup(w) \in Commands /\ Lookup \in Sent
    BY <1>2, Inputs DEF IInv
  <1>4. ASSUME NEW k \in Call,
               Claim(k, AutoLookup(w), Lookup) \/ Replay(k, AutoLookup(w), Lookup),
               sweep' = [sweep EXCEPT ![s].phase = "lookingUp", ![s].call = k]
        PROVE  Waits(s)'
    <2>1. sweep'[s] = [[sweep[s] EXCEPT !.phase = "lookingUp"] EXCEPT !.call = k]
      BY <1>1, <1>4
    <2>2. sweep'[s].phase = "lookingUp" /\ sweep'[s].call = k /\ sweep'[s].window = w
      BY <1>1, <1>2, <2>1 DEF SweepState
    <2>3. call'[k].phase # "unused" /\ call'[k].command = AutoLookup(w)
      BY <1>3, <1>4, ClaimEffect, ReplayEffect DEF IInv
    <2>4. QED
      BY <2>2, <2>3 DEF Waits, WorksOn, AutoLookup
  <1>5. CASE Go(s, "defer")
    BY <1>1, <1>5, GoWindow DEF Waits
  <1>6. QED
    BY <1>2, <1>4, <1>5 DEF SweepLooksUp, SweepCalls

\* It goes on to its verdict with the audit of that look-up as the answer.
LEMMA ReturnsWaits ==
    ASSUME IInv, Next, NEW s \in Sweep, Waits(s), SweepReturns(s)
    PROVE  Waits(s)'
  <1>1. sweep \in [Sweep -> SweepState]
    BY DEF IInv, TypeOK
  <1>2. PICK w : w = sweep[s].window
    OBVIOUS
  <1> DEFINE answer == call[sweep[s].call].answer
  <1>3. CASE sweep[s].phase = "lookingUp" /\ answer # NoEntry /\ ConfirmsNoResult(answer)
    <2>1. sweep[s].call \in Call /\ call[sweep[s].call].command = AutoLookup(w)
      BY <1>2, <1>3 DEF Waits, WorksOn
    <2>2. answer = audits[AutoLookup(w)]
      BY <1>3, <2>1 DEF IInv, Answered
    <2>3. FoundNone(w)
      BY <1>3, <2>2 DEF FoundNone, ConfirmsNoResult, NoneFound
    <2>4. FoundNone(w)'
      BY <1>2, <2>3, FoundStays
    <2>5. Go(s, "defer") \/ Go(s, "idle") \/ Go(s, "verdict")
      BY DEF SweepReturns
    <2>6. sweep'[s].window = w /\ sweep'[s].phase # "lookingUp"
      BY <1>1, <1>2, <2>5, GoWindow
    <2>7. QED
      BY <2>4, <2>6 DEF Waits, FoundNone
  <1>4. CASE ~ (sweep[s].phase = "lookingUp" /\ answer # NoEntry /\ ConfirmsNoResult(answer))
    <2>1. Go(s, "defer") \/ Go(s, "idle")
      BY <1>4 DEF SweepReturns
    <2>2. QED
      BY <1>1, <2>1, GoWindow DEF Waits
  <1>5. QED
    BY <1>3, <1>4

\* It stays with that audit while it asks for the refund.
LEMMA ConfirmsWaits ==
    ASSUME IInv, Next, NEW s \in Sweep, Waits(s), SweepConfirms(s)
    PROVE  Waits(s)'
  <1>1. sweep \in [Sweep -> SweepState] /\ sweep[s] \in SweepState
    BY DEF IInv, TypeOK
  <1>2. PICK w : w = sweep[s].window
    OBVIOUS
  <1>3. FoundNone(w)'
    BY <1>2, FoundStays DEF Waits, SweepConfirms, SweepCalls
  <1>4. ASSUME NEW k \in Call,
               sweep' = [sweep EXCEPT ![s].phase = "judging", ![s].call = k]
        PROVE  Waits(s)'
    <2>1. sweep'[s] = [[sweep[s] EXCEPT !.phase = "judging"] EXCEPT !.call = k]
      BY <1>1, <1>4
    <2>2. sweep'[s].phase = "judging" /\ sweep'[s].window = w
      BY <1>1, <1>2, <2>1 DEF SweepState
    <2>3. QED
      BY <1>3, <2>2 DEF Waits, FoundNone
  <1>5. CASE Go(s, "defer")
    BY <1>1, <1>5, GoWindow DEF Waits
  <1>6. QED
    BY <1>4, <1>5 DEF SweepConfirms, SweepCalls

LEMMA KeepsWaited ==
    ASSUME IInv, Waited, Next
    PROVE  Waited'
  <1>1. sweep \in [Sweep -> SweepState] /\ \A s \in Sweep : Waits(s)
    BY DEF IInv, TypeOK, Waited, Waits
  <1> SUFFICES ASSUME NEW s \in Sweep PROVE Waits(s)'
    BY DEF Waited, Waits
  <1>2. ASSUME NEW r \in Sweep, SweepStep(r), r # s
        PROVE  sweep'[s] = sweep[s]
    <2>1. CASE SweepRead(r)
      BY <1>1, <1>2, <2>1 DEF SweepRead
    <2>2. CASE SweepLooksUp(r) \/ SweepConfirms(r)
      BY <1>1, <1>2, <2>2, SweepCallsEffect DEF SweepLooksUp, SweepConfirms
    <2>3. CASE SweepReturns(r) \/ SweepDefers(r) \/ SweepDies(r)
      <3>1. \E ph : Go(r, ph)
        BY <2>3 DEF SweepReturns, SweepDefers, SweepDies
      <3>2. QED
        BY <1>1, <1>2, <3>1, GoEffect
    <2>4. QED
      BY <1>2, <2>1, <2>2, <2>3 DEF SweepStep
  <1>3. CASE SweepStep(s)
    <2>1. CASE SweepRead(s)
      BY <1>1, <2>1 DEF SweepRead, Waits
    <2>2. CASE SweepDefers(s) \/ SweepDies(s)
      BY <1>1, <2>2, GoWindow DEF SweepDefers, SweepDies, Waits
    <2>3. QED
      BY <1>1, <1>3, <2>1, <2>2, LooksUpWaits, ReturnsWaits, ConfirmsWaits DEF SweepStep
  <1>4. ASSUME NEW k \in Call, Crash(k)
        PROVE  Waits(s)'
    <2>1. sweep'[s] = sweep[s] \/ sweep'[s].phase = "idle"
      BY <1>1, <1>4 DEF Crash, SweepState
    <2>2. QED
      BY <1>1, <2>1, StillWaits DEF Waits
  <1>5. ASSUME UNCHANGED sweep
        PROVE  Waits(s)'
    BY <1>1, <1>5, StillWaits
  <1>6. ASSUME NEW k \in Call, Operate(k) \/ Work(k)
        PROVE  UNCHANGED sweep
    BY <1>6 DEF Operate, Work, Check, Poll, Archive, Verify, Decide, DecisionFails, Close, OfCall
  <1>7. Tick \/ LeaseExpires \/ (\E i \in UpstreamId : LateId(i)) => UNCHANGED sweep
    BY DEF Tick, LeaseExpires, LateId
  <1>8. QED
    BY <1>1, <1>2, <1>3, <1>4, <1>5, <1>6, <1>7, StillWaits DEF Next

\* A sweep refunds a task only when every stored id, and every id that was known to
\* the look-up it goes by, was polled to its end and had no image, whatever other
\* sweeps, late executions and operators do between its look-up and its verdict
\* (autoReconcileTasks).
THEOREM RefundsBlank == Spec => RefundedWorkIsBlank
  <1> DEFINE Evident == Blanks /\ SweepsBlank /\ Asked /\ Waited
  <1>1. Init => Evident
    <2> SUFFICES ASSUME Init PROVE Evident
      OBVIOUS
    <2>1. \A ph : /\ Blank(ph).phase = ph /\ Blank(ph).answer = NoEntry
                  /\ Blank(ph).reason = "none"
      BY DEF Blank, With
    <2>2. Blanks /\ SweepsBlank
      BY <2>1 DEF Init, Blanks, SweepsBlank, NoneFound
    <2>3. Asked /\ Waited
      BY <2>1 DEF Init, Asked, Waited, NoneFound
    <2>4. QED
      BY <2>2, <2>3
  <1>2. IInv /\ Evident /\ [Next]_vars => Evident'
    <2>1. ASSUME Evident, UNCHANGED vars PROVE Evident'
      BY <2>1 DEF Blanks, SweepsBlank, AllBlank, Asked, Waited, NoImage, WorksOn, FoundNone,
                  AutoLookup, vars
    <2>2. QED
      BY <2>1, KeepsBlanks, KeepsSweepsBlank, KeepsAsked, KeepsWaited DEF IInv
  <1>3. IInv /\ Evident =>
          \A s \in Sweep :
             sweep[s].phase = "judging" /\ row.status = "reconciling" /\ row'.status = "failed"
                /\ audits'[AutoNone] # audits[AutoNone]
                 => \A i \in row.ids \cup audits[AutoLookup(sweep[s].window)].ids :
                        upstream[i] = "blank"
    <2> SUFFICES ASSUME IInv, Evident, NEW s \in Sweep, sweep[s].phase = "judging"
                 PROVE  \A i \in row.ids \cup audits[AutoLookup(sweep[s].window)].ids :
                            upstream[i] = "blank"
      OBVIOUS
    <2>1. \A i \in row.ids : upstream[i] = "blank"
      BY DEF SweepsBlank, AllBlank
    <2>2. AutoLookup(sweep[s].window) \in Commands /\ FoundNone(sweep[s].window)
      BY Inputs DEF IInv, Waited
    <2>3. NoImage(audits[AutoLookup(sweep[s].window)].ids)
      BY <2>2 DEF Asked, FoundNone
    <2>4. QED
      BY <2>1, <2>3 DEF NoImage
  <1>4. QED
    BY <1>1, <1>2, <1>3, Inductive, PTL DEF Spec, RefundedWorkIsBlank

=============================================================================
