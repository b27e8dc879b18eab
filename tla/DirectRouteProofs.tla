-------------------------- MODULE DirectRouteProofs ---------------------------
(***************************************************************************)
(* Proofs about DirectRoute, for any calls, keys and limits: it is well    *)
(* typed; the requests in flight, the images of any minute and the cost on *)
(* a key stay within the limits of the bucket and the cap of the key; and  *)
(* what a group of requests throws shows whether one of them may have run, *)
(* so that the call neither moves to another key, nor gives back its hold, *)
(* nor fails for good behind such a request.                               *)
(***************************************************************************)
EXTENDS DirectRoute, FiniteSetTheorems, WellFoundedInduction, TLAPS

-----------------------------------------------------------------------------
(* Choosing the least number of a set                                      *)

\* The elements up to i, for every i: of these finite sets one is minimal.
LEMMA LeastExists ==
    ASSUME NEW S \in SUBSET Nat, S # {}
    PROVE  \E i \in S : \A j \in S : i <= j
<1> DEFINE UpTo(i) == {j \in S : j <= i}
           T == {UpTo(i) : i \in S}
<1>1. \A i \in S : UpTo(i) \in FiniteSubsetsOf(Nat)
  <2> TAKE i \in S
  <2>1. IsFiniteSet(UpTo(i))
    BY FS_BoundedSetOfNaturals
  <2> QED
    BY <2>1 DEF FiniteSubsetsOf
<1>2. T \subseteq FiniteSubsetsOf(Nat) /\ T # {}
  BY <1>1
<1>3. \E X \in T : \A Y \in T : ~ (<<Y, X>> \in StrictSubsetOrdering(Nat))
  <2> HIDE DEF T
  <2> QED
    BY <1>2, FS_StrictSubsetOrderingWellFounded, WFMin
<1>4. PICK i \in S : \A j \in S : ~ (<<UpTo(j), UpTo(i)>> \in StrictSubsetOrdering(Nat))
  BY <1>3
<1>5. \A j \in S : i <= j
  <2> SUFFICES ASSUME NEW j \in S, ~ (i <= j)
               PROVE  FALSE
    OBVIOUS
  <2>0. S \subseteq Nat /\ i \in Nat /\ j \in Nat /\ j < i
    OBVIOUS
  <2>1. UpTo(j) \subseteq UpTo(i) /\ i \in UpTo(i) /\ i \notin UpTo(j)
    <3>1. \A k \in S : k <= j => k <= i
      BY <2>0
    <3>2. i <= i /\ ~ (i <= j)
      BY <2>0
    <3> QED
      BY <3>1, <3>2
  <2>2. UpTo(i) \in SUBSET Nat /\ UpTo(j) \in SUBSET Nat
    OBVIOUS
  <2> HIDE DEF UpTo
  <2> QED
    BY <1>4, <2>1, <2>2 DEF StrictSubsetOrdering
<1> QED
  BY <1>5

LEMMA EarliestIn ==
    ASSUME NEW S \in SUBSET Nat, S # {}
    PROVE  Earliest(S) \in S
<1>1. \E i \in S : \A j \in S : i <= j
  BY LeastExists
<1> QED
  BY <1>1 DEF Earliest

-----------------------------------------------------------------------------
(* Types, by variables                                                     *)

Calls  == call \in [Call -> CallState]
Reqs   == DOMAIN req = Call /\ \A c \in Call : req[c] \in [Req(c) -> ReqState]
Leases == lease \in [Attempt -> Row] /\ cool \in 0 .. Cooldown /\ aired \in [Attempt -> 0 .. Window]
Costed == hold \in [Slot -> 0 .. HoldTTL] /\ usage \in [Key -> Nat] /\ billed \in [Key -> Nat]
States == disabled \subseteq Key /\ chill \in [Key -> 0 .. Cooldown]
Past   == ran \in [Call -> {"no", "yes", "hidden"}] /\ faults \in 0 .. MaxFaults

LEMMA Types == TypeOK <=> Calls /\ Reqs /\ Leases /\ Costed /\ States /\ Past
BY DEF TypeOK, Calls, Reqs, Leases, Costed, States, Past

LEMMA Terms ==
    /\ Window \in Nat /\ LeaseTTL \in Nat /\ Cooldown \in Nat
    /\ Deadline \in Nat /\ HoldTTL \in Nat /\ MaxFaults \in Nat /\ Keys \in Nat
BY LimitAssumption

LEMMA FaultTyped ==
    ASSUME faults \in 0 .. MaxFaults, Fault
    PROVE  faults' \in 0 .. MaxFaults
BY Terms DEF Fault

LEMMA RowTyped ==
    ASSUME NEW r \in Row
    PROVE  /\ r.st \in {"none", "live", "released"} /\ r.age \in 0 .. Window
           /\ r.quiet \in 0 .. LeaseTTL + 1
           /\ [r EXCEPT !.st = "released", !.quiet = 0] \in Row
           /\ NoRow \in Row
<1>1. 0 \in 0 .. Window /\ 0 \in 0 .. LeaseTTL + 1
  BY Terms
<1>2. \A q \in 0 .. LeaseTTL + 1 : [r EXCEPT !.st = "released", !.quiet = q] \in Row
  BY DEF Row
<1>3. r.st \in {"none", "live", "released"} /\ r.age \in 0 .. Window /\ r.quiet \in 0 .. LeaseTTL + 1
  BY DEF Row
<1>4. NoRow \in Row
  BY <1>1 DEF Row, NoRow
<1> QED
  BY <1>1, <1>2, <1>3, <1>4

LEMMA NoRowTyped == NoRow \in Row
BY Terms DEF NoRow, Row

LEMMA SweptTyped == ASSUME Leases PROVE Swept \in [Attempt -> Row]
<1> SUFFICES ASSUME NEW a \in Attempt PROVE Swept[a] \in Row
  BY DEF Swept
<1>1. lease[a] \in Row
  BY DEF Leases
<1> QED
  BY <1>1, RowTyped DEF Swept

LEMMA LeasedTyped ==
    ASSUME Leases, NEW a
    PROVE  Leased(a) \in [Attempt -> Row] /\ Released(a) \in [Attempt -> Row]
           /\ Refunded(a) \in [Attempt -> Row]
<1>1. lease \in [Attempt -> Row] /\ Swept \in [Attempt -> Row]
  BY SweptTyped DEF Leases
<1>2. \A r \in Row : [r EXCEPT !.st = "released", !.quiet = 0] \in Row
  BY RowTyped
<1>3. NoRow \in Row /\ [NoRow EXCEPT !.st = "live"] \in Row
  BY Terms DEF Row, NoRow
<1>4. Leased(a) \in [Attempt -> Row]
  BY <1>1, <1>3 DEF Leased
<1>5. Refunded(a) \in [Attempt -> Row]
  BY <1>1, <1>3 DEF Refunded
<1>6. Released(a) \in [Attempt -> Row]
  BY <1>1, <1>2, <1>3 DEF Released
<1> QED
  BY <1>4, <1>5, <1>6

LEMMA PutTyped ==
    ASSUME Calls, NEW c \in Call, NEW r \in CallState, Put(c, r)
    PROVE  Calls'
BY DEF Calls, Put

LEMMA PutReqsTyped ==
    ASSUME Reqs, NEW c \in Call, NEW s \in ReqState, PutReqs(c, s)
    PROVE  Reqs'
BY DEF Reqs, PutReqs, Requests

LEMMA PutReqTyped ==
    ASSUME Reqs, NEW c \in Call, NEW j \in Req(c), NEW s \in ReqState, PutReq(c, j, s)
    PROVE  Reqs'
BY DEF Reqs, PutReq

LEMMA NewCallTyped == NewCall \in CallState
BY Terms DEF NewCall, CallState

LEMMA FinishTyped ==
    ASSUME Calls, Reqs, NEW c \in Call,
           NEW e \in {"none", "ok", "failed", "unknown", "cancelled", "database"}, Finish(c, e)
    PROVE  Calls' /\ Reqs'
<1>1. NewCall \in CallState
  BY NewCallTyped
<1>2. \A r \in CallState : [r EXCEPT !.at = "ended", !.end = e] \in CallState
  BY ZenonT(40) DEF CallState
<1> QED
  BY <1>1, <1>2, PutTyped, PutReqsTyped DEF Finish, ReqState

LEMMA LeaveTyped ==
    ASSUME Calls, Reqs, NEW c \in Call, NEW e, NEW sent \in BOOLEAN, Leave(c, e, sent)
    PROVE  Calls' /\ Reqs'
<1>1. CASE Finish(c, Surfaced(c, e))
  <2>1. Surfaced(c, e) \in {"none", "ok", "failed", "unknown", "cancelled", "database"}
    BY DEF Surfaced
  <2> QED
    BY <1>1, <2>1, FinishTyped
<1>2. ASSUME NEW u \in BOOLEAN,
             Put(c, [NewCall EXCEPT !.at = "sub", !.first = FALSE, !.unsure = u,
                                    !.slow = call[c].slow, !.life = call[c].life]),
             PutReqs(c, "no")
      PROVE  Calls' /\ Reqs'
  <2>1. [NewCall EXCEPT !.at = "sub", !.first = FALSE, !.unsure = u,
                        !.slow = call[c].slow, !.life = call[c].life] \in CallState
    BY Terms DEF Calls, NewCall, CallState
  <2> QED
    BY <1>2, <2>1, PutTyped, PutReqsTyped DEF ReqState
<1>3. (sent /\ (call[c].stop = "switch" \/ IsUnknown(e))) \in BOOLEAN
  OBVIOUS
<1> QED
  BY <1>1, <1>2, <1>3 DEF Leave

Typed == Calls /\ Reqs /\ Leases /\ Costed /\ States /\ Past

LEMMA ToDirectTyped ==
    ASSUME Calls, NEW c \in Call, NEW f \in BOOLEAN, NEW u \in BOOLEAN, ToDirect(c, f, u)
    PROVE  Calls'
<1>1. call[c] \in CallState
  BY DEF Calls
<1>2. \A r \in CallState : [r EXCEPT !.at = "choosing", !.first = f, !.unsure = u] \in CallState
  BY DEF CallState
<1> QED
  BY <1>1, <1>2, PutTyped DEF ToDirect

LEMMA RoutesTyped ==
    ASSUME Typed, NEW c \in Call,
           StartDirect(c) \/ StartSub2api(c) \/ Sub2api(c)
    PROVE  Typed'
<1> USE DEF Typed
<1>1. CASE StartDirect(c)
  <2>1. Calls'
    BY <1>1, ToDirectTyped DEF StartDirect
  <2>2. Reqs' /\ Costed' /\ States' /\ Past'
    BY <1>1 DEF StartDirect, Budget, KeyState, Reqs, Costed, States, Past
  <2>3. Leases'
    BY <1>1, SweptTyped DEF StartDirect, Leases
  <2> QED
    BY <2>1, <2>2, <2>3
<1>2. CASE StartSub2api(c)
  <2>1. Calls' /\ Reqs'
    <3>1. CASE Finish(c, "failed")
      BY <3>1, FinishTyped
    <3>2. CASE Put(c, [call[c] EXCEPT !.at = "sub"]) /\ UNCHANGED req
      <4>1. [call[c] EXCEPT !.at = "sub"] \in CallState
        BY DEF Calls, CallState
      <4> QED
        BY <4>1, <3>2, PutTyped DEF Reqs
    <3> QED
      BY <1>2, <3>1, <3>2 DEF StartSub2api
  <2>2. Leases' /\ Costed' /\ States' /\ Past'
    BY <1>2 DEF StartSub2api, Bucket, Budget, KeyState, Leases, Costed, States, Past
  <2> QED
    BY <2>1, <2>2
<1>3. CASE Sub2api(c)
  <2>1. PICK e \in {"ok", "failed", "unknown", "cancelled"} :
          /\ ran' = [ran EXCEPT ![c] = IF e = "unknown" THEN "yes" ELSE @]
          /\ \/ /\ ToDirect(c, FALSE, e = "unknown")
                /\ lease' = Swept
                /\ UNCHANGED req
             \/ /\ Finish(c, IF e \in {"failed", "cancelled"} /\ call[c].unsure THEN "unknown" ELSE e)
                /\ UNCHANGED lease
    BY <1>3 DEF Sub2api
  <2>2. Calls' /\ Reqs'
    <3>1. CASE ToDirect(c, FALSE, e = "unknown") /\ UNCHANGED req
      <4>1. (e = "unknown") \in BOOLEAN
        OBVIOUS
      <4> QED
        BY <3>1, <4>1, ToDirectTyped DEF Reqs
    <3>2. CASE Finish(c, IF e \in {"failed", "cancelled"} /\ call[c].unsure THEN "unknown" ELSE e)
      BY <3>2, FinishTyped
    <3> QED
      BY <2>1, <3>1, <3>2
  <2>3. Leases'
    BY <1>3, <2>1, SweptTyped DEF Sub2api, Leases
  <2>4. Costed' /\ States' /\ Past'
    BY <1>3, <2>1 DEF Sub2api, Budget, KeyState, Costed, States, Past
  <2> QED
    BY <2>2, <2>3, <2>4
<1> QED
  BY <1>1, <1>2, <1>3

\* A key that can be used is a key.
LEMMA LeastKey ==
    ASSUME NEW U \in SUBSET Key, U # {}
    PROVE  (CHOOSE i \in U : \A l \in U : i <= l) \in U
<1>1. U \in SUBSET Nat
  BY Terms DEF Key
<1> QED
  BY <1>1, EarliestIn DEF Earliest

LEMMA KeysTyped ==
    ASSUME Typed, NEW c \in Call, Reserve(c) \/ Exhausted(c) \/ Halt(c)
    PROVE  Typed'
<1> USE DEF Typed
<1>1. CASE Reserve(c)
  <2> DEFINE usable == Usable(c, call[c].tried)
             k == CHOOSE i \in usable : \A l \in usable : i <= l
             tried == call[c].tried \cup {k}
             spare == Usable(c, tried) # {}
  <2>1. k \in Key
    <3>1. usable \in SUBSET Key /\ usable # {}
      BY <1>1 DEF Usable, Reserve
    <3> QED
      BY <3>1, LeastKey
  <2>2. spare \in BOOLEAN
    OBVIOUS
  <2>3. [call[c] EXCEPT !.at = "sending", !.key = k, !.tried = tried, !.stop = "no", !.spare = spare]
        \in CallState
    <3> HIDE DEF spare
    <3>1. tried \in SUBSET Key
      BY <2>1 DEF Calls, CallState
    <3> HIDE DEF tried, k
    <3> QED
      BY <2>1, <2>2, <3>1, ZenonT(40) DEF Calls, CallState
  <2>4. hold' = [hold EXCEPT ![<<c, k>>] = HoldTTL]
    BY <1>1 DEF Reserve
  <2>5. \/ /\ Put(c, [call[c] EXCEPT !.at = "sending", !.key = k, !.tried = tried, !.stop = "no",
                                     !.spare = spare])
           /\ PutReqs(c, "waiting") /\ UNCHANGED faults
        \/ Fault /\ Leave(c, "exhausted", FALSE)
    BY <1>1 DEF Reserve
  <2>6. Costed'
    <3> HIDE DEF k
    <3>1. HoldTTL \in 0 .. HoldTTL
      BY Terms
    <3> QED
      BY <1>1, <2>4, <3>1 DEF Costed, Reserve
  <2>7. Leases' /\ States' /\ ran' = ran
    BY <1>1 DEF Reserve, Bucket, KeyState, Leases, States
  <2> HIDE DEF spare, tried, k, usable
  <2>8. Calls' /\ Reqs'
    BY <2>3, <2>5, PutTyped, PutReqsTyped, LeaveTyped DEF ReqState
  <2>9. Past'
    BY <2>5, <2>7, FaultTyped DEF Past
  <2> QED
    BY <2>6, <2>7, <2>8, <2>9
<1>2. CASE Exhausted(c)
  <2>1. Calls' /\ Reqs'
    BY <1>2, LeaveTyped DEF Exhausted
  <2>2. Leases' /\ Costed' /\ States' /\ ran' = ran
    BY <1>2 DEF Exhausted, Bucket, Budget, KeyState, Leases, Costed, States
  <2>3. Past'
    BY <1>2, <2>2, FaultTyped DEF Exhausted, Past
  <2> QED
    BY <2>1, <2>2, <2>3
<1>3. CASE Halt(c)
  <2>1. Calls' /\ Reqs'
    <3>1. (call[c].tried # {}) \in BOOLEAN
      OBVIOUS
    <3> QED
      BY <1>3, <3>1, LeaveTyped DEF Halt
  <2>2. Leases' /\ Costed' /\ States' /\ Past'
    BY <1>3 DEF Halt, Bucket, Budget, KeyState, Leases, Costed, States, Past
  <2> QED
    BY <2>1, <2>2
<1> QED
  BY <1>1, <1>2, <1>3

LEMMA RequestTyped ==
    ASSUME Typed, NEW c \in Call, NEW j \in Req(c), Request(c, j)
    PROVE  Typed'
<1> USE DEF Typed
<1> DEFINE a == Lease(c, j)
<1>1. \A x : /\ Leased(x) \in [Attempt -> Row] /\ Released(x) \in [Attempt -> Row]
             /\ Refunded(x) \in [Attempt -> Row]
  BY LeasedTyped
<1>2. Swept \in [Attempt -> Row] /\ lease \in [Attempt -> Row]
  BY SweptTyped DEF Leases
<1>3. 0 \in 0 .. Window /\ Window \in 0 .. Window /\ Cooldown \in 0 .. Cooldown
  BY Terms
<1>4. CASE Grant(c, j)
  <2>1. Reqs'
    BY <1>4, PutReqTyped DEF Grant, ReqState
  <2>2. Leases'
    BY <1>1, <1>3, <1>4 DEF Grant, Leases
  <2>3. Calls' /\ Costed' /\ States' /\ Past'
    BY <1>4 DEF Grant, Budget, KeyState, Calls, Costed, States, Past
  <2> QED
    BY <2>1, <2>2, <2>3
<1>5. CASE Deny(c, j)
  <2>1. Reqs'
    <3>1. CASE PutReq(c, j, "unsent")
      BY <3>1, PutReqTyped DEF ReqState, Final
    <3>2. CASE UNCHANGED req
      BY <3>2 DEF Reqs
    <3> QED
      BY <1>5, <3>1, <3>2 DEF Deny
  <2>2. Leases'
    BY <1>2, <1>5 DEF Deny, Leases
  <2>3. Calls' /\ Costed' /\ States' /\ Past'
    BY <1>5 DEF Deny, Budget, KeyState, Calls, Costed, States, Past
  <2> QED
    BY <2>1, <2>2, <2>3
<1>6. CASE Bypass(c, j)
  <2>1. Reqs'
    BY <1>6, PutReqTyped DEF Bypass, ReqState, Final
  <2>2. Leases'
    BY <1>1, <1>2, <1>6 DEF Bypass, Leases
  <2>3. Calls' /\ Costed' /\ States' /\ ran' = ran
    BY <1>6 DEF Bypass, Budget, KeyState, Calls, Costed, States
  <2>4. Past'
    BY <1>6, <2>3, FaultTyped DEF Bypass, Past
  <2> QED
    BY <2>1, <2>2, <2>3, <2>4
<1>7. CASE Dispatch(c, j)
  <2>1. Reqs'
    BY <1>7, PutReqTyped DEF Dispatch, ReqState
  <2>2. Calls' /\ Leases' /\ Costed' /\ States' /\ Past'
    BY <1>7 DEF Dispatch, Bucket, Budget, KeyState, Calls, Leases, Costed, States, Past
  <2> QED
    BY <2>1, <2>2
<1>8. CASE NotSent(c, j)
  <2>1. Reqs'
    <3>1. \E r \in {"uncommitted", "unsent", "late"} : PutReq(c, j, r)
      BY <1>8 DEF NotSent
    <3> QED
      BY <3>1, PutReqTyped DEF ReqState, Final, Unknown
  <2>2. Leases'
    BY <1>1, <1>2, <1>3, <1>8 DEF NotSent, Leases
  <2>3. Calls' /\ Costed' /\ States' /\ ran' = ran
    BY <1>8 DEF NotSent, Budget, KeyState, Calls, Costed, States
  <2>4. Past'
    BY <1>8, <2>3, FaultTyped DEF NotSent, Past
  <2> QED
    BY <2>1, <2>2, <2>3, <2>4
<1>9. CASE Return(c, j)
  <2>1. Reqs'
    <3>1. \E r \in {"ok", "unknown", "timeout", "cut"} \cup HasStatus : PutReq(c, j, r)
      BY <1>9 DEF Return
    <3> QED
      BY <3>1, PutReqTyped DEF ReqState, Final, Unknown
  <2>2. cool' \in 0 .. Cooldown
    BY <1>3, <1>9 DEF Return, Leases
  <2>3. Leases'
    BY <1>1, <1>2, <1>9, <2>2 DEF Return, Leases
  <2>4. Calls' /\ Costed' /\ States' /\ ran' = ran
    BY <1>9 DEF Return, Budget, KeyState, Calls, Costed, States
  <2>5. Past'
    BY <1>9, <2>4, FaultTyped DEF Return, Past
  <2> QED
    BY <2>1, <2>3, <2>4, <2>5
<1> QED
  BY <1>4, <1>5, <1>6, <1>7, <1>8, <1>9 DEF Request

LEMMA StopTyped ==
    ASSUME Typed, NEW c \in Call, SwitchAway(c) \/ Cancel(c) \/ TimeOut(c)
    PROVE  Typed'
<1> USE DEF Typed
<1>1. PICK s \in {"switch", "cancel", "deadline"} : Put(c, [call[c] EXCEPT !.stop = s])
  BY DEF SwitchAway, Cancel, TimeOut
<1>2. [call[c] EXCEPT !.stop = s] \in CallState
  BY DEF Calls, CallState
<1>3. Calls'
  BY <1>1, <1>2, PutTyped
<1>4. Reqs' /\ Leases' /\ Costed' /\ States' /\ Past'
  BY DEF SwitchAway, Cancel, TimeOut, Bucket, Budget, KeyState, Reqs, Leases, Costed, States, Past
<1> QED
  BY <1>3, <1>4

LEMMA CostAdded ==
    ASSUME NEW f \in [Key -> Nat], NEW k, NEW x \in Nat
    PROVE  [f EXCEPT ![k] = @ + x] \in [Key -> Nat]
<1> DEFINE g == [f EXCEPT ![k] = @ + x]
<1>1. \A i \in Key : g[i] = f[i] \/ g[i] = f[i] + x
  OBVIOUS
<1>2. \A i \in Key : g[i] \in Nat
  <2> HIDE DEF g
  <2>1. \A i \in Key : f[i] \in Nat
    OBVIOUS
  <2> QED
    BY <1>1, <2>1
<1> QED
  BY <1>2

\* What a hold covers of a cost is no more than the cost, nor than the estimate.
LEMMA CoveredCost ==
    ASSUME NEW c \in Call, NEW k, NEW x \in Nat, Estimate \in [Call -> Nat]
    PROVE  /\ Covered(<<c, k>>, x) \in Nat
           /\ Covered(<<c, k>>, x) <= x /\ Covered(<<c, k>>, x) <= Estimate[c]
           /\ hold[<<c, k>>] = 0 => Covered(<<c, k>>, x) = 0
  BY DEF Covered

LEMMA SettleTyped == ASSUME Typed, NEW c \in Call, Settle(c) PROVE Typed'
<1> USE DEF Typed
<1> DEFINE k == call[c].key
<1>1. Calls' /\ Reqs'
  <2>1. Dispatched(c) \in BOOLEAN
    BY DEF Dispatched
  <2> QED
    BY <2>1, LeaveTyped DEF Settle
<1>2. Leases' /\ States'
  BY DEF Settle, Bucket, KeyState, Leases, States
<1>3. Past'
  BY FaultTyped DEF Settle, Ran, Past
<1>4. Costed'
  <2>1. CASE UNCHANGED Budget
    BY <2>1 DEF Budget, Costed
  <2>2. CASE ~ UNCHANGED Budget
    <3>1. PICK x \in Costs[c], y \in Nat :
            /\ usage' = [usage EXCEPT ![k] = @ + x]
            /\ billed' = [billed EXCEPT ![k] = @ + y]
            /\ hold' = [hold EXCEPT ![<<c, k>>] = 0]
      <4>1. PICK x \in Costs[c] :
              /\ usage' = [usage EXCEPT ![<<c, k>>[2]] = @ + x]
              /\ billed' = [billed EXCEPT ![<<c, k>>[2]] = @ + Covered(<<c, k>>, x)]
        BY <2>2 DEF Settle
      <4>2. Covered(<<c, k>>, x) \in Nat
        BY CallAssumption, CoveredCost
      <4> QED
        BY <2>2, <4>1, <4>2 DEF Settle
    <3>2. x \in Nat
      BY CallAssumption
    <3>3. 0 \in 0 .. HoldTTL
      BY Terms
    <3> HIDE DEF k
    <3>4. usage' \in [Key -> Nat]
      BY <3>1, <3>2, CostAdded DEF Costed
    <3>5. billed' \in [Key -> Nat]
      BY <3>1, CostAdded DEF Costed
    <3>6. hold' \in [Slot -> 0 .. HoldTTL]
      BY <3>1, <3>3 DEF Costed
    <3> QED
      BY <3>4, <3>5, <3>6 DEF Costed
  <2> QED
    BY <2>1, <2>2
<1> QED
  BY <1>1, <1>2, <1>3, <1>4

LEMMA GiveBackTyped ==
    ASSUME Typed, NEW c \in Call, call[c].key \in Key, GiveBack(c)
    PROVE  Typed'
<1> USE DEF Typed
<1>1. Calls' /\ Reqs'
  <2>1. Dispatched(c) \in BOOLEAN
    BY DEF Dispatched
  <2>2. [call[c] EXCEPT !.at = "choosing", !.key = 0] \in CallState
    <3>1. \A k \in Key \cup {0} : [call[c] EXCEPT !.at = "choosing", !.key = k] \in CallState
      BY ZenonT(40) DEF Calls, CallState
    <3> QED
      BY <3>1
  <2>3. \/ \E e : Leave(c, e, Dispatched(c))
        \/ Leave(c, "database", FALSE)
        \/ Put(c, [call[c] EXCEPT !.at = "choosing", !.key = 0]) /\ PutReqs(c, "no")
    BY DEF GiveBack
  <2>4. CASE \E e : Leave(c, e, Dispatched(c))
    BY <2>1, <2>4, LeaveTyped
  <2>5. CASE Leave(c, "database", FALSE)
    BY <2>5, LeaveTyped
  <2>6. CASE Put(c, [call[c] EXCEPT !.at = "choosing", !.key = 0]) /\ PutReqs(c, "no")
    BY <2>2, <2>6, PutTyped, PutReqsTyped DEF ReqState
  <2> QED
    BY <2>3, <2>4, <2>5, <2>6
<1>2. 0 \in 0 .. Cooldown /\ Cooldown \in 0 .. Cooldown /\ 0 \in 0 .. HoldTTL
  BY Terms
<1>3. Leases'
  BY <1>2 DEF GiveBack, Leases
<1>4. Costed'
  BY <1>2 DEF GiveBack, Costed
<1>5. States'
  <2>1. disabled' \in {disabled, disabled \cup {call[c].key}}
    BY DEF GiveBack, KeyState
  <2>2. chill' \in [Key -> 0 .. Cooldown]
    BY <1>2 DEF GiveBack, KeyState, States
  <2> QED
    BY <2>1, <2>2 DEF States
<1>6. Past'
  BY FaultTyped DEF GiveBack, Ran, Past
<1> QED
  BY <1>1, <1>3, <1>4, <1>5, <1>6

LEMMA AgedTyped ==
    ASSUME Leases, NEW a \in Attempt, NEW stalled
    PROVE  Aged(a, stalled) \in Row
<1>1. \A x \in 0 .. Window : Up(x, Window) \in 0 .. Window
  BY Terms DEF Up
<1>2. \A x \in 0 .. LeaseTTL + 1 : Up(x, LeaseTTL + 1) \in 0 .. LeaseTTL + 1
  BY Terms DEF Up
<1>3. 0 \in 0 .. LeaseTTL + 1
  BY Terms
<1>4. lease[a] \in Row /\ lease[a].age \in 0 .. Window /\ lease[a].quiet \in 0 .. LeaseTTL + 1
  BY RowTyped DEF Leases
<1>5. NoRow \in Row
  BY <1>4, RowTyped
<1> DEFINE age == Up(lease[a].age, Window)
           quiet == IF Renews(a) /\ ~stalled THEN 0 ELSE Up(lease[a].quiet, LeaseTTL + 1)
<1>6. age \in 0 .. Window /\ quiet \in 0 .. LeaseTTL + 1
  BY <1>1, <1>2, <1>3, <1>4
<1>7. Aged(a, stalled) \in {[st |-> "live", age |-> age, quiet |-> quiet],
                           [lease[a] EXCEPT !.age = age], NoRow}
  BY DEF Aged
<1> HIDE DEF age, quiet
<1> QED
  BY <1>4, <1>5, <1>6, <1>7 DEF Row

LEMMA TickTyped == ASSUME Typed, NEW Q, Tick(Q) PROVE Typed'
<1> USE DEF Typed
<1>1. Calls'
  <2> SUFFICES ASSUME NEW c \in Call
               PROVE  (IF call[c].at \in Done THEN call[c]
                       ELSE [call[c] EXCEPT !.life = @ + 1, !.slow = @ \/ c \in Q]) \in CallState
    BY DEF Tick, Calls
  <2>1. call[c] \in CallState /\ call[c].life \in 0 .. Deadline
    BY DEF Calls, CallState
  <2>2. call[c].at \notin Done => call[c].life + 1 \in 0 .. Deadline
    <3>1. call[c].at \notin Done => call[c].life < Deadline
      BY DEF Tick
    <3>2. \A x \in 0 .. Deadline : x < Deadline => x + 1 \in 0 .. Deadline
      BY Terms
    <3> QED
      BY <2>1, <3>1, <3>2
  <2>3. \A x \in 0 .. Deadline, y \in BOOLEAN : [call[c] EXCEPT !.life = x, !.slow = y] \in CallState
    BY <2>1 DEF CallState
  <2>4. (call[c].slow \/ c \in Q) \in BOOLEAN
    BY <2>1 DEF CallState
  <2> QED
    BY <2>1, <2>2, <2>3, <2>4
<1>2. Leases'
  <2>1. \A x \in 0 .. Window : Up(x, Window) \in 0 .. Window
    BY Terms DEF Up
  <2>2. lease' \in [Attempt -> Row]
    BY AgedTyped DEF Tick
  <2>3. aired' \in [Attempt -> 0 .. Window]
    BY <2>1 DEF Tick, Leases
  <2>4. cool' \in 0 .. Cooldown
    <3>1. \A x \in 0 .. Cooldown : Down(x) \in 0 .. Cooldown
      BY Terms DEF Down
    <3> QED
      BY <3>1 DEF Tick, Leases
  <2> QED
    BY <2>2, <2>3, <2>4 DEF Leases
<1>3. Costed'
  <2>1. \A x \in 0 .. HoldTTL : Down(x) \in 0 .. HoldTTL
    BY Terms DEF Down
  <2> QED
    BY <2>1 DEF Tick, Costed
<1>4. States'
  <2>1. \A x \in 0 .. Cooldown : Down(x) \in 0 .. Cooldown
    BY Terms DEF Down
  <2> QED
    BY <2>1 DEF Tick, States
<1>5. Reqs' /\ Past'
  BY FaultTyped DEF Tick, Reqs, Past
<1> QED
  BY <1>1, <1>2, <1>3, <1>4, <1>5

LEMMA OthersTyped ==
    ASSUME Typed,
           NewMonth \/ (\E k \in Key : Restore(k)) \/ (\E c \in Call : Crash(c))
    PROVE  Typed'
<1> USE DEF Typed
<1>1. 0 \in 0 .. HoldTTL /\ 0 \in 0 .. Cooldown /\ 0 \in Nat
  BY Terms
<1>2. CASE NewMonth
  BY <1>1, <1>2 DEF NewMonth, Bucket, KeyState, Calls, Reqs, Leases, Costed, States, Past
<1>3. ASSUME NEW k \in Key, Restore(k) PROVE Typed'
  BY <1>1, <1>3 DEF Restore, Bucket, Budget, Calls, Reqs, Leases, Costed, States, Past
<1>4. ASSUME NEW c \in Call, Crash(c) PROVE Typed'
  <2>1. [NewCall EXCEPT !.at = "dead"] \in CallState
    BY NewCallTyped DEF CallState
  <2>2. Calls' /\ Reqs'
    BY <1>4, <2>1, PutTyped, PutReqsTyped DEF Crash, ReqState
  <2>3. Leases' /\ Costed' /\ States' /\ Past'
    BY <1>4, FaultTyped DEF Crash, Bucket, Budget, KeyState, Leases, Costed, States, Past
  <2> QED
    BY <2>2, <2>3
<1> QED
  BY <1>2, <1>3, <1>4

LEMMA InitTyped == Init => Typed
<1> SUFFICES ASSUME Init PROVE Typed
  OBVIOUS
<1>1. 0 \in 0 .. HoldTTL /\ 0 \in 0 .. Cooldown /\ 0 \in Nat /\ 0 \in 0 .. MaxFaults
      /\ Window \in 0 .. Window
  BY Terms
<1>2. Calls
  BY NewCallTyped DEF Init, Calls
<1>3. Reqs
  BY DEF Init, Reqs, Requests, ReqState
<1>4. Leases
  BY <1>1, RowTyped, NoRowTyped DEF Init, Leases
<1>5. Costed /\ States /\ Past
  BY <1>1 DEF Init, Costed, States, Past
<1> QED
  BY <1>2, <1>3, <1>4, <1>5 DEF Typed

-----------------------------------------------------------------------------
(* What a group of requests throws                                         *)

\* Only an abort of the call, for good or for the other route, cuts a request.
CutHalted(c) == \A j \in Req(c) : req[c][j] = "cut" => Halted(c)

\* The verdict on a group shows that one of its requests may have run.
LEMMA DoubtShows ==
    ASSUME Typed, NEW c \in Call, CutHalted(c), MayHaveRun(c), ~Halted(c)
    PROVE  Verdict(c) \in {"ok", "part"} \cup Unknown
<1>1. PICK j \in Req(c) : req[c][j] \in {"ok", "unknown", "timeout"}
  BY DEF MayHaveRun, MayRun, Sent, CutHalted, HasStatus, Unknown
<1>2. CASE Failures(c) = {} \/ Produced(c)
  BY <1>2 DEF Verdict, Halted, Produced
<1>3. CASE Failures(c) # {} /\ ~Produced(c)
  <2> DEFINE unknown == {i \in Failures(c) : req[c][i] \in Unknown}
  <2>1. j \in unknown
    BY <1>1, <1>3 DEF Produced, Failures, Unknown
  <2>2. unknown \in SUBSET Nat
    BY CallAssumption DEF Failures, Req
  <2>3. Earliest(unknown) \in unknown
    BY <2>1, <2>2, EarliestIn
  <2>4. Thrown(c) = req[c][Earliest(unknown)]
    BY <2>1 DEF Thrown
  <2>5. Verdict(c) = Thrown(c)
    BY <1>3 DEF Verdict, Produced
  <2> QED
    BY <2>3, <2>4, <2>5
<1> QED
  BY <1>2, <1>3

LEMMA DoubtIsBilled ==
    ASSUME Typed, NEW c \in Call, CutHalted(c), MayHaveRun(c), ~Halted(c)
    PROVE  Billable(c)
<1>1. Dispatched(c)
  BY DEF MayHaveRun, MayRun, Dispatched
<1>2. Verdict(c) \in {"ok", "part"} \cup Unknown
  BY DoubtShows
<1> QED
  BY <1>1, <1>2 DEF Billable, HasStatus, Unknown

-----------------------------------------------------------------------------
(* What the record of a call says of its past                              *)

Trail(c) ==
    /\ call[c].at # "ended" => call[c].end = "none"
    /\ call[c].end = "failed" => ran[c] # "yes"
    /\ call[c].at = "idle" => ran[c] # "yes"
    /\ call[c].at \in {"sub", "choosing", "sending"} /\ ran[c] = "yes"
       => ~call[c].first /\ call[c].unsure
    /\ OnDirect(c) \/ call[c].stop = "no"
    /\ call[c].stop = "switch" => call[c].first /\ c \notin Strict
KeyGiven(c) == call[c].at = "sending" => call[c].key \in Key
Kept(c) == KeyGiven(c) /\ CutHalted(c) /\ Trail(c)

LEMMA UntouchedKept ==
    ASSUME NEW c \in Call, Kept(c), call'[c] = call[c], req'[c] = req[c], ran'[c] = ran[c]
    PROVE  Kept(c)'
BY DEF Kept, KeyGiven, CutHalted, Trail, Halted, OnDirect

LEMMA PutAt ==
    ASSUME Typed, NEW c \in Call, NEW r, Put(c, r)
    PROVE  call'[c] = r /\ \A d \in Call \ {c} : call'[d] = call[d]
BY DEF Typed, Calls, Put

LEMMA PutReqsAt ==
    ASSUME Typed, NEW c \in Call, NEW s, PutReqs(c, s)
    PROVE  (\A j \in Req(c) : req'[c][j] = s) /\ \A d \in Call \ {c} : req'[d] = req[d]
BY DEF Typed, Reqs, PutReqs, Requests

LEMMA PutReqAt ==
    ASSUME Typed, NEW c \in Call, NEW j \in Req(c), NEW s, PutReq(c, j, s)
    PROVE  /\ req'[c][j] = s /\ \A i \in Req(c) \ {j} : req'[c][i] = req[c][i]
           /\ \A d \in Call \ {c} : req'[d] = req[d]
BY DEF Typed, Reqs, PutReq

LEMMA FinishKept ==
    ASSUME Typed, NEW c \in Call, NEW e, Finish(c, e), e = "failed" => ran'[c] # "yes"
    PROVE  Kept(c)' /\ \A d \in Call \ {c} : call'[d] = call[d] /\ req'[d] = req[d]
<1>1. /\ call'[c] = [NewCall EXCEPT !.at = "ended", !.end = e]
      /\ \A d \in Call \ {c} : call'[d] = call[d]
  BY PutAt DEF Finish
<1>2. (\A j \in Req(c) : req'[c][j] = "no") /\ \A d \in Call \ {c} : req'[d] = req[d]
  BY PutReqsAt DEF Finish
<1>3. call'[c].at = "ended" /\ call'[c].end = e /\ call'[c].stop = "no"
  BY <1>1 DEF NewCall
<1> QED
  BY <1>1, <1>2, <1>3 DEF Kept, KeyGiven, CutHalted, Trail, OnDirect

LEMMA LeaveKept ==
    ASSUME Typed, NEW c \in Call, Kept(c), OnDirect(c), NEW e, NEW sent, Leave(c, e, sent),
           ran'[c] = "yes" /\ ran[c] # "yes" => sent /\ (e = "ok" \/ IsUnknown(e) \/ Halted(c))
    PROVE  Kept(c)' /\ \A d \in Call \ {c} : call'[d] = call[d] /\ req'[d] = req[d]
<1> DEFINE eligible == /\ call[c].first /\ c \notin Strict /\ call[c].stop # "cancel"
                       /\ e # "ok"
                       /\ call[c].stop = "switch" \/ e = "exhausted" \/ e \in RouteFailure
           unsure == sent /\ (call[c].stop = "switch" \/ IsUnknown(e))
           next == [NewCall EXCEPT !.at = "sub", !.first = FALSE, !.unsure = unsure,
                                   !.slow = call[c].slow, !.life = call[c].life]
<1>1. CASE eligible /\ Put(c, next) /\ PutReqs(c, "no")
  <2>1. call'[c] = next /\ \A d \in Call \ {c} : call'[d] = call[d]
    BY <1>1, PutAt
  <2>2. (\A j \in Req(c) : req'[c][j] = "no") /\ \A d \in Call \ {c} : req'[d] = req[d]
    BY <1>1, PutReqsAt
  <2>3. /\ call'[c].at = "sub" /\ ~call'[c].first /\ call'[c].unsure = unsure
        /\ call'[c].stop = "no" /\ call'[c].end = "none"
    BY <2>1 DEF NewCall
  <2>4. ran'[c] = "yes" => unsure
    BY <1>1 DEF Kept, Trail, OnDirect, Halted
  <2> QED
    BY <2>1, <2>2, <2>3, <2>4 DEF Kept, KeyGiven, CutHalted, Trail, OnDirect
<1>2. CASE ~(eligible /\ call[c].stop = "switch") /\ Finish(c, Surfaced(c, e))
  <2>1. ASSUME Surfaced(c, e) = "failed", ran'[c] = "yes"
        PROVE  FALSE
    <3>1. e # "ok" /\ ~call[c].unsure /\ ~IsUnknown(e) /\ call[c].stop # "cancel"
      BY <2>1 DEF Surfaced
    <3>2. ran[c] # "yes"
      BY <3>1 DEF Kept, Trail, OnDirect
    <3>3. call[c].stop = "switch"
      BY <2>1, <3>1, <3>2 DEF Halted
    <3>4. eligible
      BY <3>1, <3>3 DEF Kept, Trail
    <3> QED
      BY <1>2, <3>3, <3>4
  <2> QED
    BY <1>2, <2>1, FinishKept
<1> QED
  BY <1>1, <1>2 DEF Leave

LEMMA ToDirectKept ==
    ASSUME Typed, NEW c \in Call, Kept(c), call[c].at \in {"idle", "sub"},
           NEW first \in BOOLEAN, NEW unsure \in BOOLEAN,
           ToDirect(c, first, unsure), UNCHANGED req,
           ran'[c] # "yes" \/ (first = FALSE /\ unsure = TRUE)
    PROVE  Kept(c)' /\ \A d \in Call \ {c} : call'[d] = call[d] /\ req'[d] = req[d]
<1>1. /\ call'[c] = [call[c] EXCEPT !.at = "choosing", !.first = first, !.unsure = unsure]
      /\ \A d \in Call \ {c} : call'[d] = call[d]
  BY PutAt DEF ToDirect
<1>2. /\ call'[c].at = "choosing" /\ call'[c].first = first /\ call'[c].unsure = unsure
      /\ call'[c].stop = call[c].stop /\ call'[c].end = call[c].end
  BY <1>1 DEF Typed, Calls, CallState
<1>3. call[c].stop = "no" /\ call[c].end = "none"
  BY DEF Kept, Trail, OnDirect
<1>4. CutHalted(c)'
  BY <1>2 DEF Kept, CutHalted, Halted
<1> QED
  BY <1>1, <1>2, <1>3, <1>4 DEF Kept, KeyGiven, Trail, OnDirect

LEMMA LeaveLeaves ==
    ASSUME Typed, NEW c \in Call, NEW e, NEW sent, Leave(c, e, sent)
    PROVE  call'[c].at \in {"sub", "ended"}
<1>1. \A x : [NewCall EXCEPT !.at = "ended", !.end = x].at = "ended"
  BY DEF NewCall
<1>2. \A u, x, y : [NewCall EXCEPT !.at = "sub", !.first = FALSE, !.unsure = u,
                                  !.slow = x, !.life = y].at = "sub"
  BY DEF NewCall
<1>3. \/ \E x : Put(c, [NewCall EXCEPT !.at = "ended", !.end = x])
      \/ \E u, x, y : Put(c, [NewCall EXCEPT !.at = "sub", !.first = FALSE, !.unsure = u,
                                            !.slow = x, !.life = y])
  BY DEF Leave, Finish
<1>4. ASSUME NEW x, Put(c, [NewCall EXCEPT !.at = "ended", !.end = x])
      PROVE  call'[c].at = "ended"
  <2> DEFINE r == [NewCall EXCEPT !.at = "ended", !.end = x]
  <2>1. r.at = "ended" /\ Put(c, r)
    BY <1>1, <1>4
  <2> QED
    BY <2>1, PutAt
<1>5. ASSUME NEW u, NEW x, NEW y, Put(c, [NewCall EXCEPT !.at = "sub", !.first = FALSE, !.unsure = u,
                                                        !.slow = x, !.life = y])
      PROVE  call'[c].at = "sub"
  <2> DEFINE r == [NewCall EXCEPT !.at = "sub", !.first = FALSE, !.unsure = u, !.slow = x, !.life = y]
  <2>1. r.at = "sub" /\ Put(c, r)
    BY <1>2, <1>5
  <2> QED
    BY <2>1, PutAt
<1> QED
  BY <1>3, <1>4, <1>5

LEMMA RoutesKept ==
    ASSUME Typed, NEW c \in Call, Kept(c), StartDirect(c) \/ StartSub2api(c) \/ Sub2api(c)
    PROVE  Kept(c)' /\ \A d \in Call \ {c} : /\ call'[d] = call[d] /\ req'[d] = req[d]
                                            /\ ran'[d] = ran[d]
<1>1. CASE StartDirect(c)
  <2>1. ran[c] # "yes" /\ UNCHANGED ran
    BY <1>1 DEF StartDirect, Kept, Trail
  <2>2. /\ call[c].at \in {"idle", "sub"} /\ ToDirect(c, TRUE, FALSE) /\ UNCHANGED req
        /\ ran'[c] # "yes"
    BY <1>1, <2>1 DEF StartDirect
  <2>3. Kept(c)' /\ \A d \in Call \ {c} : call'[d] = call[d] /\ req'[d] = req[d]
    BY <2>2, ToDirectKept
  <2> QED
    BY <2>1, <2>3
<1>2. CASE StartSub2api(c)
  <2>1. ran[c] # "yes" /\ UNCHANGED ran
    BY <1>2 DEF StartSub2api, Kept, Trail
  <2>2. CASE Finish(c, "failed")
    BY <2>1, <2>2, FinishKept
  <2>3. CASE Put(c, [call[c] EXCEPT !.at = "sub"]) /\ UNCHANGED req
    <3>1. /\ call'[c] = [call[c] EXCEPT !.at = "sub"]
          /\ \A d \in Call \ {c} : call'[d] = call[d]
      BY <2>3, PutAt
    <3>2. /\ call'[c].at = "sub" /\ call'[c].stop = call[c].stop /\ call'[c].end = call[c].end
      BY <3>1 DEF Typed, Calls, CallState
    <3>3. call[c].stop = "no" /\ call[c].end = "none"
      BY <1>2 DEF StartSub2api, Kept, Trail, OnDirect
    <3> QED
      BY <2>1, <2>3, <3>1, <3>2, <3>3 DEF Kept, KeyGiven, CutHalted, Halted, Trail, OnDirect
  <2> QED
    BY <1>2, <2>1, <2>2, <2>3 DEF StartSub2api
<1>3. CASE Sub2api(c)
  <2>1. PICK e \in {"ok", "failed", "unknown", "cancelled"} :
          /\ ran' = [ran EXCEPT ![c] = IF e = "unknown" THEN "yes" ELSE @]
          /\ \/ /\ call[c].first /\ e \in {"failed", "unknown"}
                /\ ToDirect(c, FALSE, e = "unknown")
                /\ UNCHANGED req
             \/ Finish(c, IF e \in {"failed", "cancelled"} /\ call[c].unsure THEN "unknown" ELSE e)
    BY <1>3 DEF Sub2api
  <2>2. /\ ran'[c] = IF e = "unknown" THEN "yes" ELSE ran[c]
        /\ \A d \in Call \ {c} : ran'[d] = ran[d]
    BY <2>1 DEF Typed, Past
  <2>3. call[c].at = "sub" /\ (ran[c] = "yes" => ~call[c].first /\ call[c].unsure)
    BY <1>3 DEF Sub2api, Kept, Trail
  <2>4. CASE call[c].first /\ ToDirect(c, FALSE, e = "unknown") /\ UNCHANGED req
    <3>1. ran'[c] = "yes" => e = "unknown"
      BY <2>2, <2>3, <2>4
    <3> DEFINE u == e = "unknown"
    <3>2. /\ call[c].at \in {"idle", "sub"} /\ ToDirect(c, FALSE, u) /\ UNCHANGED req
          /\ u \in BOOLEAN /\ (ran'[c] # "yes" \/ u = TRUE)
      BY <2>3, <2>4, <3>1
    <3> HIDE DEF u
    <3>3. Kept(c)' /\ \A d \in Call \ {c} : call'[d] = call[d] /\ req'[d] = req[d]
      BY <3>2, ToDirectKept
    <3> QED
      BY <2>2, <3>3
  <2>5. CASE Finish(c, IF e \in {"failed", "cancelled"} /\ call[c].unsure THEN "unknown" ELSE e)
    <3>1. (IF e \in {"failed", "cancelled"} /\ call[c].unsure THEN "unknown" ELSE e) = "failed" => ran'[c] # "yes"
      BY <2>2, <2>3
    <3> QED
      BY <2>2, <2>5, <3>1, FinishKept
  <2> QED
    BY <2>1, <2>4, <2>5
<1> QED
  BY <1>1, <1>2, <1>3

LEMMA KeysKept ==
    ASSUME Typed, NEW c \in Call, Kept(c), Reserve(c) \/ Exhausted(c) \/ Halt(c)
    PROVE  Kept(c)' /\ \A d \in Call \ {c} : call'[d] = call[d] /\ req'[d] = req[d]
<1>1. OnDirect(c) /\ UNCHANGED ran
  BY DEF Reserve, Exhausted, Halt, OnDirect
<1>2. CASE \E e, sent : Leave(c, e, sent)
  BY <1>1, <1>2, LeaveKept
<1>3. CASE ~ \E e, sent : Leave(c, e, sent)
  <2> DEFINE usable == Usable(c, call[c].tried)
             k == CHOOSE i \in usable : \A l \in usable : i <= l
             tried == call[c].tried \cup {k}
             spare == Usable(c, tried) # {}
  <2>1. /\ usable # {} /\ ~Halted(c) /\ PutReqs(c, "waiting")
        /\ Put(c, [call[c] EXCEPT !.at = "sending", !.key = k, !.tried = tried, !.stop = "no",
                                  !.spare = spare])
    BY <1>3 DEF Reserve, Exhausted, Halt
  <2>2. k \in Key
    <3>1. usable \in SUBSET Key
      BY DEF Usable
    <3> QED
      BY <2>1, <3>1, LeastKey
  <2> HIDE DEF spare, tried, k, usable
  <2>3. /\ call'[c] = [call[c] EXCEPT !.at = "sending", !.key = k, !.tried = tried, !.stop = "no",
                                      !.spare = spare]
        /\ \A d \in Call \ {c} : call'[d] = call[d]
    BY <2>1, PutAt
  <2>4. (\A j \in Req(c) : req'[c][j] = "waiting") /\ \A d \in Call \ {c} : req'[d] = req[d]
    BY <2>1, PutReqsAt
  <2>5. /\ call'[c].at = "sending" /\ call'[c].key = k /\ call'[c].stop = "no"
        /\ call'[c].first = call[c].first /\ call'[c].unsure = call[c].unsure
        /\ call'[c].end = call[c].end
    BY <2>3 DEF Typed, Calls, CallState
  <2>6. Trail(c)'
    BY <1>1, <2>5 DEF Kept, Trail, OnDirect
  <2> QED
    BY <2>2, <2>3, <2>4, <2>5, <2>6 DEF Kept, KeyGiven, CutHalted
<1> QED
  BY <1>2, <1>3

LEMMA RequestKept ==
    ASSUME Typed, NEW c \in Call, Kept(c), NEW j \in Req(c), Request(c, j)
    PROVE  Kept(c)' /\ \A d \in Call \ {c} : call'[d] = call[d] /\ req'[d] = req[d]
<1>1. UNCHANGED <<call, ran>>
  BY DEF Request, Grant, Deny, Bypass, Dispatch, NotSent, Return
<1>2. (\E s : (s = "cut" => Halted(c)) /\ PutReq(c, j, s)) \/ UNCHANGED req
  <2>1. CASE ~Return(c, j)
    BY <2>1 DEF Request, Grant, Deny, Bypass, Dispatch, NotSent
  <2>2. CASE Return(c, j)
    <3>1. PICK r \in {"ok"} \cup HasStatus \cup {CASE call[c].stop = "no" -> "unknown"
                                                 [] call[c].stop = "deadline" -> "timeout"
                                                 [] OTHER -> "cut"} : PutReq(c, j, r)
      BY <2>2 DEF Return
    <3>2. call[c].stop \in {"no", "switch", "cancel", "deadline"}
      BY DEF Typed, Calls, CallState
    <3>3. r = "cut" => Halted(c)
      BY <3>1, <3>2 DEF HasStatus, Halted
    <3> QED
      BY <3>1, <3>3
  <2> QED
    BY <2>1, <2>2
<1>3. CutHalted(c)' /\ \A d \in Call \ {c} : req'[d] = req[d]
  <2>1. CASE UNCHANGED req
    BY <1>1, <2>1 DEF Kept, CutHalted, Halted
  <2>2. ASSUME NEW s, s = "cut" => Halted(c), PutReq(c, j, s)
        PROVE  CutHalted(c)' /\ \A d \in Call \ {c} : req'[d] = req[d]
    BY <1>1, <2>2, PutReqAt DEF Kept, CutHalted, Halted
  <2> QED
    BY <1>2, <2>1, <2>2
<1> QED
  BY <1>1, <1>3 DEF Kept, KeyGiven, Trail, OnDirect

LEMMA StopKept ==
    ASSUME Typed, NEW c \in Call, Kept(c), SwitchAway(c) \/ Cancel(c) \/ TimeOut(c)
    PROVE  Kept(c)' /\ \A d \in Call \ {c} : call'[d] = call[d] /\ req'[d] = req[d]
<1>1. PICK s \in {"switch", "cancel", "deadline"} :
        /\ Put(c, [call[c] EXCEPT !.stop = s])
        /\ s = "switch" => call[c].first /\ c \notin Strict
  BY DEF SwitchAway, Cancel, TimeOut
<1>2. OnDirect(c) /\ call[c].stop = "no" /\ UNCHANGED <<req, ran>>
  BY DEF SwitchAway, Cancel, TimeOut, OnDirect, Stopped
<1>3. call'[c] = [call[c] EXCEPT !.stop = s] /\ \A d \in Call \ {c} : call'[d] = call[d]
  BY <1>1, PutAt
<1>4. /\ call'[c].at = call[c].at /\ call'[c].key = call[c].key /\ call'[c].stop = s
      /\ call'[c].first = call[c].first /\ call'[c].unsure = call[c].unsure
      /\ call'[c].end = call[c].end
  BY <1>3 DEF Typed, Calls, CallState
<1>5. CutHalted(c)'
  BY <1>2 DEF Kept, CutHalted, Halted
<1> QED
  BY <1>1, <1>2, <1>3, <1>4, <1>5 DEF Kept, KeyGiven, Trail, OnDirect

LEMMA RanAt ==
    ASSUME Typed, NEW c \in Call, NEW how, Ran(c, how)
    PROVE  /\ ran'[c] = IF MayHaveRun(c) THEN how ELSE ran[c]
           /\ \A d \in Call \ {c} : ran'[d] = ran[d]
BY DEF Typed, Past, Ran

LEMMA JudgedKept ==
    ASSUME Typed, NEW c \in Call, Kept(c), Settle(c) \/ GiveBack(c)
    PROVE  Kept(c)' /\ \A d \in Call \ {c} : /\ call'[d] = call[d] /\ req'[d] = req[d]
                                            /\ ran'[d] = ran[d]
<1>1. OnDirect(c) /\ Judged(c) /\ (Ran(c, "yes") \/ Ran(c, "hidden"))
  BY DEF Settle, GiveBack, Judged, OnDirect
<1>2. \A d \in Call \ {c} : ran'[d] = ran[d]
  BY <1>1, RanAt
<1>3. CASE Ran(c, "yes") /\ Leave(c, Verdict(c), Dispatched(c))
  <2>1. ran'[c] = "yes" /\ ran[c] # "yes" => MayHaveRun(c)
    BY <1>3, RanAt
  <2>2. MayHaveRun(c) => Dispatched(c)
    BY DEF MayHaveRun, MayRun, Dispatched
  <2>3. MayHaveRun(c) /\ ~Halted(c) => Verdict(c) = "ok" \/ IsUnknown(Verdict(c))
    BY DoubtShows DEF Kept, IsUnknown
  <2> QED
    BY <1>1, <1>2, <1>3, <2>1, <2>2, <2>3, LeaveKept
<1>4. CASE Ran(c, "hidden") /\ Leave(c, "database", FALSE)
  <2>1. ran'[c] = "yes" => ran[c] = "yes"
    BY <1>4, RanAt
  <2> QED
    BY <1>1, <1>2, <1>4, <2>1, LeaveKept
<1>5. CASE /\ GiveBack(c) /\ Ran(c, "yes") /\ ~Halted(c)
           /\ Put(c, [call[c] EXCEPT !.at = "choosing", !.key = 0]) /\ PutReqs(c, "no")
  <2>1. ~MayHaveRun(c)
    BY <1>5, DoubtIsBilled DEF GiveBack, Kept
  <2>2. ran'[c] = ran[c]
    BY <1>5, <2>1, RanAt
  <2>3. /\ call'[c] = [call[c] EXCEPT !.at = "choosing", !.key = 0]
        /\ \A d \in Call \ {c} : call'[d] = call[d]
    BY <1>5, PutAt
  <2>4. (\A j \in Req(c) : req'[c][j] = "no") /\ \A d \in Call \ {c} : req'[d] = req[d]
    BY <1>5, PutReqsAt
  <2>5. /\ call'[c].at = "choosing" /\ call'[c].stop = call[c].stop
        /\ call'[c].first = call[c].first /\ call'[c].unsure = call[c].unsure
        /\ call'[c].end = call[c].end
    BY <2>3 DEF Typed, Calls, CallState
  <2>6. Trail(c)'
    BY <1>1, <2>2, <2>5 DEF Kept, Trail, OnDirect
  <2> QED
    BY <1>2, <2>3, <2>4, <2>5, <2>6 DEF Kept, KeyGiven, CutHalted
<1>6. \/ Ran(c, "yes") /\ Leave(c, Verdict(c), Dispatched(c))
      \/ Ran(c, "hidden") /\ Leave(c, "database", FALSE)
      \/ /\ GiveBack(c) /\ Ran(c, "yes") /\ ~Halted(c)
         /\ Put(c, [call[c] EXCEPT !.at = "choosing", !.key = 0]) /\ PutReqs(c, "no")
  BY DEF Settle, GiveBack
<1> QED
  BY <1>3, <1>4, <1>5, <1>6

LEMMA CrashKept ==
    ASSUME Typed, NEW c \in Call, Kept(c), Crash(c)
    PROVE  Kept(c)' /\ \A d \in Call \ {c} : call'[d] = call[d] /\ req'[d] = req[d]
<1>1. /\ call'[c] = [NewCall EXCEPT !.at = "dead"]
      /\ \A d \in Call \ {c} : call'[d] = call[d]
  BY PutAt DEF Crash
<1>2. (\A j \in Req(c) : req'[c][j] = "no") /\ \A d \in Call \ {c} : req'[d] = req[d]
  BY PutReqsAt DEF Crash
<1>3. call'[c].at = "dead" /\ call'[c].end = "none" /\ call'[c].stop = "no"
  BY <1>1 DEF NewCall
<1> QED
  BY <1>1, <1>2, <1>3 DEF Kept, KeyGiven, CutHalted, Trail, OnDirect

LEMMA TickKept ==
    ASSUME Typed, NEW Q, Tick(Q), NEW c \in Call, Kept(c)
    PROVE  Kept(c)'
<1>1. /\ call'[c].at = call[c].at /\ call'[c].key = call[c].key /\ call'[c].stop = call[c].stop
      /\ call'[c].first = call[c].first /\ call'[c].unsure = call[c].unsure
      /\ call'[c].end = call[c].end
  <2>1. CASE call[c].at \in Done
    <3>1. call'[c] = call[c]
      BY <2>1 DEF Tick
    <3> QED
      BY <3>1
  <2>2. CASE call[c].at \notin Done
    <3> DEFINE x == call[c].life + 1
               y == call[c].slow \/ c \in Q
    <3>1. call'[c] = [call[c] EXCEPT !.life = x, !.slow = y]
      BY <2>2 DEF Tick
    <3> HIDE DEF x, y
    <3> QED
      BY <3>1 DEF Typed, Calls, CallState
  <2> QED
    BY <2>1, <2>2
<1>2. UNCHANGED <<req, ran>>
  BY DEF Tick
<1>3. CutHalted(c)'
  BY <1>1, <1>2 DEF Kept, CutHalted, Halted
<1> QED
  BY <1>1, <1>2, <1>3 DEF Kept, KeyGiven, Trail, OnDirect

LEMMA AllKept ==
    ASSUME Typed, \A c \in Call : Kept(c), [Next]_vars
    PROVE  \A c \in Call : Kept(c)'
<1>1. ASSUME NEW c \in Call,
             /\ Kept(c)'
             /\ \A d \in Call \ {c} : call'[d] = call[d] /\ req'[d] = req[d] /\ ran'[d] = ran[d]
      PROVE  \A d \in Call : Kept(d)'
  BY <1>1, UntouchedKept
<1>2. ASSUME NEW c \in Call, Step(c) \/ SwitchAway(c) \/ Cancel(c) \/ Crash(c)
      PROVE  \A d \in Call : Kept(d)'
  <2>1. CASE StartDirect(c) \/ StartSub2api(c) \/ Sub2api(c)
    BY <1>1, <2>1, RoutesKept
  <2>2. CASE Reserve(c) \/ Exhausted(c) \/ Halt(c)
    <3>1. UNCHANGED ran
      BY <2>2 DEF Reserve, Exhausted, Halt
    <3> QED
      BY <1>1, <2>2, <3>1, KeysKept
  <2>3. CASE SwitchAway(c) \/ Cancel(c) \/ TimeOut(c)
    <3>1. UNCHANGED ran
      BY <2>3 DEF SwitchAway, Cancel, TimeOut
    <3> QED
      BY <1>1, <2>3, <3>1, StopKept
  <2>4. CASE Settle(c) \/ GiveBack(c)
    BY <1>1, <2>4, JudgedKept
  <2>5. CASE \E j \in Req(c) : Request(c, j)
    <3>1. UNCHANGED ran
      BY <2>5 DEF Request, Grant, Deny, Bypass, Dispatch, NotSent, Return
    <3> QED
      BY <1>1, <2>5, <3>1, RequestKept
  <2>6. CASE Crash(c)
    <3>1. UNCHANGED ran
      BY <2>6 DEF Crash
    <3> QED
      BY <1>1, <2>6, <3>1, CrashKept
  <2> QED
    BY <1>2, <2>1, <2>2, <2>3, <2>4, <2>5, <2>6 DEF Step
<1>3. ASSUME NEW Q, Tick(Q) PROVE \A d \in Call : Kept(d)'
  BY <1>3, TickKept
<1>4. CASE NewMonth \/ (\E k \in Key : Restore(k)) \/ UNCHANGED vars
  <2>1. UNCHANGED <<call, req, ran>>
    BY <1>4 DEF NewMonth, Restore, vars
  <2> QED
    BY <2>1, UntouchedKept
<1> QED
  BY <1>2, <1>3, <1>4 DEF Next

LEMMA AllTyped ==
    ASSUME Typed, \A c \in Call : Kept(c), [Next]_vars
    PROVE  Typed'
<1>1. ASSUME NEW c \in Call, Step(c) \/ SwitchAway(c) \/ Cancel(c) \/ Crash(c)
      PROVE  Typed'
  <2>1. CASE GiveBack(c)
    <3>1. call[c].key \in Key
      BY <2>1 DEF GiveBack, Judged, Kept, KeyGiven
    <3> QED
      BY <2>1, <3>1, GiveBackTyped
  <2>2. CASE StartDirect(c) \/ StartSub2api(c) \/ Sub2api(c)
    BY <2>2, RoutesTyped
  <2>3. CASE Reserve(c) \/ Exhausted(c) \/ Halt(c)
    BY <2>3, KeysTyped
  <2>4. CASE SwitchAway(c) \/ Cancel(c) \/ TimeOut(c)
    BY <2>4, StopTyped
  <2>5. CASE Settle(c)
    BY <2>5, SettleTyped
  <2>6. CASE \E j \in Req(c) : Request(c, j)
    BY <2>6, RequestTyped
  <2>7. CASE Crash(c)
    BY <2>7, OthersTyped
  <2> QED
    BY <1>1, <2>1, <2>2, <2>3, <2>4, <2>5, <2>6, <2>7 DEF Step
<1>2. ASSUME NEW Q, Tick(Q) PROVE Typed'
  BY <1>2, TickTyped
<1>3. CASE NewMonth \/ (\E k \in Key : Restore(k))
  BY <1>3, OthersTyped
<1>4. CASE UNCHANGED vars
  BY <1>4 DEF vars, Typed, Calls, Reqs, Leases, Costed, States, Past
<1> QED
  BY <1>1, <1>2, <1>3, <1>4 DEF Next

LEMMA InitKept == Init => \A c \in Call : Kept(c)
<1> SUFFICES ASSUME Init, NEW c \in Call PROVE Kept(c)
  OBVIOUS
<1>1. call[c] = NewCall /\ ran[c] = "no" /\ \A j \in Req(c) : req[c][j] = "no"
  BY DEF Init, Requests
<1>2. call[c].at = "idle" /\ call[c].end = "none" /\ call[c].stop = "no"
  BY <1>1 DEF NewCall
<1> QED
  BY <1>1, <1>2 DEF Kept, KeyGiven, CutHalted, Trail, OnDirect

\* Every step keeps the types and what the records say of the past.
Sound == Typed /\ \A c \in Call : Kept(c)

LEMMA SoundAlways == Spec => []Sound
<1>1. Init => Sound
  BY InitTyped, InitKept DEF Sound
<1>2. Sound /\ [Next]_vars => Sound'
  BY AllTyped, AllKept DEF Sound
<1> QED
  BY <1>1, <1>2, PTL DEF Spec

\* The state of the calls, the bucket and the keys is always well typed
\* (callGptDualRoute, scheduler.ts, gpt-budget.ts).
THEOREM TypeCorrect == Spec => []TypeOK
<1>1. Sound => TypeOK
  BY Types DEF Sound, Typed
<1> QED
  BY <1>1, SoundAlways, PTL

\* A call whose request may have run is not reported as one that failed
\* (the second outcome in callGptDualRoute, upstream.ts).
THEOREM FailureIsCertain == Spec => []UnsureIsReported
<1>1. Sound => UnsureIsReported
  BY DEF Sound, Kept, Trail, UnsureIsReported
<1> QED
  BY <1>1, SoundAlways, PTL

\* A group ends by its settlement, by giving back its hold, or with its process.
LEMMA GroupEnds ==
    ASSUME Sound, [Next]_vars, NEW c \in Call,
           call[c].at = "sending", call'[c].at \notin {"sending", "dead"}
    PROVE  Settle(c) \/ GiveBack(c)
<1>1. ASSUME NEW d \in Call, Step(d) \/ SwitchAway(d) \/ Cancel(d) \/ Crash(d)
      PROVE  Settle(c) \/ GiveBack(c)
  <2>1. Typed /\ Kept(d)
    BY DEF Sound
  <2>2. CASE StartDirect(d) \/ StartSub2api(d) \/ Sub2api(d)
    <3>1. call[d].at # "sending"
      BY <2>2 DEF StartDirect, StartSub2api, Sub2api
    <3> QED
      BY <2>1, <2>2, <3>1, RoutesKept
  <2>3. CASE Reserve(d) \/ Exhausted(d) \/ Halt(d)
    <3>1. call[d].at # "sending"
      BY <2>3 DEF Reserve, Exhausted, Halt
    <3> QED
      BY <2>1, <2>3, <3>1, KeysKept
  <2>4. CASE SwitchAway(d) \/ Cancel(d) \/ TimeOut(d)
    <3>1. \E s : Put(d, [call[d] EXCEPT !.stop = s])
      BY <2>4 DEF SwitchAway, Cancel, TimeOut
    <3>2. call'[c] = call[c] \/ (d = c /\ \E s : call'[c] = [call[c] EXCEPT !.stop = s])
      BY <2>1, <3>1, PutAt
    <3>3. call'[c].at = call[c].at
      BY <2>1, <3>2 DEF Typed, Calls, CallState
    <3> QED
      BY <3>3
  <2>5. CASE Settle(d) \/ GiveBack(d)
    BY <2>1, <2>5, JudgedKept
  <2>6. CASE \E j \in Req(d) : Request(d, j)
    <3>1. UNCHANGED call
      BY <2>6 DEF Request, Grant, Deny, Bypass, Dispatch, NotSent, Return
    <3> QED
      BY <3>1
  <2>7. CASE Crash(d)
    <3>1. call'[d].at = "dead"
      BY <2>1, <2>7, PutAt DEF Crash, NewCall
    <3> QED
      BY <2>1, <2>7, <3>1, CrashKept
  <2> QED
    BY <1>1, <2>2, <2>3, <2>4, <2>5, <2>6, <2>7 DEF Step
<1>2. CASE (\E Q \in SUBSET Call : Tick(Q)) \/ NewMonth \/ (\E k \in Key : Restore(k)) \/ UNCHANGED vars
  <2>1. ASSUME NEW Q, Tick(Q) PROVE call'[c].at = call[c].at
    BY <2>1 DEF Tick, Sound, Typed, Calls, CallState
  <2>2. CASE UNCHANGED call
    BY <2>2
  <2> QED
    BY <1>2, <2>1, <2>2 DEF NewMonth, Restore, vars
<1> QED
  BY <1>1, <1>2 DEF Next

\* No call moves on to another key behind a request that may have run, for any
\* split of the order, any keys and any limits.
THEOREM NoKeyAfterDoubt == Spec => KeySwitchIsClean
<1>1. ASSUME Sound, [Next]_vars, NEW c \in Call, call[c].at = "sending", call'[c].at = "choosing"
      PROVE  ~MayHaveRun(c)
  <2>1. Typed /\ Kept(c)
    BY <1>1 DEF Sound
  <2>2. Settle(c) \/ GiveBack(c)
    BY <1>1, GroupEnds
  <2>3. ASSUME NEW e, NEW sent, Leave(c, e, sent)
        PROVE  FALSE
    BY <1>1, <2>1, <2>3, LeaveLeaves
  <2>4. GiveBack(c) /\ ~Halted(c)
    BY <2>2, <2>3 DEF Settle, GiveBack
  <2> QED
    BY <2>1, <2>4, DoubtIsBilled DEF GiveBack, Kept
<1>2. Sound /\ [Next]_vars
      => \A c \in Call : call[c].at = "sending" /\ call'[c].at = "choosing" => ~MayHaveRun(c)
  BY <1>1
<1> QED
  BY <1>2, SoundAlways, PTL DEF Spec, KeySwitchIsClean

\* Nor does one give back its hold behind such a request, unless the call was
\* stopped; settled, it leaves a usage, and a settlement that fails leaves the hold.
THEOREM HoldKept == Spec => HoldOutlivesDoubt
<1>1. ASSUME Sound, [Next]_vars, NEW c \in Call,
             call[c].at = "sending", call'[c].at \notin {"sending", "dead"},
             hold[<<c, call[c].key>>] > 0, hold'[<<c, call[c].key>>] = 0, usage' = usage
      PROVE  Halted(c) \/ ~MayHaveRun(c)
  <2> DEFINE k == call[c].key
  <2>1. Typed /\ Kept(c) /\ k \in Key
    BY <1>1 DEF Sound, Kept, KeyGiven
  <2>2. CASE GiveBack(c)
    BY <2>1, <2>2, DoubtIsBilled DEF GiveBack, Kept
  <2>3. CASE Settle(c)
    <3>1. CASE UNCHANGED Budget
      BY <1>1, <3>1 DEF Budget
    <3>2. CASE ~ UNCHANGED Budget
      <4>1. PICK x \in Costs[c] : usage' = [usage EXCEPT ![<<c, k>>[2]] = @ + x]
        BY <2>3, <3>2 DEF Settle
      <4>2. usage' = [usage EXCEPT ![k] = @ + x]
        BY <4>1
      <4>3. x \in Nat \ {0}
        BY CallAssumption
      <4>4. usage[k] \in Nat /\ usage'[k] = usage[k] + x
        <5> HIDE DEF k
        <5> QED
          BY <2>1, <4>2 DEF Typed, Costed
      <4> QED
        BY <1>1, <4>3, <4>4
    <3> QED
      BY <3>1, <3>2
  <2> QED
    BY <1>1, <2>2, <2>3, GroupEnds
<1>2. Sound /\ [Next]_vars
      => \A c \in Call :
           LET s == <<c, call[c].key>>
           IN  /\ call[c].at = "sending" /\ call'[c].at \notin {"sending", "dead"}
               /\ hold[s] > 0 /\ hold'[s] = 0 /\ usage' = usage
               => Halted(c) \/ ~MayHaveRun(c)
  BY <1>1
<1> QED
  BY <1>2, SoundAlways, PTL DEF Spec, HoldOutlivesDoubt

-----------------------------------------------------------------------------
(* The requests in flight                                                  *)

\* A lease its process renews is live and was never found quiet, so no sweep
\* takes it; and the live leases are within the limit.
Few(l) == IsFiniteSet(InFlight(l)) /\ Cardinality(InFlight(l)) <= Concurrency
Fresh(a) == Renews(a) /\ ~call[a[1]].slow => lease[a].st = "live" /\ lease[a].quiet = 0
AllFresh == \A a \in Attempt : Fresh(a)

LEMMA FewerKept ==
    ASSUME NEW l, NEW m, Few(l), InFlight(m) \subseteq InFlight(l)
    PROVE  Few(m)
<1>1. IsFiniteSet(InFlight(m)) /\ Cardinality(InFlight(m)) <= Cardinality(InFlight(l))
  BY FS_Subset DEF Few
<1>2. Cardinality(InFlight(m)) \in Nat /\ Cardinality(InFlight(l)) \in Nat /\ Concurrency \in Nat
  BY <1>1, FS_CardinalityType, LimitAssumption DEF Few
<1> QED
  BY <1>1, <1>2 DEF Few

LEMMA SweptFewer == InFlight(Swept) \subseteq InFlight(lease)
BY DEF InFlight, Swept, NoRow

LEMMA LeasesFewer ==
    ASSUME Typed, NEW x
    PROVE  InFlight(Released(x)) \subseteq InFlight(lease) /\ InFlight(Refunded(x)) \subseteq InFlight(lease)
BY DEF InFlight, Released, Refunded, NoRow, Typed, Leases, Row

LEMMA LeasedFew ==
    ASSUME Typed, Few(lease), NEW x, NEW n, Grantable(n)
    PROVE  Few(Leased(x))
<1>1. IsFiniteSet(InFlight(Swept)) /\ Cardinality(InFlight(Swept)) < Concurrency
  BY SweptFewer, FS_Subset DEF Few, Grantable
<1>2. InFlight(Leased(x)) \subseteq InFlight(Swept) \cup {x}
  BY DEF InFlight, Leased
<1>3. /\ IsFiniteSet(InFlight(Swept) \cup {x})
      /\ Cardinality(InFlight(Swept) \cup {x}) <= Cardinality(InFlight(Swept)) + 1
  <2>1. Cardinality(InFlight(Swept)) \in Nat
    BY <1>1, FS_CardinalityType
  <2> QED
    BY <1>1, <2>1, FS_AddElement
<1>4. /\ IsFiniteSet(InFlight(Leased(x)))
      /\ Cardinality(InFlight(Leased(x))) <= Cardinality(InFlight(Swept) \cup {x})
  BY <1>2, <1>3, FS_Subset
<1>5. /\ Cardinality(InFlight(Leased(x))) \in Nat /\ Cardinality(InFlight(Swept)) \in Nat
      /\ Cardinality(InFlight(Swept) \cup {x}) \in Nat /\ Concurrency \in Nat
  BY <1>1, <1>3, <1>4, FS_CardinalityType, LimitAssumption
<1> QED
  BY <1>1, <1>3, <1>4, <1>5 DEF Few

\* A fresh lease stands every sweep.
LEMMA FreshStays ==
    ASSUME Typed, NEW a \in Attempt, Fresh(a), Renews(a), ~call[a[1]].slow
    PROVE  Swept[a] = lease[a]
<1>1. lease[a].quiet = 0 /\ 0 <= LeaseTTL
  BY Terms DEF Fresh
<1> QED
  BY <1>1 DEF Swept

\* Of a call that moves in the step only the requests it still renews matter.
LEMMA FreshKept ==
    ASSUME Typed, AllFresh, NEW c \in Call, NEW K,
           \A d \in Call \ {c} : call'[d] = call[d] /\ req'[d] = req[d],
           \A a \in Attempt : lease'[a] \in {lease[a], Swept[a]} \/ a \in K,
           \A a \in K : a[1] = c,
           \A a \in Attempt : a[1] = c /\ Renews(a)' /\ ~call'[c].slow
              => Renews(a) /\ ~call[c].slow /\ a \notin K
    PROVE  AllFresh'
<1> SUFFICES ASSUME NEW a \in Attempt, Renews(a)', ~call'[a[1]].slow
             PROVE  lease'[a].st = "live" /\ lease'[a].quiet = 0
  BY DEF AllFresh, Fresh
<1>1. a[1] \in Call
  BY DEF Attempt
<1>2. Renews(a) /\ ~call[a[1]].slow /\ a \notin K
  BY <1>1 DEF Renews
<1>3. lease'[a] = lease[a]
  BY <1>2, FreshStays DEF AllFresh
<1> QED
  BY <1>2, <1>3 DEF AllFresh, Fresh

\* A step of a call after which none of its requests waits for an answer under a
\* lease, and which leaves the leases alone or sweeps them.
LEMMA LeftFresh ==
    ASSUME Typed, AllFresh, NEW c \in Call, lease' \in {lease, Swept},
           \A d \in Call \ {c} : call'[d] = call[d] /\ req'[d] = req[d],
           call'[c].at # "sending" \/ \A j \in Req(c) : req'[c][j] = "waiting"
    PROVE  AllFresh'
<1>1. ASSUME NEW a \in Attempt, a[1] = c, Renews(a)'
      PROVE  FALSE
  <2>1. a[3] \in Req(c)
    BY <1>1 DEF Attempt
  <2> QED
    BY <1>1, <2>1 DEF Renews
<1>2. \A a \in Attempt : lease'[a] \in {lease[a], Swept[a]}
  OBVIOUS
<1> DEFINE K == {}
<1>3. /\ \A a \in Attempt : lease'[a] \in {lease[a], Swept[a]} \/ a \in K
      /\ \A a \in K : a[1] = c
      /\ \A a \in Attempt : a[1] = c /\ Renews(a)' /\ ~call'[c].slow
           => Renews(a) /\ ~call[c].slow /\ a \notin K
  BY <1>1, <1>2
<1> HIDE DEF K
<1> QED
  BY <1>3, FreshKept

LEMMA MovesFresh ==
    ASSUME Typed, AllFresh, NEW c \in Call, Kept(c),
           \/ StartDirect(c) \/ StartSub2api(c) \/ Sub2api(c)
           \/ Reserve(c) \/ Exhausted(c) \/ Halt(c)
           \/ Settle(c) \/ GiveBack(c) \/ Crash(c)
    PROVE  AllFresh' /\ lease' \in {lease, Swept}
<1>1. lease' \in {lease, Swept}
  BY DEF StartDirect, StartSub2api, Sub2api, Reserve, Exhausted, Halt, Settle, GiveBack, Crash,
         Bucket
<1>2. \A d \in Call \ {c} : call'[d] = call[d] /\ req'[d] = req[d]
  BY RoutesKept, KeysKept, JudgedKept, CrashKept
<1>3. \/ \E e, sent : Leave(c, e, sent)
      \/ \E f, u : ToDirect(c, f, u)
      \/ \E e : Finish(c, e)
      \/ Put(c, [call[c] EXCEPT !.at = "sub"])
      \/ Put(c, [call[c] EXCEPT !.at = "choosing", !.key = 0])
      \/ Put(c, [NewCall EXCEPT !.at = "dead"])
      \/ PutReqs(c, "waiting")
  <2>1. CASE StartDirect(c) \/ StartSub2api(c) \/ Sub2api(c)
    BY <2>1 DEF StartDirect, StartSub2api, Sub2api
  <2>2. CASE Reserve(c) \/ Exhausted(c) \/ Halt(c)
    BY <2>2 DEF Reserve, Exhausted, Halt
  <2>3. CASE Settle(c) \/ GiveBack(c) \/ Crash(c)
    BY <2>3 DEF Settle, GiveBack, Crash
  <2> QED
    BY <2>1, <2>2, <2>3
<1>4. call'[c].at # "sending" \/ \A j \in Req(c) : req'[c][j] = "waiting"
  <2>1. CASE \E e, sent : Leave(c, e, sent)
    BY <2>1, LeaveLeaves
  <2>2. ASSUME NEW r, r.at # "sending", Put(c, r) PROVE call'[c].at # "sending"
    BY <2>2, PutAt
  <2>3. CASE \E f, u : ToDirect(c, f, u)
    <3>1. \A f, u : [call[c] EXCEPT !.at = "choosing", !.first = f, !.unsure = u].at = "choosing"
      BY DEF Typed, Calls, CallState
    <3> QED
      BY <2>2, <2>3, <3>1 DEF ToDirect
  <2>4. CASE \E e : Finish(c, e)
    <3>1. \A e : [NewCall EXCEPT !.at = "ended", !.end = e].at = "ended"
      BY DEF NewCall
    <3> QED
      BY <2>2, <2>4, <3>1 DEF Finish
  <2>5. /\ [call[c] EXCEPT !.at = "sub"].at = "sub" /\ [NewCall EXCEPT !.at = "dead"].at = "dead"
        /\ \A k : [call[c] EXCEPT !.at = "choosing", !.key = k].at = "choosing"
    BY DEF Typed, Calls, CallState, NewCall
  <2>6. CASE PutReqs(c, "waiting")
    BY <2>6, PutReqsAt
  <2> QED
    BY <1>3, <2>1, <2>2, <2>3, <2>4, <2>5, <2>6
<1> QED
  BY <1>1, <1>2, <1>4, LeftFresh

LEMMA RequestFresh ==
    ASSUME Typed, Few(lease), AllFresh, NEW c \in Call, NEW j \in Req(c), Request(c, j)
    PROVE  Few(lease') /\ AllFresh'
<1> DEFINE x == Lease(c, j)
<1>1. UNCHANGED call
  BY DEF Request, Grant, Deny, Bypass, Dispatch, NotSent, Return
<1>2. ASSUME NEW s, PutReq(c, j, s), \A a \in Attempt \ {x} : lease'[a] \in {lease[a], Swept[a]},
             \/ s \notin {"granted", "sent"}
             \/ s = "sent" /\ req[c][j] = "granted" /\ lease'[x] \in {lease[x], Swept[x]}
             \/ x \in Attempt => lease'[x] = [NoRow EXCEPT !.st = "live"]
      PROVE  AllFresh'
  <2> SUFFICES ASSUME NEW a \in Attempt, Renews(a)', ~call'[a[1]].slow
               PROVE  lease'[a].st = "live" /\ lease'[a].quiet = 0
    BY DEF AllFresh, Fresh
  <2>1. a[1] \in Call /\ a[3] \in Req(a[1]) /\ a = <<a[1], a[2], a[3]>>
    BY DEF Attempt
  <2>2. /\ req'[c][j] = s /\ \A i \in Req(c) \ {j} : req'[c][i] = req[c][i]
        /\ \A d \in Call \ {c} : req'[d] = req[d]
    BY <1>2, PutReqAt
  <2>3. a = x <=> a[1] = c /\ a[3] = j
    BY <1>1, <2>1 DEF Lease, Renews
  <2>4. CASE Renews(a) /\ lease'[a] \in {lease[a], Swept[a]}
    BY <1>1, <2>4, FreshStays DEF AllFresh, Fresh
  <2>5. CASE lease'[a] = [NoRow EXCEPT !.st = "live"]
    BY <2>5 DEF NoRow
  <2>6. a # x => Renews(a)
    BY <1>1, <2>1, <2>2, <2>3 DEF Renews
  <2>7. CASE a = x
    <3>1. req'[c][j] \in {"granted", "sent"}
      BY <2>3, <2>7 DEF Renews
    <3>2. req[c][j] = "granted" => Renews(a)
      BY <1>1, <2>3, <2>7 DEF Renews
    <3> QED
      BY <1>2, <2>2, <2>4, <2>5, <2>7, <3>1, <3>2
  <2> QED
    BY <1>2, <2>4, <2>6, <2>7
<1>3. \A y : \A a \in Attempt \ {y} : /\ Leased(y)[a] = Swept[a] /\ Released(y)[a] = lease[a]
                                      /\ Refunded(y)[a] = lease[a]
  BY SweptTyped DEF Leased, Released, Refunded, Typed, Leases
<1>4. \A y \in Attempt : Leased(y)[y] = [NoRow EXCEPT !.st = "live"]
  BY SweptTyped DEF Leased, Typed
<1>5. CASE Grant(c, j)
  <2>1. lease' = Leased(x) /\ PutReq(c, j, "granted")
    BY <1>5 DEF Grant
  <2>2. Few(Leased(x))
    BY <1>5, LeasedFew DEF Grant
  <2>3. x \in Attempt => lease'[x] = [NoRow EXCEPT !.st = "live"]
    BY <1>4, <2>1
  <2>4. \A a \in Attempt \ {x} : lease'[a] \in {lease[a], Swept[a]}
    BY <1>3, <2>1
  <2> QED
    BY <1>2, <2>1, <2>2, <2>3, <2>4
<1>6. CASE Deny(c, j)
  <2>1. lease' = Swept /\ Few(lease')
    BY <1>6, SweptFewer, FewerKept DEF Deny
  <2>2. CASE PutReq(c, j, "unsent")
    BY <1>2, <2>1, <2>2
  <2>3. CASE UNCHANGED req
    <3>1. \A a : Renews(a)' <=> Renews(a)
      BY <1>1, <2>3 DEF Renews
    <3> QED
      BY <1>1, <2>1, <3>1, FreshStays DEF AllFresh, Fresh
  <2> QED
    BY <1>6, <2>1, <2>2, <2>3 DEF Deny
<1>7. CASE Bypass(c, j)
  <2>1. PICK s \in {"unsent", "loose"} : PutReq(c, j, s)
    BY <1>7 DEF Bypass
  <2>2. lease' = lease \/ (Grantable(PerRequest[c]) /\ lease' = Leased(x))
    BY <1>7 DEF Bypass
  <2>3. Few(lease')
    BY <2>2, LeasedFew
  <2>4. \A a \in Attempt \ {x} : lease'[a] \in {lease[a], Swept[a]}
    BY <1>3, <2>2
  <2> QED
    BY <1>2, <2>1, <2>3, <2>4
<1>8. CASE Dispatch(c, j)
  <2>1. lease' = lease
    BY <1>8 DEF Dispatch, Bucket
  <2>2. PutReq(c, j, "adrift") \/ (req[c][j] = "granted" /\ PutReq(c, j, "sent"))
    BY <1>8 DEF Dispatch
  <2> QED
    BY <1>2, <2>1, <2>2
<1>9. CASE NotSent(c, j) \/ Return(c, j)
  <2>1. lease' \in {lease, Released(x), Refunded(x)}
    BY <1>9 DEF NotSent, Return
  <2>2. Few(lease')
    BY <2>1, LeasesFewer, FewerKept
  <2>3. \A a \in Attempt \ {x} : lease'[a] \in {lease[a], Swept[a]}
    BY <1>3, <2>1
  <2>4. PICK s \in {"uncommitted", "unsent", "late", "ok", "unknown", "timeout", "cut"} \cup HasStatus :
          PutReq(c, j, s)
    BY <1>9 DEF NotSent, Return
  <2>5. s \notin {"granted", "sent"}
    BY <2>4 DEF HasStatus
  <2> QED
    BY <1>2, <2>2, <2>3, <2>4, <2>5
<1> QED
  BY <1>5, <1>6, <1>7, <1>8, <1>9 DEF Request

LEMMA TickFresh ==
    ASSUME Typed, Few(lease), AllFresh, NEW Q, Tick(Q)
    PROVE  Few(lease') /\ AllFresh'
<1>1. lease' = [a \in Attempt |-> Aged(a, a[1] \in Q)]
  BY DEF Tick
<1>2. Few(lease')
  <2>1. InFlight(lease') \subseteq InFlight(lease)
    <3>1. ASSUME NEW a \in Attempt, Aged(a, a[1] \in Q).st = "live" PROVE lease[a].st = "live"
      BY <3>1 DEF Aged, NoRow, Typed, Leases, Row
    <3> QED
      BY <1>1, <3>1 DEF InFlight
  <2> QED
    BY <2>1, FewerKept
<1>3. ASSUME NEW a \in Attempt, Renews(a)', ~call'[a[1]].slow
      PROVE  lease'[a].st = "live" /\ lease'[a].quiet = 0
  <2>1. a[1] \in Call
    BY DEF Attempt
  <2> DEFINE c == a[1]
  <2>2. call'[c].at = call[c].at /\ call'[c].key = call[c].key
        /\ (call[c].at = "sending" => ~call[c].slow /\ c \notin Q)
    <3>1. CASE call[c].at \in Done
      <4>1. call'[c] = call[c]
        BY <2>1, <3>1 DEF Tick
      <4> QED
        BY <3>1, <4>1 DEF Done
    <3>2. CASE call[c].at \notin Done
      <4> DEFINE x == call[c].life + 1
                 y == call[c].slow \/ c \in Q
      <4>1. call'[c] = [call[c] EXCEPT !.life = x, !.slow = y]
        BY <2>1, <3>2 DEF Tick
      <4>2. call'[c].slow = y
        <5> HIDE DEF x, y
        <5> QED
          BY <2>1, <4>1 DEF Typed, Calls, CallState
      <4>3. ~y
        BY <1>3, <4>2
      <4>4. call'[c].at = call[c].at /\ call'[c].key = call[c].key
        <5> HIDE DEF x, y
        <5> QED
          BY <2>1, <4>1 DEF Typed, Calls, CallState
      <4> QED
        BY <4>3, <4>4
    <3> QED
      BY <3>1, <3>2
  <2>3. Renews(a)
    BY <1>3, <2>2 DEF Renews, Tick
  <2>4. lease[a].st = "live" /\ c \notin Q
    BY <2>2, <2>3 DEF AllFresh, Fresh, Renews
  <2>5. lease'[a] = Aged(a, c \in Q)
    BY <1>1
  <2> QED
    BY <2>3, <2>4, <2>5 DEF Aged
<1> QED
  BY <1>2, <1>3 DEF AllFresh, Fresh

\* The inductive invariant of the bucket.
Bounded == Few(lease) /\ AllFresh

LEMMA BoundedInit == Init => Bounded
<1> SUFFICES ASSUME Init PROVE Bounded
  OBVIOUS
<1>1. InFlight(lease) = {}
  BY DEF Init, InFlight, NoRow
<1>2. Few(lease)
  BY <1>1, FS_EmptySet, LimitAssumption DEF Few
<1>3. \A a \in Attempt : ~Renews(a)
  BY DEF Init, Renews, NewCall, Attempt
<1> QED
  BY <1>2, <1>3 DEF Bounded, AllFresh, Fresh

LEMMA BoundedStep == Sound /\ Bounded /\ [Next]_vars => Bounded'
<1> SUFFICES ASSUME Sound, Bounded, [Next]_vars PROVE Bounded'
  OBVIOUS
<1> USE DEF Bounded
<1>1. Typed
  BY DEF Sound
<1>2. ASSUME NEW c \in Call, Step(c) \/ SwitchAway(c) \/ Cancel(c) \/ Crash(c)
      PROVE  Bounded'
  <2>0. Kept(c)
    BY DEF Sound
  <2>1. CASE \/ StartDirect(c) \/ StartSub2api(c) \/ Sub2api(c)
             \/ Reserve(c) \/ Exhausted(c) \/ Halt(c)
             \/ Settle(c) \/ GiveBack(c) \/ Crash(c)
    <3>1. AllFresh' /\ lease' \in {lease, Swept}
      BY <1>1, <2>0, <2>1, MovesFresh
    <3>2. Few(lease')
      BY <3>1, SweptFewer, FewerKept
    <3> QED
      BY <3>1, <3>2
  <2>2. CASE SwitchAway(c) \/ Cancel(c) \/ TimeOut(c)
    <3>1. PICK s : Put(c, [call[c] EXCEPT !.stop = s])
      BY <2>2 DEF SwitchAway, Cancel, TimeOut
    <3>2. UNCHANGED <<lease, req>>
      BY <2>2 DEF SwitchAway, Cancel, TimeOut, Bucket
    <3>3. \A d \in Call : call'[d] = call[d] \/ call'[d] = [call[d] EXCEPT !.stop = s]
      BY <1>1, <3>1, PutAt
    <3>4. \A d \in Call : /\ call'[d].at = call[d].at /\ call'[d].key = call[d].key
                          /\ call'[d].slow = call[d].slow
      <4> SUFFICES ASSUME NEW d \in Call
                   PROVE  /\ call'[d].at = call[d].at /\ call'[d].key = call[d].key
                          /\ call'[d].slow = call[d].slow
        OBVIOUS
      <4>1. CASE call'[d] = call[d]
        BY <4>1
      <4>2. CASE call'[d] = [call[d] EXCEPT !.stop = s]
        BY <1>1, <4>2 DEF Typed, Calls, CallState
      <4> QED
        BY <3>3, <4>1, <4>2
    <3>5. \A a \in Attempt : a[1] \in Call
      BY DEF Attempt
    <3> QED
      BY <3>2, <3>4, <3>5 DEF AllFresh, Fresh, Renews
  <2>3. CASE \E j \in Req(c) : Request(c, j)
    BY <1>1, <2>3, RequestFresh
  <2> QED
    BY <1>2, <2>1, <2>2, <2>3 DEF Step
<1>3. ASSUME NEW Q, Tick(Q) PROVE Bounded'
  BY <1>1, <1>3, TickFresh
<1>4. CASE NewMonth \/ (\E k \in Key : Restore(k)) \/ UNCHANGED vars
  <2>1. UNCHANGED <<call, req, lease>>
    BY <1>4 DEF NewMonth, Restore, Bucket, vars
  <2> QED
    BY <2>1 DEF AllFresh, Fresh, Renews
<1> QED
  BY <1>2, <1>3, <1>4 DEF Next

\* The requests in flight whose process did not stall stay within the limit of
\* the bucket, for any number of calls and any limits: the sweep frees no lease
\* that is in use (acquireSchedulerSlots and its heartbeat, scheduler.ts).
THEOREM InFlightBounded == Spec => []InFlightKept
<1>1. Init => Sound /\ Bounded
  BY InitTyped, InitKept, BoundedInit DEF Sound
<1>2. Sound /\ Bounded /\ [Next]_vars => (Sound /\ Bounded)'
  BY AllTyped, AllKept, BoundedStep DEF Sound
<1>3. Bounded => InFlightKept
  <2> SUFFICES ASSUME Bounded PROVE InFlightKept
    OBVIOUS
  <2>1. Flying \subseteq InFlight(lease)
    <3> SUFFICES ASSUME NEW a \in Attempt, a \in Flying PROVE lease[a].st = "live"
      BY DEF Flying, InFlight
    <3>1. Renews(a) /\ ~call[a[1]].slow
      BY DEF Flying, Renews
    <3> QED
      BY <3>1 DEF Bounded, AllFresh, Fresh
  <2>2. IsFiniteSet(Flying) /\ Cardinality(Flying) <= Cardinality(InFlight(lease))
    BY <2>1, FS_Subset DEF Bounded, Few
  <2>3. Cardinality(Flying) \in Nat /\ Cardinality(InFlight(lease)) \in Nat /\ Concurrency \in Nat
    BY <2>2, FS_CardinalityType, LimitAssumption DEF Bounded, Few
  <2> QED
    BY <2>2, <2>3 DEF Bounded, Few, InFlightKept
<1> QED
  BY <1>1, <1>2, <1>3, PTL DEF Spec

-----------------------------------------------------------------------------
(* Sums over finite sets.  The induction is by a minimal counterexample.    *)

LEMMA MinimalExists ==
    ASSUME NEW S, IsFiniteSet(S), NEW T \in SUBSET SUBSET S, T # {}
    PROVE  \E X \in T : \A Y \in T : Y \subseteq X => Y = X
<1>1. T \subseteq FiniteSubsetsOf(S)
  BY FS_Subset DEF FiniteSubsetsOf
<1>2. PICK X \in T : \A Y \in T : ~ (<<Y, X>> \in StrictSubsetOrdering(S))
  BY <1>1, FS_StrictSubsetOrderingWellFounded, WFMin
<1> QED
  BY <1>2 DEF StrictSubsetOrdering

\* The sum of a set from those of smaller ones, and the function that
\* SumFunctionOnSet picks.
AnyOf(s) == CHOOSE x \in s : TRUE
SumFrom(f, s, g) == IF s = {} THEN 0 ELSE f[AnyOf(s)] + g[s \ {AnyOf(s)}]
IsSums(f, S, g) == g = [s \in SUBSET S |-> SumFrom(f, s, g)]
Sums(f, S) == CHOOSE g : IsSums(f, S, g)

LEMMA SumIs == ASSUME NEW f, NEW S PROVE SumFunctionOnSet(f, S) = Sums(f, S)[S]
BY DEF SumFunctionOnSet, FoldFunctionOnSet, MapThenFoldSet, Sums, IsSums, SumFrom, AnyOf

LEMMA SumsAt ==
    ASSUME NEW f, NEW S, NEW g, IsSums(f, S, g), NEW s \in SUBSET S
    PROVE  /\ s = {} => g[s] = 0
           /\ s # {} => /\ AnyOf(s) \in s
                        /\ g[s] = f[AnyOf(s)] + g[s \ {AnyOf(s)}]
<1>1. g[s] = SumFrom(f, s, g)
  BY DEF IsSums
<1>2. s # {} => AnyOf(s) \in s
  BY DEF AnyOf
<1> QED
  BY <1>1, <1>2 DEF SumFrom

LEMMA SumsAgree ==
    ASSUME NEW f, NEW S, IsFiniteSet(S), NEW Y \in SUBSET S, NEW Z \in SUBSET S,
           NEW g, IsSums(f, Y, g), NEW h, IsSums(f, Z, h), NEW s \in SUBSET (Y \cap Z)
    PROVE  g[s] = h[s]
<1> DEFINE T == {t \in SUBSET (Y \cap Z) : g[t] # h[t]}
<1> SUFFICES ASSUME T # {} PROVE FALSE
  OBVIOUS
<1>1. T \in SUBSET SUBSET S
  OBVIOUS
<1>2. PICK X \in T : \A t \in T : t \subseteq X => t = X
  <2> HIDE DEF T
  <2> QED
    BY <1>1, MinimalExists
<1>3. X \in SUBSET Y /\ X \in SUBSET Z /\ g[X] # h[X]
  BY <1>2
<1>4. CASE X = {}
  <2>1. g[X] = 0 /\ h[X] = 0
    BY <1>3, <1>4, SumsAt
  <2> QED
    BY <1>3, <2>1
<1>5. CASE X # {}
  <2>1. AnyOf(X) \in X /\ g[X] = f[AnyOf(X)] + g[X \ {AnyOf(X)}]
    BY <1>3, <1>5, SumsAt
  <2>2. h[X] = f[AnyOf(X)] + h[X \ {AnyOf(X)}]
    BY <1>3, <1>5, SumsAt
  <2>3. X \ {AnyOf(X)} \notin T
    BY <1>2, <2>1
  <2>4. g[X \ {AnyOf(X)}] = h[X \ {AnyOf(X)}]
    BY <1>3, <2>3
  <2> QED
    BY <1>3, <2>1, <2>2, <2>4
<1> QED
  BY <1>4, <1>5

\* The recursion defines sums.
LEMMA SumsExist ==
    ASSUME NEW f, NEW S, IsFiniteSet(S)
    PROVE  IsSums(f, S, Sums(f, S))
<1> DEFINE T == {t \in SUBSET S : ~ IsSums(f, t, Sums(f, t))}
<1> SUFFICES ASSUME T # {} PROVE FALSE
  OBVIOUS
<1>1. PICK X \in T : \A t \in T : t \subseteq X => t = X
  <2>1. T \in SUBSET SUBSET S
    OBVIOUS
  <2> HIDE DEF T
  <2> QED
    BY <2>1, MinimalExists
<1>2. \A s \in SUBSET X : s # X => IsSums(f, s, Sums(f, s))
  BY <1>1
<1> DEFINE below == [s \in SUBSET X |-> Sums(f, s)[s]]
           G == [s \in SUBSET X |-> SumFrom(f, s, below)]
<1>3. ASSUME NEW s \in SUBSET X, s # X PROVE G[s] = Sums(f, s)[s]
  <2>1. IsSums(f, s, Sums(f, s))
    BY <1>2, <1>3
  <2>2. CASE s = {}
    BY <2>1, <2>2, SumsAt DEF SumFrom
  <2>3. CASE s # {}
    <3> DEFINE x == AnyOf(s)
               r == s \ {x}
    <3>1. x \in s /\ Sums(f, s)[s] = f[x] + Sums(f, s)[r]
      BY <2>1, <2>3, SumsAt
    <3>2. r \in SUBSET X /\ r # X /\ r \in SUBSET (s \cap r)
      BY <1>3, <3>1
    <3>3. IsSums(f, r, Sums(f, r))
      BY <1>2, <3>2
    <3>4. Sums(f, s)[r] = Sums(f, r)[r]
      <4>1. s \in SUBSET S /\ r \in SUBSET S
        BY <1>1
      <4> HIDE DEF r
      <4> QED
        BY <2>1, <3>2, <3>3, <4>1, SumsAgree
    <3>5. G[s] = f[x] + below[r]
      BY <2>3 DEF SumFrom
    <3> QED
      BY <3>1, <3>2, <3>4, <3>5
  <2> QED
    BY <2>2, <2>3
<1>4. \A s \in SUBSET X : SumFrom(f, s, below) = SumFrom(f, s, G)
  <2> SUFFICES ASSUME NEW s \in SUBSET X, s # {}
               PROVE  SumFrom(f, s, below) = SumFrom(f, s, G)
    BY DEF SumFrom
  <2>1. AnyOf(s) \in s
    BY DEF AnyOf
  <2>2. s \ {AnyOf(s)} \in SUBSET X /\ s \ {AnyOf(s)} # X
    BY <2>1
  <2>3. G[s \ {AnyOf(s)}] = below[s \ {AnyOf(s)}]
    BY <1>3, <2>2
  <2> HIDE DEF G, below
  <2> QED
    BY <2>3 DEF SumFrom
<1>5. IsSums(f, X, G)
  BY <1>4 DEF IsSums
<1>6. IsSums(f, X, Sums(f, X))
  <2> HIDE DEF G
  <2> QED
    BY <1>5 DEF Sums
<1> QED
  BY <1>1, <1>6

\* The sum of a finite set, from that of the set without one of its elements.
LEMMA SumStep ==
    ASSUME NEW f, NEW S, IsFiniteSet(S)
    PROVE  /\ S = {} => SumFunctionOnSet(f, S) = 0
           /\ S # {} => /\ AnyOf(S) \in S
                        /\ SumFunctionOnSet(f, S)
                             = f[AnyOf(S)] + SumFunctionOnSet(f, S \ {AnyOf(S)})
<1>1. IsSums(f, S, Sums(f, S))
  BY SumsExist
<1>2. CASE S = {}
  BY <1>1, <1>2, SumsAt, SumIs
<1>3. CASE S # {}
  <2> DEFINE x == AnyOf(S)
             r == S \ {x}
  <2>0. S \in SUBSET S
    OBVIOUS
  <2> HIDE DEF x, r
  <2>1. x \in S /\ Sums(f, S)[S] = f[x] + Sums(f, S)[r]
    <3> DEFINE g == Sums(f, S)
    <3>1. IsSums(f, S, g)
      BY <1>1
    <3> HIDE DEF g
    <3>2. \A s \in SUBSET S : s # {} => AnyOf(s) \in s /\ g[s] = f[AnyOf(s)] + g[s \ {AnyOf(s)}]
      BY <3>1, SumsAt
    <3>3. AnyOf(S) \in S /\ g[S] = f[AnyOf(S)] + g[S \ {AnyOf(S)}]
      BY <1>3, <2>0, <3>2
    <3> QED
      BY <3>3 DEF g, x, r
  <2>2. r \in SUBSET S /\ IsFiniteSet(r) /\ r \in SUBSET (S \cap r)
    BY FS_Subset DEF r
  <2>3. IsSums(f, r, Sums(f, r))
    BY <2>2, SumsExist
  <2>4. Sums(f, S)[r] = Sums(f, r)[r]
    <3> DEFINE g == Sums(f, S)
               h == Sums(f, r)
    <3>1. IsSums(f, S, g) /\ IsSums(f, r, h)
      BY <1>1, <2>3
    <3> HIDE DEF g, h
    <3>2. \A s \in SUBSET (S \cap r) : g[s] = h[s]
      BY <2>2, <3>1, SumsAgree, SMTT(30)
    <3> QED
      BY <2>2, <3>2 DEF g, h
  <2>5. SumFunctionOnSet(f, S) = f[x] + SumFunctionOnSet(f, r)
    BY <2>1, <2>4, SumIs
  <2> QED
    BY <1>3, <2>1, <2>5 DEF r, x
<1> QED
  BY <1>2, <1>3

LEMMA SumNat ==
    ASSUME NEW D, NEW f \in [D -> Nat], NEW S \in SUBSET D, IsFiniteSet(S)
    PROVE  SumFunctionOnSet(f, S) \in Nat
<1> DEFINE T == {t \in SUBSET S : SumFunctionOnSet(f, t) \notin Nat}
<1> SUFFICES ASSUME T # {} PROVE FALSE
  OBVIOUS
<1>1. PICK X \in T : \A t \in T : t \subseteq X => t = X
  <2>1. T \in SUBSET SUBSET S
    OBVIOUS
  <2> HIDE DEF T
  <2> QED
    BY <2>1, MinimalExists
<1>2. IsFiniteSet(X) /\ X \subseteq D
  BY <1>1, FS_Subset
<1>3. X # {}
  <2> SUFFICES ASSUME X = {} PROVE FALSE
    OBVIOUS
  <2>1. SumFunctionOnSet(f, X) = 0
    BY <1>2, SumStep
  <2>2. SumFunctionOnSet(f, X) \notin Nat
    BY <1>1
  <2> QED
    BY <2>1, <2>2
<1> DEFINE x == AnyOf(X)
<1>4. x \in X /\ SumFunctionOnSet(f, X) = f[x] + SumFunctionOnSet(f, X \ {x})
  BY <1>2, <1>3, SumStep
<1>5. SumFunctionOnSet(f, X \ {x}) \in Nat
  BY <1>1, <1>4
<1>6. f[x] \in Nat
  BY <1>2, <1>4
<1>7. SumFunctionOnSet(f, X) \in Nat
  <2> HIDE DEF x
  <2> QED
    BY <1>4, <1>5, <1>6
<1> QED
  BY <1>1, <1>7

\* Any element can be counted last.
LEMMA SumWithout ==
    ASSUME NEW D, NEW f \in [D -> Nat], NEW S \in SUBSET D, IsFiniteSet(S), NEW x \in S
    PROVE  SumFunctionOnSet(f, S) = f[x] + SumFunctionOnSet(f, S \ {x})
<1> DEFINE sum(t) == SumFunctionOnSet(f, t)
           T == {t \in SUBSET S : \E y \in t : sum(t) # f[y] + sum(t \ {y})}
<1> SUFFICES ASSUME T # {} PROVE FALSE
  OBVIOUS
<1>1. PICK X \in T : \A t \in T : t \subseteq X => t = X
  <2>1. T \in SUBSET SUBSET S
    OBVIOUS
  <2> HIDE DEF T
  <2> QED
    BY <2>1, MinimalExists
<1>2. PICK y \in X : sum(X) # f[y] + sum(X \ {y})
  BY <1>1
<1> DEFINE z == AnyOf(X)
<1>3. /\ X \subseteq D /\ IsFiniteSet(X) /\ IsFiniteSet(X \ {y}) /\ IsFiniteSet(X \ {z})
      /\ IsFiniteSet((X \ {y}) \ {z})
  <2>1. X \subseteq S
    BY <1>1
  <2> QED
    BY <2>1, FS_Subset
<1>4. z \in X /\ sum(X) = f[z] + sum(X \ {z})
  BY <1>2, <1>3, SumStep
<1>5. y # z
  BY <1>2, <1>4
<1>6. X \ {z} \notin T /\ X \ {y} \notin T
  BY <1>1, <1>2, <1>4
<1>7. sum(X \ {z}) = f[y] + sum((X \ {z}) \ {y}) /\ sum(X \ {y}) = f[z] + sum((X \ {y}) \ {z})
  BY <1>1, <1>2, <1>4, <1>5, <1>6
<1>8. (X \ {z}) \ {y} = (X \ {y}) \ {z}
  OBVIOUS
<1>9. f[y] \in Nat /\ f[z] \in Nat /\ sum((X \ {y}) \ {z}) \in Nat
  BY <1>2, <1>3, <1>4, SumNat
<1> HIDE DEF sum, z
<1> QED
  BY <1>2, <1>4, <1>7, <1>8, <1>9

LEMMA SumMonotone ==
    ASSUME NEW D, NEW f \in [D -> Nat], NEW S \in SUBSET D, IsFiniteSet(S), NEW R \in SUBSET S
    PROVE  SumFunctionOnSet(f, R) <= SumFunctionOnSet(f, S)
<1> DEFINE sum(t) == SumFunctionOnSet(f, t)
           T == {t \in SUBSET S : R \subseteq t /\ ~ (sum(R) <= sum(t))}
<1> SUFFICES ASSUME T # {} PROVE FALSE
  OBVIOUS
<1>1. PICK X \in T : \A t \in T : t \subseteq X => t = X
  <2>1. T \in SUBSET SUBSET S
    OBVIOUS
  <2> HIDE DEF T
  <2> QED
    BY <2>1, MinimalExists
<1>2. X \subseteq D /\ IsFiniteSet(X) /\ R \subseteq D /\ IsFiniteSet(R)
  BY <1>1, FS_Subset
<1>3. sum(R) \in Nat
  BY <1>2, SumNat
<1>4. R # X
  BY <1>1, <1>3
<1>5. PICK x \in X : x \notin R
  BY <1>1, <1>4
<1>6. X \ {x} \notin T
  BY <1>1, <1>5
<1>7. sum(R) <= sum(X \ {x})
  BY <1>1, <1>5, <1>6
<1>8. sum(X) = f[x] + sum(X \ {x})
  BY <1>2, SumWithout
<1>9. f[x] \in Nat /\ sum(X \ {x}) \in Nat
  <2>1. X \ {x} \subseteq D /\ IsFiniteSet(X \ {x})
    BY <1>2, FS_Subset
  <2> QED
    BY <1>2, <2>1, SumNat
<1>10. sum(R) <= sum(X)
  <2> HIDE DEF sum
  <2> QED
    BY <1>3, <1>7, <1>8, <1>9
<1> QED
  BY <1>1, <1>10

-----------------------------------------------------------------------------
(* The images of a minute                                                  *)

LEMMA AttemptsFinite == IsFiniteSet(Attempt)
<1> DEFINE Of(c) == {<<c, k, j>> : k \in Key, j \in Req(c)}
<1>1. ASSUME NEW c \in Call PROVE IsFiniteSet(Of(c))
  <2> DEFINE S == Key \X Req(c)
             f == [p \in S |-> <<c, p[1], p[2]>>]
  <2>1. IsFiniteSet(Key) /\ IsFiniteSet(Req(c))
    BY CallAssumption, LimitAssumption, FS_Interval DEF Key, Req
  <2>2. IsFiniteSet(S)
    BY <2>1, FS_Product
  <2>3. f \in Surjection(S, Of(c))
    <3>1. f \in [S -> Of(c)]
      OBVIOUS
    <3>2. \A t \in Of(c) : \E p \in S : f[p] = t
      <4>1. \A k \in Key, j \in Req(c) : <<k, j>> \in S /\ f[<<k, j>>] = <<c, k, j>>
        OBVIOUS
      <4>2. \A t \in Of(c) : \E k \in Key, j \in Req(c) : t = <<c, k, j>>
        OBVIOUS
      <4> HIDE DEF S, f, Of
      <4> TAKE t \in Of(c)
      <4>3. PICK k \in Key, j \in Req(c) : t = <<c, k, j>>
        BY <4>2
      <4>4. <<k, j>> \in S /\ f[<<k, j>>] = t
        BY <4>1, <4>3
      <4> QED
        BY <4>4
    <3> HIDE DEF f, S, Of
    <3> QED
      BY <3>1, <3>2 DEF Surjection
  <2> HIDE DEF f, S, Of
  <2> QED
    BY <2>2, <2>3, FS_Surjection
<1> DEFINE Groups == {Of(c) : c \in Call}
<1>2. IsFiniteSet(Groups)
  <2> DEFINE f == [c \in Call |-> Of(c)]
  <2>1. f \in Surjection(Call, Groups)
    <3> HIDE DEF Of
    <3> QED
      BY DEF Surjection
  <2> HIDE DEF f, Groups
  <2> QED
    BY <2>1, CallAssumption, FS_Surjection
<1>3. Attempt = UNION Groups
  BY DEF Attempt
<1>4. \A T \in Groups : IsFiniteSet(T)
  BY <1>1
<1> HIDE DEF Groups
<1> QED
  BY <1>2, <1>3, <1>4, FS_UNION

LEMMA ImagesCount == Images \in [Attempt -> Nat] /\ \A a \in Attempt : Images[a] > 0
<1>1. \A a \in Attempt : a[1] \in Call
  BY DEF Attempt
<1>2. \A c \in Call : PerRequest[c] \in Nat /\ PerRequest[c] > 0
  BY CallAssumption
<1> QED
  BY <1>1, <1>2 DEF Images

\* The limit of a minute, for a set of grants.
ImagesOf(A) == SumFunctionOnSet(Images, A)
Within(A) == ImagesOf(A) <= PerMinute \/ Cardinality(A) = 1

LEMMA FewerImages ==
    ASSUME NEW A \in SUBSET Attempt, NEW B \in SUBSET A
    PROVE  /\ ImagesOf(B) \in Nat /\ ImagesOf(A) \in Nat
           /\ ImagesOf(B) <= ImagesOf(A)
           /\ IsFiniteSet(A) /\ IsFiniteSet(B)
<1>1. IsFiniteSet(A) /\ IsFiniteSet(B)
  BY AttemptsFinite, FS_Subset
<1>2. ImagesOf(B) \in Nat /\ ImagesOf(A) \in Nat
  BY <1>1, ImagesCount, SumNat DEF ImagesOf
<1>3. ImagesOf(B) <= ImagesOf(A)
  BY <1>1, ImagesCount, SumMonotone DEF ImagesOf
<1> QED
  BY <1>1, <1>2, <1>3

LEMMA NoImages == ImagesOf({}) = 0
BY FS_EmptySet, SumStep DEF ImagesOf

LEMMA FewerWithin ==
    ASSUME NEW A \in SUBSET Attempt, NEW B \in SUBSET A, Within(A)
    PROVE  Within(B)
<1>1. /\ ImagesOf(B) \in Nat /\ ImagesOf(A) \in Nat /\ ImagesOf(B) <= ImagesOf(A)
      /\ IsFiniteSet(A) /\ IsFiniteSet(B)
  BY FewerImages
<1>2. CASE ImagesOf(A) <= PerMinute
  BY <1>1, <1>2, LimitAssumption DEF Within
<1>3. CASE Cardinality(A) = 1
  <2>1. Cardinality(B) \in Nat /\ Cardinality(B) <= 1
    BY <1>1, <1>3, FS_Subset, FS_CardinalityType
  <2>2. CASE Cardinality(B) = 0
    <3>1. B = {}
      BY <1>1, <2>2, FS_EmptySet
    <3> QED
      BY <3>1, NoImages, LimitAssumption DEF Within
  <2> QED
    BY <2>1, <2>2 DEF Within
<1> QED
  BY <1>2, <1>3 DEF Within

LEMMA OneMore ==
    ASSUME NEW A \in SUBSET Attempt, NEW a \in Attempt
    PROVE  ImagesOf(A \cup {a}) <= ImagesOf(A) + Images[a]
<1> DEFINE B == A \cup {a}
<1>1. B \in SUBSET Attempt /\ a \in B /\ B \ {a} \in SUBSET A
  OBVIOUS
<1> HIDE DEF B
<1>2. IsFiniteSet(B)
  BY <1>1, AttemptsFinite, FS_Subset
<1>3. ImagesOf(B) = Images[a] + ImagesOf(B \ {a})
  BY <1>1, <1>2, ImagesCount, SumWithout DEF ImagesOf
<1>4. /\ ImagesOf(B \ {a}) \in Nat /\ ImagesOf(A) \in Nat
      /\ ImagesOf(B \ {a}) <= ImagesOf(A) /\ Images[a] \in Nat
  BY <1>1, FewerImages, ImagesCount
<1> QED
  BY <1>3, <1>4 DEF B

\* A grant that counts in a window has a row that counts as long.
Counted(a) == aired[a] < Window => lease[a].st # "none" /\ lease[a].age <= aired[a]
AllCounted == \A a \in Attempt : Counted(a)

LEMMA SweptCounted ==
    ASSUME Typed, AllCounted, NEW a \in Attempt, aired[a] < Window
    PROVE  /\ Swept[a].st # "none" /\ Swept[a].age = lease[a].age
           /\ lease[a].age <= aired[a] /\ lease[a].age < Window
<1>1. lease[a].st # "none" /\ lease[a].age <= aired[a]
  BY DEF AllCounted, Counted
<1>2. lease[a] \in Row /\ lease[a].age \in 0 .. Window /\ aired[a] \in 0 .. Window
  BY RowTyped DEF Typed, Leases
<1>3. lease[a].age < Window
  BY <1>1, <1>2, Terms
<1>4. Swept[a] \in {lease[a], [lease[a] EXCEPT !.st = "released", !.quiet = 0]}
  BY <1>3 DEF Swept
<1>5. /\ [lease[a] EXCEPT !.st = "released", !.quiet = 0].st = "released"
      /\ [lease[a] EXCEPT !.st = "released", !.quiet = 0].age = lease[a].age
  BY <1>2 DEF Row
<1> QED
  BY <1>1, <1>3, <1>4, <1>5

LEMMA AiredWindowed == ASSUME Typed, AllCounted PROVE Aired \subseteq Windowed(Swept)
BY SweptCounted DEF Aired, Windowed

\* A request that is granted fits in, or was above the limit and is alone.
LEMMA GrantWithin ==
    ASSUME Typed, AllCounted, NEW c \in Call, NEW a \in Attempt, a[1] = c,
           Grantable(PerRequest[c]), NEW B \in SUBSET (Aired \cup {a})
    PROVE  Within(B)
<1> DEFINE W == Windowed(Swept)
           n == PerRequest[c]
<1>1. W \in SUBSET Attempt /\ Aired \in SUBSET W
  BY AiredWindowed DEF Windowed
<1>2. ImagesOf(W) + Need(n) <= PerMinute
  BY DEF Grantable, ImagesOf
<1>3. n \in Nat /\ n > 0 /\ PerMinute \in Nat /\ Images[a] = n
  BY CallAssumption, LimitAssumption DEF Images
<1> HIDE DEF W, n
<1>4. /\ ImagesOf(W) \in Nat /\ ImagesOf(Aired) \in Nat
      /\ ImagesOf(Aired) <= ImagesOf(W)
  BY <1>1, FewerImages
<1>5. CASE n <= PerMinute
  <2>1. Need(n) = n
    BY <1>3, <1>5 DEF Need
  <2>2. ImagesOf(Aired \cup {a}) <= ImagesOf(Aired) + n
    BY <1>1, <1>3, OneMore
  <2>3. Aired \cup {a} \in SUBSET Attempt
    BY <1>1
  <2>4. ImagesOf(Aired \cup {a}) \in Nat
    BY <2>3, FewerImages
  <2>5. Within(Aired \cup {a})
    BY <1>2, <1>3, <1>4, <2>1, <2>2, <2>4 DEF Within
  <2> QED
    BY <2>3, <2>5, FewerWithin
<1>6. CASE ~ (n <= PerMinute)
  <2>1. ImagesOf(W) = 0
    BY <1>2, <1>3, <1>4, <1>6 DEF Need
  <2>2. W = {}
    <3> SUFFICES ASSUME NEW b \in W PROVE FALSE
      OBVIOUS
    <3>1. ImagesOf(W) = Images[b] + ImagesOf(W \ {b})
      BY <1>1, FewerImages, ImagesCount, SumWithout DEF ImagesOf
    <3>2. Images[b] \in Nat /\ Images[b] > 0 /\ ImagesOf(W \ {b}) \in Nat
      BY <1>1, FewerImages, ImagesCount
    <3> QED
      BY <2>1, <3>1, <3>2
  <2>3. Within({a})
    BY FS_Singleton DEF Within
  <2> QED
    BY <1>1, <2>2, <2>3, FewerWithin
<1> QED
  BY <1>5, <1>6

\* The inductive invariant of the window.
Windows == AllCounted /\ WindowKept

LEMMA WindowIs == WindowKept <=> Within(Aired)
BY DEF WindowKept, Within, ImagesOf

\* Nothing is granted, and nothing that counts is forgotten.
LEMMA WindowShrinks ==
    ASSUME Typed, Windows, AllCounted', Aired' \subseteq Aired
    PROVE  Windows'
<1>1. Aired \in SUBSET Attempt
  BY DEF Aired
<1>2. Within(Aired)
  BY WindowIs DEF Windows
<1>3. Within(Aired')
  BY <1>1, <1>2, FewerWithin
<1>4. WindowKept'
  BY <1>3 DEF WindowKept, Within, ImagesOf
<1> QED
  BY <1>4 DEF Windows

LEMMA SameWindow ==
    ASSUME Typed, Windows, aired' = aired, lease' \in {lease, Swept}
    PROVE  Windows'
<1>1. AllCounted'
  BY SweptCounted DEF Windows, AllCounted, Counted
<1> QED
  BY <1>1, WindowShrinks DEF Aired

LEMMA RequestWindow ==
    ASSUME Typed, Windows, NEW c \in Call, Kept(c), NEW j \in Req(c), Request(c, j)
    PROVE  Windows'
<1> DEFINE a == Lease(c, j)
<1>0. /\ aired \in [Attempt -> 0 .. Window] /\ lease \in [Attempt -> Row]
      /\ AllCounted /\ Window \in Nat /\ ~ (Window < Window)
      /\ \A b \in Attempt : lease[b].age \in 0 .. Window
  <2>1. aired \in [Attempt -> 0 .. Window] /\ lease \in [Attempt -> Row] /\ AllCounted
    BY DEF Typed, Leases, Windows
  <2>2. \A b \in Attempt : lease[b].age \in 0 .. Window
    BY <2>1, RowTyped
  <2>3. Window \in Nat /\ ~ (Window < Window)
    BY Terms
  <2> QED
    BY <2>1, <2>2, <2>3
<1>1. CASE Grant(c, j)
  <2>1. /\ aired' = [aired EXCEPT ![a] = 0] /\ lease' = [Swept EXCEPT ![a] = [NoRow EXCEPT !.st = "live"]]
        /\ Grantable(PerRequest[c])
    BY <1>1 DEF Grant, Leased
  <2>2. Swept \in [Attempt -> Row]
    BY SweptTyped DEF Typed
  <2>3. [NoRow EXCEPT !.st = "live"].st = "live" /\ [NoRow EXCEPT !.st = "live"].age = 0
    BY DEF NoRow
  <2>4. a \in Attempt => a[1] = c
    BY DEF Lease
  <2> HIDE DEF a
  <2>5. ASSUME NEW b \in Attempt PROVE Counted(b)'
    <3>1. CASE b = a
      <4>1. lease'[b] = [NoRow EXCEPT !.st = "live"] /\ aired'[b] = 0
        BY <1>0, <2>1, <2>2, <3>1
      <4> QED
        BY <2>3, <4>1 DEF Counted
    <3>2. CASE b # a
      <4>1. lease'[b] = Swept[b] /\ aired'[b] = aired[b]
        BY <1>0, <2>1, <2>2, <3>2
      <4> QED
        BY <1>0, <4>1, SweptCounted DEF Counted
    <3> QED
      BY <3>1, <3>2
  <2>6. AllCounted'
    BY <2>5 DEF AllCounted
  <2>7. Aired' \subseteq Aired \cup {a}
    BY <1>0, <2>1 DEF Aired
  <2>8. CASE a \in Attempt
    <3>1. Within(Aired')
      BY <1>0, <2>1, <2>4, <2>7, <2>8, GrantWithin
    <3>2. WindowKept'
      BY <3>1 DEF WindowKept, Within, ImagesOf
    <3> QED
      BY <2>6, <3>2 DEF Windows
  <2>9. CASE a \notin Attempt
    <3>1. Aired' \subseteq Aired
      BY <2>7, <2>9 DEF Aired
    <3> QED
      BY <2>6, <3>1, WindowShrinks
  <2> QED
    BY <2>8, <2>9
<1>2. CASE Deny(c, j) \/ Dispatch(c, j)
  <2>1. aired' = aired /\ lease' \in {lease, Swept}
    BY <1>2 DEF Deny, Dispatch, Bucket
  <2> QED
    BY <2>1, SameWindow
<1>3. CASE Bypass(c, j)
  <2>1. aired' = aired /\ lease' \in {lease, Leased(a)}
    BY <1>3 DEF Bypass
  <2>2. CASE lease' = lease
    BY <2>1, <2>2, SameWindow
  <2>3. CASE lease' = [Swept EXCEPT ![a] = [NoRow EXCEPT !.st = "live"]]
    <3>1. Swept \in [Attempt -> Row]
      BY SweptTyped DEF Typed
    <3>2. [NoRow EXCEPT !.st = "live"].st = "live" /\ [NoRow EXCEPT !.st = "live"].age = 0
      BY DEF NoRow
    <3> HIDE DEF a
    <3>3. ASSUME NEW b \in Attempt PROVE Counted(b)'
      <4>1. CASE b = a
        <5>1. lease'[b] = [NoRow EXCEPT !.st = "live"] /\ aired'[b] \in 0 .. Window
          BY <1>0, <2>1, <2>3, <3>1, <4>1
        <5>2. 0 <= aired'[b]
          BY <1>0, <5>1
        <5> QED
          BY <3>2, <5>1, <5>2 DEF Counted
      <4>2. CASE b # a
        <5>1. lease'[b] = Swept[b] /\ aired'[b] = aired[b]
          BY <2>1, <2>3, <3>1, <4>2
        <5> QED
          BY <1>0, <5>1, SweptCounted DEF Counted
      <4> QED
        BY <4>1, <4>2
    <3>4. AllCounted' /\ Aired' \subseteq Aired
      BY <2>1, <3>3 DEF AllCounted, Aired
    <3> QED
      BY <3>4, WindowShrinks
  <2> QED
    BY <2>1, <2>2, <2>3 DEF Leased
<1>4. CASE NotSent(c, j)
  <2>1. \/ UNCHANGED <<lease, aired>>
        \/ aired' = [aired EXCEPT ![a] = Window] /\ lease' \in {lease, [lease EXCEPT ![a] = NoRow]}
    BY <1>4 DEF NotSent, Refunded
  <2>2. CASE UNCHANGED <<lease, aired>>
    BY <2>2, SameWindow
  <2>3. CASE aired' = [aired EXCEPT ![a] = Window] /\ lease' \in {lease, [lease EXCEPT ![a] = NoRow]}
    <3> HIDE DEF a
    <3>1. \A b \in Attempt : aired'[b] < Window => b # a /\ aired'[b] = aired[b]
      BY <1>0, <2>3
    <3>2. \A b \in Attempt : b # a => lease'[b] = lease[b]
      BY <1>0, <2>3
    <3>3. AllCounted'
      BY <1>0, <3>1, <3>2 DEF AllCounted, Counted
    <3>4. Aired' \subseteq Aired
      BY <3>1 DEF Aired
    <3> QED
      BY <3>3, <3>4, WindowShrinks
  <2> QED
    BY <2>1, <2>2, <2>3
<1>5. CASE Return(c, j)
  <2>1. aired' = aired /\ lease' \in {lease, Released(a)}
    BY <1>5 DEF Return
  <2>2. CASE lease' = lease
    BY <2>1, <2>2, SameWindow
  <2>3. CASE lease' = Released(a)
    <3> HIDE DEF a
    <3>1. ASSUME NEW b \in Attempt, aired[b] < Window
          PROVE  lease'[b].st # "none" /\ lease'[b].age = lease[b].age
      <4>1. lease[b].st # "none" /\ lease[b].age < Window /\ lease[b] \in Row
        BY <1>0, <3>1, SweptCounted DEF AllCounted, Counted
      <4>2. lease'[b] \in {lease[b], [lease[b] EXCEPT !.st = "released", !.quiet = 0]}
        BY <1>0, <2>3, <4>1 DEF Released
      <4>3. /\ [lease[b] EXCEPT !.st = "released", !.quiet = 0].st = "released"
            /\ [lease[b] EXCEPT !.st = "released", !.quiet = 0].age = lease[b].age
        BY <4>1 DEF Row
      <4> QED
        BY <4>1, <4>2, <4>3
    <3>2. AllCounted' /\ Aired' \subseteq Aired
      BY <1>0, <2>1, <3>1 DEF AllCounted, Counted, Aired
    <3> QED
      BY <3>2, WindowShrinks
  <2> QED
    BY <2>1, <2>2, <2>3
<1> QED
  BY <1>1, <1>2, <1>3, <1>4, <1>5 DEF Request

LEMMA TickWindow == ASSUME Typed, Windows, NEW Q, Tick(Q) PROVE Windows'
<1>1. ASSUME NEW a \in Attempt, aired'[a] < Window
      PROVE  aired[a] < Window /\ lease'[a].st # "none" /\ lease'[a].age <= aired'[a]
  <2>1. /\ aired'[a] = Up(aired[a], Window) /\ aired[a] \in 0 .. Window
        /\ lease[a] \in Row /\ lease[a].age \in 0 .. Window /\ Window \in Nat
    BY RowTyped, Terms DEF Tick, Typed, Leases
  <2>2. aired[a] < Window /\ aired'[a] = aired[a] + 1
    BY <1>1, <2>1 DEF Up
  <2>3. lease[a].st # "none" /\ lease[a].age <= aired[a]
    BY <2>2 DEF Windows, AllCounted, Counted
  <2> DEFINE age == Up(lease[a].age, Window)
  <2>4. age = lease[a].age + 1 /\ age < Window /\ age <= aired'[a]
    BY <1>1, <2>1, <2>2, <2>3 DEF Up
  <2>5. lease'[a] = Aged(a, a[1] \in Q)
    BY DEF Tick
  <2>6. lease'[a].st # "none" /\ lease'[a].age = age
    <3>1. CASE lease[a].st = "live"
      BY <2>5, <3>1 DEF Aged
    <3>2. CASE lease[a].st = "released"
      <4>1. lease'[a] = [lease[a] EXCEPT !.age = age]
        BY <2>4, <2>5, <3>2 DEF Aged
      <4> HIDE DEF age
      <4> QED
        BY <2>1, <3>2, <4>1 DEF Row
    <3> QED
      BY <2>1, <2>3, <3>1, <3>2 DEF Row
  <2> QED
    BY <2>2, <2>4, <2>6
<1>2. AllCounted' /\ Aired' \subseteq Aired
  BY <1>1 DEF AllCounted, Counted, Aired
<1> QED
  BY <1>2, WindowShrinks

LEMMA WindowStep == Sound /\ Windows /\ [Next]_vars => Windows'
<1> SUFFICES ASSUME Sound, Windows, [Next]_vars PROVE Windows'
  OBVIOUS
<1>1. Typed
  BY DEF Sound
<1>2. ASSUME NEW c \in Call, Step(c) \/ SwitchAway(c) \/ Cancel(c) \/ Crash(c)
      PROVE  Windows'
  <2>1. CASE \E j \in Req(c) : Request(c, j)
    BY <1>1, <2>1, RequestWindow DEF Sound
  <2>2. CASE ~ \E j \in Req(c) : Request(c, j)
    <3>1. aired' = aired /\ lease' \in {lease, Swept}
      BY <1>2, <2>2 DEF Step, StartDirect, StartSub2api, Sub2api, Reserve, Exhausted, Halt, Settle,
         GiveBack, TimeOut, SwitchAway, Cancel, Crash, Bucket
    <3> QED
      BY <1>1, <3>1, SameWindow
  <2> QED
    BY <2>1, <2>2
<1>3. ASSUME NEW Q, Tick(Q) PROVE Windows'
  BY <1>1, <1>3, TickWindow
<1>4. CASE NewMonth \/ (\E k \in Key : Restore(k)) \/ UNCHANGED vars
  <2>1. UNCHANGED <<aired, lease>>
    BY <1>4 DEF NewMonth, Restore, Bucket, vars
  <2> QED
    BY <1>1, <2>1, SameWindow
<1> QED
  BY <1>2, <1>3, <1>4 DEF Next

\* The images granted within any window stay within the limit, or are those of
\* one order above it, for any calls, limits and faults (acquireSchedulerSlots,
\* scheduler.ts:60-169).
THEOREM WindowBounded == Spec => []WindowKept
<1>1. Init => Sound /\ Windows
  <2> SUFFICES ASSUME Init PROVE Windows
    BY InitTyped, InitKept DEF Sound
  <2>1. \A a \in Attempt : ~ (aired[a] < Window)
    BY Terms DEF Init
  <2>2. Aired = {} /\ AllCounted
    BY <2>1 DEF Aired, AllCounted, Counted
  <2>3. WindowKept
    BY <2>2, NoImages, LimitAssumption DEF WindowKept, ImagesOf
  <2> QED
    BY <2>2, <2>3 DEF Windows
<1>2. Sound /\ Windows /\ [Next]_vars => (Sound /\ Windows)'
  BY AllTyped, AllKept, WindowStep DEF Sound
<1>3. Windows => WindowKept
  BY DEF Windows
<1> QED
  BY <1>1, <1>2, <1>3, PTL DEF Spec

-----------------------------------------------------------------------------
(* The budget of a key                                                     *)

\* What the slots of a set hold.
HeldCost(S) == SumFunctionOnSet(SlotEstimate, S)

LEMMA SlotsFinite == IsFiniteSet(Slot)
<1>1. IsFiniteSet(Key)
  BY LimitAssumption, FS_Interval DEF Key
<1> QED
  BY <1>1, CallAssumption, FS_Product DEF Slot

LEMMA EstimateCounts == SlotEstimate \in [Slot -> Nat]
<1>1. \A s \in Slot : s[1] \in Call
  BY DEF Slot
<1> QED
  BY <1>1, CallAssumption DEF SlotEstimate

LEMMA HeldLess ==
    ASSUME NEW A \in SUBSET Slot, NEW B \in SUBSET A
    PROVE  /\ HeldCost(A) \in Nat /\ HeldCost(B) \in Nat
           /\ HeldCost(B) <= HeldCost(A)
<1>1. IsFiniteSet(A) /\ IsFiniteSet(B)
  BY SlotsFinite, FS_Subset
<1>2. HeldCost(B) \in Nat /\ HeldCost(A) \in Nat
  BY <1>1, EstimateCounts, SumNat DEF HeldCost
<1>3. HeldCost(B) <= HeldCost(A)
  BY <1>1, EstimateCounts, SumMonotone DEF HeldCost
<1> QED
  BY <1>2, <1>3

LEMMA HeldOne ==
    ASSUME NEW A \in SUBSET Slot, NEW s \in A
    PROVE  HeldCost(A) = SlotEstimate[s] + HeldCost(A \ {s})
<1>1. IsFiniteSet(A)
  BY SlotsFinite, FS_Subset
<1> QED
  BY <1>1, EstimateCounts, SumWithout DEF HeldCost

\* Another hold adds its estimate at most.
LEMMA HeldMore ==
    ASSUME NEW A \in SUBSET Slot, NEW s \in Slot, NEW B \in SUBSET (A \cup {s})
    PROVE  HeldCost(B) <= HeldCost(A) + SlotEstimate[s]
<1> DEFINE U == A \cup {s}
<1>1. U \in SUBSET Slot /\ s \in U /\ U \ {s} \in SUBSET A /\ B \in SUBSET U
  OBVIOUS
<1> HIDE DEF U
<1>2. HeldCost(U) = SlotEstimate[s] + HeldCost(U \ {s})
  BY <1>1, HeldOne
<1>3. /\ HeldCost(B) \in Nat /\ HeldCost(U) \in Nat /\ HeldCost(B) <= HeldCost(U)
      /\ HeldCost(U \ {s}) \in Nat /\ HeldCost(A) \in Nat /\ HeldCost(U \ {s}) <= HeldCost(A)
  BY <1>1, HeldLess
<1>4. SlotEstimate[s] \in Nat
  BY EstimateCounts
<1> QED
  BY <1>2, <1>3, <1>4

\* What was billed for holds is part of the usage, and with what is still held
\* within the cap.
Paid(k) == billed[k] <= usage[k] /\ billed[k] + HeldCost(Held(k)) <= Cap[k]
AllPaid == \A k \in Key : Paid(k)

LEMMA PaidCounts ==
    ASSUME Typed, NEW k \in Key
    PROVE  /\ Held(k) \in SUBSET Slot /\ HeldCost(Held(k)) \in Nat
           /\ billed[k] \in Nat /\ usage[k] \in Nat /\ Cap[k] \in Nat
<1>1. Held(k) \in SUBSET Slot
  BY DEF Held
<1> QED
  BY <1>1, HeldLess, LimitAssumption DEF Typed, Costed

\* Holds end, and nothing is billed.
LEMMA PaidShrinks ==
    ASSUME Typed, AllPaid, UNCHANGED <<usage, billed>>,
           \A s \in Slot : hold'[s] > 0 => hold[s] > 0
    PROVE  AllPaid'
<1> SUFFICES ASSUME NEW k \in Key PROVE Paid(k)'
  BY DEF AllPaid
<1> DEFINE A == Held(k)
           B == Held(k)'
<1>1. B \in SUBSET A /\ A \in SUBSET Slot
  BY DEF Held
<1>2. billed[k] <= usage[k] /\ billed[k] + HeldCost(A) <= Cap[k]
  BY DEF AllPaid, Paid
<1>3. billed[k] \in Nat /\ usage[k] \in Nat /\ Cap[k] \in Nat
  BY PaidCounts
<1>4. Paid(k)' <=> billed[k] <= usage[k] /\ billed[k] + HeldCost(B) <= Cap[k]
  BY DEF Paid, HeldCost
<1> HIDE DEF A, B
<1>5. HeldCost(B) \in Nat /\ HeldCost(A) \in Nat /\ HeldCost(B) <= HeldCost(A)
  BY <1>1, HeldLess
<1> QED
  BY <1>2, <1>3, <1>4, <1>5

\* A key is only reserved with room for the estimate.
LEMMA ReservePaid ==
    ASSUME Typed, AllPaid, NEW c \in Call, Reserve(c)
    PROVE  AllPaid'
<1> DEFINE usable == Usable(c, call[c].tried)
           k == CHOOSE i \in usable : \A l \in usable : i <= l
           s == <<c, k>>
<1>1. hold' = [hold EXCEPT ![s] = HoldTTL] /\ UNCHANGED <<usage, billed>>
  BY DEF Reserve
<1>2. k \in usable
  <2>1. usable \in SUBSET Key /\ usable # {}
    BY DEF Usable, Reserve
  <2> HIDE DEF usable
  <2> QED
    BY <2>1, LeastKey
<1>3. k \in Key /\ Spent(k) + Estimate[c] <= Cap[k]
  BY <1>2 DEF Usable
<1> HIDE DEF k, usable
<1>4. s \in Slot /\ SlotEstimate[s] = Estimate[c] /\ Estimate[c] \in Nat
  BY <1>3, CallAssumption DEF Slot, SlotEstimate
<1>5. hold \in [Slot -> 0 .. HoldTTL]
  BY DEF Typed, Costed
<1> SUFFICES ASSUME NEW l \in Key PROVE Paid(l)'
  BY DEF AllPaid
<1> DEFINE A == Held(l)
           B == Held(l)'
<1>6. billed[l] <= usage[l] /\ billed[l] + HeldCost(A) <= Cap[l]
  BY DEF AllPaid, Paid
<1>7. /\ A \in SUBSET Slot /\ HeldCost(A) \in Nat
      /\ billed[l] \in Nat /\ usage[l] \in Nat /\ Cap[l] \in Nat
  BY PaidCounts
<1>8. Paid(l)' <=> billed[l] <= usage[l] /\ billed[l] + HeldCost(B) <= Cap[l]
  BY <1>1 DEF Paid, HeldCost
<1>9. CASE l = k
  <2>1. B \in SUBSET (A \cup {s})
    BY <1>1, <1>5 DEF Held
  <2>2. usage[l] + HeldCost(A) + Estimate[c] <= Cap[l]
    BY <1>3, <1>9 DEF Spent, HeldCost
  <2>3. B \in SUBSET Slot
    BY <1>4, <1>7, <2>1
  <2> HIDE DEF A, B, s
  <2>4. HeldCost(B) <= HeldCost(A) + Estimate[c] /\ HeldCost(B) \in Nat
    BY <1>4, <1>7, <2>1, <2>3, HeldMore, HeldLess
  <2> QED
    BY <1>4, <1>6, <1>7, <1>8, <2>2, <2>4
<1>10. CASE l # k
  <2>1. B = A
    BY <1>1, <1>5, <1>10 DEF Held
  <2> QED
    BY <1>6, <1>8, <2>1
<1> QED
  BY <1>9, <1>10

\* The usage takes the place of the hold, and as much of it as the estimate held.
LEMMA SettlePaid ==
    ASSUME Typed, AllPaid, NEW c \in Call, call[c].key \in Key, Settle(c)
    PROVE  AllPaid'
<1> DEFINE k == call[c].key
           s == <<c, k>>
<1>1. CASE UNCHANGED Budget
  BY <1>1, PaidShrinks DEF Budget
<1>2. CASE ~ UNCHANGED Budget
  <2>1. PICK x \in Costs[c] :
          /\ usage' = [usage EXCEPT ![k] = @ + x]
          /\ billed' = [billed EXCEPT ![k] = @ + Covered(s, x)]
          /\ hold' = [hold EXCEPT ![s] = 0]
    <3>1. s[2] = k
      OBVIOUS
    <3> QED
      BY <1>2, <3>1 DEF Settle
  <2> DEFINE y == Covered(s, x)
  <2>2. /\ x \in Nat /\ Estimate[c] \in Nat /\ y \in Nat
        /\ y <= x /\ y <= Estimate[c] /\ (hold[s] = 0 => y = 0)
    BY CallAssumption, CoveredCost
  <2>3. /\ hold \in [Slot -> 0 .. HoldTTL] /\ usage \in [Key -> Nat] /\ billed \in [Key -> Nat]
        /\ k \in Key /\ s \in Slot /\ SlotEstimate[s] = Estimate[c] /\ s[2] = k
    BY DEF Typed, Costed, Slot, SlotEstimate
  <2> HIDE DEF k, s, y
  <2> SUFFICES ASSUME NEW l \in Key PROVE Paid(l)'
    BY DEF AllPaid
  <2> DEFINE A == Held(l)
             B == Held(l)'
  <2>4. billed[l] <= usage[l] /\ billed[l] + HeldCost(A) <= Cap[l]
    BY DEF AllPaid, Paid
  <2>5. /\ A \in SUBSET Slot /\ HeldCost(A) \in Nat
        /\ billed[l] \in Nat /\ usage[l] \in Nat /\ Cap[l] \in Nat
    BY PaidCounts
  <2>6. Paid(l)' <=> billed'[l] <= usage'[l] /\ billed'[l] + HeldCost(B) <= Cap[l]
    BY DEF Paid, HeldCost
  <2>7. B \in SUBSET A
    BY <2>1, <2>3 DEF Held
  <2>8. HeldCost(B) \in Nat /\ HeldCost(B) <= HeldCost(A)
    BY <2>5, <2>7, HeldLess
  <2>9. CASE l = k /\ hold[s] > 0
    <3>1. billed'[l] = billed[l] + y /\ usage'[l] = usage[l] + x
      BY <2>1, <2>3, <2>9 DEF y
    <3>2. s \in A /\ B \in SUBSET (A \ {s}) /\ A \ {s} \in SUBSET Slot
      BY <2>1, <2>3, <2>9 DEF Held
    <3> HIDE DEF A, B
    <3>3. HeldCost(A) = Estimate[c] + HeldCost(A \ {s})
      BY <2>3, <2>5, <3>2, HeldOne
    <3>4. HeldCost(A \ {s}) \in Nat /\ HeldCost(B) <= HeldCost(A \ {s})
      BY <3>2, HeldLess
    <3> QED
      BY <2>2, <2>4, <2>5, <2>6, <2>8, <3>1, <3>3, <3>4
  <2>10. CASE ~ (l = k /\ hold[s] > 0)
    <3>1. billed'[l] = billed[l] /\ usage'[l] \in {usage[l], usage[l] + x}
      <4>1. billed'[l] = IF l = k THEN billed[l] + y ELSE billed[l]
        BY <2>1, <2>3 DEF y
      <4>2. l = k => y = 0
        BY <2>2, <2>3, <2>10
      <4> QED
        BY <2>1, <2>2, <2>3, <2>5, <4>1, <4>2
    <3> HIDE DEF A, B
    <3> QED
      BY <2>2, <2>4, <2>5, <2>6, <2>8, <3>1
  <2> QED
    BY <2>9, <2>10
<1> QED
  BY <1>1, <1>2

LEMMA PaidStep == Sound /\ AllPaid /\ [Next]_vars => AllPaid'
<1> SUFFICES ASSUME Sound, AllPaid, [Next]_vars PROVE AllPaid'
  OBVIOUS
<1>1. Typed /\ hold \in [Slot -> 0 .. HoldTTL] /\ ~ (0 > 0)
  BY DEF Sound, Typed, Costed
<1>2. ASSUME NEW c \in Call, Step(c) \/ SwitchAway(c) \/ Cancel(c) \/ Crash(c)
      PROVE  AllPaid'
  <2>1. CASE Reserve(c)
    BY <1>1, <2>1, ReservePaid
  <2>2. CASE Settle(c)
    <3>1. call[c].key \in Key
      BY <2>2 DEF Settle, Judged, Sound, Kept, KeyGiven
    <3> QED
      BY <1>1, <2>2, <3>1, SettlePaid
  <2>3. CASE GiveBack(c)
    <3>1. /\ UNCHANGED <<usage, billed>>
          /\ hold' \in {hold, [hold EXCEPT ![<<c, call[c].key>>] = 0]}
      BY <2>3 DEF GiveBack
    <3>2. \A s \in Slot : hold'[s] > 0 => hold[s] > 0
      BY <1>1, <3>1
    <3> QED
      BY <1>1, <3>1, <3>2, PaidShrinks
  <2>4. CASE \/ StartDirect(c) \/ StartSub2api(c) \/ Sub2api(c) \/ Exhausted(c) \/ Halt(c)
             \/ TimeOut(c) \/ SwitchAway(c) \/ Cancel(c) \/ Crash(c)
    <3>1. UNCHANGED <<usage, billed, hold>>
      BY <2>4 DEF StartDirect, StartSub2api, Sub2api, Exhausted, Halt, TimeOut, SwitchAway,
         Cancel, Crash, Budget
    <3> QED
      BY <1>1, <3>1, PaidShrinks
  <2>5. CASE \E j \in Req(c) : Request(c, j)
    <3>1. UNCHANGED <<usage, billed, hold>>
      BY <2>5 DEF Request, Grant, Deny, Bypass, Dispatch, NotSent, Return, Budget
    <3> QED
      BY <1>1, <3>1, PaidShrinks
  <2> QED
    BY <1>2, <2>1, <2>2, <2>3, <2>4, <2>5 DEF Step
<1>3. ASSUME NEW Q, Tick(Q) PROVE AllPaid'
  <2>1. UNCHANGED <<usage, billed>>
    BY <1>3 DEF Tick
  <2>2. \A s \in Slot : hold'[s] > 0 => hold[s] > 0
    BY <1>1, <1>3 DEF Tick, Down
  <2> QED
    BY <1>1, <2>1, <2>2, PaidShrinks
<1>4. CASE NewMonth
  <2> SUFFICES ASSUME NEW k \in Key PROVE Paid(k)'
    BY DEF AllPaid
  <2>1. usage'[k] = 0 /\ billed'[k] = 0
    BY <1>4 DEF NewMonth
  <2>2. Held(k)' = {}
    BY <1>1, <1>4 DEF NewMonth, Held
  <2>3. HeldCost({}) = 0
    BY FS_EmptySet, SumStep DEF HeldCost
  <2>4. Paid(k)' <=> billed'[k] <= usage'[k] /\ billed'[k] + HeldCost(Held(k)') <= Cap[k]
    BY DEF Paid, HeldCost
  <2> QED
    BY <1>1, <2>1, <2>2, <2>3, <2>4, PaidCounts
<1>5. CASE (\E k \in Key : Restore(k)) \/ UNCHANGED vars
  <2>1. UNCHANGED <<usage, billed, hold>>
    BY <1>5 DEF Restore, Budget, vars
  <2> QED
    BY <1>1, <2>1, PaidShrinks
<1> QED
  BY <1>2, <1>3, <1>4, <1>5 DEF Next

\* Of what a key was billed, the part that estimates had set aside, and what
\* calls still hold, stay together within its cap, for any calls, keys and
\* costs, those above their estimates too: between the hold and the usage no
\* cost is counted in neither (reserveDirectBudget, recordDirectUsage).
THEOREM BudgetBounded == Spec => []BudgetKept
<1>1. Init => Sound /\ AllPaid
  <2> SUFFICES ASSUME Init, NEW k \in Key PROVE Paid(k)
    BY InitTyped, InitKept DEF Sound, AllPaid
  <2>1. usage[k] = 0 /\ billed[k] = 0 /\ Held(k) = {}
    BY DEF Init, Held
  <2>2. HeldCost({}) = 0
    BY FS_EmptySet, SumStep DEF HeldCost
  <2>3. Typed
    BY InitTyped
  <2> QED
    BY <2>1, <2>2, <2>3, PaidCounts DEF Paid
<1>2. Sound /\ AllPaid /\ [Next]_vars => (Sound /\ AllPaid)'
  BY AllTyped, AllKept, PaidStep DEF Sound
<1>3. AllPaid => BudgetKept
  BY DEF AllPaid, Paid, BudgetKept, HeldCost
<1> QED
  BY <1>1, <1>2, <1>3, PTL DEF Spec

=============================================================================
