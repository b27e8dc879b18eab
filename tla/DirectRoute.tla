----------------------------- MODULE DirectRoute ------------------------------
(***************************************************************************)
(* Calls of one GPT image model over its two routes, and what the direct   *)
(* route shares between all workers in the database: the bucket of images  *)
(* per minute and requests in flight (scheduler.ts), the monthly budget of *)
(* each key with its holds (gpt-budget.ts), and the state of the keys      *)
(* (gpt-keys.ts). A call (callGptDualRoute) runs in a process of its own:  *)
(* a crash or a stall of the process is one of the call. An estimate is    *)
(* held on a key, one request is sent per image or for all images, each    *)
(* under a lease of the bucket; the group is judged; the hold becomes      *)
(* usage or is given back; then another key or the other route may follow. *)
(*                                                                         *)
(* What a process does between two calls of the database or the upstream   *)
(* is one step. Time is relative and in ticks: a row carries its age or    *)
(* what is left of its term, and goes when nothing counts it any more. The *)
(* rows an attempt has in several buckets are written, renewed and         *)
(* released together: they are one row.                                    *)
(***************************************************************************)
EXTENDS Integers, FiniteSets, Functions

CONSTANTS
    Call,           \* the calls
    Fan,            \* the requests a call is split into
    PerRequest,     \* the images one request asks for
    Estimate,       \* what a call is expected to cost; the bill may exceed it
    Costs,          \* what it may turn out to cost
    Strict,         \* calls that only the direct route may serve
    Preserve,       \* calls whose group is judged as a whole (reconciliationRequired)
    Keys,           \* the configured keys, in their order: 1 .. Keys
    Cap,            \* the budget of each key
    PerMinute, Concurrency,             \* the limits of the bucket
    Window, LeaseTTL, Cooldown,         \* in ticks
    Deadline, HoldTTL,                  \* in ticks
    MaxFaults       \* bound: crashes, stalls and failures of the database

Key == 1 .. Keys
Req(c) == 1 .. Fan[c]
Attempt == UNION {{<<c, k, j>> : k \in Key, j \in Req(c)} : c \in Call}
Slot == Call \X Key

ASSUME CallAssumption ==
    /\ IsFiniteSet(Call)
    /\ Fan \in [Call -> Nat \ {0}] /\ PerRequest \in [Call -> Nat \ {0}]
    /\ Estimate \in [Call -> Nat] /\ Costs \in [Call -> SUBSET (Nat \ {0})]
    /\ Strict \subseteq Call /\ Preserve \subseteq Call
ASSUME LimitAssumption ==
    /\ Keys \in Nat \ {0} /\ Cap \in [Key -> Nat]
    /\ PerMinute \in Nat \ {0} /\ Concurrency \in Nat \ {0}
    /\ Window \in Nat \ {0} /\ LeaseTTL \in Nat /\ Cooldown \in Nat \ {0}
    /\ Deadline \in Nat \ {0} /\ HoldTTL \in Nat /\ MaxFaults \in Nat
\* DIRECT_HOLD_TTL_MS outlives a call and its settlement.
ASSUME HoldAssumption == HoldTTL > Deadline

VARIABLES
    call,       \* how far each call is
    req,        \* the requests it has out on its current key
    lease,      \* scheduler_leases
    cool,       \* scheduler_buckets: how long the bucket stays closed
    hold,       \* gpt_direct_budget_holds of this month: how long each still counts
    usage,      \* gpt_direct_usage: what each key has cost this month
    disabled,   \* gpt_direct_key_state: the keys out of use until restored,
    chill,      \* and how long each key stays out of use
    ran,        \* history: a request of the call may have run; "hidden", behind an
                \* error of the database that took the place of its outcome
    aired,      \* history: the age of each grant whose images were not given back
    billed,     \* history: the part of usage that holds covered
    faults

vars == <<call, req, lease, cool, hold, usage, disabled, chill, ran, aired, billed, faults>>
Bucket == <<lease, cool, aired>>
Budget == <<hold, usage, billed>>
KeyState == <<disabled, chill>>

\* How a request ended. An answer with a status, no image: "quota" and "rate"
\* put the key out of use, "fail" is a 5xx, "bad" any other.
HasStatus == {"quota", "rate", "fail", "bad"}
\* UpstreamResultUnknownError: the transport broke or the deadline cut it, after
\* the request was sent or before.
Unknown == {"unknown", "timeout", "uncommitted", "late"}
\* "cut": aborted after it was sent; "unsent": before, by an abort or a refusal.
Final == {"ok", "cut", "unsent"} \cup HasStatus \cup Unknown
Sent  == {"ok", "cut", "unknown", "timeout"} \cup HasStatus
MayRun == Sent \ HasStatus
Done  == {"idle", "ended", "dead"}

CallState == [at : {"idle", "sub", "choosing", "sending", "ended", "dead"},
              key : Key \cup {0}, tried : SUBSET Key, spare : BOOLEAN,
              first : BOOLEAN, unsure : BOOLEAN, slow : BOOLEAN,
              stop : {"no", "switch", "cancel", "deadline"}, life : 0 .. Deadline,
              end : {"none", "ok", "failed", "unknown", "cancelled", "database"}]
ReqState == {"no", "waiting", "granted", "loose", "sent", "adrift"} \cup Final
Row == [st : {"none", "live", "released"}, age : 0 .. Window, quiet : 0 .. LeaseTTL + 1]

NoRow   == [st |-> "none", age |-> 0, quiet |-> 0]
NewCall == [at |-> "idle", key |-> 0, tried |-> {}, spare |-> FALSE, first |-> TRUE,
            unsure |-> FALSE, slow |-> FALSE, stop |-> "no", life |-> 0, end |-> "none"]
Requests(c, s) == [j \in Req(c) |-> s]

Init ==
    /\ call = [c \in Call |-> NewCall]
    /\ req = [c \in Call |-> Requests(c, "no")]
    /\ lease = [a \in Attempt |-> NoRow]
    /\ cool = 0
    /\ hold = [s \in Slot |-> 0]
    /\ usage = [k \in Key |-> 0]
    /\ disabled = {} /\ chill = [k \in Key |-> 0]
    /\ ran = [c \in Call |-> "no"]
    /\ aired = [a \in Attempt |-> Window]
    /\ billed = [k \in Key |-> 0]
    /\ faults = 0

Fault == faults < MaxFaults /\ faults' = faults + 1
Put(c, r) == call' = [call EXCEPT ![c] = r]
PutReqs(c, s) == req' = [req EXCEPT ![c] = Requests(c, s)]
PutReq(c, j, s) == req' = [req EXCEPT ![c][j] = s]
Up(x, top) == IF x < top THEN x + 1 ELSE top
DownForEver(x) == x - 1
Down(x) == IF x > 0 THEN x - 1 ELSE 0
-----------------------------------------------------------------------------
(* The bucket                                                              *)

Images == [a \in Attempt |-> PerRequest[a[1]]]

\* What every acquisition does first: a live lease without a heartbeat is
\* released; its images stay counted for the rest of the window.
Swept ==
    [a \in Attempt |->
       IF lease[a].st # "live" \/ lease[a].quiet <= LeaseTTL THEN lease[a]
       ELSE IF lease[a].age < Window THEN [lease[a] EXCEPT !.st = "released", !.quiet = 0]
       ELSE NoRow]

InFlight(l) == {a \in Attempt : l[a].st = "live"}
Windowed(l) == {a \in Attempt : l[a].st # "none" /\ l[a].age < Window}
Need(n) == IF n < PerMinute THEN n ELSE PerMinute

\* An order above the limit is granted in an empty window.
Grantable(n) ==
    /\ cool = 0
    /\ Cardinality(InFlight(Swept)) < Concurrency
    /\ SumFunctionOnSet(Images, Windowed(Swept)) + Need(n) <= PerMinute

Leased(a) == [Swept EXCEPT ![a] = [NoRow EXCEPT !.st = "live"]]
ReleasedUncounted(a) ==
    IF lease[a].st # "live" THEN lease ELSE [lease EXCEPT ![a] = NoRow]
Released(a) ==
    IF lease[a].st # "live" THEN lease
    ELSE [lease EXCEPT ![a] = IF lease[a].age < Window
                              THEN [lease[a] EXCEPT !.st = "released", !.quiet = 0]
                              ELSE NoRow]
Refunded(a) == [lease EXCEPT ![a] = NoRow]
-----------------------------------------------------------------------------
(* The keys and their budget                                               *)

Held(k) == {s \in Slot : s[2] = k /\ hold[s] > 0}
SlotEstimate == [s \in Slot |-> Estimate[s[1]]]
SpentWithoutHolds(k) == usage[k]
Spent(k) == usage[k] + SumFunctionOnSet(SlotEstimate, Held(k))
Open(k) == k \notin disabled /\ chill[k] = 0
Usable(c, tried) == {k \in Key \ tried : Open(k) /\ Spent(k) + Estimate[c] <= Cap[k]}

\* directAvailableNow: a key has room, and the bucket grants the whole order
\* (a lease that is given back at once).
DirectNow(c) == Usable(c, {}) # {} /\ Grantable(Fan[c] * PerRequest[c])
-----------------------------------------------------------------------------
(* Between the routes                                                      *)

Finish(c, e) == Put(c, [NewCall EXCEPT !.at = "ended", !.end = e]) /\ PutReqs(c, "no")
ToDirect(c, first, unsure) ==
    Put(c, [call[c] EXCEPT !.at = "choosing", !.first = first, !.unsure = unsure])

\* firstGptRoute
StartDirect(c) ==
    /\ call[c].at = "idle"
    /\ DirectNow(c)
    /\ ToDirect(c, TRUE, FALSE)
    /\ lease' = Swept
    /\ UNCHANGED <<req, cool, aired, Budget, KeyState, ran, faults>>

\* A call that is not a member's, or finds the direct route full, goes to
\* sub2api; a strict one is refused.
StartSub2api(c) ==
    /\ call[c].at = "idle"
    /\ \/ c \notin Strict /\ Put(c, [call[c] EXCEPT !.at = "sub"]) /\ UNCHANGED req
       \/ c \in Strict /\ ~DirectNow(c) /\ Finish(c, "failed")
    /\ UNCHANGED <<Bucket, Budget, KeyState, ran, faults>>

\* The end of the request to sub2api. It is unknown when the transport breaks,
\* and when it runs too long and is cut off because the direct route is free.
Sub2api(c) ==
    /\ call[c].at = "sub"
    /\ \E e \in {"ok", "failed", "unknown", "cancelled"} :
         /\ ran' = [ran EXCEPT ![c] = IF e = "unknown" THEN "yes" ELSE @]
         /\ \/ /\ call[c].first /\ e \in {"failed", "unknown"} /\ DirectNow(c)
               /\ ToDirect(c, FALSE, e = "unknown")
               /\ lease' = Swept
               /\ UNCHANGED req
            \/ /\ Finish(c, IF e \in {"failed", "cancelled"} /\ call[c].unsure THEN "unknown" ELSE e)
               /\ UNCHANGED lease
    /\ UNCHANGED <<cool, aired, Budget, KeyState, faults>>

RouteFailure == {"rate", "fail", "unknown", "uncommitted", "part"}
IsUnknown(e) == e \in Unknown \cup {"part"}

Surfaced(c, e) ==
    IF e = "ok" THEN "ok"
    ELSE IF call[c].unsure \/ IsUnknown(e) THEN "unknown"
    ELSE IF call[c].stop = "cancel" THEN "cancelled"
    ELSE IF e = "database" THEN "database"
    ELSE "failed"

LeaveWithoutDoubt(c, e, sent) ==
    LET eligible == /\ call[c].first /\ c \notin Strict /\ call[c].stop # "cancel"
                    /\ e # "ok"
                    /\ call[c].stop = "switch" \/ e = "exhausted" \/ e \in RouteFailure
    IN  \/ /\ eligible
           /\ Put(c, [NewCall EXCEPT !.at = "sub", !.first = FALSE,
                                     !.slow = call[c].slow, !.life = call[c].life])
           /\ PutReqs(c, "no")
        \/ /\ ~(eligible /\ call[c].stop = "switch")
           /\ Finish(c, Surfaced(c, e))

\* The call is through with the direct route. After a failure of the route the
\* other one is tried once, unless its breaker is open or too little time is
\* left. What was sent and then cut off, or is unknown, may have run.
Leave(c, e, sent) ==
    LET eligible == /\ call[c].first /\ c \notin Strict /\ call[c].stop # "cancel"
                    /\ e # "ok"
                    /\ call[c].stop = "switch" \/ e = "exhausted" \/ e \in RouteFailure
        unsure == sent /\ (call[c].stop = "switch" \/ IsUnknown(e))
    IN  \/ /\ eligible
           /\ Put(c, [NewCall EXCEPT !.at = "sub", !.first = FALSE, !.unsure = unsure,
                                     !.slow = call[c].slow, !.life = call[c].life])
           /\ PutReqs(c, "no")
        \/ /\ ~(eligible /\ call[c].stop = "switch")
           /\ Finish(c, Surfaced(c, e))
-----------------------------------------------------------------------------
(* callDirectTryingKeys: to the next key                                   *)

Halted(c) == call[c].stop \in {"switch", "cancel"}

\* The first key that is open and has room is taken, under the key's lock, in
\* one transaction with its hold. Whether yet another key could follow is read
\* then: it decides whether a 429 closes the bucket.
Reserve(c) ==
    LET usable == Usable(c, call[c].tried)
        k == CHOOSE i \in usable : \A l \in usable : i <= l
        tried == call[c].tried \cup {k}
    IN  /\ call[c].at = "choosing" /\ ~Halted(c)
        /\ usable # {}
        /\ hold' = [hold EXCEPT ![<<c, k>>] = HoldTTL]
        /\ \/ /\ Put(c, [call[c] EXCEPT !.at = "sending", !.key = k, !.tried = tried,
                                        !.stop = "no", !.spare = Usable(c, tried) # {}])
              /\ PutReqs(c, "waiting")
              /\ UNCHANGED faults
           \/ \* The answer of the transaction is lost: no key is used.
              Fault /\ Leave(c, "exhausted", FALSE)
        /\ UNCHANGED <<Bucket, usage, billed, KeyState, ran>>

\* No key is left, or the database fails.
Exhausted(c) ==
    /\ call[c].at = "choosing" /\ ~Halted(c)
    /\ IF Usable(c, call[c].tried) = {} THEN UNCHANGED faults ELSE Fault
    /\ Leave(c, "exhausted", FALSE)
    /\ UNCHANGED <<Bucket, Budget, KeyState, ran>>

\* The call was stopped meanwhile: it leaves with what the last key answered.
Halt(c) ==
    /\ call[c].at = "choosing" /\ Halted(c)
    /\ Leave(c, "unsent", call[c].tried # {})
    /\ UNCHANGED <<Bucket, Budget, KeyState, ran, faults>>
-----------------------------------------------------------------------------
(* performFetch and parseResponse: one request                             *)

Lease(c, j) == <<c, call[c].key, j>>
Stopped(c) == call[c].stop # "no"

\* acquireSchedulerSlots grants, for a request that waits or one that only tries.
Grant(c, j) ==
    /\ req[c][j] = "waiting" /\ ~Stopped(c)
    /\ Grantable(PerRequest[c])
    /\ lease' = Leased(Lease(c, j))
    /\ aired' = [aired EXCEPT ![Lease(c, j)] = 0]
    /\ PutReq(c, j, "granted")
    /\ UNCHANGED <<call, cool, Budget, KeyState, ran, faults>>

\* It does not, and the request asks again or gives up; the sweep is committed.
Deny(c, j) ==
    /\ req[c][j] = "waiting" /\ ~Stopped(c)
    /\ ~Grantable(PerRequest[c])
    /\ lease' = Swept
    /\ IF c \in Strict THEN PutReq(c, j, "unsent") ELSE lease' # lease /\ UNCHANGED req
    /\ UNCHANGED <<call, cool, aired, Budget, KeyState, ran, faults>>

\* The database fails: a request that waits is sent without a lease of its own,
\* even when the lease was written.
Bypass(c, j) ==
    /\ req[c][j] = "waiting" /\ ~Stopped(c)
    /\ Fault
    /\ lease' \in {lease} \cup
         IF Grantable(PerRequest[c]) THEN {Leased(Lease(c, j))} ELSE {}
    /\ PutReq(c, j, IF c \in Strict THEN "unsent" ELSE "loose")
    /\ UNCHANGED <<call, cool, aired, Budget, KeyState, ran>>

\* The accounting callback is the last step before the request goes out.
Dispatch(c, j) ==
    /\ req[c][j] \in {"granted", "loose"} /\ ~Stopped(c)
    /\ PutReq(c, j, IF req[c][j] = "granted" THEN "sent" ELSE "adrift")
    /\ UNCHANGED <<call, Bucket, Budget, KeyState, ran, faults>>

\* The call was stopped, or the callback throws: the images are given back. If
\* that fails, the lease runs out.
NotSent(c, j) ==
    /\ \/ req[c][j] = "waiting" /\ Stopped(c)
       \/ req[c][j] \in {"granted", "loose"}
    /\ \E r \in CASE call[c].stop = "no" -> {"uncommitted"}
                  [] call[c].stop = "deadline" /\ req[c][j] # "waiting" -> {"unsent", "late"}
                  [] OTHER -> {"unsent"} :
         PutReq(c, j, r)
    /\ IF req[c][j] = "granted"
       THEN /\ aired' = [aired EXCEPT ![Lease(c, j)] = Window]
            /\ \/ lease' = Refunded(Lease(c, j)) /\ UNCHANGED faults
               \/ UNCHANGED lease /\ Fault
       ELSE UNCHANGED <<lease, aired, faults>>
    /\ UNCHANGED <<call, cool, Budget, KeyState, ran>>

\* The end of a sent request: an answer that was read to its end, a transport
\* that broke, or an abort. Its lease is released; the images stay counted. A
\* 429 ("rate", or "quota" with that status) closes the bucket when no other
\* key can follow. Either write may fail.
Return(c, j) ==
    /\ req[c][j] \in {"sent", "adrift"}
    /\ \E r \in {"ok"} \cup HasStatus \cup {CASE call[c].stop = "no" -> "unknown"
                                              [] call[c].stop = "deadline" -> "timeout"
                                              [] OTHER -> "cut"} :
         LET closes == req[c][j] = "sent" /\ ~call[c].spare /\ r \in {"rate", "quota"}
             freed == IF req[c][j] = "sent" THEN Released(Lease(c, j)) ELSE lease
         IN  /\ PutReq(c, j, r)
             /\ cool' \in {cool} \cup IF closes THEN {Cooldown} ELSE {}
             /\ lease' \in {lease, freed}
             /\ IF lease' = freed /\ (closes /\ r = "rate" => cool' = Cooldown)
                THEN UNCHANGED faults
                ELSE Fault
    /\ UNCHANGED <<call, aired, Budget, KeyState, ran>>
-----------------------------------------------------------------------------
(* What stops a call                                                       *)

OnDirect(c) == call[c].at \in {"choosing", "sending"}
Produced(c) == \E j \in Req(c) : req[c][j] = "ok"

\* It waits too long for the bucket, or runs too long, and sub2api is free.
SwitchAway(c) ==
    /\ OnDirect(c) /\ call[c].first /\ c \notin Strict /\ ~Stopped(c)
    /\ ~Produced(c)
    /\ Put(c, [call[c] EXCEPT !.stop = "switch"])
    /\ UNCHANGED <<req, Bucket, Budget, KeyState, ran, faults>>

Cancel(c) ==
    /\ OnDirect(c) /\ ~Stopped(c)
    /\ Put(c, [call[c] EXCEPT !.stop = "cancel"])
    /\ UNCHANGED <<req, Bucket, Budget, KeyState, ran, faults>>

TimeOutOnceSent(c) ==
    /\ call[c].at = "sending" /\ ~Stopped(c) /\ call[c].life = Deadline
    /\ \E j \in Req(c) : req[c][j] # "waiting"
    /\ Put(c, [call[c] EXCEPT !.stop = "deadline"])
    /\ UNCHANGED <<req, Bucket, Budget, KeyState, ran, faults>>
TimeOut(c) ==
    /\ call[c].at = "sending" /\ ~Stopped(c) /\ call[c].life = Deadline
    /\ Put(c, [call[c] EXCEPT !.stop = "deadline"])
    /\ UNCHANGED <<req, Bucket, Budget, KeyState, ran, faults>>
-----------------------------------------------------------------------------
(* The group is judged, and the hold settled                               *)

Failures(c) == {j \in Req(c) : req[c][j] # "ok"}
Earliest(S) == CHOOSE j \in S : \A i \in S : j <= i
Dispatched(c) == \E j \in Req(c) : req[c][j] \in Sent

ThrownFirst(c) == req[c][Earliest(Failures(c))]

\* What a failing group throws: an unknown outcome before the first failure.
Thrown(c) ==
    LET unknown == {j \in Failures(c) : req[c][j] \in Unknown}
    IN  req[c][Earliest(IF unknown # {} THEN unknown ELSE Failures(c))]

\* fanOutRequests: delivered images with a definite failure are a (smaller)
\* result; with an unknown outcome, or where the group is judged as a whole,
\* they are a part whose rest is unknown.
Verdict(c) ==
    IF Failures(c) = {} THEN "ok"
    ELSE IF ~Produced(c) THEN Thrown(c)
    ELSE IF c \in Preserve THEN "part"
    ELSE IF Halted(c) THEN Thrown(c)
    ELSE IF \E j \in Req(c) : req[c][j] \in Unknown THEN "part"
    ELSE "ok"

BillableResult(c) == Verdict(c) = "ok"

\* Something may have been billed, as far as the verdict tells.
Billable(c) ==
    \/ Verdict(c) = "ok"
    \/ Dispatched(c) /\ (Produced(c) \/ Verdict(c) \notin HasStatus)

MayHaveRun(c) == \E j \in Req(c) : req[c][j] \in MayRun
Judged(c) ==
    /\ call[c].at = "sending"
    /\ \A j \in Req(c) : req[c][j] \in Final
Ran(c, how) == ran' = [ran EXCEPT ![c] = IF MayHaveRun(c) THEN how ELSE @]

\* The part of a cost that the hold it settles had set aside.
Covered(s, x) ==
    IF hold[s] = 0 THEN 0 ELSE IF x < Estimate[s[1]] THEN x ELSE Estimate[s[1]]

\* recordDirectUsage: the usage is written and the hold deleted in one
\* transaction; if it fails the hold stays until its term.
Settle(c) ==
    LET s == <<c, call[c].key>>
    IN  /\ Judged(c) /\ Billable(c)
        /\ \/ /\ \E x \in Costs[c] :
                   /\ usage' = [usage EXCEPT ![s[2]] = @ + x]
                   /\ billed' = [billed EXCEPT ![s[2]] = @ + Covered(s, x)]
              /\ hold' = [hold EXCEPT ![s] = 0]
              /\ UNCHANGED faults
           \/ Fault /\ UNCHANGED Budget
        /\ Ran(c, "yes")
        /\ Leave(c, Verdict(c), Dispatched(c))
        /\ UNCHANGED <<Bucket, KeyState>>

\* Nothing was billed: the hold is deleted, a rejected key is put out of use
\* and the next one tried; when no other is left, a 429 closes the bucket. An
\* error of the database, at the first or the last of these writes, takes the
\* place of the answer.
GiveBack(c) ==
    LET k == call[c].key
        e == Verdict(c)
    IN  /\ Judged(c) /\ ~Billable(c)
        /\ \/ /\ hold' = [hold EXCEPT ![<<c, k>>] = 0]
              /\ \/ /\ disabled' = IF e = "quota" THEN disabled \cup {k} ELSE disabled
                    /\ chill' = CASE e = "quota" -> [chill EXCEPT ![k] = 0]
                                  [] e = "rate" -> [chill EXCEPT ![k] = Cooldown]
                                  [] OTHER -> chill
                    /\ UNCHANGED faults
                 \/ Fault /\ e \in {"quota", "rate"} /\ UNCHANGED KeyState
              /\ cool' = IF e = "rate" /\ Usable(c, call[c].tried) = {} THEN Cooldown
                         ELSE cool
              /\ IF e \in {"quota", "rate"} /\ ~Halted(c)
                 THEN Put(c, [call[c] EXCEPT !.at = "choosing", !.key = 0]) /\ PutReqs(c, "no")
                 ELSE Leave(c, e, Dispatched(c))
              /\ Ran(c, "yes")
           \/ /\ Fault
              /\ Ran(c, "hidden")
              /\ Leave(c, "database", FALSE)
              /\ hold' \in {hold, [hold EXCEPT ![<<c, k>>] = 0]}
              /\ chill' \in {chill} \cup
                   IF e = "rate" /\ hold' # hold THEN {[chill EXCEPT ![k] = Cooldown]} ELSE {}
              /\ UNCHANGED <<disabled, cool>>
        /\ UNCHANGED <<lease, aired, usage, billed>>
-----------------------------------------------------------------------------
(* Time, faults and the operator                                           *)

RenewsUntilSent(a) ==
    /\ call[a[1]].at = "sending" /\ a[2] = call[a[1]].key
    /\ req[a[1]][a[3]] = "granted"

\* A process renews the leases it holds a handle for.
Renews(a) ==
    /\ call[a[1]].at = "sending" /\ a[2] = call[a[1]].key
    /\ req[a[1]][a[3]] \in {"granted", "sent"}

Aged(a, stalled) ==
    LET age == Up(lease[a].age, Window)
    IN  CASE lease[a].st = "live" ->
               [st |-> "live", age |-> age,
                quiet |-> IF Renews(a) /\ ~stalled THEN 0
                          ELSE Up(lease[a].quiet, LeaseTTL + 1)]
          [] lease[a].st = "released" /\ age < Window -> [lease[a] EXCEPT !.age = age]
          [] OTHER -> NoRow

\* A tick passes; the calls of Q are stalled and renew nothing. A call ends
\* within its deadline (and the settlement is short beside HoldTTL).
Tick(Q) ==
    /\ \A c \in Call : call[c].at \in Done \/ call[c].life < Deadline
    /\ IF Q = {} THEN UNCHANGED faults ELSE Fault
    /\ lease' = [a \in Attempt |-> Aged(a, a[1] \in Q)]
    /\ aired' = [a \in Attempt |-> Up(aired[a], Window)]
    /\ cool' = Down(cool)
    /\ chill' = [k \in Key |-> Down(chill[k])]
    /\ hold' = [s \in Slot |-> Down(hold[s])]
    /\ call' = [c \in Call |-> IF call[c].at \in Done THEN call[c]
                               ELSE [call[c] EXCEPT !.life = @ + 1,
                                                    !.slow = @ \/ c \in Q]]
    /\ UNCHANGED <<req, usage, billed, disabled, ran>>

\* The month of Taipei ends: usage and holds count for the month they are of.
NewMonth ==
    /\ usage' = [k \in Key |-> 0]
    /\ billed' = [k \in Key |-> 0]
    /\ hold' = [s \in Slot |-> 0]
    /\ UNCHANGED <<call, req, Bucket, KeyState, ran, faults>>

\* restoreDirectKey
Restore(k) ==
    /\ k \in disabled
    /\ disabled' = disabled \ {k}
    /\ chill' = [chill EXCEPT ![k] = 0]
    /\ UNCHANGED <<call, req, Bucket, Budget, ran, faults>>

Crash(c) ==
    /\ call[c].at \notin Done
    /\ Fault
    /\ Put(c, [NewCall EXCEPT !.at = "dead"])
    /\ PutReqs(c, "no")
    /\ UNCHANGED <<Bucket, Budget, KeyState, ran>>

Request(c, j) ==
    \/ Grant(c, j) \/ Deny(c, j) \/ Bypass(c, j) \/ Dispatch(c, j) \/ NotSent(c, j)
    \/ Return(c, j)

Step(c) ==
    \/ StartDirect(c) \/ StartSub2api(c) \/ Sub2api(c)
    \/ Reserve(c) \/ Exhausted(c) \/ Halt(c) \/ TimeOut(c)
    \/ Settle(c) \/ GiveBack(c)
    \/ \E j \in Req(c) : Request(c, j)

Next ==
    \/ \E c \in Call : Step(c) \/ SwitchAway(c) \/ Cancel(c) \/ Crash(c)
    \/ \E Q \in SUBSET Call : Tick(Q)
    \/ NewMonth \/ \E k \in Key : Restore(k)

Spec == Init /\ [][Next]_vars
FairSpec == Spec /\ WF_vars(Tick({})) /\ \A c \in Call : WF_vars(Step(c))
-----------------------------------------------------------------------------
(* Properties                                                              *)

\* Every variable has its type.
TypeOK ==
    /\ call \in [Call -> CallState]
    /\ DOMAIN req = Call /\ \A c \in Call : req[c] \in [Req(c) -> ReqState]
    /\ lease \in [Attempt -> Row] /\ cool \in 0 .. Cooldown
    /\ hold \in [Slot -> 0 .. HoldTTL] /\ usage \in [Key -> Nat]
    /\ disabled \subseteq Key /\ chill \in [Key -> 0 .. Cooldown]
    /\ ran \in [Call -> {"no", "yes", "hidden"}] /\ aired \in [Attempt -> 0 .. Window]
    /\ billed \in [Key -> Nat] /\ faults \in 0 .. MaxFaults

\* The images granted within any window stay within the limit, or are those of
\* one order above it, whatever requests ended, failed, were given back or lost
\* their process since (acquireSchedulerSlots, scheduler.ts:60-169).
Aired == {a \in Attempt : aired[a] < Window}
WindowKept ==
    \/ SumFunctionOnSet(Images, Aired) <= PerMinute
    \/ Cardinality(Aired) = 1

\* The requests in flight under a lease stay within the limit, those left aside
\* whose process stalled and could not renew it: the sweep takes no lease that
\* is in use (scheduler.ts:93-104, heartbeatSchedulerSlots).
Flying == {a \in Attempt : /\ call[a[1]].at = "sending" /\ a[2] = call[a[1]].key
                           /\ req[a[1]][a[3]] = "sent" /\ ~call[a[1]].slow}
InFlightKept == Cardinality(Flying) <= Concurrency

\* Of what a key was billed this month, the part that estimates had set aside,
\* and what calls still hold, stay together within its cap: however calls race
\* for the last of it, it is exceeded only by what a bill exceeds its estimate
\* (input, quality auto) or by bills whose hold was gone, and between hold and
\* usage no cost is counted in neither (reserveDirectBudget, recordDirectUsage).
BudgetKept == \A k \in Key : billed[k] + SumFunctionOnSet(SlotEstimate, Held(k)) <= Cap[k]

\* A group of which a request may have run leaves its hold or a usage behind.
\* (Left aside: a call that was stopped while the group ran. There a 429 of one
\* request hides the other that was cut off, and the hold is deleted.)
HoldOutlivesDoubt ==
    [][\A c \in Call :
         LET s == <<c, call[c].key>>
         IN  /\ call[c].at = "sending" /\ call'[c].at \notin {"sending", "dead"}
             /\ hold[s] > 0 /\ hold'[s] = 0 /\ usage' = usage
             => Halted(c) \/ ~MayHaveRun(c)]_vars

\* A call moves on to another key only when none of its requests may have run:
\* a rejection of one request does not hide that another is unknown
\* (callDirectTryingKeys and fanOutRequests, upstream.ts:466-560, 1419-1448).
KeySwitchIsClean ==
    [][\A c \in Call :
         call[c].at = "sending" /\ call'[c].at = "choosing" => ~MayHaveRun(c)]_vars

\* A call whose request may have run, on either route, is not reported as one
\* that failed, which the task would repeat (upstream.ts:758-780).
UnsureIsReported == \A c \in Call : call[c].end = "failed" => ran[c] # "yes"

\* Every call ends or loses its process, however full the bucket is.
EveryCallEnds == \A c \in Call : <>(call[c].at \in {"ended", "dead"})
=============================================================================
