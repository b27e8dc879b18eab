-------------------------- MODULE WebSessionProofs ---------------------------
(***************************************************************************)
(* Theorems about WebSession, for any number of tabs, keys, changes of the *)
(* password and late requests: it is well typed and implements SignIn; and *)
(* a browser whose sign-in lasts can renew it, and does.                   *)
(***************************************************************************)
EXTENDS WebSession, TLAPS

\* An operation that shows a key has it.
Shows(r) ==
    r.op = "refresh" /\ r.at \notin {"idle", "again"} =>
        r.key \in Key /\ (r.second => r.previous \in Key)

KeysKnown == \A t \in Tab : Shows(tab[t])

Typed == TypeOK /\ KeysKnown

-----------------------------------------------------------------------------
(* The chain, and what the transactions of the server do to it              *)

LEMMA Appended ==
    ASSUME NEW s \in Seq(AnyKey), NEW k \in AnyKey
    PROVE  /\ Append(s, k) \in Seq(AnyKey)
           /\ Len(s) \in Nat
           /\ Len(Append(s, k)) = Len(s) + 1
           /\ Append(s, k)[Len(s) + 1] = k
           /\ \A i \in 1 .. Len(s) : Append(s, k)[i] = s[i]
OBVIOUS

\* The part of TypeOK about the server.
ServerOK ==
    /\ chain \in Seq(AnyKey) /\ Last > 0 /\ chain[1] = NoKey
    /\ revoked \in BOOLEAN /\ term \in {"open", "lapsed", "over"}
    /\ session \in [gen : 0 .. Last, st : {"none", "fresh", "expired"}]
    /\ session.st = "fresh" => Renewable /\ session.gen # 0

Grows(k) ==
    /\ chain' = Append(chain, k)
    /\ UNCHANGED <<revoked, term>>

LEMMA GrownTyped ==
    ASSUME ServerOK, NEW k \in AnyKey, Grows(k),
           session' = session \/ (session' = [gen |-> Last + 1, st |-> "fresh"] /\ Renewable)
    PROVE  ServerOK' /\ Last' = Last + 1
<1>1. /\ chain' \in Seq(AnyKey) /\ Last' = Last + 1 /\ Last \in Nat
      /\ \A i \in 1 .. Last : chain'[i] = chain[i]
  BY Appended DEF ServerOK, Grows, Last
<1>2. Renewable' = Renewable
  BY DEF Grows, Renewable
<1>3. QED
  BY <1>1, <1>2 DEF ServerOK, Grows

LEMMA RevokedTyped ==
    ASSUME ServerOK, RevokeFamily
    PROVE  ServerOK' /\ Last' = Last
BY DEF ServerOK, RevokeFamily, NoSession, Last

LEMMA ServedTyped ==
    ASSUME ServerOK, NEW g, NEW k \in Key, Serve(g, k)
    PROVE  ServerOK' /\ Last' >= Last
<1>0. Last \in Nat
  BY DEF ServerOK, Last
<1>1. CASE Rotates(g, k) /\ chain' = Append(chain, k)
           /\ session' = [gen |-> Last + 1, st |-> "fresh"] /\ UNCHANGED <<revoked, term>>
  BY <1>0, <1>1, GrownTyped DEF Rotates, Grows, AnyKey
<1>2. CASE RevokeFamily
  BY <1>0, <1>2, RevokedTyped
<1>3. CASE UNCHANGED server
  BY <1>0, <1>3 DEF server, ServerOK, Last, Renewable
<1>4. QED
  BY <1>1, <1>2, <1>3 DEF Serve

\* Numbers of generations stay numbers of generations.
LEMMA Wider ==
    ASSUME ServerOK, Last' \in Nat, Last' >= Last
    PROVE  /\ \A r \in Operation : r \in Operation'
           /\ \A r \in Request : r \in Request'
           /\ 0 .. Last \subseteq 0 .. Last'
<1>1. Last \in Nat /\ 0 .. Last \subseteq 0 .. Last'
  BY DEF ServerOK, Last
<1>2. QED
  BY <1>1 DEF Operation, Request

-----------------------------------------------------------------------------
(* Type correctness                                                         *)

\* The part of TypeOK about the browser, and about what is on its way.
ClientOK ==
    /\ jar \in [refresh : 0 .. Last, access : 0 .. Last]
    /\ journal \in [pending : AnyKey, completed : AnyKey]
    /\ minted \subseteq Key
    /\ tab \in [Tab -> Operation]
    /\ stray \subseteq Request
    /\ misled \in BOOLEAN

LEMMA Parts == TypeOK <=> ServerOK /\ ClientOK
BY DEF TypeOK, ServerOK, ClientOK

LEMMA Grown ==
    ASSUME Typed, ServerOK', Last' >= Last
    PROVE  /\ tab \in [Tab -> Operation']
           /\ stray \subseteq Request'
           /\ jar \in [refresh : 0 .. Last', access : 0 .. Last']
           /\ 0 .. Last \subseteq 0 .. Last'
<1>1. ServerOK /\ ClientOK /\ Last' \in Nat
  BY Parts DEF Typed, ServerOK, Last
<1>2. /\ \A r \in Operation : r \in Operation'
      /\ \A r \in Request : r \in Request'
      /\ 0 .. Last \subseteq 0 .. Last'
  BY <1>1, Wider
<1>3. QED
  BY <1>1, <1>2 DEF ClientOK

LEMMA PutTyped ==
    ASSUME Typed, ServerOK', Last' >= Last, NEW t \in Tab, NEW r,
           Put(t, r), r \in Operation', Shows(r)
    PROVE  tab' \in [Tab -> Operation'] /\ KeysKnown'
<1>1. tab \in [Tab -> Operation']
  BY Grown
<1>2. QED
  BY <1>1 DEF Put, KeysKnown, Typed, Shows

LEMMA IdleTyped ==
    ASSUME ServerOK
    PROVE  Idle \in Operation /\ Shows(Idle)
BY DEF Idle, Operation, Shows, ServerOK, Last, AnyKey, Answers

LEMMA UndisturbedTyped ==
    ASSUME Typed
    PROVE  Undisturbed \in [Tab -> Operation] /\ \A t \in Tab : Shows(Undisturbed[t])
<1>1. tab \in [Tab -> Operation]
  BY Parts DEF Typed, ClientOK
<1>2. ASSUME NEW t \in Tab
      PROVE  Undisturbed[t] \in Operation /\ Shows(Undisturbed[t])
  <2>1. tab[t] \in Operation /\ Shows(tab[t])
    BY <1>1 DEF Typed, KeysKnown
  <2>2. Undisturbed[t] = [tab[t] EXCEPT !.alone = FALSE]
    BY DEF Undisturbed
  <2>3. QED
    BY <2>1, <2>2 DEF Operation, Shows
<1>3. QED
  BY <1>2 DEF Undisturbed

LEMMA InitTyped == Init => Typed
<1> SUFFICES ASSUME Init PROVE Typed
  OBVIOUS
<1>1. ServerOK
  <2>1. chain \in Seq(AnyKey) /\ Last = 1 /\ chain[1] = NoKey
    BY DEF Init, AnyKey, Last
  <2>2. revoked \in BOOLEAN /\ term \in {"open", "lapsed", "over"} /\ Renewable
    BY DEF Init, Renewable
  <2>3. session \in [gen : 0 .. Last, st : {"none", "fresh", "expired"}] /\ session.gen # 0
    BY <2>1 DEF Init
  <2>4. QED
    BY <2>1, <2>2, <2>3 DEF ServerOK
<1>2. Idle \in Operation /\ Shows(Idle)
  BY <1>1, IdleTyped
<1>3. ClientOK
  BY <1>1, <1>2 DEF Init, ClientOK, AnyKey, Last, ServerOK
<1>4. KeysKnown
  BY <1>2 DEF Init, KeysKnown
<1>5. QED
  BY <1>1, <1>3, <1>4, Parts DEF Typed

LEMMA StutterTyped == Typed /\ UNCHANGED vars => Typed'
BY DEF Typed, TypeOK, KeysKnown, Shows, vars, server, Last, Renewable, Operation, Request

LEMMA PartsNext == ServerOK' /\ ClientOK' /\ KeysKnown' => Typed'
BY DEF Typed, TypeOK, ServerOK, ClientOK

LEMMA SameServer ==
    ASSUME Typed, UNCHANGED server
    PROVE  ServerOK' /\ Last' = Last /\ Last' >= Last
<1>1. ServerOK
  BY Parts DEF Typed
<1>2. QED
  BY <1>1 DEF ServerOK, server, Last, Renewable

\* A step of one tab that makes no key.
LEMMA StepTyped ==
    ASSUME Typed, ServerOK', Last' >= Last, NEW t \in Tab, NEW r,
           Put(t, r), r \in Operation', Shows(r),
           jar' \in [refresh : 0 .. Last', access : 0 .. Last'],
           journal' \in [pending : AnyKey, completed : AnyKey],
           minted' = minted, stray' \subseteq Request', misled' \in BOOLEAN
    PROVE  Typed'
<1>1. tab' \in [Tab -> Operation'] /\ KeysKnown'
  BY PutTyped
<1>2. ClientOK'
  BY <1>1, Parts DEF ClientOK, Typed
<1>3. QED
  BY <1>1, <1>2, PartsNext

LEMMA OpenTyped ==
    ASSUME Typed, NEW t \in Tab, NEW round \in 0 .. 3, NEW alone \in BOOLEAN,
           Open(t, round, alone), UNCHANGED <<server, jar, stray, misled>>
    PROVE  Typed'
<1>1. ServerOK' /\ Last' = Last
  BY SameServer
<1>2. ServerOK /\ ClientOK
  BY Parts DEF Typed
<1>3. PICK k \in Key :
        /\ minted' \subseteq minted \cup {k}
        /\ journal' = [journal EXCEPT !.pending = k]
        /\ tab' = [(IF round = 1 THEN Undisturbed ELSE tab) EXCEPT ![t] =
                     [Idle EXCEPT !.at = "ready", !.round = round, !.key = k,
                                  !.previous = journal.completed, !.alone = alone]]
  BY DEF Open
<1>. DEFINE r == [Idle EXCEPT !.at = "ready", !.round = round, !.key = k,
                              !.previous = journal.completed, !.alone = alone]
            base == IF round = 1 THEN Undisturbed ELSE tab
<1>4. r \in Operation /\ Shows(r)
  <2>1. journal.completed \in AnyKey /\ k \in AnyKey
    BY <1>2 DEF ClientOK, AnyKey
  <2>2. Idle \in Operation
    BY <1>2, IdleTyped
  <2>3. r \in Operation
    BY <2>1, <2>2 DEF Operation
  <2>4. r.key = k /\ r.second = FALSE
    BY DEF Idle
  <2>5. QED
    BY <2>3, <2>4 DEF Shows
<1>5. base \in [Tab -> Operation] /\ \A u \in Tab : Shows(base[u])
  BY <1>2, UndisturbedTyped DEF ClientOK, Typed, KeysKnown
<1>6. tab' \in [Tab -> Operation] /\ \A u \in Tab : Shows(tab'[u])
  <2>1. tab' = [base EXCEPT ![t] = r]
    BY <1>3
  <2>2. QED
    BY <2>1, <1>4, <1>5
<1>7. Operation' = Operation /\ Request' = Request
  BY <1>1 DEF Operation, Request
<1>8. minted' \subseteq Key
  BY <1>2, <1>3 DEF ClientOK
<1>9. journal' \in [pending : AnyKey, completed : AnyKey]
  BY <1>2, <1>3 DEF ClientOK, AnyKey
<1>10. ClientOK'
  BY <1>1, <1>2, <1>6, <1>7, <1>8, <1>9 DEF ClientOK
<1>11. KeysKnown'
  BY <1>6 DEF KeysKnown, Shows
<1>12. QED
  BY <1>1, <1>10, <1>11, PartsNext

LEMMA AcquireTyped ==
    ASSUME Typed, NEW t \in Tab, Acquire(t) PROVE Typed'
<1>1. CASE Open(t, 1, Alone /\ Renewable /\ Repairable)
  <2>. DEFINE alone == Alone /\ Renewable /\ Repairable
  <2>1. alone \in BOOLEAN /\ 1 \in 0 .. 3
    OBVIOUS
  <2>2. Open(t, 1, alone)
    BY <1>1
  <2>3. UNCHANGED <<server, jar, stray, misled>>
    BY DEF Acquire
  <2>. HIDE DEF alone
  <2>4. QED
    BY <2>1, <2>2, <2>3, OpenTyped
<1>2. CASE Open(t, tab[t].round, tab[t].alone)
  <2>1. tab[t].round \in 0 .. 3 /\ tab[t].alone \in BOOLEAN
    BY Parts DEF Typed, ClientOK, Operation
  <2>2. QED
    BY <1>2, <2>1, OpenTyped DEF Acquire
<1>3. QED
  BY <1>1, <1>2 DEF Acquire

LEMMA ShownIsKey ==
    ASSUME Typed, NEW t \in Tab, tab[t].op = "refresh", tab[t].at \notin {"idle", "again"}
    PROVE  Shown(t) \in Key
BY DEF Typed, KeysKnown, Shows, Shown

LEMMA Answered == ASSUME NEW g, NEW k PROVE Verdict(g, k) \in {"ok", "completed", "refused"}
BY DEF Verdict

\* A step of one tab that leaves the server, the journal and the keys alone.
LEMMA QuietTyped ==
    ASSUME Typed, NEW t \in Tab, NEW r \in Operation, Put(t, r), Shows(r),
           jar' \in [refresh : 0 .. Last, access : 0 .. Last],
           journal' \in [pending : AnyKey, completed : AnyKey],
           UNCHANGED <<server, minted, stray>>, misled' \in BOOLEAN
    PROVE  Typed'
<1>1. ServerOK' /\ Last' = Last /\ Last' >= Last
  BY SameServer
<1>2. r \in Operation' /\ stray \subseteq Request'
  BY <1>1, Parts DEF Operation, Request, Typed, ClientOK
<1>3. stray' \subseteq Request' /\ minted' = minted
  BY <1>2
<1>. HIDE DEF Operation
<1>4. jar' \in [refresh : 0 .. Last', access : 0 .. Last']
  BY <1>1
<1>5. QED
  BY <1>1, <1>2, <1>3, <1>4, StepTyped

LEMMA SendTyped == ASSUME Typed, NEW t \in Tab, Send(t) PROVE Typed'
<1>. DEFINE r == [tab[t] EXCEPT !.at = "asked", !.refresh = jar.refresh]
<1>1. ClientOK /\ Shows(tab[t])
  BY Parts DEF Typed, KeysKnown
<1>2. r \in Operation /\ Shows(r)
  <2>1. tab[t] \in Operation /\ jar.refresh \in 0 .. Last
    BY <1>1 DEF ClientOK
  <2>2. r \in Operation
    BY <2>1 DEF Operation
  <2>3. r.op = tab[t].op /\ r.key = tab[t].key /\ r.second = tab[t].second
        /\ r.previous = tab[t].previous
    BY <2>1 DEF Operation
  <2>4. QED
    BY <1>1, <2>2, <2>3 DEF Shows, Send
<1>3. jar' = jar /\ journal' = journal /\ misled' = misled
  BY DEF Send
<1>4. QED
  BY <1>1, <1>2, <1>3, QuietTyped DEF Send, ClientOK

LEMMA RefreshTyped == ASSUME Typed, NEW t \in Tab, Refresh(t) PROVE Typed'
<1>1. ClientOK /\ ServerOK /\ Shows(tab[t])
  BY Parts DEF Typed, KeysKnown
<1>2. Shown(t) \in Key
  BY ShownIsKey DEF Refresh
<1>3. ServerOK' /\ Last' >= Last
  BY <1>1, <1>2, ServedTyped DEF Refresh
<1>. DEFINE ans == Verdict(tab[t].refresh, Shown(t))
            n == IF ans = "ok" THEN Len(chain') ELSE 0
            r == [tab[t] EXCEPT !.at = "answered", !.answer = ans, !.refresh = n, !.access = n]
<1>4. ans \in Answers
  BY Answered DEF Answers
<1>5. Last' \in Nat /\ n \in 0 .. Last'
  BY <1>3 DEF ServerOK, Last
<1>6. tab[t] \in Operation'
  BY <1>1, <1>3, Grown
<1>7. r \in Operation'
  <2>. HIDE DEF n, ans
  <2>1. QED
    BY <1>4, <1>5, <1>6 DEF Operation, Answers
<1>8. Shows(r)
  BY <1>1 DEF Shows, Refresh
<1>9. Put(t, r)
  BY DEF Refresh
<1>10. /\ jar' \in [refresh : 0 .. Last', access : 0 .. Last']
       /\ stray' \subseteq Request'
  BY <1>3, Grown DEF Refresh
<1>11. journal' = journal /\ minted' = minted /\ misled' = misled
  BY DEF Refresh
<1>12. QED
  BY <1>1, <1>3, <1>7, <1>8, <1>9, <1>10, <1>11, StepTyped DEF ClientOK

LEMMA StrayTyped == ASSUME Typed, NEW s \in stray, ServeStray(s) PROVE Typed'
<1>1. ClientOK /\ ServerOK
  BY Parts DEF Typed
<1>2. s.key \in Key
  BY <1>1 DEF ClientOK, Request
<1>3. ServerOK' /\ Last' >= Last
  BY <1>1, <1>2, ServedTyped DEF ServeStray
<1>4. /\ tab \in [Tab -> Operation'] /\ stray \subseteq Request'
      /\ jar \in [refresh : 0 .. Last', access : 0 .. Last']
  BY <1>3, Grown
<1>5. ClientOK'
  BY <1>1, <1>4 DEF ClientOK, ServeStray
<1>6. KeysKnown'
  BY DEF Typed, KeysKnown, Shows, ServeStray
<1>7. QED
  BY <1>3, <1>5, <1>6, PartsNext

LEMMA CookiesTyped ==
    ASSUME Typed, NEW t \in Tab, SetCookies(t)
    PROVE  jar' \in [refresh : 0 .. Last, access : 0 .. Last] /\ misled' \in BOOLEAN
BY Parts DEF Typed, ClientOK, SetCookies, Operation

LEMMA AcceptedTyped == ASSUME Typed, NEW t \in Tab, Accepted(t) PROVE Typed'
<1>. DEFINE r == [tab[t] EXCEPT !.at = "applied"]
<1>1. ClientOK /\ Shows(tab[t])
  BY Parts DEF Typed, KeysKnown
<1>2. r \in Operation /\ Shows(r)
  BY <1>1 DEF ClientOK, Operation, Shows, Accepted
<1>3. QED
  BY <1>1, <1>2, CookiesTyped, QuietTyped DEF Accepted, ClientOK

LEMMA SupersededTyped == ASSUME Typed, NEW t \in Tab, Superseded(t) PROVE Typed'
<1>. DEFINE r == [tab[t] EXCEPT !.at = "applied"]
<1>1. ClientOK /\ Shows(tab[t])
  BY Parts DEF Typed, KeysKnown
<1>2. r \in Operation /\ Shows(r)
  BY <1>1 DEF ClientOK, Operation, Shows, Superseded
<1>3. QED
  BY <1>1, <1>2, QuietTyped DEF Superseded, ClientOK

LEMMA FailedTyped ==
    ASSUME Typed, NEW t \in Tab
    PROVE  LET r == [Idle EXCEPT !.failed = tab[t].alone]
           IN r \in Operation /\ Shows(r)
<1>1. tab[t].alone \in BOOLEAN /\ Idle \in Operation
  BY Parts, IdleTyped DEF Typed, ClientOK, Operation
<1>2. QED
  BY <1>1 DEF Operation, Shows, Idle

LEMMA RefusedTyped == ASSUME Typed, NEW t \in Tab, Refused(t) PROVE Typed'
<1>1. ClientOK /\ Shows(tab[t])
  BY Parts DEF Typed, KeysKnown
<1>. DEFINE r == [tab[t] EXCEPT !.at = "ready", !.second = TRUE, !.answer = "none"]
<1>2. CASE tab[t].previous # NoKey /\ Put(t, r)
  <2>1. r \in Operation /\ Shows(r)
    <3>1. tab[t] \in Operation /\ "none" \in Answers
      BY <1>1 DEF ClientOK, Answers
    <3>2. r \in Operation
      BY <3>1 DEF Operation
    <3>3. tab[t].key \in Key /\ tab[t].previous \in Key
      BY <1>1, <1>2, <3>1 DEF Shows, Refused, Operation, AnyKey
    <3>4. r.key = tab[t].key /\ r.previous = tab[t].previous
      BY <3>1 DEF Operation
    <3>5. QED
      BY <3>2, <3>3, <3>4 DEF Shows
  <2>2. QED
    BY <1>1, <1>2, <2>1, QuietTyped DEF Refused, ClientOK
<1>3. CASE Fail(t)
  <2>1. [Idle EXCEPT !.failed = tab[t].alone] \in Operation
    BY FailedTyped
  <2>2. QED
    BY <1>1, <1>3, <2>1, FailedTyped, QuietTyped DEF Refused, ClientOK, Fail
<1>4. QED
  BY <1>2, <1>3 DEF Refused

LEMMA CompletedTyped ==
    ASSUME Typed, NEW t \in Tab, tab[t].op = "refresh", tab[t].at \notin {"idle", "again"}
    PROVE  Completed(t) \in [pending : AnyKey, completed : AnyKey]
BY ShownIsKey, Parts DEF Typed, ClientOK, Completed, AnyKey

LEMMA IdleStepTyped ==
    ASSUME Typed, NEW t \in Tab, Put(t, Idle), UNCHANGED <<server, jar, journal, minted, stray>>,
           misled' \in BOOLEAN
    PROVE  Typed'
<1>1. ClientOK /\ ServerOK
  BY Parts DEF Typed
<1>2. Idle \in Operation /\ Shows(Idle)
  BY <1>1, IdleTyped
<1>3. QED
  BY <1>1, <1>2, QuietTyped DEF ClientOK

LEMMA CompleteTyped == ASSUME Typed, NEW t \in Tab, Complete(t) PROVE Typed'
<1>1. ClientOK /\ ServerOK
  BY Parts DEF Typed
<1>2. journal' \in [pending : AnyKey, completed : AnyKey]
  BY CompletedTyped DEF Complete
<1>3. PICK r : Put(t, r) /\ \/ \E next \in {2, 3} : r = [Idle EXCEPT !.at = "again", !.round = next,
                                                             !.alone = tab[t].alone]
                            \/ r = [Idle EXCEPT !.failed = tab[t].alone]
                            \/ r = Idle
  BY DEF Complete, Fail
<1>4. Idle \in Operation /\ Shows(Idle)
  BY <1>1, IdleTyped
<1>5. r \in Operation /\ Shows(r)
  <2>1. tab[t].alone \in BOOLEAN
    BY <1>1 DEF ClientOK, Operation
  <2>2. ASSUME NEW next \in {2, 3}
        PROVE  LET x == [Idle EXCEPT !.at = "again", !.round = next, !.alone = tab[t].alone]
               IN x \in Operation /\ Shows(x)
    <3>. DEFINE x == [Idle EXCEPT !.at = "again", !.round = next, !.alone = tab[t].alone]
    <3>0. next \in 0 .. 3 /\ Idle \in Operation
      BY <1>4
    <3>1. x \in Operation
      BY <2>1, <3>0 DEF Operation
    <3>2. x.at = "again"
      BY <1>4 DEF Operation
    <3>3. QED
      BY <3>1, <3>2 DEF Shows
  <2>3. QED
    BY <1>3, <1>4, <2>2, FailedTyped
<1>6. QED
  BY <1>1, <1>2, <1>3, <1>5, QuietTyped DEF Complete, ClientOK

LEMMA GiveUpTyped == ASSUME Typed, NEW t \in Tab, GiveUp(t) PROVE Typed'
<1>1. ClientOK /\ ServerOK
  BY Parts DEF Typed
<1>2. stray' \subseteq Request
  <2>1. Shown(t) \in Key /\ tab[t].refresh \in 0 .. Last
    BY <1>1, ShownIsKey DEF GiveUp, ClientOK, Operation
  <2>2. [refresh |-> tab[t].refresh, key |-> Shown(t)] \in Request
    BY <2>1 DEF Request
  <2>3. QED
    BY <1>1, <2>2 DEF GiveUp, ClientOK
<1>3. ServerOK' /\ Last' = Last /\ Last' >= Last
  BY SameServer DEF GiveUp
<1>4. Idle \in Operation /\ Shows(Idle)
  BY <1>1, IdleTyped
<1>5. Operation' = Operation /\ Request' = Request
  BY <1>3 DEF Operation, Request
<1>6. QED
  BY <1>1, <1>2, <1>3, <1>4, <1>5, StepTyped DEF GiveUp, ClientOK

LEMMA AskTyped == ASSUME Typed, NEW t \in Tab, NEW op \in Ops, Ask(t, op) PROVE Typed'
<1>1. ClientOK /\ ServerOK
  BY Parts DEF Typed
<1>. DEFINE r == [Idle EXCEPT !.op = op, !.at = "asked",
                              !.refresh = jar.refresh, !.access = jar.access]
<1>2. r \in Operation /\ Shows(r)
  <2>1. Idle \in Operation /\ op \in {"password", "others", "logout"}
    BY <1>1, IdleTyped, BoundAssumption
  <2>2. r \in Operation
    BY <1>1, <2>1 DEF ClientOK, Operation
  <2>3. r.op = op
    BY <2>1 DEF Operation
  <2>4. QED
    BY <2>1, <2>2, <2>3 DEF Shows
<1>3. Undisturbed \in [Tab -> Operation] /\ \A u \in Tab : Shows(Undisturbed[u])
  BY UndisturbedTyped
<1>4. tab' \in [Tab -> Operation] /\ \A u \in Tab : Shows(tab'[u])
  BY <1>2, <1>3 DEF Ask
<1>5. ServerOK' /\ Last' = Last
  BY SameServer DEF Ask
<1>6. Operation' = Operation /\ Request' = Request
  BY <1>5 DEF Operation, Request
<1>7. ClientOK' /\ KeysKnown'
  BY <1>1, <1>4, <1>5, <1>6 DEF Ask, ClientOK, KeysKnown, Shows
<1>8. QED
  BY <1>5, <1>7, PartsNext

LEMMA AuthenticateTyped == ASSUME Typed, NEW t \in Tab, Authenticate(t) PROVE Typed'
<1>1. ClientOK
  BY Parts DEF Typed
<1>2. CASE Put(t, Idle)
  BY <1>1, <1>2, IdleStepTyped DEF Authenticate, ClientOK
<1>. DEFINE r == [tab[t] EXCEPT !.at = "known"]
<1>3. CASE Put(t, r)
  <2>1. r \in Operation /\ Shows(r)
    BY <1>1 DEF ClientOK, Operation, Shows, Authenticate
  <2>2. QED
    BY <1>1, <1>3, <2>1, QuietTyped DEF Authenticate, ClientOK
<1>4. QED
  BY <1>2, <1>3 DEF Authenticate

\* A step of one tab that revokes the family, or leaves the server alone.
LEMMA EndTyped ==
    ASSUME Typed, NEW t \in Tab, NEW r \in Operation, Put(t, r), Shows(r),
           RevokeFamily \/ UNCHANGED server,
           UNCHANGED <<jar, journal, minted, stray, misled>>
    PROVE  Typed'
<1>1. ClientOK /\ ServerOK
  BY Parts DEF Typed
<1>2. ServerOK' /\ Last' = Last /\ Last' >= Last
  BY <1>1, RevokedTyped, SameServer DEF ServerOK, Last
<1>3. Operation' = Operation /\ Request' = Request
  BY <1>2 DEF Operation, Request
<1>4. QED
  BY <1>1, <1>2, <1>3, StepTyped DEF ClientOK

LEMMA RevokeOthersTyped == ASSUME Typed, NEW t \in Tab, RevokeOthers(t) PROVE Typed'
BY EndTyped, IdleTyped, Parts DEF Typed, RevokeOthers

LEMMA ChangePasswordTyped == ASSUME Typed, NEW t \in Tab, ChangePassword(t) PROVE Typed'
<1>1. ClientOK /\ ServerOK
  BY Parts DEF Typed
<1>2. CASE Put(t, Idle) /\ (RevokeFamily \/ UNCHANGED server)
  BY <1>1, <1>2, EndTyped, IdleTyped DEF ChangePassword
<1>. DEFINE r == [tab[t] EXCEPT !.at = "answered", !.answer = "ok", !.refresh = Last + 1]
<1>3. CASE /\ chain' = Append(chain, NoKey)
           /\ Put(t, r)
           /\ UNCHANGED <<revoked, term, session>>
  <2>1. ServerOK' /\ Last' = Last + 1 /\ Last \in Nat
    BY <1>1, <1>3, GrownTyped DEF Grows, AnyKey, ServerOK, Last
  <2>2. Last' >= Last /\ Last + 1 \in 0 .. Last'
    BY <2>1
  <2>3. tab[t] \in Operation'
    BY <2>1, <2>2, Grown
  <2>4. r \in Operation'
    BY <2>2, <2>3 DEF Operation, Answers
  <2>5. Shows(r)
    <3>1. r.op = tab[t].op
      BY <2>3 DEF Operation
    <3>2. QED
      BY <3>1 DEF Shows, ChangePassword
  <2>6. /\ jar' \in [refresh : 0 .. Last', access : 0 .. Last']
        /\ stray' \subseteq Request'
    BY <2>1, <2>2, Grown DEF ChangePassword
  <2>7. QED
    BY <1>1, <1>3, <2>1, <2>2, <2>4, <2>5, <2>6, StepTyped DEF ChangePassword, ClientOK
<1>4. QED
  BY <1>2, <1>3 DEF ChangePassword

LEMMA PasswordChangedTyped == ASSUME Typed, NEW t \in Tab, PasswordChanged(t) PROVE Typed'
BY CookiesTyped, QuietTyped, IdleTyped, Parts DEF Typed, ClientOK, PasswordChanged

LEMMA LostTyped == ASSUME Typed, NEW t \in Tab, Lost(t) PROVE Typed'
<1>1. misled' \in BOOLEAN
  BY Parts DEF Typed, ClientOK, Lost
<1>2. QED
  BY <1>1, IdleStepTyped DEF Lost

LEMMA LogoutTyped == ASSUME Typed, NEW t \in Tab, Logout(t) PROVE Typed'
<1>. DEFINE r == [tab[t] EXCEPT !.at = "answered"]
<1>1. r \in Operation /\ Shows(r)
  BY Parts DEF Typed, ClientOK, Operation, Shows, Logout
<1>2. RevokeFamily \/ UNCHANGED server
  BY DEF Logout
<1>3. QED
  BY <1>1, <1>2, EndTyped DEF Logout

LEMMA LoggedOutTyped == ASSUME Typed, NEW t \in Tab, LoggedOut(t) PROVE Typed'
<1>1. ClientOK /\ ServerOK /\ Last \in Nat
  BY Parts DEF Typed, ServerOK, Last
<1>. DEFINE r == [tab[t] EXCEPT !.at = "applied"]
<1>2. CASE Put(t, r) /\ jar' = [refresh |-> 0, access |-> 0] /\ UNCHANGED journal
  <2>1. r \in Operation /\ Shows(r)
    BY <1>1 DEF ClientOK, Operation, Shows, LoggedOut
  <2>2. jar' \in [refresh : 0 .. Last, access : 0 .. Last]
    BY <1>1, <1>2
  <2>3. QED
    BY <1>1, <1>2, <2>1, <2>2, QuietTyped DEF LoggedOut, ClientOK
<1>3. CASE Put(t, Idle) /\ journal' = [pending |-> NoKey, completed |-> NoKey] /\ UNCHANGED jar
  <2>1. Idle \in Operation /\ Shows(Idle)
    BY <1>1, IdleTyped
  <2>2. journal' \in [pending : AnyKey, completed : AnyKey]
    BY <1>3 DEF AnyKey
  <2>3. QED
    BY <1>1, <1>3, <2>1, <2>2, QuietTyped DEF LoggedOut, ClientOK
<1>4. QED
  BY <1>2, <1>3 DEF LoggedOut

LEMMA ClockTyped == ASSUME Typed, Clock \/ Revoke PROVE Typed'
<1>1. ClientOK /\ ServerOK
  BY Parts DEF Typed
<1>2. ServerOK' /\ Last' = Last
  BY <1>1, RevokedTyped DEF Clock, AccessExpires, Purge, TermEnds, Revoke, ServerOK, Last,
                            NoSession, Renewable
<1>3. tab' = tab \/ tab' = Undisturbed
  BY DEF Clock, AccessExpires, Purge, TermEnds, Revoke
<1>4. tab' \in [Tab -> Operation] /\ \A u \in Tab : Shows(tab'[u])
  BY <1>1, <1>3, UndisturbedTyped DEF ClientOK, Typed, KeysKnown
<1>5. Operation' = Operation /\ Request' = Request
  BY <1>2 DEF Operation, Request
<1>6. UNCHANGED <<jar, journal, minted, stray, misled>>
  BY DEF Clock, AccessExpires, Purge, TermEnds, Revoke
<1>7. ClientOK' /\ KeysKnown'
  BY <1>1, <1>2, <1>4, <1>5, <1>6 DEF ClientOK, KeysKnown, Shows
<1>8. QED
  BY <1>2, <1>7, PartsNext

LEMMA NextTyped == Typed /\ [Next]_vars => Typed'
<1> SUFFICES ASSUME Typed, [Next]_vars PROVE Typed'
  OBVIOUS
<1>1. CASE Clock \/ Revoke
  BY <1>1, ClockTyped
<1>2. ASSUME NEW t \in Tab, Renewal(t) PROVE Typed'
  BY <1>2, AcquireTyped, SendTyped, RefreshTyped, AcceptedTyped, SupersededTyped, RefusedTyped,
     CompleteTyped, GiveUpTyped DEF Renewal
<1>3. ASSUME NEW t \in Tab, Other(t) PROVE Typed'
  BY <1>3, AskTyped, AuthenticateTyped, RevokeOthersTyped, ChangePasswordTyped,
     PasswordChangedTyped, LostTyped, LogoutTyped, LoggedOutTyped DEF Other
<1>4. ASSUME NEW s \in stray, ServeStray(s) PROVE Typed'
  BY <1>4, StrayTyped
<1>5. CASE UNCHANGED vars
  BY <1>5, StutterTyped
<1>6. QED
  BY <1>1, <1>2, <1>3, <1>4, <1>5 DEF Next

LEMMA Typing == Spec => []Typed
BY InitTyped, NextTyped, PTL DEF Spec

\* Every variable keeps its type; in particular a session is fresh only while its family
\* can be renewed.
THEOREM TypeCorrect == Spec => []TypeOK
<1>1. Typed => TypeOK
  BY DEF Typed
<1>2. QED
  BY <1>1, Typing, PTL

-----------------------------------------------------------------------------
(* Refinement                                                               *)

Pass == IF session.st = "fresh" THEN {session.gen} ELSE {}

Promised == [Promise!Next]_<<revoked, chain, Pass>>

LEMMA SameServerPromised == ASSUME UNCHANGED server PROVE Promised
BY DEF Promised, Pass, server

LEMMA RevokedPromised == ASSUME RevokeFamily PROVE Promised
BY DEF Promised, Pass, RevokeFamily, NoSession, Promise!Next, Promise!End

LEMMA ServedPromised ==
    ASSUME Typed, NEW g, NEW k \in Key, Serve(g, k)
    PROVE  Promised
<1>1. ServerOK
  BY Parts DEF Typed
<1>2. CASE /\ Rotates(g, k)
           /\ chain' = Append(chain, k)
           /\ session' = [gen |-> Last + 1, st |-> "fresh"]
           /\ UNCHANGED <<revoked, term>>
  <2>1. \A i \in DOMAIN chain : chain[i] # k
    <3>1. chain[1] # k
      BY <1>1, KeyAssumption DEF ServerOK
    <3>2. DOMAIN chain = 1 .. Last /\ Last \in Nat
      BY <1>1 DEF ServerOK, Last
    <3>3. QED
      BY <1>2, <3>1, <3>2 DEF Rotates, Used
  <2>2. ~revoked
    BY <1>2 DEF Rotates, Renewable
  <2>3. Pass' = {Len(chain) + 1}
    BY <1>2 DEF Pass, Last
  <2>4. Promise!Renew(k)
    BY <1>2, <2>1, <2>2, <2>3 DEF Promise!Renew, Pass
  <2>5. QED
    BY <2>4 DEF Promised, Promise!Next
<1>3. QED
  BY <1>2, RevokedPromised, SameServerPromised DEF Serve

LEMMA NextPromised == Typed /\ [Next]_vars => Promised
<1> SUFFICES ASSUME Typed, [Next]_vars PROVE Promised
  OBVIOUS
<1>1. CASE Clock
  <2>1. CASE AccessExpires
    <3>1. session \in [gen : 0 .. Last, st : {"none", "fresh", "expired"}]
      BY Parts DEF Typed, ServerOK
    <3>2. Pass' = {} /\ UNCHANGED <<revoked, chain>>
      BY <2>1, <3>1 DEF AccessExpires, Pass
    <3>3. QED
      BY <3>2 DEF Promised, Promise!Next, Promise!Lapse, Pass
  <2>2. CASE Purge \/ TermEnds
    BY <2>2 DEF Purge, TermEnds, Promised, Pass, NoSession
  <2>3. QED
    BY <1>1, <2>1, <2>2 DEF Clock
<1>2. CASE Revoke
  BY <1>2, RevokedPromised DEF Revoke
<1>3. ASSUME NEW t \in Tab, Refresh(t) PROVE Promised
  BY <1>3, ShownIsKey, ServedPromised DEF Refresh
<1>4. ASSUME NEW t \in Tab, Renewal(t), ~Refresh(t) PROVE Promised
  BY <1>4, SameServerPromised DEF Renewal, Acquire, Send, Accepted, Superseded, Refused,
                                  Complete, GiveUp
<1>5. ASSUME NEW t \in Tab, ChangePassword(t) PROVE Promised
  <2>1. CASE RevokeFamily \/ UNCHANGED server
    BY <2>1, RevokedPromised, SameServerPromised
  <2>2. CASE /\ Kept(t) /\ session.st = "fresh" /\ Renewable
             /\ chain' = Append(chain, NoKey)
             /\ UNCHANGED <<revoked, term, session>>
    <3>1. Promise!Replace
      BY <2>2 DEF Promise!Replace, Pass, Renewable
    <3>2. QED
      BY <3>1 DEF Promised, Promise!Next
  <2>3. QED
    BY <1>5, <2>1, <2>2 DEF ChangePassword
<1>6. ASSUME NEW t \in Tab, Other(t), ~ChangePassword(t) PROVE Promised
  BY <1>6, RevokedPromised, SameServerPromised
     DEF Other, Ask, Authenticate, RevokeOthers, PasswordChanged, Lost, Logout, LoggedOut
<1>7. ASSUME NEW s \in stray, ServeStray(s) PROVE Promised
  <2>1. s.key \in Key
    BY Parts DEF Typed, ClientOK, Request
  <2>2. QED
    BY <1>7, <2>1, ServedPromised DEF ServeStray
<1>8. CASE UNCHANGED vars
  BY <1>8, SameServerPromised DEF vars
<1>9. QED
  BY <1>1, <1>2, <1>3, <1>4, <1>5, <1>6, <1>7, <1>8 DEF Next

\* WebSession implements SignIn: a request renews the sign-in at most once, one access is
\* accepted at a time, and what was revoked stays so.
THEOREM Implementation == Spec => SignInKept
<1>1. Init => Promise!Init
  BY DEF Init, Promise!Init
<1>2. Typed /\ [Next]_vars => [Promise!Next]_<<revoked, chain, IF session.st = "fresh" THEN {session.gen} ELSE {}>>
  BY NextPromised DEF Promised, Pass
<1>3. QED
  BY <1>1, <1>2, Typing, PTL DEF Spec, SignInKept, Promise!Spec

-----------------------------------------------------------------------------
(* That a browser whose sign-in lasts can renew it, and does               *)

(* What an operation and a request may rely on: c is the chain of keys, n   *)
(* the generation of the cookie, p the pending key, and live says that the  *)
(* sign-in can be renewed.                                                  *)

\* The key k has renewed the sign-in, at generation n at the latest.
KeyAt(c, k, n) == \E i \in 2 .. n : c[i] = k

Renewing(r) == r.op = "refresh" /\ r.at \notin {"idle", "again"}

\* A key that may still renew the sign-in is the pending one.
UsedOrPending(k, c, p) == KeyAt(c, k, Len(c)) \/ p = k

\* The completed key, which the operation repairs with, leads to the cookie or to one
\* before it, also to the one that was sent.
PreviousIsPast(r, c, n) ==
    r.previous # NoKey =>
        /\ KeyAt(c, r.previous, n)
        /\ r.at = "asked" /\ ~r.second => KeyAt(c, r.previous, r.refresh)

\* What an answer says of the key.
AnswerIsTrue(r, c, n) ==
    /\ r.at = "answered" /\ r.answer = "ok" =>
        r.refresh \in 2 .. Len(c) /\ c[r.refresh] = r.key
    /\ r.at = "answered" /\ r.answer = "completed" /\ ~r.second => KeyAt(c, r.key, n)
    /\ r.at = "applied" => KeyAt(c, r.key, n)

\* As long as cookies only advance, the repair by the completed key has nothing to repair.
RepairIsIdle(r, c, live) ==
    /\ r.second => r.at # "applied" /\ ~(r.at = "answered" /\ r.answer = "ok")
    /\ \/ r.second /\ r.at \in {"ready", "asked"}
       \/ r.at = "answered" /\ r.answer = "refused" /\ r.previous # NoKey
       => ~live \/ c[Len(c)] # r.previous

Sound(r, c, n, p, live) ==
    Renewing(r) =>
        /\ PreviousIsPast(r, c, n)
        /\ UsedOrPending(r.key, c, p)
        /\ r.at = "asked" => r.refresh <= n
        /\ AnswerIsTrue(r, c, n)
        /\ RepairIsIdle(r, c, live)

SoundRequest(s, c, n, p) == UsedOrPending(s.key, c, p) /\ s.refresh <= n

\* The chain d is c, or c with a key that it does not have, or with none.
Follows(c, d) ==
    /\ Len(d) >= Len(c)
    /\ \A i \in 1 .. Len(c) : d[i] = c[i]
    /\ Len(d) > Len(c) => d[Len(d)] = NoKey \/ ~KeyAt(c, d[Len(d)], Len(c))

LEMMA KeyStays ==
    ASSUME NEW c, NEW d, Len(c) \in Nat, Len(d) \in Nat, Follows(c, d),
           NEW n \in Nat, NEW m \in Nat, n <= Len(c), n <= m, NEW k, KeyAt(c, k, n)
    PROVE  KeyAt(d, k, m)
BY DEF KeyAt, Follows

\* What holds of a key that is used or pending goes on to hold while the pending key is
\* only replaced when it has been used.
LEMMA UsedOrPendingStays ==
    ASSUME NEW c, NEW d, Len(c) \in Nat, Len(d) \in Nat, Follows(c, d),
           NEW p, NEW q, q = p \/ p = NoKey \/ KeyAt(c, p, Len(c)),
           NEW k \in Key, UsedOrPending(k, c, p)
    PROVE  UsedOrPending(k, d, q)
<1>1. CASE KeyAt(c, k, Len(c))
  BY <1>1, KeyStays DEF UsedOrPending, Follows
<1>2. CASE p = k
  <2>1. k # NoKey
    BY KeyAssumption
  <2>2. QED
    BY <1>1, <1>2, <2>1 DEF UsedOrPending
<1>3. QED
  BY <1>1, <1>2 DEF UsedOrPending

\* An operation stays sound through what the others do: the chain grows, the cookie
\* advances, the sign-in ends.
LEMMA SoundStays ==
    ASSUME NEW c, NEW d, Len(c) \in Nat, Len(d) \in Nat, Follows(c, d),
           NEW n \in Nat, NEW m \in Nat, n <= Len(c), n <= m, Len(c) > 0,
           NEW p, NEW q, q = p \/ p = NoKey \/ KeyAt(c, p, Len(c)),
           NEW live \in BOOLEAN, NEW still \in BOOLEAN, still => live,
           NEW r, r.refresh \in Nat, Shows(r), Sound(r, c, n, p, live)
    PROVE  Sound(r, d, m, q, still)
<1> SUFFICES ASSUME Renewing(r)
             PROVE  /\ PreviousIsPast(r, d, m)
                    /\ UsedOrPending(r.key, d, q)
                    /\ r.at = "asked" => r.refresh <= m
                    /\ AnswerIsTrue(r, d, m)
                    /\ RepairIsIdle(r, d, still)
  BY DEF Sound
<1>1. /\ PreviousIsPast(r, c, n)
      /\ UsedOrPending(r.key, c, p)
      /\ r.at = "asked" => r.refresh <= n
      /\ AnswerIsTrue(r, c, n)
      /\ RepairIsIdle(r, c, live)
  BY DEF Sound
<1>2. PreviousIsPast(r, d, m)
  <2>1. r.at = "asked" => r.refresh <= Len(c)
    BY <1>1
  <2>2. QED
    BY <1>1, <2>1, KeyStays DEF PreviousIsPast
<1>3. UsedOrPending(r.key, d, q)
  BY <1>1, UsedOrPendingStays DEF Shows, Renewing
<1>4. r.at = "asked" => r.refresh <= m
  BY <1>1
<1>5. AnswerIsTrue(r, d, m)
  <2>1. r.refresh \in 2 .. Len(c) /\ c[r.refresh] = r.key =>
            r.refresh \in 2 .. Len(d) /\ d[r.refresh] = r.key
    BY DEF Follows
  <2>2. QED
    BY <1>1, <2>1, KeyStays DEF AnswerIsTrue
<1>6. RepairIsIdle(r, d, still)
  <2>1. ASSUME r.previous # NoKey, c[Len(c)] # r.previous
        PROVE  d[Len(d)] # r.previous
    <3>1. KeyAt(c, r.previous, Len(c))
      BY <1>1, <2>1 DEF PreviousIsPast, KeyAt
    <3>2. CASE Len(d) = Len(c)
      BY <2>1, <3>2 DEF Follows
    <3>3. CASE Len(d) > Len(c)
      BY <2>1, <3>1, <3>3 DEF Follows
    <3>4. QED
      BY <3>2, <3>3 DEF Follows
  <2>2. r.second => r.previous # NoKey
    BY KeyAssumption DEF Shows, Renewing
  <2>3. QED
    BY <1>1, <2>1, <2>2 DEF RepairIsIdle
<1>7. QED
  BY <1>2, <1>3, <1>4, <1>5, <1>6
-----------------------------------------------------------------------------
(* The invariant                                                            *)

\* Two generations have no key in common.
Distinct ==
    \A i, j \in 2 .. Last : chain[i] = chain[j] /\ chain[i] # NoKey => i = j

\* A sign-out that shows a refresh finds its family; no other operation is answered
\* as a renewal is.
OthersKnown ==
    \A t \in Tab : tab[t].op # "refresh" =>
        /\ tab[t].answer # "completed" /\ tab[t].at # "ready"
        /\ tab[t].op = "logout" /\ tab[t].at = "asked" => tab[t].refresh # 0
        /\ tab[t].op = "logout" /\ tab[t].at \in {"answered", "applied"} => revoked

\* The tab that changed the password is about to be given the current token.
Handing(t) == tab[t].op = "password" /\ tab[t].at = "answered" /\ tab[t].refresh = Last

WayOn ==
    \/ jar.refresh = Last
    \/ jar.refresh + 1 = Last /\ chain[Last] \in Key /\ chain[Last] = journal.pending
    \/ \E t \in Tab : Handing(t)

JournalIsPast == journal.completed # NoKey => KeyAt(chain, journal.completed, jar.refresh)

OnTheWay ==
    /\ \A t \in Tab : Sound(tab[t], chain, jar.refresh, journal.pending, Renewable)
    /\ \A s \in stray : SoundRequest(s, chain, jar.refresh, journal.pending)

Advancing == ~revoked /\ ~misled

Inv ==
    /\ Typed /\ Distinct /\ OthersKnown
    /\ Advancing => WayOn /\ JournalIsPast /\ OnTheWay

LEMMA InvInit == Init => Inv
<1> SUFFICES ASSUME Init PROVE Inv
  OBVIOUS
<1>1. Typed /\ Last = 1
  BY InitTyped DEF Init, Last
<1>2. Distinct
  BY <1>1 DEF Distinct
<1>3. OthersKnown
  BY DEF Init, Idle, OthersKnown
<1>4. WayOn /\ JournalIsPast
  BY <1>1 DEF Init, WayOn, JournalIsPast
<1>5. OnTheWay
  BY DEF Init, OnTheWay, Idle, Sound, Renewing
<1>6. QED
  BY <1>1, <1>2, <1>3, <1>4, <1>5 DEF Inv

LEMMA InvWayOn == Inv => Recoverable
<1> SUFFICES ASSUME Inv, Renewable, ~misled
             PROVE  Repairable \/ \E t \in Tab : Handing(t)
  BY DEF Recoverable, Handing
<1>1. WayOn
  BY DEF Inv, Advancing, Renewable
<1>2. QED
  BY <1>1, KeyAssumption DEF WayOn, Repairable

-----------------------------------------------------------------------------
(* What a step does to the server                                           *)

Appends(k) ==
    /\ chain' = Append(chain, k) /\ UNCHANGED <<revoked, term>>
    /\ k \in AnyKey /\ (k # NoKey => ~Used(k))

LEMMA Chained ==
    ASSUME Typed
    PROVE  /\ chain \in Seq(AnyKey) /\ Last \in Nat /\ Len(chain) = Last
           /\ Last > 0 /\ chain[1] = NoKey
BY Parts DEF Typed, ServerOK, Last

LEMMA AppendFollows ==
    ASSUME Typed, NEW k, Appends(k)
    PROVE  /\ Follows(chain, chain') /\ Renewable' = Renewable
           /\ Last' = Last + 1 /\ chain'[Last'] = k
           /\ \A i \in 1 .. Last : chain'[i] = chain[i]
<1>1. chain \in Seq(AnyKey) /\ Last \in Nat /\ Len(chain) = Last /\ k \in AnyKey
  BY Chained DEF Appends
<1>2. /\ Len(chain') = Last + 1 /\ chain'[Last + 1] = k
      /\ \A i \in 1 .. Last : chain'[i] = chain[i]
  BY <1>1, Appended DEF Appends
<1>3. k = NoKey \/ ~KeyAt(chain, k, Last)
  BY DEF Appends, Used, KeyAt
<1>4. Follows(chain, chain')
  BY <1>1, <1>2, <1>3 DEF Follows
<1>5. Renewable' = Renewable
  BY DEF Appends, Renewable
<1>6. QED
  BY <1>1, <1>2, <1>4, <1>5 DEF Last

LEMMA ServedAppends ==
    ASSUME Typed, NEW g, NEW k \in Key, Serve(g, k)
    PROVE  \/ Appends(k) /\ Rotates(g, k)
           \/ RevokeFamily
           \/ UNCHANGED server /\ ~Rotates(g, k)
BY DEF Serve, Appends, Rotates, AnyKey

\* Whatever happens, the chain keeps what it has, and a sign-in that is over stays so.
LEMMA ServerSteps ==
    ASSUME Typed, [Next]_vars
    PROVE  \/ chain' = chain /\ (Renewable' => Renewable) /\ (revoked => revoked')
           \/ \E k \in AnyKey : Appends(k)
<1>1. CASE Clock \/ Revoke
  BY <1>1 DEF Clock, AccessExpires, Purge, TermEnds, Revoke, RevokeFamily, Renewable
<1>2. ASSUME NEW g, NEW k \in Key, Serve(g, k)
      PROVE  \/ chain' = chain /\ (Renewable' => Renewable) /\ (revoked => revoked')
             \/ \E x \in AnyKey : Appends(x)
  BY <1>2, ServedAppends DEF RevokeFamily, server, Renewable, AnyKey
<1>3. ASSUME NEW t \in Tab, Refresh(t)
      PROVE  \/ chain' = chain /\ (Renewable' => Renewable) /\ (revoked => revoked')
             \/ \E k \in AnyKey : Appends(k)
  BY <1>2, <1>3, ShownIsKey DEF Refresh
<1>4. ASSUME NEW t \in Tab, Renewal(t), ~Refresh(t)
      PROVE  chain' = chain /\ (Renewable' => Renewable) /\ (revoked => revoked')
  <2>1. UNCHANGED server
    BY <1>4 DEF Renewal, Acquire, Send, Accepted, Superseded, Refused, Complete, GiveUp
  <2>2. QED
    BY <2>1 DEF server, Renewable
<1>5. ASSUME NEW t \in Tab, ChangePassword(t)
      PROVE  \/ chain' = chain /\ (Renewable' => Renewable) /\ (revoked => revoked')
             \/ \E k \in AnyKey : Appends(k)
  BY <1>5 DEF ChangePassword, Appends, AnyKey, RevokeFamily, server, Renewable
<1>6. ASSUME NEW t \in Tab, Other(t), ~ChangePassword(t)
      PROVE  chain' = chain /\ (Renewable' => Renewable) /\ (revoked => revoked')
  <2>1. UNCHANGED server \/ RevokeFamily
    BY <1>6 DEF Other, Ask, Authenticate, RevokeOthers, PasswordChanged, Lost, Logout, LoggedOut
  <2>2. QED
    BY <2>1 DEF server, Renewable, RevokeFamily
<1>7. ASSUME NEW s \in stray, ServeStray(s)
      PROVE  \/ chain' = chain /\ (Renewable' => Renewable) /\ (revoked => revoked')
             \/ \E k \in AnyKey : Appends(k)
  <2>1. s.key \in Key
    BY Parts DEF Typed, ClientOK, Request
  <2>2. QED
    BY <1>2, <1>7, <2>1 DEF ServeStray
<1>8. CASE UNCHANGED vars
  BY <1>8 DEF vars, server, Renewable
<1>9. QED
  BY <1>1, <1>3, <1>4, <1>5, <1>6, <1>7, <1>8 DEF Next

LEMMA ServerFollows ==
    ASSUME Typed, [Next]_vars
    PROVE  Follows(chain, chain') /\ (Renewable' => Renewable) /\ (revoked => revoked')
<1>1. Last \in Nat /\ Len(chain) = Last
  BY Chained
<1>2. CASE chain' = chain /\ (Renewable' => Renewable) /\ (revoked => revoked')
  BY <1>1, <1>2 DEF Follows
<1>3. CASE \E k \in AnyKey : Appends(k)
  BY <1>3, AppendFollows DEF Appends
<1>4. QED
  BY <1>2, <1>3, ServerSteps

LEMMA DistinctNext == Typed /\ Distinct /\ [Next]_vars => Distinct'
<1> SUFFICES ASSUME Typed, Distinct, [Next]_vars PROVE Distinct'
  OBVIOUS
<1>1. CASE chain' = chain
  BY <1>1 DEF Distinct, Last
<1>2. ASSUME NEW k \in AnyKey, Appends(k) PROVE Distinct'
  <2>1. /\ Last \in Nat /\ Last' = Last + 1 /\ chain'[Last'] = k
        /\ \A i \in 1 .. Last : chain'[i] = chain[i]
        /\ \A i \in 2 .. Last : k = NoKey \/ chain[i] # k
    BY <1>2, Chained, AppendFollows DEF Appends, Used
  <2>2. QED
    BY <2>1 DEF Distinct
<1>3. QED
  BY <1>1, <1>2, ServerSteps

-----------------------------------------------------------------------------
(* What a step does to the browser                                          *)

\* The tab t goes to r; the others are at most disturbed.
Goes(t, r) == tab' = [tab EXCEPT ![t] = r] \/ tab' = [Undisturbed EXCEPT ![t] = r]

LEMMA Gone ==
    ASSUME Typed, NEW t \in Tab, NEW r, Goes(t, r)
    PROVE  /\ tab'[t] = r
           /\ \A u \in Tab : u # t => \/ tab'[u] = tab[u]
                                      \/ tab'[u] = [tab[u] EXCEPT !.alone = FALSE]
BY Parts DEF Typed, ClientOK, Goes, Undisturbed

\* To be undisturbed or not is no part of what an operation holds.
LEMMA AloneIsNoPart ==
    ASSUME NEW r, r \in Operation, NEW q, q = r \/ q = [r EXCEPT !.alone = FALSE]
    PROVE  /\ q.op = r.op /\ q.at = r.at /\ q.round = r.round /\ q.key = r.key
           /\ q.previous = r.previous /\ q.second = r.second /\ q.refresh = r.refresh
           /\ q.access = r.access /\ q.answer = r.answer /\ q.failed = r.failed
BY DEF Operation

LEMMA AloneIsNotSound ==
    ASSUME NEW r, r \in Operation, NEW c, NEW n, NEW p, NEW live, Sound(r, c, n, p, live)
    PROVE  Sound([r EXCEPT !.alone = FALSE], c, n, p, live)
<1>. DEFINE q == [r EXCEPT !.alone = FALSE]
<1>1. /\ q.op = r.op /\ q.at = r.at /\ q.key = r.key
      /\ q.previous = r.previous /\ q.second = r.second /\ q.refresh = r.refresh
      /\ q.answer = r.answer
  BY AloneIsNoPart
<1>. HIDE DEF q
<1>2. Sound(q, c, n, p, live)
  BY <1>1 DEF Sound, Renewing, PreviousIsPast, UsedOrPending, AnswerIsTrue, RepairIsIdle
<1>3. QED
  BY <1>2 DEF q

Moves ==
    /\ jar.refresh <= jar'.refresh
    /\ \/ journal'.pending = journal.pending \/ journal.pending = NoKey
       \/ KeyAt(chain, journal.pending, Len(chain))

\* What the others and the requests on their way hold stays true.
LEMMA OthersStaySound ==
    ASSUME Typed, Typed', OnTheWay, [Next]_vars, Moves
    PROVE  /\ \A u \in Tab : Sound(tab[u], chain', jar'.refresh, journal'.pending, Renewable')
           /\ \A s \in stray : SoundRequest(s, chain', jar'.refresh, journal'.pending)
<1>1. /\ Len(chain) \in Nat /\ Len(chain) > 0 /\ Len(chain') \in Nat
      /\ Follows(chain, chain') /\ (Renewable' => Renewable)
  BY Chained, ServerFollows, Parts DEF Typed, TypeOK, Last
<1>2. jar.refresh \in Nat /\ jar'.refresh \in Nat /\ jar.refresh <= Len(chain)
  BY <1>1 DEF Typed, TypeOK, Last
<1>3. Renewable \in BOOLEAN /\ Renewable' \in BOOLEAN
  BY DEF Renewable, Typed, TypeOK
<1>4. /\ \A u \in Tab : tab[u].refresh \in Nat /\ Shows(tab[u])
      /\ \A s \in stray : s.refresh \in Nat /\ s.key \in Key
  BY <1>1, Parts DEF Typed, ClientOK, KeysKnown, Operation, Request, Last
<1>5. ASSUME NEW u \in Tab
      PROVE  Sound(tab[u], chain', jar'.refresh, journal'.pending, Renewable')
  BY <1>1, <1>2, <1>3, <1>4, SoundStays DEF Moves, OnTheWay
<1>6. ASSUME NEW s \in stray
      PROVE  SoundRequest(s, chain', jar'.refresh, journal'.pending)
  <2>1. UsedOrPending(s.key, chain', journal'.pending)
    BY <1>1, <1>4, UsedOrPendingStays DEF Moves, OnTheWay, SoundRequest
  <2>2. s.refresh <= jar'.refresh
    BY <1>2, <1>4 DEF Moves, OnTheWay, SoundRequest
  <2>3. QED
    BY <2>1, <2>2 DEF SoundRequest
<1>7. QED
  BY <1>5, <1>6

\* A step of one tab: what is left to show is that the tab itself is sound, and a
\* request or a completed key that is new.
LEMMA TabSound ==
    ASSUME Typed, Typed', OnTheWay, JournalIsPast, [Next]_vars, Moves,
           NEW t \in Tab, NEW r, Goes(t, r),
           Sound(r, chain', jar'.refresh, journal'.pending, Renewable'),
           \A s \in stray' \ stray : SoundRequest(s, chain', jar'.refresh, journal'.pending),
           \/ journal'.completed = journal.completed
           \/ journal'.completed # NoKey => KeyAt(chain', journal'.completed, jar'.refresh)
    PROVE  JournalIsPast' /\ OnTheWay'
<1>1. /\ \A u \in Tab : Sound(tab[u], chain', jar'.refresh, journal'.pending, Renewable')
      /\ \A s \in stray : SoundRequest(s, chain', jar'.refresh, journal'.pending)
  BY OthersStaySound
<1>2. ASSUME NEW u \in Tab
      PROVE  Sound(tab'[u], chain', jar'.refresh, journal'.pending, Renewable')
  <2>1. CASE u = t
    BY <2>1, Gone
  <2>2. CASE u # t
    <3>1. tab[u] \in Operation
      BY Parts DEF Typed, ClientOK
    <3>2. tab'[u] = tab[u] \/ tab'[u] = [tab[u] EXCEPT !.alone = FALSE]
      BY <2>2, Gone
    <3>3. QED
      BY <1>1, <3>1, <3>2, AloneIsNotSound
  <2>3. QED
    BY <2>1, <2>2
<1>3. OnTheWay'
  BY <1>1, <1>2 DEF OnTheWay
<1>4. JournalIsPast'
  <2>1. /\ Len(chain) \in Nat /\ Len(chain') \in Nat /\ Follows(chain, chain')
        /\ jar.refresh \in Nat /\ jar'.refresh \in Nat /\ jar.refresh <= Len(chain)
        /\ jar.refresh <= jar'.refresh
    BY Chained, ServerFollows DEF Typed, TypeOK, Last, Moves
  <2>2. QED
    BY <2>1, KeyStays DEF JournalIsPast
<1>5. QED
  BY <1>3, <1>4

\* The operations that hold no key are sound.
LEMMA OthersSound ==
    ASSUME NEW r, ~Renewing(r), NEW c, NEW n, NEW p, NEW live
    PROVE  Sound(r, c, n, p, live)
BY DEF Sound

-----------------------------------------------------------------------------
(* Renewing: each step keeps the way on                                     *)

Way == WayOn /\ JournalIsPast /\ OnTheWay

\* What a step starts from, and how it may end.
Going == Typed /\ Typed' /\ Distinct /\ OthersKnown /\ Way /\ [Next]_vars /\ Advancing'

LEMMA GoingFacts ==
    ASSUME Going
    PROVE  /\ chain \in Seq(AnyKey) /\ Last \in Nat /\ Len(chain) = Last
           /\ Last > 0 /\ chain[1] = NoKey /\ Len(chain') = Last' /\ Last' \in Nat
           /\ jar.refresh \in 0 .. Last /\ jar'.refresh \in 0 .. Last'
           /\ Follows(chain, chain') /\ (Renewable' => Renewable)
           /\ ~revoked /\ ~misled'
BY Chained, ServerFollows DEF Going, Typed, TypeOK, Advancing, Last

\* A tab that is about to be given the current token is so until it takes a step.
LEMMA HandingStays ==
    ASSUME Typed, Last' = Last, NEW t \in Tab, NEW r, Goes(t, r),
           NEW u \in Tab, u # t, Handing(u)
    PROVE  Handing(u)'
<1>1. tab[u] \in Operation
  BY Parts DEF Typed, ClientOK
<1>2. tab'[u] = tab[u] \/ tab'[u] = [tab[u] EXCEPT !.alone = FALSE]
  BY Gone
<1>3. tab'[u].op = tab[u].op /\ tab'[u].at = tab[u].at /\ tab'[u].refresh = tab[u].refresh
  BY <1>1, <1>2, AloneIsNoPart
<1>4. QED
  BY <1>3 DEF Handing

LEMMA WayStays ==
    ASSUME Typed, WayOn, chain' = chain, jar' = jar,
           journal'.pending = journal.pending \/ journal.pending = NoKey,
           NEW t \in Tab, NEW r, Goes(t, r), ~Handing(t)
    PROVE  WayOn'
<1>1. CASE jar.refresh = Last
  BY <1>1 DEF WayOn, Last
<1>2. CASE jar.refresh + 1 = Last /\ chain[Last] \in Key /\ chain[Last] = journal.pending
  BY <1>2, KeyAssumption DEF WayOn, Last
<1>3. ASSUME NEW u \in Tab, Handing(u) PROVE Handing(u)'
  BY <1>3, HandingStays DEF Last
<1>4. QED
  BY <1>1, <1>2, <1>3 DEF WayOn

\* A step of a tab that leaves cookies, journal and chain alone, and sends nothing.
LEMMA QuietHeld ==
    ASSUME Going, NEW t \in Tab, NEW r, Goes(t, r), ~Handing(t),
           UNCHANGED <<chain, jar, journal>>, stray' \subseteq stray,
           Sound(r, chain, jar.refresh, journal.pending, Renewable')
    PROVE  Way'
<1>1. Moves
  BY GoingFacts DEF Moves
<1>2. Sound(r, chain', jar'.refresh, journal'.pending, Renewable')
  OBVIOUS
<1>3. JournalIsPast' /\ OnTheWay'
  BY <1>1, <1>2, TabSound DEF Going, Way
<1>4. WayOn'
  BY WayStays DEF Going, Way
<1>5. QED
  BY <1>3, <1>4 DEF Way

\* One that ends an operation, or leaves one that renews nothing.
LEMMA EndHeld ==
    ASSUME Going, NEW t \in Tab, NEW r, Goes(t, r), ~Renewing(r), ~Handing(t),
           UNCHANGED <<chain, jar, journal>>, stray' \subseteq stray
    PROVE  Way'
BY OthersSound, QuietHeld

LEMMA IdleIsNot == \A b : ~Renewing([Idle EXCEPT !.failed = b]) /\ ~Renewing(Idle)
BY DEF Idle, Renewing

LEMMA OpenHeld ==
    ASSUME Going, NEW t \in Tab, NEW round, NEW alone, Open(t, round, alone),
           tab[t].at \in {"idle", "again"}, UNCHANGED <<server, jar, stray, misled>>
    PROVE  Way'
<1>1. PICK k \in Key :
        /\ journal.pending = NoKey \/ k = journal.pending
        /\ journal' = [journal EXCEPT !.pending = k]
        /\ tab' = [(IF round = 1 THEN Undisturbed ELSE tab) EXCEPT ![t] =
                     [Idle EXCEPT !.at = "ready", !.round = round, !.key = k,
                                  !.previous = journal.completed, !.alone = alone]]
  BY DEF Open
<1>. DEFINE r == [Idle EXCEPT !.at = "ready", !.round = round, !.key = k,
                              !.previous = journal.completed, !.alone = alone]
<1>2. Goes(t, r)
  BY <1>1 DEF Goes
<1>3. chain' = chain /\ jar' = jar /\ stray' = stray
  BY DEF server
<1>4. /\ journal'.pending = k /\ journal'.completed = journal.completed
      /\ journal'.pending = journal.pending \/ journal.pending = NoKey
  BY <1>1 DEF Going, Typed, TypeOK
<1>5. Sound(r, chain', jar'.refresh, journal'.pending, Renewable')
  <2>1. /\ r.at = "ready" /\ r.key = k /\ r.previous = journal.completed
        /\ r.second = FALSE
    BY DEF Idle
  <2>. HIDE DEF r
  <2>2. QED
    BY <1>3, <1>4, <2>1 DEF Sound, PreviousIsPast, UsedOrPending, AnswerIsTrue, RepairIsIdle,
                            Going, Way, JournalIsPast
<1>6. Moves
  BY <1>3, <1>4, GoingFacts DEF Moves
<1>. HIDE DEF r
<1>7. JournalIsPast' /\ OnTheWay'
  BY <1>2, <1>3, <1>4, <1>5, <1>6, TabSound DEF Going, Way
<1>8. WayOn'
  BY <1>2, <1>3, <1>4, WayStays DEF Going, Way, Handing
<1>9. QED
  BY <1>7, <1>8 DEF Way

LEMMA AcquireHeld == ASSUME Going, NEW t \in Tab, Acquire(t) PROVE Way'
<1>1. tab[t].at \in {"idle", "again"}
  BY DEF Acquire, Busy
<1>2. PICK round, alone : Open(t, round, alone)
  BY DEF Acquire
<1>3. QED
  BY <1>1, <1>2, OpenHeld DEF Acquire

LEMMA SendHeld == ASSUME Going, NEW t \in Tab, Send(t) PROVE Way'
<1>. DEFINE r == [tab[t] EXCEPT !.at = "asked", !.refresh = jar.refresh]
<1>1. tab[t] \in Operation
  BY Parts DEF Going, Typed, ClientOK
<1>2. Goes(t, r) /\ ~Handing(t) /\ UNCHANGED <<chain, jar, journal, stray>>
  BY DEF Send, Goes, Put, Handing, server
<1>3. /\ r.op = tab[t].op /\ r.at = "asked" /\ r.refresh = jar.refresh
      /\ r.key = tab[t].key /\ r.previous = tab[t].previous /\ r.second = tab[t].second
  BY <1>1 DEF Operation
<1>4. Sound(tab[t], chain, jar.refresh, journal.pending, Renewable)
  BY DEF Going, Way, OnTheWay
<1>5. jar.refresh \in Nat /\ (Renewable' => Renewable)
  BY GoingFacts
<1>. HIDE DEF r
<1>6. Sound(r, chain, jar.refresh, journal.pending, Renewable')
  BY <1>3, <1>4, <1>5 DEF Sound, Renewing, PreviousIsPast, UsedOrPending, AnswerIsTrue,
                          RepairIsIdle, Send
<1>7. QED
  BY <1>2, <1>6, QuietHeld

LEMMA GiveUpHeld == ASSUME Going, NEW t \in Tab, GiveUp(t) PROVE Way'
<1>1. Goes(t, Idle) /\ ~Handing(t) /\ UNCHANGED <<chain, jar, journal>>
  BY DEF GiveUp, Goes, Put, Handing, server
<1>2. Moves
  BY <1>1, GoingFacts DEF Moves
<1>3. ASSUME NEW s \in stray' \ stray
      PROVE  SoundRequest(s, chain', jar'.refresh, journal'.pending)
  <2>1. tab[t].at = "asked" /\ s.refresh = tab[t].refresh /\ s.key = Shown(t)
    BY <1>3 DEF GiveUp
  <2>2. Sound(tab[t], chain, jar.refresh, journal.pending, Renewable) /\ Renewing(tab[t])
        /\ Shows(tab[t])
    BY <2>1 DEF Going, Way, OnTheWay, GiveUp, Renewing, Typed, KeysKnown
  <2>3. KeyAt(chain, tab[t].previous, jar.refresh) => KeyAt(chain, tab[t].previous, Len(chain))
    BY GoingFacts DEF KeyAt
  <2>4. SoundRequest(s, chain, jar.refresh, journal.pending)
    BY <2>1, <2>2, <2>3, KeyAssumption
       DEF Sound, SoundRequest, PreviousIsPast, UsedOrPending, Shown, Shows, Renewing
  <2>5. QED
    BY <1>1, <2>4
<1>4. Sound(Idle, chain', jar'.refresh, journal'.pending, Renewable')
  BY IdleIsNot, OthersSound
<1>5. JournalIsPast' /\ OnTheWay'
  BY <1>1, <1>2, <1>3, <1>4, TabSound DEF Going, Way
<1>6. WayOn'
  BY <1>1, WayStays DEF Going, Way
<1>7. QED
  BY <1>5, <1>6 DEF Way

\* A request that is served renews the sign-in only with the pending key, and from the
\* cookie of the browser.
LEMMA RenewedWayOn ==
    ASSUME Going, NEW g \in Nat, NEW k \in Key, Rotates(g, k), Appends(k),
           g <= jar.refresh, UsedOrPending(k, chain, journal.pending),
           UNCHANGED <<jar, journal>>
    PROVE  WayOn'
<1>1. /\ Last \in Nat /\ Len(chain) = Last /\ jar.refresh \in 0 .. Last
      /\ Last' = Last + 1 /\ chain'[Last'] = k
  BY GoingFacts, AppendFollows DEF Going
<1>2. jar.refresh = Last
  BY <1>1 DEF Rotates
<1>3. journal.pending = k
  BY <1>1 DEF Rotates, UsedOrPending, Used, KeyAt
<1>4. QED
  BY <1>1, <1>2, <1>3 DEF WayOn

LEMMA StrayHeld == ASSUME Going, NEW s \in stray, ServeStray(s) PROVE Way'
<1>1. s.key \in Key /\ s.refresh \in Nat
  BY GoingFacts, Parts DEF Going, Typed, ClientOK, Request
<1>2. SoundRequest(s, chain, jar.refresh, journal.pending)
  BY DEF Going, Way, OnTheWay
<1>3. UNCHANGED <<jar, journal, tab>> /\ stray' \subseteq stray
  BY DEF ServeStray
<1>4. Moves
  BY <1>3, GoingFacts DEF Moves
<1>5. OnTheWay'
  BY <1>3, <1>4, OthersStaySound DEF Going, Way, OnTheWay
<1>6. JournalIsPast'
  <2>1. /\ Len(chain) \in Nat /\ Len(chain') \in Nat /\ Follows(chain, chain')
        /\ jar.refresh \in Nat /\ jar.refresh <= Len(chain)
    BY GoingFacts
  <2>2. JournalIsPast
    BY DEF Going, Way
  <2>3. QED
    BY <1>3, <2>1, <2>2, KeyStays DEF JournalIsPast
<1>7. WayOn'
  <2>1. CASE Appends(s.key) /\ Rotates(s.refresh, s.key)
    BY <1>1, <1>2, <1>3, <2>1, RenewedWayOn DEF SoundRequest
  <2>2. CASE UNCHANGED server
    BY <1>3, <2>2 DEF Going, Way, WayOn, Handing, server, Last
  <2>3. ~RevokeFamily
    BY DEF RevokeFamily, Going, Advancing
  <2>4. QED
    BY <1>1, <2>1, <2>2, <2>3, ServedAppends DEF ServeStray, Going
<1>8. QED
  BY <1>5, <1>6, <1>7 DEF Way

\* What the answer to an operation says.
LEMMA RefreshTrue ==
    ASSUME Going, NEW t \in Tab, Refresh(t)
    PROVE  Sound(tab'[t], chain', jar.refresh, journal.pending, Renewable')
<1>. DEFINE g == tab[t].refresh
            k == Shown(t)
            old == tab[t]
            new == tab'[t]
<1>1. /\ Last \in Nat /\ Last > 0 /\ Len(chain) = Last /\ chain[1] = NoKey
      /\ jar.refresh \in 0 .. Last /\ Len(chain') = Last' /\ ~revoked
      /\ Follows(chain, chain') /\ (Renewable' => Renewable)
  BY GoingFacts
<1>2. old \in Operation /\ g \in Nat /\ old.refresh \in Nat /\ Shows(old) /\ k \in Key /\ Renewing(old)
  BY <1>1, Parts, ShownIsKey DEF Going, Typed, ClientOK, KeysKnown, Operation, Refresh, Renewing
<1>3. Sound(old, chain, jar.refresh, journal.pending, Renewable) /\ old.at = "asked"
  BY DEF Going, Way, OnTheWay, Refresh
<1>4. /\ old.previous # NoKey => KeyAt(chain, old.previous, jar.refresh)
      /\ old.previous # NoKey /\ ~old.second => KeyAt(chain, old.previous, g)
      /\ g <= jar.refresh
      /\ UsedOrPending(old.key, chain, journal.pending)
      /\ old.second => ~Renewable \/ chain[Last] # old.previous
  BY <1>1, <1>2, <1>3 DEF Sound, PreviousIsPast, RepairIsIdle
<1>5. /\ new.op = old.op /\ new.at = "answered" /\ new.key = old.key
      /\ new.previous = old.previous /\ new.second = old.second
      /\ new.answer = Verdict(g, k)
      /\ new.answer = "ok" => new.refresh = Len(chain')
  BY <1>2 DEF Refresh, Put, Going, Typed, TypeOK, Operation
<1>6. old.second => k = old.previous /\ Used(k) /\ old.previous # NoKey
  BY <1>1, <1>2, <1>4, KeyAssumption DEF Shown, KeyAt, Used
<1>7. ~old.second => k = old.key
  BY DEF Shown
<1>8. \/ Appends(k) /\ Rotates(g, k)
      \/ UNCHANGED server /\ ~Rotates(g, k)
  BY <1>2, ServedAppends DEF Refresh, RevokeFamily, Going, Advancing
<1>. HIDE DEF g, k, old, new
<1>9. ASSUME Verdict(g, k) = "ok"
      PROVE  ~old.second /\ chain'[Len(chain')] = old.key /\ Len(chain') \in 2 .. Len(chain')
  <2>1. CASE Appends(k) /\ Rotates(g, k)
    <3>1. Last' = Last + 1 /\ chain'[Last'] = k
      BY <2>1, AppendFollows DEF Going
    <3>2. ~old.second
      BY <1>6, <2>1 DEF Rotates
    <3>3. QED
      BY <1>1, <1>7, <3>1, <3>2
  <2>2. CASE UNCHANGED server /\ ~Rotates(g, k)
    <3>1. chain[Last] = k /\ Renewable
      BY <1>9, <2>2 DEF Verdict, Rotates, Replayed
    <3>2. k # NoKey
      BY <1>2, KeyAssumption
    <3>3. Last # 1
      BY <1>1, <3>1, <3>2
    <3>4. ~old.second
      BY <1>4, <1>6, <3>1
    <3>5. chain' = chain /\ Last' = Last
      BY <2>2 DEF server, Last
    <3>6. QED
      BY <1>1, <1>7, <3>1, <3>3, <3>4, <3>5
  <2>3. QED
    BY <1>8, <2>1, <2>2
<1>10. ASSUME Verdict(g, k) = "completed", ~old.second
       PROVE  KeyAt(chain', old.key, jar.refresh)
  <2>1. g = Last /\ Used(k) /\ Renewable
    BY <1>10 DEF Verdict
  <2>2. KeyAt(chain, old.key, jar.refresh)
    BY <1>1, <1>4, <1>7, <1>10, <2>1 DEF Used, KeyAt
  <2>3. QED
    BY <1>1, <2>2, KeyStays
<1>11. ASSUME Verdict(g, k) = "refused", old.previous # NoKey
       PROVE  ~Renewable' \/ chain'[Len(chain')] # old.previous
  <2>1. SUFFICES ASSUME Renewable' PROVE chain'[Len(chain')] # old.previous
    OBVIOUS
  <2>2. Renewable /\ g # Last
    BY <1>1, <1>11, <2>1 DEF Verdict
  <2>3. chain' = chain
    BY <1>8, <2>2 DEF Rotates, server
  <2>4. CASE old.second
    BY <1>1, <1>4, <2>2, <2>3, <2>4
  <2>5. CASE ~old.second
    <3>1. PICK i \in 2 .. g : chain[i] = old.previous
      BY <1>4, <1>11, <2>5 DEF KeyAt
    <3>2. i \in 2 .. Last /\ Last \in 2 .. Last /\ i # Last
      BY <1>1, <1>2, <1>4, <2>2, <3>1
    <3>3. QED
      BY <1>1, <1>11, <2>3, <3>1, <3>2 DEF Distinct, Going
  <2>6. QED
    BY <2>4, <2>5
<1>12. Sound(old, chain', jar.refresh, journal.pending, Renewable')
  <2>1. Renewable \in BOOLEAN /\ Renewable' \in BOOLEAN
    BY DEF Renewable, Going, Typed, TypeOK
  <2>2. jar.refresh \in Nat /\ jar.refresh <= Len(chain) /\ Len(chain') \in Nat
    BY GoingFacts
  <2>3. QED
    BY <1>1, <1>2, <1>3, <2>1, <2>2, SoundStays
<1>13. /\ PreviousIsPast(old, chain', jar.refresh)
       /\ UsedOrPending(old.key, chain', journal.pending)
  BY <1>2, <1>12 DEF Sound
<1>14. PreviousIsPast(new, chain', jar.refresh)
  BY <1>5, <1>13 DEF PreviousIsPast
<1>15. AnswerIsTrue(new, chain', jar.refresh)
  BY <1>5, <1>9, <1>10 DEF AnswerIsTrue
<1>16. RepairIsIdle(new, chain', Renewable')
  BY <1>5, <1>9, <1>11 DEF RepairIsIdle
<1>17. Sound(new, chain', jar.refresh, journal.pending, Renewable')
  BY <1>5, <1>13, <1>14, <1>15, <1>16 DEF Sound
<1>18. QED
  BY <1>17 DEF new

LEMMA RefreshHeld == ASSUME Going, NEW t \in Tab, Refresh(t) PROVE Way'
<1>1. PICK r : Put(t, r)
  BY DEF Refresh
<1>2. Goes(t, r) /\ UNCHANGED <<jar, journal, stray>>
  BY <1>1 DEF Refresh, Goes, Put
<1>3. r = tab'[t]
  BY <1>2, Gone DEF Going
<1>4. Sound(r, chain', jar'.refresh, journal'.pending, Renewable')
  BY <1>2, <1>3, RefreshTrue
<1>5. Moves
  BY <1>2, GoingFacts DEF Moves
<1>6. JournalIsPast' /\ OnTheWay'
  BY <1>2, <1>4, <1>5, TabSound DEF Going, Way
<1>7. WayOn'
  <2>. DEFINE g == tab[t].refresh
              k == Shown(t)
  <2>1. k \in Key /\ g \in Nat
    BY GoingFacts, ShownIsKey, Parts DEF Going, Typed, ClientOK, Operation, Refresh
  <2>2. CASE Appends(k) /\ Rotates(g, k)
    <3>1. Sound(tab[t], chain, jar.refresh, journal.pending, Renewable) /\ Renewing(tab[t])
          /\ Shows(tab[t])
      BY DEF Going, Way, OnTheWay, Refresh, Renewing, Typed, KeysKnown
    <3>2. KeyAt(chain, tab[t].previous, jar.refresh) => KeyAt(chain, tab[t].previous, Len(chain))
      BY GoingFacts DEF KeyAt
    <3>3. g <= jar.refresh /\ UsedOrPending(k, chain, journal.pending)
      BY <3>1, <3>2, KeyAssumption
         DEF Sound, PreviousIsPast, UsedOrPending, Shown, Shows, Renewing, Refresh
    <3>4. QED
      BY <1>2, <2>1, <2>2, <3>3, RenewedWayOn
  <2>3. CASE UNCHANGED server
    BY <1>2, <2>3, WayStays DEF Going, Way, server, Handing, Refresh
  <2>4. ~RevokeFamily
    BY DEF RevokeFamily, Going, Advancing
  <2>5. QED
    BY <2>1, <2>2, <2>3, <2>4, ServedAppends DEF Refresh, Going
<1>8. QED
  BY <1>6, <1>7 DEF Way

\* A cookie that only advances takes the place of the one that leads to it.
LEMMA CookieWayOn ==
    ASSUME Going, NEW t \in Tab, NEW r, Goes(t, r),
           SetCookies(t), chain' = chain, journal' = journal
    PROVE  WayOn' /\ jar'.refresh = tab[t].refresh /\ Moves
<1>1. /\ Last \in Nat /\ Len(chain) = Last /\ jar.refresh \in 0 .. Last /\ Last' = Last
  BY GoingFacts DEF Last
<1>2. tab[t].refresh \in 0 .. Last
  BY Parts DEF Going, Typed, ClientOK, Operation
<1>3. jar'.refresh = tab[t].refresh /\ jar.refresh <= jar'.refresh
  <2>1. ~(tab[t].refresh < jar.refresh)
    BY GoingFacts DEF SetCookies
  <2>2. jar'.refresh = tab[t].refresh
    BY DEF SetCookies
  <2>3. QED
    BY <1>1, <1>2, <2>1, <2>2
<1>4. WayOn'
  <2>1. CASE jar'.refresh = Last
    BY <1>1, <2>1 DEF WayOn
  <2>2. CASE jar'.refresh # Last /\ jar.refresh + 1 = Last /\ chain[Last] \in Key
             /\ chain[Last] = journal.pending
    <3>1. jar'.refresh + 1 = Last
      BY <1>1, <1>2, <1>3, <2>2
    <3>2. QED
      BY <1>1, <2>2, <3>1 DEF WayOn
  <2>3. ASSUME jar'.refresh # Last, NEW u \in Tab, Handing(u) PROVE WayOn'
    <3>1. u # t
      BY <1>3, <2>3 DEF Handing
    <3>2. Handing(u)'
      BY <1>1, <2>3, <3>1, HandingStays DEF Going
    <3>3. QED
      BY <3>2 DEF WayOn
  <2>4. CASE jar.refresh = Last
    BY <1>1, <1>2, <1>3, <2>1, <2>4
  <2>5. WayOn
    BY DEF Going, Way
  <2>6. QED
    BY <2>1, <2>2, <2>3, <2>4, <2>5 DEF WayOn
<1>5. QED
  BY <1>3, <1>4 DEF Moves

LEMMA AcceptedHeld == ASSUME Going, NEW t \in Tab, Accepted(t) PROVE Way'
<1>. DEFINE r == [tab[t] EXCEPT !.at = "applied"]
<1>1. chain' = chain /\ journal' = journal /\ stray' = stray /\ Goes(t, r)
  BY DEF Accepted, server, Goes, Put
<1>2. WayOn' /\ jar'.refresh = tab[t].refresh /\ Moves
  BY <1>1, CookieWayOn DEF Accepted
<1>3. tab[t] \in Operation /\ Shows(tab[t]) /\ Renewing(tab[t])
  BY Parts DEF Going, Typed, ClientOK, KeysKnown, Accepted, Renewing
<1>4. /\ r.op = tab[t].op /\ r.at = "applied" /\ r.key = tab[t].key /\ r.answer = tab[t].answer
      /\ r.previous = tab[t].previous /\ r.second = tab[t].second /\ r.refresh = tab[t].refresh
  BY <1>3 DEF Operation
<1>5. Sound(tab[t], chain', jar'.refresh, journal'.pending, Renewable')
  BY <1>2, OthersStaySound DEF Going, Way
<1>6. KeyAt(chain', tab[t].key, jar'.refresh) /\ ~tab[t].second
  BY <1>2, <1>3, <1>5 DEF Sound, AnswerIsTrue, RepairIsIdle, KeyAt, Accepted
<1>. HIDE DEF r
<1>7. Sound(r, chain', jar'.refresh, journal'.pending, Renewable')
  BY <1>4, <1>5, <1>6 DEF Sound, Renewing, PreviousIsPast, AnswerIsTrue, RepairIsIdle, Accepted
<1>8. JournalIsPast' /\ OnTheWay'
  BY <1>1, <1>2, <1>7, TabSound DEF Going, Way
<1>9. QED
  BY <1>2, <1>8 DEF Way

LEMMA SupersededHeld == ASSUME Going, NEW t \in Tab, Superseded(t) PROVE Way'
<1>. DEFINE r == [tab[t] EXCEPT !.at = "applied"]
<1>1. Goes(t, r) /\ UNCHANGED <<chain, jar, journal, stray>>
  BY DEF Superseded, Goes, Put, server
<1>2. tab[t] \in Operation /\ tab[t].op = "refresh" /\ Renewing(tab[t])
  BY Parts DEF Going, Typed, ClientOK, Superseded, OthersKnown, Renewing
<1>3. /\ r.op = tab[t].op /\ r.at = "applied" /\ r.key = tab[t].key /\ r.answer = tab[t].answer
      /\ r.previous = tab[t].previous /\ r.second = tab[t].second
  BY <1>2 DEF Operation
<1>4. Sound(tab[t], chain, jar.refresh, journal.pending, Renewable)
  BY DEF Going, Way, OnTheWay
<1>. HIDE DEF r
<1>5. Sound(r, chain, jar.refresh, journal.pending, Renewable')
  BY <1>2, <1>3, <1>4 DEF Sound, Renewing, PreviousIsPast, AnswerIsTrue, RepairIsIdle, Superseded
<1>6. QED
  BY <1>1, <1>2, <1>5, QuietHeld DEF Handing

LEMMA RefusedHeld == ASSUME Going, NEW t \in Tab, Refused(t) PROVE Way'
<1>1. UNCHANGED <<chain, jar, journal, stray>> /\ ~Handing(t) /\ Renewing(tab[t])
  BY DEF Refused, server, Handing, Renewing
<1>2. CASE Fail(t)
  BY <1>1, <1>2, IdleIsNot, EndHeld DEF Fail, Goes, Put
<1>. DEFINE r == [tab[t] EXCEPT !.at = "ready", !.second = TRUE, !.answer = "none"]
<1>3. CASE /\ ~tab[t].second /\ tab[t].answer = "refused" /\ tab[t].previous # NoKey
           /\ Put(t, r)
  <2>1. tab[t] \in Operation /\ tab[t].at = "answered"
    BY Parts DEF Going, Typed, ClientOK, Refused
  <2>2. /\ r.op = tab[t].op /\ r.at = "ready" /\ r.key = tab[t].key
        /\ r.previous = tab[t].previous
    BY <2>1 DEF Operation
  <2>3. Sound(tab[t], chain, jar.refresh, journal.pending, Renewable)
    BY DEF Going, Way, OnTheWay
  <2>4. Renewable' => Renewable
    BY GoingFacts
  <2>5. Goes(t, r)
    BY <1>3 DEF Goes, Put
  <2>. HIDE DEF r
  <2>6. Sound(r, chain, jar.refresh, journal.pending, Renewable')
    BY <1>1, <1>3, <2>1, <2>2, <2>3, <2>4
       DEF Sound, Renewing, PreviousIsPast, AnswerIsTrue, RepairIsIdle
  <2>7. QED
    BY <1>1, <2>5, <2>6, QuietHeld
<1>4. QED
  BY <1>2, <1>3 DEF Refused

\* The pending key that is taken off the journal has been used, at the cookie or before.
LEMMA CompleteHeld == ASSUME Going, NEW t \in Tab, Complete(t) PROVE Way'
<1>1. /\ chain' = chain /\ jar' = jar /\ stray' = stray /\ ~Handing(t)
      /\ journal' = Completed(t)
  BY DEF Complete, server, Handing
<1>2. PICK r : Put(t, r) /\ ~Renewing(r)
  <2>1. \/ Put(t, Idle) \/ Fail(t)
        \/ \E n : Put(t, [Idle EXCEPT !.at = "again", !.round = n, !.alone = tab[t].alone])
    BY DEF Complete
  <2>2. \A n, a : ~Renewing([Idle EXCEPT !.at = "again", !.round = n, !.alone = a])
    BY DEF Idle, Renewing
  <2>3. QED
    BY <2>1, <2>2, IdleIsNot DEF Fail
<1>3. Goes(t, r)
  BY <1>2 DEF Goes, Put
<1>4. /\ Last \in Nat /\ Len(chain) = Last /\ jar.refresh \in 0 .. Last
  BY GoingFacts
<1>5. /\ Sound(tab[t], chain, jar.refresh, journal.pending, Renewable)
      /\ Renewing(tab[t]) /\ tab[t].at = "applied"
  BY DEF Going, Way, OnTheWay, Complete, Renewing
<1>6. KeyAt(chain, tab[t].key, jar.refresh) /\ Shown(t) = tab[t].key
  BY <1>5 DEF Sound, AnswerIsTrue, RepairIsIdle, Shown
<1>7. KeyAt(chain, tab[t].key, Len(chain))
  BY <1>4, <1>6 DEF KeyAt
<1>8. \/ journal' = journal
      \/ /\ journal.pending = tab[t].key
         /\ journal'.pending = NoKey /\ journal'.completed = tab[t].key
  BY <1>1, <1>6 DEF Completed
<1>9. Moves
  BY <1>1, <1>4, <1>7, <1>8 DEF Moves
<1>10. Sound(r, chain', jar'.refresh, journal'.pending, Renewable')
  BY <1>2, OthersSound
<1>11. JournalIsPast' /\ OnTheWay'
  BY <1>1, <1>3, <1>6, <1>8, <1>9, <1>10, TabSound DEF Going, Way
<1>12. WayOn'
  <2>1. CASE journal' = journal
    BY <1>1, <1>3, <2>1, WayStays DEF Going, Way
  <2>2. CASE journal.pending = tab[t].key
    <3>1. ~(jar.refresh + 1 = Last /\ chain[Last] \in Key /\ chain[Last] = journal.pending)
      <4>1. SUFFICES ASSUME jar.refresh + 1 = Last, chain[Last] \in Key,
                            chain[Last] = tab[t].key
                     PROVE  FALSE
        BY <2>2
      <4>2. PICK i \in 2 .. jar.refresh : chain[i] = tab[t].key
        BY <1>6 DEF KeyAt
      <4>3. i \in 2 .. Last /\ Last \in 2 .. Last /\ i # Last
        BY <1>4, <4>1, <4>2
      <4>4. QED
        BY <4>1, <4>2, <4>3, KeyAssumption DEF Going, Distinct
    <3>2. CASE jar.refresh = Last
      BY <1>1, <3>2 DEF WayOn, Last
    <3>3. ASSUME NEW u \in Tab, Handing(u) PROVE Handing(u)'
      BY <1>1, <1>3, <3>3, HandingStays DEF Last, Going
    <3>4. QED
      BY <3>1, <3>2, <3>3 DEF Going, Way, WayOn
  <2>3. QED
    BY <1>8, <2>1, <2>2
<1>13. QED
  BY <1>11, <1>12 DEF Way

-----------------------------------------------------------------------------
(* The other operations, and the clock                                      *)

LEMMA AskHeld == ASSUME Going, NEW t \in Tab, NEW op \in Ops, Ask(t, op) PROVE Way'
<1>. DEFINE r == [Idle EXCEPT !.op = op, !.at = "asked",
                              !.refresh = jar.refresh, !.access = jar.access]
<1>1. Goes(t, r) /\ ~Handing(t) /\ UNCHANGED <<chain, jar, journal, stray>>
  BY DEF Ask, Goes, Handing, Busy, server
<1>2. ~Renewing(r)
  BY BoundAssumption DEF Renewing, Idle
<1>. HIDE DEF r
<1>3. QED
  BY <1>1, <1>2, EndHeld

LEMMA AuthenticateHeld == ASSUME Going, NEW t \in Tab, Authenticate(t) PROVE Way'
<1>1. UNCHANGED <<chain, jar, journal, stray>> /\ ~Handing(t)
  BY DEF Authenticate, Handing, server
<1>2. CASE Put(t, Idle)
  BY <1>1, <1>2, IdleIsNot, EndHeld DEF Goes, Put
<1>. DEFINE r == [tab[t] EXCEPT !.at = "known"]
<1>3. CASE Put(t, r)
  <2>1. r.op = tab[t].op /\ tab[t].op # "refresh"
    BY Parts DEF Going, Typed, ClientOK, Operation, Authenticate
  <2>2. ~Renewing(r)
    BY <2>1 DEF Renewing
  <2>3. Goes(t, r)
    BY <1>3 DEF Goes, Put
  <2>. HIDE DEF r
  <2>4. QED
    BY <1>1, <2>2, <2>3, EndHeld
<1>4. QED
  BY <1>2, <1>3 DEF Authenticate

LEMMA RevokeOthersHeld == ASSUME Going, NEW t \in Tab, RevokeOthers(t) PROVE Way'
<1>1. ~RevokeFamily
  BY DEF RevokeFamily, Going, Advancing
<1>2. UNCHANGED <<chain, jar, journal, stray>> /\ ~Handing(t) /\ Goes(t, Idle)
  BY <1>1 DEF RevokeOthers, Handing, server, Goes, Put
<1>3. QED
  BY <1>2, IdleIsNot, EndHeld

\* Whoever changed the password is about to be given the token that nobody can derive.
LEMMA ChangePasswordHeld == ASSUME Going, NEW t \in Tab, ChangePassword(t) PROVE Way'
<1>1. ~RevokeFamily
  BY DEF RevokeFamily, Going, Advancing
<1>2. UNCHANGED <<jar, journal, stray>> /\ ~Handing(t)
  BY DEF ChangePassword, Handing
<1>3. CASE Put(t, Idle) /\ UNCHANGED server
  BY <1>2, <1>3, IdleIsNot, EndHeld DEF Goes, Put, server
<1>. DEFINE r == [tab[t] EXCEPT !.at = "answered", !.answer = "ok", !.refresh = Last + 1]
<1>4. CASE /\ chain' = Append(chain, NoKey) /\ Put(t, r)
           /\ UNCHANGED <<revoked, term, session>>
  <2>1. Last' = Last + 1
    BY <1>4, AppendFollows DEF Appends, AnyKey, Going
  <2>2. tab[t] \in Operation /\ tab[t].op = "password"
    BY Parts DEF Going, Typed, ClientOK, ChangePassword
  <2>3. r.op = "password" /\ r.at = "answered" /\ r.refresh = Last + 1 /\ Goes(t, r)
    BY <1>4, <2>2 DEF Operation, Goes, Put
  <2>. HIDE DEF r
  <2>4. tab'[t] = r
    BY <2>3, Gone DEF Going
  <2>5. WayOn'
    BY <2>1, <2>3, <2>4 DEF WayOn, Handing
  <2>6. Moves /\ Sound(r, chain', jar'.refresh, journal'.pending, Renewable')
    BY <1>2, <2>3, GoingFacts, OthersSound DEF Moves, Renewing
  <2>7. JournalIsPast' /\ OnTheWay'
    BY <1>2, <2>3, <2>6, TabSound DEF Going, Way
  <2>8. QED
    BY <2>5, <2>7 DEF Way
<1>5. QED
  BY <1>1, <1>3, <1>4 DEF ChangePassword

LEMMA PasswordChangedHeld == ASSUME Going, NEW t \in Tab, PasswordChanged(t) PROVE Way'
<1>1. chain' = chain /\ journal' = journal /\ stray' = stray /\ Goes(t, Idle)
  BY DEF PasswordChanged, server, Goes, Put
<1>2. WayOn' /\ Moves
  <2>1. SetCookies(t)
    BY DEF PasswordChanged
  <2>2. QED
    BY <1>1, <2>1, CookieWayOn
<1>3. Sound(Idle, chain', jar'.refresh, journal'.pending, Renewable')
  BY IdleIsNot, OthersSound
<1>4. JournalIsPast' /\ OnTheWay'
  BY <1>1, <1>2, <1>3, TabSound DEF Going, Way
<1>5. QED
  BY <1>2, <1>4 DEF Way

LEMMA LostHeld == ASSUME Going, NEW t \in Tab, Lost(t) PROVE Way'
<1>1. UNCHANGED <<chain, jar, journal, stray>> /\ Goes(t, Idle)
  BY DEF Lost, server, Goes, Put
<1>2. ~Handing(t)
  BY DEF Lost, Handing, Going, Advancing
<1>3. QED
  BY <1>1, <1>2, IdleIsNot, EndHeld

LEMMA LogoutHeld == ASSUME Going, NEW t \in Tab, Logout(t) PROVE Way'
<1>. DEFINE r == [tab[t] EXCEPT !.at = "answered"]
<1>1. ~RevokeFamily
  BY DEF RevokeFamily, Going, Advancing
<1>2. UNCHANGED <<chain, jar, journal, stray>> /\ ~Handing(t) /\ Goes(t, r)
  BY <1>1 DEF Logout, Handing, server, Goes, Put
<1>3. r.op = tab[t].op /\ tab[t].op # "refresh"
  BY Parts DEF Going, Typed, ClientOK, Operation, Logout
<1>4. ~Renewing(r)
  BY <1>3 DEF Renewing
<1>. HIDE DEF r
<1>5. QED
  BY <1>2, <1>4, EndHeld

\* Cookies and journal are cleared only once the family is revoked.
LEMMA LoggedOutHeld == ASSUME Going, NEW t \in Tab, LoggedOut(t) PROVE Way'
BY GoingFacts DEF Going, OthersKnown, LoggedOut

LEMMA ClockHeld == ASSUME Going, Clock \/ Revoke PROVE Way'
<1>1. ~Revoke
  BY DEF Revoke, RevokeFamily, Going, Advancing
<1>2. UNCHANGED <<chain, jar, journal, stray>> /\ (tab' = tab \/ tab' = Undisturbed)
  BY <1>1 DEF Clock, AccessExpires, Purge, TermEnds
<1>3. Moves
  BY <1>2, GoingFacts DEF Moves
<1>4. /\ \A u \in Tab : Sound(tab[u], chain', jar'.refresh, journal'.pending, Renewable')
      /\ \A s \in stray : SoundRequest(s, chain', jar'.refresh, journal'.pending)
  BY <1>3, OthersStaySound DEF Going, Way
<1>5. ASSUME NEW u \in Tab
      PROVE  /\ Sound(tab'[u], chain', jar'.refresh, journal'.pending, Renewable')
             /\ Handing(u) => Handing(u)'
  <2>1. tab[u] \in Operation
    BY Parts DEF Going, Typed, ClientOK
  <2>2. tab'[u] = tab[u] \/ tab'[u] = [tab[u] EXCEPT !.alone = FALSE]
    BY <1>2 DEF Undisturbed
  <2>3. tab'[u].op = tab[u].op /\ tab'[u].at = tab[u].at /\ tab'[u].refresh = tab[u].refresh
    BY <2>1, <2>2, AloneIsNoPart
  <2>4. Sound(tab'[u], chain', jar'.refresh, journal'.pending, Renewable')
    BY <1>4, <2>1, <2>2, AloneIsNotSound
  <2>5. QED
    BY <1>2, <2>3, <2>4 DEF Handing, Last
<1>6. OnTheWay'
  BY <1>2, <1>4, <1>5 DEF OnTheWay
<1>7. JournalIsPast'
  BY <1>2 DEF JournalIsPast, Going, Way
<1>8. WayOn'
  BY <1>2, <1>5 DEF WayOn, Going, Way, Last
<1>9. QED
  BY <1>6, <1>7, <1>8 DEF Way

-----------------------------------------------------------------------------
(* Recoverable                                                              *)

\* The conditions on operations other than renewals do not depend on what others do.
LEMMA OthersKnownNext == Typed /\ OthersKnown /\ [Next]_vars => OthersKnown'
<1> SUFFICES ASSUME Typed, OthersKnown, [Next]_vars PROVE OthersKnown'
  OBVIOUS
<1>. DEFINE Known(r, rev) ==
       r.op # "refresh" =>
         /\ r.answer # "completed" /\ r.at # "ready"
         /\ r.op = "logout" /\ r.at = "asked" => r.refresh # 0
         /\ r.op = "logout" /\ r.at \in {"answered", "applied"} => rev
<1>1. \A u \in Tab : Known(tab[u], revoked) /\ tab[u] \in Operation
  BY Parts DEF OthersKnown, Typed, ClientOK
<1>2. revoked => revoked'
  BY ServerFollows
<1>3. ASSUME NEW t \in Tab, NEW r, Goes(t, r), Known(r, revoked')
      PROVE  OthersKnown'
  <2>1. ASSUME NEW u \in Tab PROVE Known(tab'[u], revoked')
    <3>1. CASE u = t
      BY <1>3, <3>1, Gone
    <3>2. CASE u # t
      <4>1. tab'[u] = tab[u] \/ tab'[u] = [tab[u] EXCEPT !.alone = FALSE]
        BY <1>3, <3>2, Gone
      <4>2. /\ tab'[u].op = tab[u].op /\ tab'[u].at = tab[u].at
            /\ tab'[u].refresh = tab[u].refresh /\ tab'[u].answer = tab[u].answer
        BY <1>1, <4>1, AloneIsNoPart
      <4>3. QED
        BY <1>1, <1>2, <4>2
    <3>3. QED
      BY <3>1, <3>2
  <2>2. QED
    BY <2>1 DEF OthersKnown
<1>4. CASE tab' = tab \/ tab' = Undisturbed
  <2>1. ASSUME NEW u \in Tab PROVE Known(tab'[u], revoked')
    <3>1. tab'[u] = tab[u] \/ tab'[u] = [tab[u] EXCEPT !.alone = FALSE]
      BY <1>4 DEF Undisturbed
    <3>2. /\ tab'[u].op = tab[u].op /\ tab'[u].at = tab[u].at
          /\ tab'[u].refresh = tab[u].refresh /\ tab'[u].answer = tab[u].answer
      BY <1>1, <3>1, AloneIsNoPart
    <3>3. QED
      BY <1>1, <1>2, <3>2
  <2>2. QED
    BY <2>1 DEF OthersKnown
<1>5. ASSUME NEW t \in Tab, NEW r, r.op = "refresh", Goes(t, r) PROVE OthersKnown'
  BY <1>3, <1>5
<1>6. ASSUME NEW t \in Tab, Put(t, Idle) \/ Fail(t) PROVE OthersKnown'
  <2>1. \A b : [Idle EXCEPT !.failed = b].op = "refresh" /\ Idle.op = "refresh"
    BY DEF Idle
  <2>2. QED
    BY <1>5, <1>6, <2>1 DEF Fail, Put, Goes
<1>. HIDE DEF Known
<1>7. ASSUME NEW t \in Tab, Renewal(t) PROVE OthersKnown'
  <2>1. CASE Acquire(t)
    <3>1. PICK round, alone : Open(t, round, alone)
      BY <2>1 DEF Acquire
    <3>2. PICK r : r.op = "refresh" /\ Goes(t, r)
      BY <3>1 DEF Open, Goes, Idle
    <3>3. QED
      BY <1>5, <3>2
  <2>2. CASE Complete(t)
    <3>1. \/ Put(t, Idle) \/ Fail(t)
          \/ \E n : Put(t, [Idle EXCEPT !.at = "again", !.round = n, !.alone = tab[t].alone])
      BY <2>2 DEF Complete
    <3>2. \A n, a : [Idle EXCEPT !.at = "again", !.round = n, !.alone = a].op = "refresh"
      BY DEF Idle
    <3>3. ASSUME NEW n,
                 Put(t, [Idle EXCEPT !.at = "again", !.round = n, !.alone = tab[t].alone])
          PROVE  OthersKnown'
      BY <1>5, <3>2, <3>3 DEF Put, Goes
    <3>4. QED
      BY <1>6, <3>1, <3>3
  <2>3. CASE GiveUp(t)
    BY <1>6, <2>3 DEF GiveUp
  <2>4. CASE Refused(t) /\ Fail(t)
    BY <1>6, <2>4
  <2>5. CASE Send(t) \/ Refresh(t) \/ Accepted(t) \/ Superseded(t) \/ (Refused(t) /\ ~Fail(t))
    <3>1. tab[t].op = "refresh"
      BY <2>5 DEF OthersKnown, Send, Refresh, Accepted, Superseded, Refused
    <3>2. tab[t] \in Operation
      BY <1>1
    <3>3. \E r : Put(t, r) /\ r.op = "refresh"
      <4>1. CASE Send(t)
        <5>1. [tab[t] EXCEPT !.at = "asked", !.refresh = jar.refresh].op = "refresh"
          BY <3>1, <3>2 DEF Operation
        <5>2. QED
          BY <4>1, <5>1 DEF Send
      <4>2. CASE Refresh(t)
        <5>1. \A a, n : [tab[t] EXCEPT !.at = "answered", !.answer = a, !.refresh = n,
                                       !.access = n].op = "refresh"
          BY <3>1, <3>2 DEF Operation
        <5>2. QED
          BY <4>2, <5>1 DEF Refresh
      <4>3. CASE Accepted(t) \/ Superseded(t)
        <5>1. [tab[t] EXCEPT !.at = "applied"].op = "refresh"
          BY <3>1, <3>2 DEF Operation
        <5>2. QED
          BY <4>3, <5>1 DEF Accepted, Superseded
      <4>4. CASE Refused(t) /\ ~Fail(t)
        <5>1. [tab[t] EXCEPT !.at = "ready", !.second = TRUE, !.answer = "none"].op = "refresh"
          BY <3>1, <3>2 DEF Operation
        <5>2. QED
          BY <4>4, <5>1 DEF Refused
      <4>5. QED
        BY <2>5, <4>1, <4>2, <4>3, <4>4
    <3>4. QED
      BY <1>5, <3>3 DEF Put, Goes
  <2>6. QED
    BY <1>7, <2>1, <2>2, <2>3, <2>4, <2>5 DEF Renewal
<1>8. ASSUME NEW t \in Tab, Other(t) PROVE OthersKnown'
  <2>1. Known(tab[t], revoked) /\ tab[t] \in Operation
    BY <1>1
  <2>2. ASSUME NEW op \in Ops, Ask(t, op) PROVE OthersKnown'
    <3>. DEFINE r == [Idle EXCEPT !.op = op, !.at = "asked",
                                  !.refresh = jar.refresh, !.access = jar.access]
    <3>1. /\ Goes(t, r) /\ jar.refresh # 0
          /\ r.at = "asked" /\ r.refresh = jar.refresh /\ r.answer = "none"
      BY <2>2 DEF Ask, Goes, Idle
    <3>. HIDE DEF r
    <3>2. Known(r, revoked')
      BY <3>1 DEF Known
    <3>3. QED
      BY <1>3, <3>1, <3>2
  <2>3. CASE Put(t, Idle)
    BY <1>6, <2>3
  <2>4. ASSUME NEW at \in {"known", "answered", "applied"},
               Put(t, [tab[t] EXCEPT !.at = at]), tab[t].op # "refresh",
               tab[t].op = "logout" /\ at # "known" => revoked'
        PROVE  OthersKnown'
    <3>. DEFINE r == [tab[t] EXCEPT !.at = at]
    <3>1. Goes(t, r) /\ r.op = tab[t].op /\ r.at = at /\ r.answer = tab[t].answer
      BY <2>1, <2>4 DEF Goes, Put, Operation
    <3>. HIDE DEF r
    <3>2. Known(r, revoked')
      BY <2>1, <2>4, <3>1 DEF Known
    <3>3. QED
      BY <1>3, <3>1, <3>2
  <2>5. CASE Authenticate(t) /\ ~Put(t, Idle)
    BY <2>4, <2>5 DEF Authenticate
  <2>6. CASE ChangePassword(t) /\ ~Put(t, Idle)
    <3>. DEFINE r == [tab[t] EXCEPT !.at = "answered", !.answer = "ok", !.refresh = Last + 1]
    <3>1. Goes(t, r) /\ r.op = "password" /\ r.at = "answered" /\ r.answer = "ok"
      BY <2>1, <2>6 DEF ChangePassword, Goes, Put, Operation
    <3>. HIDE DEF r
    <3>2. Known(r, revoked')
      BY <3>1 DEF Known
    <3>3. QED
      BY <1>3, <3>1, <3>2
  <2>7. CASE Logout(t)
    <3>1. tab[t].refresh \in 0 .. Last /\ Last \in Nat
      BY <2>1, Chained DEF Operation
    <3>2. tab[t].refresh # 0 /\ tab[t].op = "logout" /\ tab[t].at = "asked"
      BY <2>1, <2>7 DEF Known, Logout
    <3>3. revoked'
      BY <2>7, <3>1, <3>2 DEF Logout, RevokeFamily
    <3>4. QED
      BY <2>4, <2>7, <3>2, <3>3 DEF Logout
  <2>8. CASE LoggedOut(t) /\ ~Put(t, Idle)
    <3>1. revoked' /\ tab[t].op = "logout" /\ Put(t, [tab[t] EXCEPT !.at = "applied"])
      BY <1>2, <2>1, <2>8 DEF LoggedOut, Known
    <3>2. QED
      BY <2>4, <3>1
  <2>9. QED
    BY <1>8, <2>2, <2>3, <2>5, <2>6, <2>7, <2>8 DEF Other, RevokeOthers, PasswordChanged, Lost
<1>9. ASSUME NEW s \in stray, ServeStray(s) PROVE OthersKnown'
  BY <1>4, <1>9 DEF ServeStray
<1>10. CASE Clock \/ Revoke
  BY <1>4, <1>10 DEF Clock, AccessExpires, Purge, TermEnds, Revoke
<1>11. CASE UNCHANGED vars
  BY <1>4, <1>11 DEF vars
<1>12. QED
  BY <1>7, <1>8, <1>9, <1>10, <1>11 DEF Next

LEMMA WayNext ==
    ASSUME Going
    PROVE  Way'
<1>1. CASE Clock \/ Revoke
  BY <1>1, ClockHeld
<1>2. ASSUME NEW t \in Tab, Renewal(t) PROVE Way'
  BY <1>2, AcquireHeld, SendHeld, RefreshHeld, AcceptedHeld, SupersededHeld, RefusedHeld,
     CompleteHeld, GiveUpHeld DEF Renewal
<1>3. ASSUME NEW t \in Tab, Other(t) PROVE Way'
  BY <1>3, AskHeld, AuthenticateHeld, RevokeOthersHeld, ChangePasswordHeld, PasswordChangedHeld,
     LostHeld, LogoutHeld, LoggedOutHeld DEF Other
<1>4. ASSUME NEW s \in stray, ServeStray(s) PROVE Way'
  BY <1>4, StrayHeld
<1>5. CASE UNCHANGED vars
  BY <1>5 DEF Going, Way, WayOn, Handing, JournalIsPast, OnTheWay, vars, server, Last, Renewable
<1>6. QED
  BY <1>1, <1>2, <1>3, <1>4, <1>5 DEF Going, Next

LEMMA InvNext == Inv /\ [Next]_vars => Inv'
<1> SUFFICES ASSUME Inv, [Next]_vars PROVE Inv'
  OBVIOUS
<1>1. Typed' /\ Distinct' /\ OthersKnown'
  BY NextTyped, DistinctNext, OthersKnownNext DEF Inv
<1>2. Advancing' => Advancing
  <2>1. revoked => revoked'
    BY ServerFollows DEF Inv
  <2>2. misled => misled'
    BY DEF Next, Clock, AccessExpires, Purge, TermEnds, Revoke, Renewal, Acquire, Send, Refresh,
           ServeStray, Accepted, SetCookies, Superseded, Refused, Complete, GiveUp, Other, Ask,
           Authenticate, RevokeOthers, ChangePassword, PasswordChanged, Lost, Logout, LoggedOut,
           vars
  <2>3. QED
    BY <2>1, <2>2 DEF Advancing
<1>3. Advancing' => Way'
  BY <1>1, <1>2, WayNext DEF Going, Inv, Way
<1>4. QED
  BY <1>1, <1>3 DEF Inv, Way

LEMMA Recovery == Spec => []Inv
BY InvInit, InvNext, PTL DEF Spec

\* Whatever was lost, repeated or late, and for any number of tabs: a browser whose sign-in
\* lasts has a cookie, or a cookie and a key, that lead to the current token, unless a late
\* answer put an older cookie back or that to a change of password was lost.
THEOREM WayKept == Spec => []Recoverable
BY InvWayOn, Recovery, PTL

-----------------------------------------------------------------------------
(* A renewal that nothing disturbs                                          *)

\* Whatever holds a key holds one that was made.
Made == minted \cup {NoKey}

KeysMade ==
    /\ \A i \in 1 .. Last : chain[i] \in Made
    /\ journal.pending \in Made /\ journal.completed \in Made
    /\ \A t \in Tab : tab[t].key \in Made /\ tab[t].previous \in Made
    /\ \A s \in stray : s.key \in Made

\* The cookie is current, or the key k leads from it to the current one.
Leads(k) == jar.refresh + 1 = Last /\ chain[Last] = k /\ k # NoKey

\* The operation holds what the journal has, and one of its keys leads on; in a further
\* round the cookie is current and the key is new.
OnCourse(r) ==
    /\ r.key = journal.pending /\ r.previous = journal.completed /\ r.key # NoKey
    /\ IF r.second THEN Leads(r.previous)
       ELSE jar.refresh = Last \/ (r.round = 1 /\ (Leads(r.key) \/ Leads(r.previous)))
    /\ r.round # 1 => ~Used(r.key)

\* What an undisturbed renewal has come to.
Succeeds(r) ==
    CASE r.at = "again"    -> journal.pending = NoKey /\ jar.refresh = Last
      [] r.at = "ready"    -> OnCourse(r)
      [] r.at = "asked"    -> OnCourse(r) /\ r.refresh = jar.refresh
      [] r.at = "answered" ->
           /\ r.key = journal.pending /\ r.previous = journal.completed /\ r.key # NoKey
           /\ r.answer = "ok" => r.refresh = Last
           /\ r.answer = "completed" => ~r.second /\ r.round = 1 /\ jar.refresh = Last
           /\ r.answer = "refused" => ~r.second /\ r.round = 1 /\ Leads(r.previous)
      [] r.at = "applied"  ->
           /\ r.key = journal.pending /\ jar.refresh = Last
           /\ r.answer = "completed" => r.round = 1
      [] OTHER -> FALSE

Undisturbable(t) ==
    /\ \A u \in Tab : u # t => tab[u].at = "idle"
    /\ stray = {} /\ Renewable /\ tab[t].op = "refresh"
    /\ Succeeds(tab[t])

Works == \A t \in Tab : ~tab[t].failed /\ (tab[t].alone => Undisturbable(t))

WorksInv == Typed /\ KeysMade /\ Works

LEMMA WorksInit == Init => WorksInv
<1> SUFFICES ASSUME Init PROVE WorksInv
  OBVIOUS
<1>1. Typed /\ Last = 1
  BY InitTyped DEF Init, Last
<1>2. KeysMade
  BY <1>1 DEF Init, KeysMade, Made, Idle
<1>3. Works
  BY DEF Init, Works, Idle
<1>4. QED
  BY <1>1, <1>2, <1>3 DEF WorksInv

LEMMA MadeGrows == [Next]_vars => minted \subseteq minted'
<1> SUFFICES ASSUME [Next]_vars PROVE minted \subseteq minted'
  OBVIOUS
<1>1. ASSUME NEW t \in Tab, Acquire(t) PROVE minted \subseteq minted'
  BY <1>1 DEF Acquire, Open
<1>2. ASSUME NEW t \in Tab, Renewal(t), ~Acquire(t) PROVE minted' = minted
  BY <1>2 DEF Renewal, Send, Refresh, Accepted, Superseded, Refused, Complete, GiveUp
<1>3. ASSUME NEW t \in Tab, Other(t) PROVE minted' = minted
  BY <1>3 DEF Other, Ask, Authenticate, RevokeOthers, ChangePassword, PasswordChanged, Lost,
              Logout, LoggedOut
<1>4. QED
  BY <1>1, <1>2, <1>3 DEF Next, Clock, AccessExpires, Purge, TermEnds, Revoke, ServeStray, vars

\* A step of one tab: what is left to show is about what that tab and the journal get.
LEMMA MadeStep ==
    ASSUME Typed, KeysMade, [Next]_vars, NEW t \in Tab, NEW r, Goes(t, r),
           r.key \in Made', r.previous \in Made',
           chain' = chain \/ \E k \in Made : Appends(k),
           journal'.pending \in Made', journal'.completed \in Made',
           \A s \in stray' \ stray : s.key \in Made'
    PROVE  KeysMade'
<1>1. Made \subseteq Made'
  BY MadeGrows DEF Made
<1>2. \A i \in 1 .. Last' : chain'[i] \in Made'
  <2>1. CASE chain' = chain
    BY <1>1, <2>1 DEF KeysMade, Last
  <2>2. ASSUME NEW k \in Made, Appends(k) PROVE \A i \in 1 .. Last' : chain'[i] \in Made'
    <3>1. /\ Last \in Nat /\ Last' = Last + 1 /\ chain'[Last'] = k
          /\ \A i \in 1 .. Last : chain'[i] = chain[i]
      BY <2>2, Chained, AppendFollows
    <3>2. QED
      BY <1>1, <3>1 DEF KeysMade
  <2>3. QED
    BY <2>1, <2>2
<1>3. ASSUME NEW u \in Tab PROVE tab'[u].key \in Made' /\ tab'[u].previous \in Made'
  <2>1. CASE u = t
    BY <2>1, Gone
  <2>2. CASE u # t
    <3>1. tab[u] \in Operation
      BY Parts DEF Typed, ClientOK
    <3>2. tab'[u] = tab[u] \/ tab'[u] = [tab[u] EXCEPT !.alone = FALSE]
      BY <2>2, Gone
    <3>3. tab'[u].key = tab[u].key /\ tab'[u].previous = tab[u].previous
      BY <3>1, <3>2, AloneIsNoPart
    <3>4. QED
      BY <1>1, <3>3 DEF KeysMade
  <2>3. QED
    BY <2>1, <2>2
<1>4. \A s \in stray' : s.key \in Made'
  BY <1>1 DEF KeysMade
<1>5. QED
  BY <1>2, <1>3, <1>4 DEF KeysMade

LEMMA ShownIsMade ==
    ASSUME KeysMade, NEW t \in Tab PROVE Shown(t) \in Made
BY DEF KeysMade, Shown

\* A step that makes no key.
LEMMA MadeQuiet ==
    ASSUME Typed, KeysMade, [Next]_vars, NEW t \in Tab, NEW r, Goes(t, r),
           r.key \in Made, r.previous \in Made,
           chain' = chain \/ \E k \in Made : Appends(k),
           journal'.pending \in Made, journal'.completed \in Made,
           \A s \in stray' \ stray : s.key \in Made
    PROVE  KeysMade'
BY MadeGrows, MadeStep DEF Made

LEMMA KeysMadeNext == Typed /\ KeysMade /\ [Next]_vars => KeysMade'
<1> SUFFICES ASSUME Typed, KeysMade, [Next]_vars PROVE KeysMade'
  OBVIOUS
<1>1. ClientOK
  BY Parts DEF Typed
<1>2. NoKey \in Made /\ journal.pending \in Made /\ journal.completed \in Made
      /\ \A t \in Tab : tab[t].key \in Made /\ tab[t].previous \in Made /\ tab[t] \in Operation
  BY <1>1 DEF Made, KeysMade, ClientOK
<1>3. \A b : Idle.key = NoKey /\ Idle.previous = NoKey
             /\ [Idle EXCEPT !.failed = b].key = NoKey /\ [Idle EXCEPT !.failed = b].previous = NoKey
  BY DEF Idle
<1>4. ASSUME NEW t \in Tab, NEW r, Goes(t, r), r.key \in Made, r.previous \in Made,
             UNCHANGED journal, stray' \subseteq stray,
             chain' = chain \/ \E k \in Made : Appends(k)
      PROVE  KeysMade'
  BY <1>2, <1>4, MadeQuiet
<1>5. ASSUME NEW t \in Tab, Put(t, Idle) \/ Fail(t), UNCHANGED journal, stray' \subseteq stray,
             chain' = chain
      PROVE  KeysMade'
  <2>1. CASE Put(t, Idle)
    BY <1>2, <1>3, <1>4, <1>5, <2>1 DEF Put, Goes
  <2>. DEFINE r == [Idle EXCEPT !.failed = tab[t].alone]
  <2>2. CASE Fail(t)
    <3>1. Goes(t, r) /\ r.key = NoKey /\ r.previous = NoKey
      BY <1>3, <2>2 DEF Put, Goes, Fail
    <3>. HIDE DEF r
    <3>2. QED
      BY <1>2, <1>4, <1>5, <3>1
  <2>3. QED
    BY <1>5, <2>1, <2>2
<1>6. ASSUME NEW t \in Tab, NEW r, Put(t, r), r.key = tab[t].key, r.previous = tab[t].previous,
             UNCHANGED journal, stray' \subseteq stray,
             chain' = chain \/ \E k \in Made : Appends(k)
      PROVE  KeysMade'
  BY <1>2, <1>4, <1>6 DEF Put, Goes
<1>7. CASE UNCHANGED vars
  BY <1>7 DEF vars, server, KeysMade, Made, Last
<1>8. CASE Clock \/ Revoke
  <2>1. UNCHANGED <<chain, journal, minted, stray>> /\ (tab' = tab \/ tab' = Undisturbed)
    BY <1>8 DEF Clock, AccessExpires, Purge, TermEnds, Revoke, RevokeFamily
  <2>2. ASSUME NEW u \in Tab PROVE tab'[u].key \in Made /\ tab'[u].previous \in Made
    <3>1. tab'[u] = tab[u] \/ tab'[u] = [tab[u] EXCEPT !.alone = FALSE]
      BY <2>1 DEF Undisturbed
    <3>2. QED
      BY <1>2, <3>1, AloneIsNoPart
  <2>3. QED
    BY <2>1, <2>2 DEF KeysMade, Made, Last
<1>9. ASSUME NEW s \in stray, ServeStray(s) PROVE KeysMade'
  <2>1. s.key \in Key /\ s.key \in Made
    BY <1>1 DEF ClientOK, Request, KeysMade
  <2>2. chain' = chain \/ Appends(s.key)
    BY <1>9, <2>1, ServedAppends DEF ServeStray, RevokeFamily, server
  <2>3. UNCHANGED <<journal, minted, tab>> /\ stray' \subseteq stray
    BY <1>9 DEF ServeStray
  <2>4. \A i \in 1 .. Last' : chain'[i] \in Made
    <3>1. CASE chain' = chain
      BY <3>1 DEF KeysMade, Last
    <3>2. CASE Appends(s.key)
      <4>1. /\ Last \in Nat /\ Last' = Last + 1 /\ chain'[Last'] = s.key
            /\ \A i \in 1 .. Last : chain'[i] = chain[i]
        BY <3>2, Chained, AppendFollows
      <4>2. QED
        BY <2>1, <4>1 DEF KeysMade
    <3>3. QED
      BY <2>2, <3>1, <3>2
  <2>5. QED
    BY <2>3, <2>4 DEF KeysMade, Made
<1>10. ASSUME NEW t \in Tab, Acquire(t) PROVE KeysMade'
  <2>1. PICK round, alone : Open(t, round, alone)
    BY <1>10 DEF Acquire
  <2>2. PICK k \in Key :
          /\ k \in minted'
          /\ journal' = [journal EXCEPT !.pending = k]
          /\ tab' = [(IF round = 1 THEN Undisturbed ELSE tab) EXCEPT ![t] =
                       [Idle EXCEPT !.at = "ready", !.round = round, !.key = k,
                                    !.previous = journal.completed, !.alone = alone]]
    BY <2>1, KeyAssumption, <1>2 DEF Open, Made
  <2>. DEFINE r == [Idle EXCEPT !.at = "ready", !.round = round, !.key = k,
                                !.previous = journal.completed, !.alone = alone]
  <2>3. Goes(t, r) /\ r.key = k /\ r.previous = journal.completed
    BY <2>2 DEF Goes, Idle
  <2>4. journal'.pending = k /\ journal'.completed = journal.completed
    BY <1>1, <2>2 DEF ClientOK
  <2>5. chain' = chain /\ stray' = stray
    BY <1>10 DEF Acquire, server
  <2>6. k \in Made' /\ journal.completed \in Made'
    BY <1>2, <2>2, MadeGrows DEF Made
  <2>. HIDE DEF r
  <2>7. QED
    BY <2>3, <2>4, <2>5, <2>6, MadeStep
<1>11. ASSUME NEW t \in Tab, Refresh(t) PROVE KeysMade'
  <2>1. Shown(t) \in Key /\ Shown(t) \in Made
    BY <1>11, ShownIsKey, ShownIsMade DEF Refresh
  <2>2. chain' = chain \/ \E k \in Made : Appends(k)
    BY <1>11, <2>1, ServedAppends DEF Refresh, RevokeFamily, server
  <2>3. \E a, n : Put(t, [tab[t] EXCEPT !.at = "answered", !.answer = a, !.refresh = n,
                                        !.access = n])
    BY <1>11 DEF Refresh
  <2>4. PICK a, n : Put(t, [tab[t] EXCEPT !.at = "answered", !.answer = a, !.refresh = n,
                                          !.access = n])
    BY <2>3
  <2>. DEFINE r == [tab[t] EXCEPT !.at = "answered", !.answer = a, !.refresh = n, !.access = n]
  <2>5. r.key = tab[t].key /\ r.previous = tab[t].previous /\ Put(t, r)
    BY <1>2, <2>4 DEF Operation
  <2>. HIDE DEF r
  <2>6. UNCHANGED <<journal, stray>>
    BY <1>11 DEF Refresh
  <2>7. QED
    BY <1>6, <2>2, <2>5, <2>6
<1>12. ASSUME NEW t \in Tab, Complete(t) PROVE KeysMade'
  <2>1. \/ Put(t, Idle) \/ Fail(t)
        \/ \E n : Put(t, [Idle EXCEPT !.at = "again", !.round = n, !.alone = tab[t].alone])
    BY <1>12 DEF Complete
  <2>2. \A n, a :
          /\ [Idle EXCEPT !.at = "again", !.round = n, !.alone = a].key = NoKey
          /\ [Idle EXCEPT !.at = "again", !.round = n, !.alone = a].previous = NoKey
    BY DEF Idle
  <2>3. PICK r : Goes(t, r) /\ r.key = NoKey /\ r.previous = NoKey
    <3>1. CASE Put(t, Idle) \/ Fail(t)
      BY <1>3, <3>1 DEF Fail, Put, Goes
    <3>2. ASSUME NEW n,
                 Put(t, [Idle EXCEPT !.at = "again", !.round = n, !.alone = tab[t].alone])
          PROVE  \E r : Goes(t, r) /\ r.key = NoKey /\ r.previous = NoKey
      <4>. DEFINE q == [Idle EXCEPT !.at = "again", !.round = n, !.alone = tab[t].alone]
      <4>1. Goes(t, q) /\ q.key = NoKey /\ q.previous = NoKey
        BY <2>2, <3>2 DEF Put, Goes
      <4>. HIDE DEF q
      <4>2. QED
        BY <4>1
    <3>3. QED
      BY <2>1, <3>1, <3>2
  <2>4. journal'.pending \in Made /\ journal'.completed \in Made
    BY <1>2, <1>12, ShownIsMade DEF Complete, Completed
  <2>5. chain' = chain /\ stray' = stray
    BY <1>12 DEF Complete, server
  <2>6. QED
    BY <1>2, <2>3, <2>4, <2>5, MadeQuiet
<1>13. ASSUME NEW t \in Tab, GiveUp(t) PROVE KeysMade'
  <2>1. Goes(t, Idle) /\ chain' = chain /\ journal' = journal
    BY <1>13 DEF GiveUp, Put, Goes, server
  <2>2. \A s \in stray' \ stray : s.key \in Made
    BY <1>13, ShownIsMade DEF GiveUp
  <2>3. QED
    BY <1>2, <1>3, <2>1, <2>2, MadeQuiet
<1>14. ASSUME NEW t \in Tab, Send(t) \/ Accepted(t) \/ Superseded(t) \/ Refused(t)
       PROVE  KeysMade'
  <2>1. UNCHANGED <<chain, journal, stray>>
    BY <1>14 DEF Send, Accepted, Superseded, Refused, server
  <2>2. CASE Fail(t)
    BY <1>5, <2>1, <2>2
  <2>3. CASE ~Fail(t)
    <3>1. \E r : Put(t, r) /\ r.key = tab[t].key /\ r.previous = tab[t].previous
      <4>1. tab[t] \in Operation
        BY <1>2
      <4>2. /\ [tab[t] EXCEPT !.at = "asked", !.refresh = jar.refresh].key = tab[t].key
            /\ [tab[t] EXCEPT !.at = "asked", !.refresh = jar.refresh].previous = tab[t].previous
            /\ [tab[t] EXCEPT !.at = "applied"].key = tab[t].key
            /\ [tab[t] EXCEPT !.at = "applied"].previous = tab[t].previous
            /\ [tab[t] EXCEPT !.at = "ready", !.second = TRUE, !.answer = "none"].key = tab[t].key
            /\ [tab[t] EXCEPT !.at = "ready", !.second = TRUE, !.answer = "none"].previous
                 = tab[t].previous
        BY <4>1 DEF Operation
      <4>3. QED
        BY <1>14, <2>3, <4>2 DEF Send, Accepted, Superseded, Refused
    <3>2. QED
      BY <1>6, <2>1, <3>1
  <2>4. QED
    BY <2>2, <2>3
<1>15. ASSUME NEW t \in Tab, Renewal(t) PROVE KeysMade'
  BY <1>10, <1>11, <1>12, <1>13, <1>14, <1>15 DEF Renewal
<1>16. ASSUME NEW t \in Tab, Other(t) PROVE KeysMade'
  <2>1. tab[t] \in Operation /\ UNCHANGED stray
    BY <1>2, <1>16 DEF Other, Ask, Authenticate, RevokeOthers, ChangePassword, PasswordChanged,
                       Lost, Logout, LoggedOut
  <2>2. CASE LoggedOut(t)
    <3>1. journal'.pending \in Made /\ journal'.completed \in Made /\ chain' = chain
      BY <1>2, <2>2 DEF LoggedOut, server
    <3>2. /\ [tab[t] EXCEPT !.at = "applied"].key = tab[t].key
          /\ [tab[t] EXCEPT !.at = "applied"].previous = tab[t].previous
      BY <2>1 DEF Operation
    <3>3. PICK r : Goes(t, r) /\ r.key \in Made /\ r.previous \in Made
      BY <1>2, <1>3, <2>2, <3>2 DEF LoggedOut, Put, Goes
    <3>4. QED
      BY <2>1, <3>1, <3>3, MadeQuiet
  <2>3. CASE ~LoggedOut(t)
    <3>1. UNCHANGED journal
      BY <1>16, <2>3 DEF Other, Ask, Authenticate, RevokeOthers, ChangePassword, PasswordChanged,
                         Lost, Logout
    <3>2. chain' = chain \/ \E k \in Made : Appends(k)
      BY <1>2, <1>16, <2>3 DEF Other, Ask, Authenticate, RevokeOthers, ChangePassword,
         PasswordChanged, Lost, Logout, RevokeFamily, server, Appends, AnyKey
    <3>3. \E r : Goes(t, r) /\ r.key \in Made /\ r.previous \in Made
      <4>1. \A a : /\ [tab[t] EXCEPT !.at = a].key = tab[t].key
                   /\ [tab[t] EXCEPT !.at = a].previous = tab[t].previous
        BY <2>1 DEF Operation
      <4>2. LET r == [tab[t] EXCEPT !.at = "answered", !.answer = "ok", !.refresh = Last + 1]
            IN  r.key = tab[t].key /\ r.previous = tab[t].previous
        BY <2>1 DEF Operation
      <4>3. \A op : LET r == [Idle EXCEPT !.op = op, !.at = "asked",
                                          !.refresh = jar.refresh, !.access = jar.access]
                    IN  r.key = NoKey /\ r.previous = NoKey
        BY DEF Idle
      <4>4. ASSUME NEW op \in Ops, Ask(t, op)
            PROVE  \E r : Goes(t, r) /\ r.key \in Made /\ r.previous \in Made
        BY <1>2, <4>3, <4>4 DEF Ask, Goes
      <4>5. CASE Put(t, Idle)
        BY <1>2, <1>3, <4>5 DEF Put, Goes
      <4>6. CASE ChangePassword(t) /\ ~Put(t, Idle)
        BY <1>2, <4>2, <4>6 DEF ChangePassword, Put, Goes
      <4>7. CASE Logout(t) \/ (Authenticate(t) /\ ~Put(t, Idle))
        <5>1. PICK a : Put(t, [tab[t] EXCEPT !.at = a])
          BY <4>7 DEF Logout, Authenticate
        <5>2. QED
          BY <1>2, <4>1, <5>1 DEF Put, Goes
      <4>8. QED
        BY <1>16, <2>3, <4>4, <4>5, <4>6, <4>7 DEF Other, RevokeOthers, PasswordChanged, Lost
    <3>4. QED
      BY <1>4, <2>1, <3>1, <3>2, <3>3
  <2>4. QED
    BY <2>2, <2>3
<1>17. QED
  BY <1>7, <1>8, <1>9, <1>15, <1>16 DEF Next

\* What the step of the tab t has to show, of itself.
Good(t) == ~tab[t].failed /\ (tab[t].alone => Undisturbable(t))

\* Nobody but the tab itself acts while it is undisturbed: whoever begins something
\* disturbs it, and nobody else has anything to go on with.
LEMMA WorksStep ==
    ASSUME Typed, Works, NEW t \in Tab, NEW r,
           \/ tab' = [tab EXCEPT ![t] = r] /\ Busy(t)
           \/ tab' = [Undisturbed EXCEPT ![t] = r],
           Good(t)'
    PROVE  Works'
<1>1. ASSUME NEW u \in Tab PROVE Good(u)'
  <2>1. CASE u = t
    BY <2>1
  <2>2. CASE u # t
    <3>1. tab[u] \in Operation
      BY Parts DEF Typed, ClientOK
    <3>2. tab'[u] = tab[u] \/ tab'[u] = [tab[u] EXCEPT !.alone = FALSE]
      BY <2>2, Gone DEF Goes
    <3>3. tab'[u].failed = tab[u].failed
      BY <3>1, <3>2, AloneIsNoPart
    <3>4. ~tab[u].failed /\ (tab[u].alone => ~Busy(t))
      BY <2>2 DEF Works, Undisturbable, Busy
    <3>5. CASE tab' = [tab EXCEPT ![t] = r] /\ Busy(t)
      <4>1. tab'[u] = tab[u]
        BY <2>2, <3>5, Parts DEF Typed, ClientOK
      <4>2. QED
        BY <3>3, <3>4, <3>5, <4>1 DEF Good
    <3>6. CASE tab' = [Undisturbed EXCEPT ![t] = r]
      <4>1. tab'[u] = [tab[u] EXCEPT !.alone = FALSE]
        BY <2>2, <3>6 DEF Undisturbed
      <4>2. tab'[u].alone = FALSE
        BY <3>1, <4>1 DEF Operation
      <4>3. QED
        BY <3>3, <3>4, <4>2 DEF Good
    <3>7. QED
      BY <3>5, <3>6
  <2>3. QED
    BY <2>1, <2>2
<1>2. QED
  BY <1>1 DEF Works, Good

\* A step after which the tab is not undisturbed, without having failed.
LEMMA WorksQuiet ==
    ASSUME Typed, Works, NEW t \in Tab, NEW r, ~r.alone, ~r.failed,
           \/ tab' = [tab EXCEPT ![t] = r] /\ Busy(t)
           \/ tab' = [Undisturbed EXCEPT ![t] = r]
    PROVE  Works'
<1>1. tab'[t] = r
  BY Gone DEF Goes
<1>2. Good(t)'
  BY <1>1 DEF Good
<1>3. QED
  BY <1>2, WorksStep

LEMMA IdleQuiet == ~Idle.alone /\ ~Idle.failed
BY DEF Idle

LEMMA OtherWorks == ASSUME Typed, Works, NEW t \in Tab, Other(t) PROVE Works'
<1>1. tab[t] \in Operation /\ ~tab[t].failed
  BY Parts DEF Typed, ClientOK, Works
<1>2. ASSUME NEW op \in Ops, Ask(t, op) PROVE Works'
  <2>. DEFINE r == [Idle EXCEPT !.op = op, !.at = "asked",
                                !.refresh = jar.refresh, !.access = jar.access]
  <2>1. ~r.alone /\ ~r.failed /\ tab' = [Undisturbed EXCEPT ![t] = r]
    BY <1>2 DEF Ask, Idle
  <2>. HIDE DEF r
  <2>2. QED
    BY <2>1, WorksQuiet
<1>3. CASE ~\E op \in Ops : Ask(t, op)
  <2>1. Busy(t) /\ ~tab[t].alone
    BY <1>3 DEF Other, Authenticate, RevokeOthers, ChangePassword, PasswordChanged, Lost, Logout,
                LoggedOut, Busy, Works, Undisturbable
  <2>2. CASE Put(t, Idle)
    BY <2>1, <2>2, IdleQuiet, WorksQuiet DEF Put
  <2>3. ASSUME NEW a, Put(t, [tab[t] EXCEPT !.at = a]) PROVE Works'
    <3>. DEFINE r == [tab[t] EXCEPT !.at = a]
    <3>1. r.alone = tab[t].alone /\ r.failed = tab[t].failed
      BY <1>1 DEF Operation
    <3>2. ~r.alone /\ ~r.failed /\ tab' = [tab EXCEPT ![t] = r]
      BY <1>1, <2>1, <2>3, <3>1 DEF Put
    <3>. HIDE DEF r
    <3>3. QED
      BY <2>1, <3>2, WorksQuiet
  <2>4. CASE Put(t, [tab[t] EXCEPT !.at = "answered", !.answer = "ok", !.refresh = Last + 1])
    <3>. DEFINE r == [tab[t] EXCEPT !.at = "answered", !.answer = "ok", !.refresh = Last + 1]
    <3>1. r.alone = tab[t].alone /\ r.failed = tab[t].failed
      BY <1>1 DEF Operation
    <3>2. ~r.alone /\ ~r.failed /\ tab' = [tab EXCEPT ![t] = r]
      BY <1>1, <2>1, <2>4, <3>1 DEF Put
    <3>. HIDE DEF r
    <3>3. QED
      BY <2>1, <3>2, WorksQuiet
  <2>5. QED
    BY <1>3, <2>2, <2>3, <2>4 DEF Other, Authenticate, RevokeOthers, ChangePassword,
                                  PasswordChanged, Lost, Logout, LoggedOut
<1>4. QED
  BY <1>2, <1>3

\* What an undisturbed tab that takes a step starts from.
LEMMA StartsAlone ==
    ASSUME Typed, Works, NEW t \in Tab, tab[t].alone
    PROVE  /\ \A u \in Tab : u # t => tab[u].at = "idle"
           /\ stray = {} /\ Renewable /\ tab[t].op = "refresh" /\ Succeeds(tab[t])
BY DEF Works, Undisturbable

LEMMA AcquireWorks == ASSUME Typed, KeysMade, Works, NEW t \in Tab, Acquire(t) PROVE Works'
<1>1. /\ UNCHANGED <<server, jar, stray>>
      /\ chain' = chain /\ Last' = Last /\ Renewable' = Renewable
  BY DEF Acquire, server, Last, Renewable
<1>2. ASSUME NEW round, NEW alone \in BOOLEAN, Open(t, round, alone),
             alone => /\ \A u \in Tab : u # t => tab[u].at = "idle"
                      /\ stray = {} /\ Renewable
                      /\ jar.refresh = Last \/ (round = 1 /\ Repairable)
                      /\ round # 1 => journal.pending = NoKey,
             round = 1 \/ Busy(t)
      PROVE  Works'
  <2>1. PICK k \in Key :
          /\ IF journal.pending # NoKey THEN k = journal.pending ELSE k \notin minted
          /\ journal' = [journal EXCEPT !.pending = k]
          /\ tab' = [(IF round = 1 THEN Undisturbed ELSE tab) EXCEPT ![t] =
                       [Idle EXCEPT !.at = "ready", !.round = round, !.key = k,
                                    !.previous = journal.completed, !.alone = alone]]
    BY <1>2 DEF Open
  <2>. DEFINE r == [Idle EXCEPT !.at = "ready", !.round = round, !.key = k,
                                !.previous = journal.completed, !.alone = alone]
  <2>2. /\ r.op = "refresh" /\ r.at = "ready" /\ r.round = round /\ r.key = k
        /\ r.previous = journal.completed /\ r.alone = alone /\ r.failed = FALSE
        /\ r.second = FALSE
    BY DEF Idle
  <2>3. \/ tab' = [tab EXCEPT ![t] = r] /\ Busy(t)
        \/ tab' = [Undisturbed EXCEPT ![t] = r]
    BY <1>2, <2>1
  <2>. HIDE DEF r
  <2>4. tab'[t] = r /\ \A u \in Tab : u # t => tab'[u].at = tab[u].at
    <3>1. Goes(t, r)
      BY <2>3 DEF Goes
    <3>2. \A u \in Tab : tab[u] \in Operation
      BY Parts DEF Typed, ClientOK
    <3>3. QED
      BY <3>1, <3>2, Gone, AloneIsNoPart
  <2>5. journal'.pending = k /\ journal'.completed = journal.completed
    BY <2>1, Parts DEF Typed, ClientOK
  <2>6. k # NoKey
    BY KeyAssumption
  <2>7. journal.pending = NoKey => ~Used(k)
    BY <2>1, <2>6 DEF KeysMade, Made, Used
  <2>8. ASSUME alone PROVE Undisturbable(t)'
    <3>1. journal'.pending = k /\ (jar.refresh = Last \/ (round = 1 /\ (Leads(k) \/ Leads(journal.completed))))
      BY <1>2, <2>1, <2>5, <2>6, <2>8 DEF Repairable, Leads
    <3>2. jar' = jar /\ Used(k)' = Used(k) /\ Leads(k)' = Leads(k)
          /\ Leads(journal.completed)' = Leads(journal'.completed)
      BY <1>1, <2>5 DEF Used, Leads
    <3>3. OnCourse(tab[t])'
      BY <1>1, <1>2, <2>2, <2>4, <2>5, <2>6, <2>7, <2>8, <3>1 DEF OnCourse, Leads, Used
    <3>4. Succeeds(tab[t])'
      BY <2>2, <2>4, <3>3 DEF Succeeds
    <3>5. QED
      BY <1>1, <1>2, <2>2, <2>4, <2>8, <3>4 DEF Undisturbable
  <2>9. Good(t)'
    BY <2>2, <2>4, <2>8 DEF Good
  <2>10. QED
    BY <2>3, <2>9, WorksStep
<1>3. CASE ~Busy(t) /\ Open(t, 1, Alone /\ Renewable /\ Repairable)
  <2>. DEFINE alone == Alone /\ Renewable /\ Repairable
  <2>1. alone \in BOOLEAN
    BY DEF Alone, Renewable, Repairable
  <2>2. alone => /\ \A u \in Tab : u # t => tab[u].at = "idle"
                 /\ stray = {} /\ Renewable /\ Repairable
    BY DEF Alone, Busy
  <2>3. Open(t, 1, alone)
    BY <1>3
  <2>. HIDE DEF alone
  <2>4. QED
    BY <1>2, <2>1, <2>2, <2>3
<1>4. CASE tab[t].at = "again" /\ Open(t, tab[t].round, tab[t].alone)
  <2>1. tab[t].alone \in BOOLEAN /\ Busy(t)
    BY <1>4, Parts DEF Typed, ClientOK, Operation, Busy
  <2>2. tab[t].alone => journal.pending = NoKey /\ jar.refresh = Last
    BY <1>4, StartsAlone DEF Succeeds
  <2>3. QED
    BY <1>2, <1>4, <2>1, <2>2, StartsAlone
<1>5. QED
  BY <1>3, <1>4 DEF Acquire

\* A step of an undisturbed renewal that leaves the others, and the end of the sign-in, alone.
LEMMA WorksOn ==
    ASSUME Typed, Works, NEW t \in Tab, NEW r, Put(t, r), Busy(t),
           r.alone = tab[t].alone, r.op = tab[t].op, r.failed = tab[t].failed,
           tab[t].alone => stray' \subseteq stray /\ (Renewable => Renewable') /\ Succeeds(tab[t])'
    PROVE  Works'
<1>1. Goes(t, r) /\ tab' = [tab EXCEPT ![t] = r]
  BY DEF Put, Goes
<1>2. tab'[t] = r
  BY <1>1, Gone
<1>3. ASSUME tab[t].alone PROVE Undisturbable(t)'
  <2>1. \A u \in Tab : u # t => tab'[u].at = "idle"
    BY <1>1, <1>3, StartsAlone, Parts DEF Typed, ClientOK
  <2>2. QED
    BY <1>2, <1>3, <2>1, StartsAlone DEF Undisturbable
<1>4. ~tab[t].failed
  BY DEF Works
<1>5. Good(t)'
  BY <1>2, <1>3, <1>4 DEF Good
<1>6. QED
  BY <1>1, <1>5, WorksStep

LEMMA SendWorks == ASSUME Typed, Works, NEW t \in Tab, Send(t) PROVE Works'
<1>. DEFINE r == [tab[t] EXCEPT !.at = "asked", !.refresh = jar.refresh]
<1>1. tab[t] \in Operation
  BY Parts DEF Typed, ClientOK
<1>2. /\ r.at = "asked" /\ r.refresh = jar.refresh /\ r.op = tab[t].op /\ r.alone = tab[t].alone
      /\ r.key = tab[t].key /\ r.previous = tab[t].previous /\ r.second = tab[t].second
      /\ r.round = tab[t].round /\ r.failed = tab[t].failed
  BY <1>1 DEF Operation
<1>3. Put(t, r) /\ Busy(t) /\ tab'[t] = r
  BY <1>1, Parts DEF Send, Put, Busy, Typed, ClientOK
<1>4. UNCHANGED <<chain, revoked, term, jar, journal, stray>>
  BY DEF Send, server
<1>. HIDE DEF r
<1>5. tab[t].alone => Succeeds(tab[t])'
  <2>1. SUFFICES ASSUME tab[t].alone PROVE Succeeds(tab[t])'
    OBVIOUS
  <2>2. OnCourse(tab[t])
    BY <2>1, StartsAlone DEF Succeeds, Send
  <2>3. OnCourse(tab[t])'
    BY <1>2, <1>3, <1>4, <2>2 DEF OnCourse, Leads, Used, Last
  <2>4. QED
    BY <1>2, <1>3, <1>4, <2>3 DEF Succeeds
<1>6. QED
  BY <1>2, <1>3, <1>4, <1>5, WorksOn DEF Renewable

\* The answer that an undisturbed renewal gets: the current token, or a refusal that the
\* completed key repairs, or, in the first round, that its key was used.
LEMMA RefreshWorked ==
    ASSUME Typed, Works, NEW t \in Tab, Refresh(t), tab[t].alone
    PROVE  (Renewable => Renewable') /\ Succeeds(tab[t])'
<1>. DEFINE g == tab[t].refresh
            k == Shown(t)
            old == tab[t]
            new == tab'[t]
<1>1. /\ Last \in Nat /\ Last > 0 /\ Len(chain) = Last /\ chain[1] = NoKey
      /\ jar.refresh \in 0 .. Last
  BY Chained DEF Typed, TypeOK
<1>2. old \in Operation /\ k \in Key
  BY Parts, ShownIsKey DEF Typed, ClientOK, Refresh
<1>3. Renewable /\ OnCourse(old) /\ g = jar.refresh
  BY StartsAlone DEF Succeeds, Refresh
<1>4. /\ new.at = "answered" /\ new.key = old.key /\ new.previous = old.previous
      /\ new.second = old.second /\ new.round = old.round
      /\ new.answer = Verdict(g, k)
      /\ new.answer = "ok" => new.refresh = Len(chain')
  BY <1>2 DEF Refresh, Put, Typed, TypeOK, Operation
<1>5. \/ Appends(k) /\ Rotates(g, k)
      \/ UNCHANGED server /\ ~Rotates(g, k)
  <2>1. Serve(g, k)
    BY DEF Refresh
  <2>2. ~(g = Last /\ ~revoked /\ term = "over")
    BY <1>3 DEF Renewable
  <2>3. QED
    BY <1>2, <2>1, <2>2 DEF Serve, Appends, Rotates, AnyKey
<1>6. jar' = jar /\ journal' = journal
  BY DEF Refresh
<1>. HIDE DEF g, k, old, new
<1>7. Len(chain') = Last' /\ (Renewable => Renewable')
  BY <1>5, AppendFollows DEF server, Renewable, Last
<1>8. k = IF old.second THEN old.previous ELSE old.key
  BY DEF Shown, k, old
<1>9. ASSUME jar.refresh # Last
      PROVE  /\ chain' = chain /\ Last' = Last /\ jar.refresh + 1 = Last /\ jar.refresh # 0
             /\ Verdict(g, k) \in {"ok", "refused"}
             /\ Verdict(g, k) = "refused" => ~old.second /\ old.round = 1 /\ Leads(old.previous)
  <2>1. chain' = chain /\ Last' = Last
    BY <1>3, <1>5, <1>9 DEF Rotates, server, Last
  <2>2. \/ Leads(k)
        \/ ~old.second /\ old.round = 1 /\ Leads(old.previous)
    BY <1>3, <1>8, <1>9 DEF OnCourse
  <2>3. jar.refresh + 1 = Last /\ jar.refresh # 0
    BY <1>1, <2>2 DEF Leads
  <2>4. Leads(k) => Verdict(g, k) = "ok"
    BY <1>1, <1>3, <1>9, <2>3 DEF Leads, Verdict, Replayed
  <2>5. Verdict(g, k) \in {"ok", "refused"}
    BY <1>3, <1>9 DEF Verdict
  <2>6. QED
    BY <2>1, <2>2, <2>3, <2>4, <2>5
<1>10. ASSUME jar.refresh = Last
       PROVE  /\ Verdict(g, k) \in {"ok", "completed"} /\ ~old.second
              /\ Verdict(g, k) = "completed" => old.round = 1 /\ Last' = Last
  <2>1. ~old.second
    BY <1>1, <1>3, <1>10 DEF OnCourse, Leads
  <2>2. Verdict(g, k) = IF ~Used(k) \/ chain[g] = k THEN "ok" ELSE "completed"
    BY <1>1, <1>3, <1>10 DEF Verdict, Replayed
  <2>3. Used(k) => old.round = 1 /\ Last' = Last
    BY <1>3, <1>5, <1>8, <2>1 DEF OnCourse, Rotates, server, Last
  <2>4. QED
    BY <2>1, <2>2, <2>3
<1>11. /\ new.key = journal'.pending /\ new.previous = journal'.completed /\ new.key # NoKey
       /\ new.answer = "ok" => new.refresh = Last'
       /\ new.answer = "completed" => ~new.second /\ new.round = 1 /\ jar'.refresh = Last'
  BY <1>3, <1>4, <1>6, <1>7, <1>9, <1>10 DEF OnCourse
<1>12. new.answer = "refused" =>
         ~new.second /\ new.round = 1 /\ jar'.refresh + 1 = Last' /\ chain'[Last'] = new.previous
         /\ new.previous # NoKey
  BY <1>4, <1>6, <1>9, <1>10 DEF Leads
<1>13. Succeeds(tab[t])'
  BY <1>4, <1>11, <1>12 DEF Succeeds, Leads, new
<1>14. QED
  BY <1>7, <1>13

LEMMA RefreshWorksOn == ASSUME Typed, Works, NEW t \in Tab, Refresh(t) PROVE Works'
<1>1. tab[t] \in Operation
  BY Parts DEF Typed, ClientOK
<1>2. PICK a, n : Put(t, [tab[t] EXCEPT !.at = "answered", !.answer = a, !.refresh = n,
                                        !.access = n])
  BY DEF Refresh
<1>. DEFINE r == [tab[t] EXCEPT !.at = "answered", !.answer = a, !.refresh = n, !.access = n]
<1>3. r.alone = tab[t].alone /\ r.op = tab[t].op /\ r.failed = tab[t].failed
  BY <1>1 DEF Operation
<1>4. Put(t, r) /\ Busy(t) /\ stray' = stray
  BY <1>2 DEF Refresh, Busy
<1>. HIDE DEF r
<1>5. QED
  BY <1>3, <1>4, RefreshWorked, WorksOn

LEMMA AcceptedWorks ==
    ASSUME Typed, Works, NEW t \in Tab, Accepted(t) \/ Superseded(t) PROVE Works'
<1>. DEFINE r == [tab[t] EXCEPT !.at = "applied"]
<1>1. tab[t] \in Operation
  BY Parts DEF Typed, ClientOK
<1>2. /\ r.at = "applied" /\ r.op = tab[t].op /\ r.alone = tab[t].alone
      /\ r.key = tab[t].key /\ r.answer = tab[t].answer
      /\ r.round = tab[t].round /\ r.failed = tab[t].failed
  BY <1>1 DEF Operation
<1>3. Put(t, r) /\ Busy(t) /\ tab'[t] = r
  BY <1>1, Parts DEF Accepted, Superseded, Put, Busy, Typed, ClientOK
<1>4. UNCHANGED <<chain, revoked, term, journal, stray>>
  BY DEF Accepted, Superseded, server
<1>. HIDE DEF r
<1>5. tab[t].alone => Succeeds(tab[t])'
  <2>1. SUFFICES ASSUME tab[t].alone PROVE Succeeds(tab[t])'
    OBVIOUS
  <2>2. Succeeds(tab[t]) /\ tab[t].at = "answered"
    BY <2>1, StartsAlone DEF Accepted, Superseded
  <2>3. CASE Accepted(t)
    <3>1. jar'.refresh = tab[t].refresh /\ tab[t].answer = "ok"
      BY <2>3 DEF Accepted, SetCookies
    <3>2. QED
      BY <1>2, <1>3, <1>4, <2>2, <3>1 DEF Succeeds, Last
  <2>4. CASE Superseded(t)
    BY <1>2, <1>3, <1>4, <2>2, <2>4 DEF Succeeds, Superseded, Last
  <2>5. QED
    BY <2>3, <2>4
<1>6. QED
  BY <1>2, <1>3, <1>4, <1>5, WorksOn DEF Renewable

\* An undisturbed renewal is refused only before its repair.
LEMMA RefusedWorks == ASSUME Typed, Works, NEW t \in Tab, Refused(t) PROVE Works'
<1>1. tab[t] \in Operation /\ Busy(t)
  BY Parts DEF Typed, ClientOK, Refused, Busy
<1>2. CASE /\ \/ tab[t].answer = "refused" /\ (tab[t].second \/ tab[t].previous = NoKey)
              \/ tab[t].answer = "completed" /\ tab[t].second
           /\ Fail(t)
  <2>1. ASSUME tab[t].alone PROVE FALSE
    BY <1>2, <2>1, StartsAlone DEF Succeeds, Refused, Leads
  <2>. DEFINE r == [Idle EXCEPT !.failed = tab[t].alone]
  <2>2. ~r.alone /\ ~r.failed /\ tab' = [tab EXCEPT ![t] = r]
    BY <1>2, <2>1 DEF Fail, Put, Idle
  <2>. HIDE DEF r
  <2>3. QED
    BY <1>1, <2>2, WorksQuiet
<1>. DEFINE r == [tab[t] EXCEPT !.at = "ready", !.second = TRUE, !.answer = "none"]
<1>3. CASE ~tab[t].second /\ tab[t].answer = "refused" /\ tab[t].previous # NoKey /\ Put(t, r)
  <2>1. /\ r.at = "ready" /\ r.op = tab[t].op /\ r.alone = tab[t].alone /\ r.second = TRUE
        /\ r.key = tab[t].key /\ r.previous = tab[t].previous
        /\ r.round = tab[t].round /\ r.failed = tab[t].failed
    BY <1>1 DEF Operation
  <2>2. UNCHANGED <<chain, revoked, term, jar, journal, stray>> /\ tab[t].at = "answered"
    BY DEF Refused, server
  <2>3. tab'[t] = r
    BY <1>1, <1>3, Parts DEF Put, Typed, ClientOK
  <2>. HIDE DEF r
  <2>4. tab[t].alone => Succeeds(tab[t])'
    <3>1. SUFFICES ASSUME tab[t].alone PROVE Succeeds(tab[t])'
      OBVIOUS
    <3>2. Succeeds(tab[t])
      BY <3>1, StartsAlone
    <3>3. OnCourse(tab[t])'
      BY <1>3, <2>1, <2>2, <2>3, <3>2 DEF Succeeds, OnCourse, Leads, Last
    <3>4. QED
      BY <2>1, <2>3, <3>3 DEF Succeeds
  <2>5. QED
    BY <1>1, <1>3, <2>1, <2>2, <2>4, WorksOn DEF Renewable
<1>4. QED
  BY <1>2, <1>3 DEF Refused

LEMMA CompleteWorks == ASSUME Typed, Works, NEW t \in Tab, Complete(t) PROVE Works'
<1>1. Busy(t) /\ tab[t] \in Operation
  BY Parts DEF Complete, Busy, Typed, ClientOK
<1>2. CASE Put(t, Idle)
  BY <1>1, <1>2, IdleQuiet, WorksQuiet DEF Put
<1>3. CASE Fail(t) /\ tab[t].answer = "completed" /\ tab[t].round # 1
  <2>1. ~tab[t].alone
    BY <1>3, StartsAlone DEF Succeeds, Complete
  <2>. DEFINE r == [Idle EXCEPT !.failed = tab[t].alone]
  <2>2. ~r.alone /\ ~r.failed /\ tab' = [tab EXCEPT ![t] = r]
    BY <1>3, <2>1 DEF Fail, Put, Idle
  <2>. HIDE DEF r
  <2>3. QED
    BY <1>1, <2>2, WorksQuiet
<1>4. ASSUME NEW n, Put(t, [Idle EXCEPT !.at = "again", !.round = n, !.alone = tab[t].alone])
      PROVE  Works'
  <2>. DEFINE r == [Idle EXCEPT !.at = "again", !.round = n, !.alone = tab[t].alone]
  <2>1. r.at = "again" /\ r.op = "refresh" /\ r.alone = tab[t].alone /\ r.failed = FALSE
    BY DEF Idle
  <2>2. Put(t, r) /\ tab'[t] = r
    BY <1>4, Parts DEF Put, Typed, ClientOK
  <2>. HIDE DEF r
  <2>3. UNCHANGED <<chain, revoked, term, jar, stray>> /\ journal' = Completed(t)
        /\ tab[t].at = "applied" /\ tab[t].op = "refresh" /\ ~tab[t].failed
    BY DEF Complete, server, Works
  <2>4. tab[t].alone => Succeeds(tab[t])'
    <3>1. SUFFICES ASSUME tab[t].alone PROVE Succeeds(tab[t])'
      OBVIOUS
    <3>2. tab[t].key = journal.pending /\ jar.refresh = Last
      BY <2>3, <3>1, StartsAlone DEF Succeeds
    <3>3. journal'.pending = NoKey
      BY <2>3, <3>2 DEF Completed
    <3>4. QED
      BY <2>1, <2>2, <2>3, <3>2, <3>3 DEF Succeeds, Last
  <2>5. r.failed = tab[t].failed
    BY <2>1, <2>3, <1>1 DEF Operation
  <2>6. QED
    BY <1>1, <2>1, <2>2, <2>3, <2>4, <2>5, WorksOn DEF Renewable
<1>5. \/ Put(t, Idle)
      \/ Fail(t) /\ tab[t].answer = "completed" /\ tab[t].round # 1
      \/ \E n : Put(t, [Idle EXCEPT !.at = "again", !.round = n, !.alone = tab[t].alone])
  <2>1. PICK over \in BOOLEAN :
          LET next == IF tab[t].answer = "completed" THEN IF tab[t].round = 1 THEN 2 ELSE 0
                      ELSE IF over /\ tab[t].round < 3 THEN 3 ELSE 0
          IN IF next # 0
             THEN Put(t, [Idle EXCEPT !.at = "again", !.round = next, !.alone = tab[t].alone])
             ELSE IF tab[t].answer = "completed" THEN Fail(t) ELSE Put(t, Idle)
    BY DEF Complete
  <2>2. CASE tab[t].answer = "completed"
    <3>1. CASE tab[t].round = 1
      <4>1. Put(t, [Idle EXCEPT !.at = "again", !.round = 2, !.alone = tab[t].alone])
        BY <2>1, <2>2, <3>1
      <4>2. QED
        BY <4>1
    <3>2. CASE tab[t].round # 1
      BY <2>1, <2>2, <3>2
    <3>3. QED
      BY <3>1, <3>2
  <2>3. CASE tab[t].answer # "completed"
    BY <2>1, <2>3
  <2>4. QED
    BY <2>2, <2>3
<1>6. QED
  BY <1>2, <1>3, <1>4, <1>5

LEMMA GiveUpWorks == ASSUME Typed, Works, NEW t \in Tab, GiveUp(t) PROVE Works'
<1>1. Busy(t) /\ tab' = [tab EXCEPT ![t] = Idle]
  BY DEF GiveUp, Busy, Put
<1>2. QED
  BY <1>1, IdleQuiet, WorksQuiet

LEMMA ClockWorks == ASSUME Typed, Works, Clock \/ Revoke PROVE Works'
<1>1. CASE AccessExpires \/ Purge
  BY <1>1 DEF AccessExpires, Purge, Works, Undisturbable, Succeeds, OnCourse, Leads, Used, Last,
              Renewable
<1>2. CASE tab' = Undisturbed
  <2>1. ASSUME NEW u \in Tab PROVE Good(u)'
    <3>1. tab'[u] = [tab[u] EXCEPT !.alone = FALSE] /\ tab[u] \in Operation
      BY <1>2, Parts DEF Undisturbed, Typed, ClientOK
    <3>2. tab'[u].alone = FALSE /\ tab'[u].failed = tab[u].failed
      BY <3>1 DEF Operation
    <3>3. QED
      BY <3>2 DEF Good, Works
  <2>2. QED
    BY <2>1 DEF Good, Works
<1>3. QED
  BY <1>1, <1>2 DEF Clock, TermEnds, Revoke

LEMMA StrayWorks == ASSUME Typed, Works, NEW s \in stray, ServeStray(s) PROVE Works'
<1>1. \A u \in Tab : ~tab[u].alone /\ ~tab[u].failed
  BY DEF Works, Undisturbable
<1>2. QED
  BY <1>1 DEF ServeStray, Works

LEMMA WorksNext == WorksInv /\ [Next]_vars => WorksInv'
<1> SUFFICES ASSUME WorksInv, [Next]_vars PROVE WorksInv'
  OBVIOUS
<1>1. Typed /\ KeysMade /\ Works
  BY DEF WorksInv
<1>2. ASSUME Clock \/ Revoke PROVE Works'
  BY <1>1, <1>2, ClockWorks
<1>3. ASSUME NEW t \in Tab, Renewal(t) PROVE Works'
  BY <1>1, <1>3, AcquireWorks, SendWorks, RefreshWorksOn, AcceptedWorks, RefusedWorks,
     CompleteWorks, GiveUpWorks DEF Renewal
<1>4. ASSUME NEW t \in Tab, Other(t) PROVE Works'
  BY <1>1, <1>4, OtherWorks
<1>5. ASSUME NEW s \in stray, ServeStray(s) PROVE Works'
  BY <1>1, <1>5, StrayWorks
<1>6. ASSUME UNCHANGED vars PROVE Works'
  BY <1>1, <1>6 DEF vars, server, Works, Undisturbable, Succeeds, OnCourse, Leads, Used, Last,
                    Renewable
<1>7. Works'
  BY <1>2, <1>3, <1>4, <1>5, <1>6 DEF Next
<1>8. QED
  BY <1>1, <1>7, NextTyped, KeysMadeNext DEF WorksInv

\* A renewal that nothing disturbs never fails, whatever the journal holds and whatever
\* went wrong before: from a current cookie, or one that a key of the journal leads on from.
THEOREM RenewalSucceeds == Spec => []RefreshWorks
<1>1. WorksInv => RefreshWorks
  BY DEF WorksInv, Works, RefreshWorks
<1>2. QED
  BY <1>1, WorksInit, WorksNext, PTL DEF Spec
=============================================================================
