------------------------------ MODULE WebSession ------------------------------
(***************************************************************************)
(* One sign-in of the web client: the family of refresh tokens and the     *)
(* access session of the server (apps/bff/src/lib/user-session.ts), the    *)
(* cookies and the journal that the tabs of a browser share, and the       *)
(* requests that renew it (apps/web/src/lib/authClient.ts and              *)
(* sessionRefreshJournal.ts).                                              *)
(*                                                                         *)
(* A token is the number of its generation. A successor is derived from    *)
(* its predecessor and the key of the request, so the generation n + 1 is  *)
(* the one that a request k derives from n exactly if chain[n + 1] = k.    *)
(***************************************************************************)
EXTENDS Naturals, Sequences, FiniteSets

CONSTANTS
    Tab,         \* the tabs; each has one operation at a time
    Key,         \* request keys: UUIDs, none is made twice
    NoKey,
    Ops,         \* what a tab may ask for, beside renewing
    MaxChanges,  \* changes of the password
    MaxStray     \* requests on their way whose tab has given up

ASSUME KeyAssumption == NoKey \notin Key
ASSUME BoundAssumption == Ops \subseteq {"password", "others", "logout"} /\ MaxChanges \in Nat

VARIABLES
    chain,      \* the generations: the key of the request that made each
    revoked,    \* revoked_at of the family
    term,       \* whether a refresh, or any one, may still come
    session,    \* the row of user_sessions of this family
    jar,        \* the cookies of the browser
    journal,    \* IndexedDB: the pending and the last completed key
    minted,     \* history: the keys that were made
    tab,        \* each tab's operation: what it holds and what is on its way
    stray,      \* requests that nobody waits for any more
    misled      \* history: cookies went back, or those after a change of password were lost

server == <<chain, revoked, term, session>>
vars == <<server, jar, journal, minted, tab, stray, misled>>

AnyKey == Key \cup {NoKey}
Answers == {"none", "ok", "completed", "refused"}

Idle == [op |-> "refresh", at |-> "idle", round |-> 0, key |-> NoKey, previous |-> NoKey,
         second |-> FALSE, refresh |-> 0, access |-> 0, answer |-> "none",
         alone |-> FALSE, failed |-> FALSE]
NoSession == [gen |-> 0, st |-> "none"]
Last == Len(chain)

Init ==
    /\ chain = <<NoKey>> /\ revoked = FALSE /\ term = "open"
    /\ session = [gen |-> 1, st |-> "fresh"]
    /\ jar = [refresh |-> 1, access |-> 1]
    /\ journal = [pending |-> NoKey, completed |-> NoKey]
    /\ minted = {}
    /\ tab = [t \in Tab |-> Idle]
    /\ stray = {}
    /\ misled = FALSE
-----------------------------------------------------------------------------
(* The server                                                              *)

Renewable == ~revoked /\ term = "open"

\* The key is on a retired row of the family.
Used(k) == \E i \in 2 .. Last : chain[i] = k

RotatesAnyKey(g, k) == g = Last /\ Renewable
Rotates(g, k) == g = Last /\ Renewable /\ ~Used(k)

\* The successor of a retired token under this key, as far as it is known.
Replayed(g, k) == g \in 1 .. Last - 1 /\ chain[g + 1] = k

\* A token of an earlier generation is answered with its successor only if that is the
\* current one; 409 and 401 are both a refusal.
Verdict(g, k) ==
    CASE Renewable /\ g = Last                       -> IF ~Used(k) \/ chain[g] = k
                                                        THEN "ok" ELSE "completed"
      [] Renewable /\ Replayed(g, k) /\ g + 1 = Last -> "ok"
      [] OTHER                                       -> "refused"

RevokeFamilyOnly == revoked' = TRUE /\ UNCHANGED <<chain, term, session>>

\* Revoking a family takes its access session with it.
RevokeFamily == revoked' = TRUE /\ session' = NoSession /\ UNCHANGED <<chain, term>>

\* The transaction of a refresh with token g and key k.
Serve(g, k) ==
    \/ /\ Rotates(g, k)
       /\ chain' = Append(chain, k)
       /\ session' = [gen |-> Last + 1, st |-> "fresh"]
       /\ UNCHANGED <<revoked, term>>
    \/ g = Last /\ ~revoked /\ term = "over" /\ RevokeFamily
    \/ ~Rotates(g, k) /\ ~(g = Last /\ ~revoked /\ term = "over") /\ UNCHANGED server

\* The clock: the access session, the window of the refresh, the 90 days.
AccessExpires ==
    /\ session.st = "fresh"
    /\ session' = [session EXCEPT !.st = "expired"]
    /\ UNCHANGED <<chain, revoked, term, jar, journal, minted, tab, stray, misled>>

\* An expired session is deleted by the next request that shows it, or at a sign-in.
Purge ==
    /\ session.st = "expired"
    /\ session' = NoSession
    /\ UNCHANGED <<chain, revoked, term, jar, journal, minted, tab, stray, misled>>

Undisturbed == [t \in Tab |-> [tab[t] EXCEPT !.alone = FALSE]]

TermEnds ==
    /\ term = "open" /\ session.st # "fresh"
    /\ term' \in {"lapsed", "over"}
    /\ tab' = Undisturbed
    /\ UNCHANGED <<chain, revoked, session, jar, journal, minted, stray, misled>>

\* An administrator, a password reset, or another device of the account.
Revoke ==
    /\ ~revoked
    /\ RevokeFamily
    /\ tab' = Undisturbed
    /\ UNCHANGED <<jar, journal, minted, stray, misled>>
-----------------------------------------------------------------------------
(* Renewing                                                                *)

Put(t, r) == tab' = [tab EXCEPT ![t] = r]

\* A failure is kept in mind only if nothing disturbed the operation.
Fail(t) == Put(t, [Idle EXCEPT !.failed = tab[t].alone])

Busy(t) == tab[t].at # "idle"

\* A renewal can go on from what the browser has: its cookie is the current one, or the
\* one before, and the key that leads on from there is in the journal.
Repairable ==
    \/ jar.refresh = Last
    \/ /\ jar.refresh + 1 = Last /\ chain[Last] # NoKey
       /\ chain[Last] \in {journal.pending, journal.completed}

\* Nothing else is on its way.
Alone == (\A t \in Tab : ~Busy(t)) /\ stray = {}

Open(t, round, alone) ==
    \E k \in Key :
      /\ IF journal.pending # NoKey THEN k = journal.pending /\ minted' = minted
         ELSE k \notin minted /\ minted' = minted \cup {k}
      /\ journal' = [journal EXCEPT !.pending = k]
      /\ tab' = [(IF round = 1 THEN Undisturbed ELSE tab) EXCEPT ![t] =
                   [Idle EXCEPT !.at = "ready", !.round = round, !.key = k,
                                !.previous = journal.completed, !.alone = alone]]

\* acquireRefreshAttempt, one transaction of the journal: it makes a key or goes on
\* with the pending one.
Acquire(t) ==
    /\ \/ ~Busy(t) /\ Open(t, 1, Alone /\ Renewable /\ Repairable)
       \/ tab[t].at = "again" /\ Open(t, tab[t].round, tab[t].alone)
    /\ UNCHANGED <<server, jar, stray, misled>>

\* The cookies go out as they are when the request is sent.
Send(t) ==
    /\ tab[t].at = "ready"
    /\ Put(t, [tab[t] EXCEPT !.at = "asked", !.refresh = jar.refresh])
    /\ UNCHANGED <<server, jar, journal, minted, stray, misled>>

Shown(t) == IF tab[t].second THEN tab[t].previous ELSE tab[t].key

Refresh(t) ==
    /\ tab[t].at = "asked" /\ tab[t].op = "refresh"
    /\ LET ans == Verdict(tab[t].refresh, Shown(t)) IN
       /\ Serve(tab[t].refresh, Shown(t))
       /\ Put(t, [tab[t] EXCEPT !.at = "answered", !.answer = ans,
                                !.refresh = IF ans = "ok" THEN Len(chain') ELSE 0,
                                !.access = IF ans = "ok" THEN Len(chain') ELSE 0])
    /\ UNCHANGED <<jar, journal, minted, stray, misled>>

ServeStray(s) ==
    /\ Serve(s.refresh, s.key)
    /\ stray' = stray \ {s}
    /\ UNCHANGED <<jar, journal, minted, tab, misled>>

\* Cookies that an answer brings, as soon as its head arrives.
SetCookies(t) ==
    /\ jar' = [refresh |-> tab[t].refresh, access |-> tab[t].access]
    /\ misled' = (misled \/ tab[t].refresh < jar.refresh)

Accepted(t) ==
    /\ tab[t].at = "answered" /\ tab[t].op = "refresh" /\ tab[t].answer = "ok"
    /\ SetCookies(t)
    /\ Put(t, [tab[t] EXCEPT !.at = "applied"])
    /\ UNCHANGED <<server, journal, minted, stray>>

\* The key was used up at an earlier generation: it is completed.
Superseded(t) ==
    /\ tab[t].at = "answered" /\ tab[t].answer = "completed" /\ ~tab[t].second
    /\ Put(t, [tab[t] EXCEPT !.at = "applied"])
    /\ UNCHANGED <<server, jar, journal, minted, stray, misled>>

RefusedAtOnce(t) ==
    /\ tab[t].at = "answered" /\ tab[t].op = "refresh"
    /\ tab[t].answer = "refused"
    /\ Fail(t)
    /\ UNCHANGED <<server, jar, journal, minted, stray, misled>>

\* A refusal is tried once more with the last completed key, which repairs a
\* cookie that came late.
Refused(t) ==
    /\ tab[t].at = "answered" /\ tab[t].op = "refresh"
    /\ \/ /\ ~tab[t].second /\ tab[t].answer = "refused" /\ tab[t].previous # NoKey
          /\ Put(t, [tab[t] EXCEPT !.at = "ready", !.second = TRUE, !.answer = "none"])
       \/ /\ \/ tab[t].answer = "refused" /\ (tab[t].second \/ tab[t].previous = NoKey)
             \/ tab[t].answer = "completed" /\ tab[t].second
          /\ Fail(t)
    /\ UNCHANGED <<server, jar, journal, minted, stray, misled>>

CompletedAnyway(t) == [pending |-> NoKey, completed |-> Shown(t)]

\* completeRefreshAttempt: an old completion leaves a newer pending key alone.
Completed(t) ==
    IF journal.pending = tab[t].key
    THEN [pending |-> NoKey, completed |-> Shown(t)] ELSE journal

\* A recovered session whose access is over is renewed once more; so is one whose
\* key was used up.
Complete(t) ==
    /\ tab[t].at = "applied" /\ tab[t].op = "refresh"
    /\ journal' = Completed(t)
    /\ \E over \in BOOLEAN :
         /\ session.gen = tab[t].access => over = (session.st # "fresh")
         /\ LET next == IF tab[t].answer = "completed" THEN IF tab[t].round = 1 THEN 2 ELSE 0
                        ELSE IF over /\ tab[t].round < 3 THEN 3 ELSE 0
            IN IF next # 0
               THEN Put(t, [Idle EXCEPT !.at = "again", !.round = next,
                                        !.alone = tab[t].alone])
               ELSE IF tab[t].answer = "completed" THEN Fail(t) ELSE Put(t, Idle)
    /\ UNCHANGED <<server, jar, minted, stray, misled>>

\* A time limit, a lost connection, an error of the server, a tab that is closed. A
\* request may still arrive.
GiveUp(t) ==
    /\ tab[t].at \in {"asked", "answered", "applied"} /\ tab[t].op = "refresh"
    /\ Put(t, Idle)
    /\ \/ UNCHANGED stray
       \/ /\ tab[t].at = "asked"
          /\ stray' = stray \cup {[refresh |-> tab[t].refresh, key |-> Shown(t)]}
    /\ UNCHANGED <<server, jar, journal, minted, misled>>
-----------------------------------------------------------------------------
(* A change of password, the sign-out of other devices, and of this one    *)

Ask(t, op) ==
    /\ ~Busy(t) /\ jar.refresh # 0
    /\ tab' = [Undisturbed EXCEPT ![t] =
                 [Idle EXCEPT !.op = op, !.at = "asked",
                              !.refresh = jar.refresh, !.access = jar.access]]
    /\ UNCHANGED <<server, jar, journal, minted, stray, misled>>

\* resolveUserSession, before the handler. What follows comes after the hashing of
\* the new password, or after another statement.
Authenticate(t) ==
    /\ tab[t].at = "asked" /\ tab[t].op \in {"password", "others"}
    /\ IF session = [gen |-> tab[t].access, st |-> "fresh"]
       THEN Put(t, [tab[t] EXCEPT !.at = "known"]) ELSE Put(t, Idle)
    /\ UNCHANGED <<server, jar, journal, minted, stray, misled>>

Kept(t) == session.st # "none" /\ session.gen = tab[t].access

\* Without a row for the token that is shown, no family is the current one.
RevokeOthers(t) ==
    /\ tab[t].at = "known" /\ tab[t].op = "others"
    /\ IF Kept(t) THEN UNCHANGED server ELSE RevokeFamily
    /\ Put(t, Idle)
    /\ UNCHANGED <<jar, journal, minted, stray, misled>>

Changes == Len(SelectSeq(Tail(chain), LAMBDA k : k = NoKey))

\* retainWebSessionAfterPasswordChange: the access stays, its refresh is replaced by
\* one that no request can derive; or the password is refused, or changed by another
\* request meanwhile, or the access is over; or the row of the access is gone.
ChangePassword(t) ==
    /\ tab[t].at = "known" /\ tab[t].op = "password" /\ Changes < MaxChanges
    /\ \/ /\ Kept(t) /\ session.st = "fresh" /\ Renewable
          /\ chain' = Append(chain, NoKey)
          /\ Put(t, [tab[t] EXCEPT !.at = "answered", !.answer = "ok", !.refresh = Last + 1])
          /\ UNCHANGED <<revoked, term, session>>
       \/ /\ Put(t, Idle)
          /\ UNCHANGED server
       \/ /\ ~Kept(t)
          /\ RevokeFamily
          /\ Put(t, Idle)
    /\ UNCHANGED <<jar, journal, minted, stray, misled>>

PasswordChanged(t) ==
    /\ tab[t].at = "answered" /\ tab[t].op = "password"
    /\ SetCookies(t)
    /\ Put(t, Idle)
    /\ UNCHANGED <<server, journal, minted, stray>>

\* A request or an answer is lost; with that to a change of password, the new token.
Lost(t) ==
    /\ tab[t].op # "refresh" /\ tab[t].at \in {"asked", "answered"}
    /\ misled' = (misled \/ (tab[t].op = "password" /\ tab[t].at = "answered"))
    /\ Put(t, Idle)
    /\ UNCHANGED <<server, jar, journal, minted, stray>>

\* The family is found by either cookie, whether its refresh was retired or not.
Logout(t) ==
    /\ tab[t].at = "asked" /\ tab[t].op = "logout"
    /\ IF tab[t].refresh \in 1 .. Last \/ Kept(t) THEN RevokeFamily ELSE UNCHANGED server
    /\ Put(t, [tab[t] EXCEPT !.at = "answered"])
    /\ UNCHANGED <<jar, journal, minted, stray, misled>>

LoggedOut(t) ==
    /\ tab[t].op = "logout"
    /\ \/ /\ tab[t].at = "answered"
          /\ jar' = [refresh |-> 0, access |-> 0]
          /\ Put(t, [tab[t] EXCEPT !.at = "applied"])
          /\ UNCHANGED journal
       \/ /\ tab[t].at = "applied"
          /\ journal' = [pending |-> NoKey, completed |-> NoKey]
          /\ Put(t, Idle)
          /\ UNCHANGED jar
    /\ UNCHANGED <<server, minted, stray, misled>>
-----------------------------------------------------------------------------
Clock == AccessExpires \/ Purge \/ TermEnds

Renewal(t) ==
    \/ Acquire(t) \/ Send(t) \/ Refresh(t) \/ Accepted(t)
    \/ Superseded(t) \/ Refused(t) \/ Complete(t)
    \/ GiveUp(t) /\ Cardinality(stray') <= MaxStray

Other(t) ==
    \/ \E op \in Ops : Ask(t, op)
    \/ Authenticate(t) \/ RevokeOthers(t) \/ ChangePassword(t)
    \/ PasswordChanged(t) \/ Lost(t) \/ Logout(t) \/ LoggedOut(t)

Next ==
    \/ Clock \/ Revoke
    \/ \E t \in Tab : Renewal(t) \/ Other(t)
    \/ \E s \in stray : ServeStray(s)

Spec == Init /\ [][Next]_vars
-----------------------------------------------------------------------------
(* Properties                                                              *)

Request == [refresh : 0 .. Last, key : Key]
Operation ==
    [op : {"refresh", "password", "others", "logout"},
     at : {"idle", "again", "ready", "asked", "known", "answered", "applied"},
     round : 0 .. 3, key : AnyKey, previous : AnyKey, second : BOOLEAN,
     refresh : 0 .. Last, access : 0 .. Last, answer : Answers,
     alone : BOOLEAN, failed : BOOLEAN]

\* Every variable has its type; tokens are generations of the family, a session exists
\* only as long as its family is not revoked, and a key that is shown was made.
TypeOK ==
    /\ chain \in Seq(AnyKey) /\ Last > 0 /\ chain[1] = NoKey
    /\ revoked \in BOOLEAN /\ term \in {"open", "lapsed", "over"}
    /\ session \in [gen : 0 .. Last, st : {"none", "fresh", "expired"}]
    /\ session.st = "fresh" => Renewable /\ session.gen # 0
    /\ jar \in [refresh : 0 .. Last, access : 0 .. Last]
    /\ journal \in [pending : AnyKey, completed : AnyKey]
    /\ minted \subseteq Key
    /\ tab \in [Tab -> Operation]
    /\ stray \subseteq Request
    /\ misled \in BOOLEAN

\* Whatever requests and answers were lost or repeated, a browser whose sign-in lasts can
\* renew it: its cookie is current, or the journal has the key that leads on from it. Not
\* once an answer that came late has put an older cookie back, or the answer to a change
\* of password is lost, whose token no request can derive (ADR 0030).
Recoverable ==
    Renewable /\ ~misled =>
        \/ Repairable
        \/ \E t \in Tab : /\ tab[t].op = "password" /\ tab[t].at = "answered"
                          /\ tab[t].refresh = Last

\* And it does: a renewal that nothing disturbs succeeds from there, also if a late answer
\* has put the cookie one generation back, and whatever earlier ones left in the journal.
RefreshWorks == \A t \in Tab : ~tab[t].failed

Promise ==
    INSTANCE SignIn WITH Request <- Key, Nobody <- NoKey, ended <- revoked,
        renewals <- chain, accepted <- IF session.st = "fresh" THEN {session.gen} ELSE {}

\* However often a request is sent, and in whatever order requests arrive, it renews the
\* sign-in once; one access is accepted at a time, none once the family is revoked, and
\* a revoked family is not renewed any more.
SignInKept == Promise!Spec
===============================================================================
