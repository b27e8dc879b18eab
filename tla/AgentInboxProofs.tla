--------------------------- MODULE AgentInboxProofs ---------------------------
(***************************************************************************)
(* Proofs about AgentInbox, for any messages, processes and bounds: it is  *)
(* well typed, no message is heard twice or after it was given back, turns *)
(* do not interleave, so that the transcript implements Transcript; a turn *)
(* that ends wrote all it took; a stopped turn leaves no job running; and  *)
(* messages are heard in the order in which they were sent.                *)
(***************************************************************************)
EXTENDS AgentInbox, FiniteSetTheorems, TLAPS

-----------------------------------------------------------------------------
(* The inductive invariant                                                 *)

\* The phases of a turn while it takes interjections or has some to write, and
\* once it has nothing more to write.
Taking == {"running", "closing"}
After  == {"handoff", "released", "relaying", "delivering", "over"}

Has(t, m) == inbox[m].st = "consumed" /\ inbox[m].by = t

\* The types, by variables.  A drain that goes on with an entry has one; a
\* claim has its turn.
Rows(f) == /\ f \in [Entry -> Row]
           /\ \A e \in Entry : f[e].st \in {"absent", "pending"} => f[e].by = NoTurn
           /\ \A e \in Entry : f[e].st = "consumed" => f[e].by \in Turn
Inbox  == Rows(inbox)
Leases == exec \in Execution
Turns  == turn \in [Turn -> TurnState]
Source == \A t \in Turn : turn[t].at \in {"preparing", "refusing"} => turn[t].src \in Entry
Calls  == /\ promotion \in [Msg -> Promotion]
          /\ \A m \in Msg : promotion[m].at # "idle" => promotion[m].turn \in Turn
Logs   == log \in [Turn -> Log]
Sayings == said \in [Msg -> SUBSET Turn]
JobState == {"none", "running", "ended", "cancelled", "delivered"}
Jobs   == /\ job \in [Turn -> JobState]
          /\ stop \in [Turn -> {"no", "waiting", "returned", "done", "missed"}]
Local  == /\ looking \in [Inst -> SUBSET (Msg \cup {NoMsg})]
          /\ claiming \in [Inst -> SUBSET (Msg \cup {NoMsg})]
          /\ sealer \in [Inst -> [on : BOOLEAN, todo : SUBSET Turn]]
          /\ proc \in [Inst -> {"up", "draining", "down"}]
          /\ faults \in Nat

\* What is heard was taken, and by a turn that is past its start.
Heard == \A m \in Msg : \A t \in said[m] : Has(t, m)
Spoke == \A m \in Msg : \A t \in said[m] : turn[t].at \notin Early

\* An interjection is heard by nobody before its turn writes it, and one that
\* is on its way in or back is heard by nobody.
Queued ==
    \A t \in Turn : \A m \in turn[t].queue :
        /\ Has(t, m) /\ said[m] = {} /\ promotion[m].at = "in" /\ promotion[m].turn = t
        /\ turn[t].at \in Taking
OnItsWay ==
    \A m \in Msg : promotion[m].at \in {"won", "refused"} =>
        Has(promotion[m].turn, m) /\ said[m] = {}

\* The holder of the lease is the last turn there is.
LastClaim ==
    exec.running /\ exec.holder \in Turn =>
        \A u \in Turn : u > exec.holder => turn[u].at = "free"

\* The footer of its own comes at the end.
Ended == \A t \in Turn : log[t].footer = "own" => turn[t].at \in After \cup {"footed"}

\* What a turn has taken is heard, or on its way in or back, or was lost with
\* a turn that wrote no footer.
Written ==
    \A m \in Msg, t \in Turn : Has(t, m) =>
        \/ t \in said[m]
        \/ promotion[m].at \in {"won", "refused", "lost"}
        \/ m \in turn[t].queue
        \/ log[t].footer # "own" /\ turn[t].at \in After

\* After the settlement of a stopped turn its job does not run, unless the last
\* cancellation failed.
NoJobLeft ==
    \A t \in Turn :
        stop[t] = "done" /\ (turn[t].at \in {"flushed", "footed"} \/ log[t].footer = "own")
        => job[t] # "running"

Typed  == Inbox /\ Leases /\ Turns /\ Source /\ Calls /\ Logs /\ Sayings /\ Jobs /\ Local
Placed == Heard /\ Spoke /\ Queued /\ OnItsWay /\ LastClaim
Inv    == Typed /\ Placed /\ Ended /\ Written /\ NoJobLeft

-----------------------------------------------------------------------------
(* The operators on the rows keep their types *)

LEMMA Entries == /\ Msg \subseteq Entry /\ Wakes \subseteq Entry /\ Resumes \subseteq Entry
                 /\ Msg \cap Wakes = {} /\ Msg \cap Resumes = {} /\ NoMsg \notin Entry
                 /\ \A t \in Turn : Wake(t) \in Wakes /\ Resume(t) \in Resumes
                 /\ NoTurn \notin Turn /\ SealId \notin Turn
  BY BoundsAssumption, NamesAssumption DEF Entry, Wakes, Resumes, NoTurn, SealId, Turn

LEMMA FiniteEntries == IsFiniteSet(Entry)
  <1>1. IsFiniteSet(Turn)
    BY FS_Interval, BoundsAssumption DEF Turn
  <1>2. IsFiniteSet(Wakes) /\ IsFiniteSet(Resumes)
    <2>1. [t \in Turn |-> Wake(t)] \in Surjection(Turn, Wakes)
      BY DEF Surjection, Wakes
    <2>2. [t \in Turn |-> Resume(t)] \in Surjection(Turn, Resumes)
      BY DEF Surjection, Resumes
    <2> QED BY <1>1, <2>1, <2>2, FS_Surjection
  <1> QED BY <1>2, NamesAssumption, FS_Union DEF Entry

\* A new row is numbered with a natural number.
LEMMA Numbered ==
    ASSUME NEW st \in {"pending", "cancelled"}, NEW k \in Nat
    PROVE  NewRow(st, k) \in Row /\ NewRow(st, k).st = st /\ NewRow(st, k).by = NoTurn
  <1>1. LastSeq \in Nat
    BY FiniteEntries, FS_Subset, FS_CardinalityType DEF LastSeq
  <1> QED BY <1>1 DEF NewRow, Row

\* Rows that messages may be left in without a turn having taken them: what was
\* taken or given back stays as it is, and nothing is taken.
Safe(f) ==
    \A m \in Msg : \/ f[m] = inbox[m]
                   \/ /\ inbox[m].st \in {"absent", "pending", "failed"}
                      /\ f[m].st \in {"pending", "failed", "cancelled"}

LEMMA WithdrawnSafe ==
    ASSUME Inbox, NEW m \in Entry \cup {NoMsg}
    PROVE  Rows(Withdrawn(m)) /\ Safe(Withdrawn(m))
  BY Entries DEF Inbox, Rows, Row, Safe, Withdrawn

LEMMA TakenRows ==
    ASSUME Inbox, NEW es \in SUBSET Entry, NEW t \in Turn
    PROVE  Rows(Taken(es, t))
  <1> DEFINE r(e) == [inbox[e] EXCEPT !.st = "consumed", !.by = t]
  <1>1. \A e \in Entry : r(e) \in Row /\ r(e).st = "consumed" /\ r(e).by = t
    BY DEF Inbox, Rows, Row
  <1>2. Taken(es, t) = [e \in Entry |-> IF e \in es THEN r(e) ELSE inbox[e]]
    BY DEF Taken
  <1> HIDE DEF r
  <1> QED BY <1>1, <1>2 DEF Inbox, Rows

LEMMA WokenSafe ==
    ASSUME Inbox, NEW ts \in SUBSET Turn, NEW jobs
    PROVE  /\ Rows(WithWakes(ts, jobs)) /\ Safe(WithWakes(ts, jobs))
           /\ \A m \in Msg : WithWakes(ts, jobs)[m] = inbox[m]
  <1> DEFINE waking == {t \in ts : jobs[t] = "ended"}
  <1> DEFINE rank(e) == Cardinality({u \in waking : u <= e[2]})
  <1>1. \A e : rank(e) \in Nat
    <2>1. IsFiniteSet(Turn)
      BY FS_Interval, BoundsAssumption DEF Turn
    <2> QED BY <2>1, FS_Subset, FS_CardinalityType
  <1> HIDE DEF rank
  <1>2. WithWakes(ts, jobs) =
          [e \in Entry |-> IF \E t \in waking : e = Wake(t)
                              THEN NewRow("pending", rank(e)) ELSE inbox[e]]
    BY DEF WithWakes, rank
  <1>3. \A e \in Entry : NewRow("pending", rank(e)) \in Row
                         /\ NewRow("pending", rank(e)).st = "pending"
                         /\ NewRow("pending", rank(e)).by = NoTurn
    BY <1>1, Numbered
  <1> HIDE DEF waking
  <1>4. Rows(WithWakes(ts, jobs))
    BY <1>2, <1>3 DEF Inbox, Rows
  <1>5. \A t \in waking : Wake(t) \notin Msg
    BY Entries DEF waking
  <1>6. \A m \in Msg : WithWakes(ts, jobs)[m] = inbox[m]
    BY <1>2, <1>5, Entries
  <1> QED BY <1>4, <1>6 DEF Safe

\* A delivery adds wakes, and jobs that ran go on unless they end with it.
LEMMA Delivered ==
    ASSUME Inbox, NEW jobs \in [Turn -> JobState], NEW late \in BOOLEAN,
           Delivers(jobs, late)
    PROVE  /\ Rows(inbox') /\ Safe(inbox') /\ \A m \in Msg : inbox'[m] = inbox[m]
           /\ job' \in [Turn -> JobState]
           /\ \A t \in Turn : job'[t] \in {jobs[t], "delivered"}
  <1>1. Due(jobs, late) \subseteq Turn
    BY DEF Due
  <1>2. job' = [t \in Turn |-> IF t \in Due(jobs, late) THEN "delivered" ELSE jobs[t]]
    BY DEF Delivers, Reported
  <1>3. inbox' = WithWakes(Due(jobs, late), jobs)
    BY DEF Delivers
  <1> QED BY <1>1, <1>2, <1>3, WokenSafe DEF JobState

LEMMA Ending ==
    ASSUME Inbox, Jobs, NEW t \in Turn, NEW how \in JobOver, Ends(t, how)
    PROVE  /\ Rows(inbox') /\ Safe(inbox') /\ \A m \in Msg : inbox'[m] = inbox[m]
           /\ job' \in [Turn -> JobState]
           /\ \A u \in Turn : job'[u] = "running" => job[u] = "running" /\ u # t
  <1> DEFINE jobs == [job EXCEPT ![t] = how]
  <1>1. jobs \in [Turn -> JobState] /\ \A u \in Turn : jobs[u] = "running" => job[u] = "running" /\ u # t
    BY DEF Jobs, JobState, JobOver
  <1>2. PICK late \in BOOLEAN : Delivers(jobs, late)
    BY DEF Ends
  <1> HIDE DEF jobs
  <1> QED BY <1>1, <1>2, Delivered

\* A cancellation of the job of a turn succeeds, or the stop has missed the job.
LEMMA Cancelling ==
    ASSUME Inbox, Jobs, NEW t \in Turn, CancelJob(t)
    PROVE  /\ Inbox' /\ Jobs' /\ Safe(inbox') /\ \A m \in Msg : inbox'[m] = inbox[m]
           /\ \A u \in Turn : job'[u] = "running" => job[u] = "running"
           /\ \A u \in Turn : u # t => stop'[u] = stop[u]
           /\ stop'[t] = "done" => job'[t] # "running"
  <1>1. CASE Ends(t, "cancelled") /\ stop' = [stop EXCEPT ![t] = "done"]
    <2>1. "cancelled" \in JobOver
      BY DEF JobOver
    <2>2. /\ Rows(inbox') /\ Safe(inbox') /\ \A m \in Msg : inbox'[m] = inbox[m]
          /\ job' \in [Turn -> JobState]
          /\ \A u \in Turn : job'[u] = "running" => job[u] = "running" /\ u # t
      BY <1>1, <2>1, Ending
    <2>3. Inbox'
      BY <2>2 DEF Inbox, Rows
    <2> QED BY <1>1, <2>2, <2>3 DEF Jobs
  <1>2. CASE stop' = [stop EXCEPT ![t] = "missed"] /\ UNCHANGED <<inbox, job>>
    <2>1. Inbox'
      BY <1>2 DEF Inbox, Rows
    <2> QED BY <1>2, <2>1 DEF Jobs, Safe
  <1> QED BY <1>1, <1>2 DEF CancelJob

LEMMA ContinuedSafe ==
    ASSUME Inbox, NEW u \in Turn
    PROVE  Rows(Continued(u)) /\ Safe(Continued(u))
  <1>1. NewRow("pending", 1) \in Row /\ NewRow("pending", 1).st = "pending"
        /\ NewRow("pending", 1).by = NoTurn
    BY Numbered
  <1>2. Resume(u) \in Entry \ Msg
    BY Entries
  <1> QED BY <1>1, <1>2 DEF Inbox, Rows, Safe, Continued


LEMMA Phases == {"free", "claimed", "preparing", "leaving", "refusing", "committed",
                  "handoff", "released", "relaying", "delivering", "over",
                  "running", "closing", "flushed", "footed"} \subseteq Phase
  BY DEF Phase, Early, Open

\* The records a turn is changed to are turns.
LEMMA Changed ==
    ASSUME NEW r \in TurnState
    PROVE  /\ \A e \in Entry : [r EXCEPT !.at = "preparing", !.src = e] \in TurnState
           /\ [r EXCEPT !.at = "running", !.quiet = NoMsg, !.src = NoMsg] \in TurnState
           /\ [r EXCEPT !.aborted = TRUE] \in TurnState
           /\ [r EXCEPT !.at = "closing", !.aborted = FALSE] \in TurnState
           /\ [r EXCEPT !.at = "flushed", !.queue = {}] \in TurnState
           /\ [r EXCEPT !.at = "handoff", !.queue = {}] \in TurnState
  <1>1. \A e \in Entry : [r EXCEPT !.at = "preparing", !.src = e] \in TurnState
    BY Phases DEF TurnState
  <1>2. [r EXCEPT !.at = "running", !.quiet = NoMsg, !.src = NoMsg] \in TurnState
    BY Phases DEF TurnState
  <1>3. [r EXCEPT !.aborted = TRUE] \in TurnState
    BY DEF TurnState
  <1>4. [r EXCEPT !.at = "closing", !.aborted = FALSE] \in TurnState
    BY Phases DEF TurnState
  <1>5. [r EXCEPT !.at = "flushed", !.queue = {}] \in TurnState
    BY Phases DEF TurnState
  <1>6. [r EXCEPT !.at = "handoff", !.queue = {}] \in TurnState
    BY Phases DEF TurnState
  <1> QED BY <1>1, <1>2, <1>3, <1>4, <1>5, <1>6

\* What a turn becomes.
LEMMA TurnPut ==
    ASSUME Turns, Source, NEW t \in Turn, NEW r \in TurnState,
           r.at \in {"preparing", "refusing"} => r.src \in Entry,
           turn' \in {turn, Put(t, r)}
    PROVE  Turns' /\ Source'
  <1>1. Turns'
    BY DEF Turns, Put
  <1>2. Source'
    BY DEF Turns, Source, Put
  <1> QED BY <1>1, <1>2

LEMMA TurnAt ==
    ASSUME Turns, Source, NEW t \in Turn, NEW p \in Phase \ {"preparing", "refusing"},
           turn' = At(t, p)
    PROVE  Turns' /\ Source'
  <1>1. [turn[t] EXCEPT !.at = p] \in TurnState /\ [turn[t] EXCEPT !.at = p].at = p
    BY DEF Turns, TurnState
  <1> QED BY <1>1, TurnPut DEF At

LEMMA TurnFree ==
    ASSUME Turns, Source, NEW t \in Turn, turn' = Free(t)
    PROVE  Turns' /\ Source'
  <1>1. NewTurn \in TurnState /\ NewTurn.at = "free"
    BY Phases DEF NewTurn, TurnState
  <1> QED BY <1>1, TurnPut DEF Free

LEMMA PickTurns ==
    ASSUME Turns, Source, NEW t \in Turn, NEW e \in Entry,
           turn' = Put(t, [turn[t] EXCEPT !.at = "preparing", !.src = e])
    PROVE  Turns' /\ Source'
  <1> DEFINE r == [turn[t] EXCEPT !.at = "preparing", !.src = e]
  <1>1. turn[t] \in TurnState
    BY DEF Turns
  <1>2. r \in TurnState
    BY <1>1, Changed
  <1>3. r.src \in Entry
    BY <1>1 DEF TurnState
  <1> QED BY <1>2, <1>3, TurnPut

LEMMA TurnFields ==
    ASSUME Turns, NEW t \in Turn
    PROVE  /\ turn[t].inst \in Inst \cup {NoMsg} /\ turn[t].quiet \in Msg \cup {NoMsg}
           /\ turn[t].src \in Entry \cup {NoMsg} /\ turn[t].queue \subseteq Msg
           /\ turn[t].todo \subseteq Turn /\ turn[t].at \in Phase
  BY DEF Turns, TurnState

\* A row that waits is marked.
LEMMA Marked ==
    ASSUME Inbox, NEW e \in Entry, inbox[e].st = "pending",
           NEW st \in {"failed", "cancelled"}
    PROVE  Rows([inbox EXCEPT ![e].st = st]) /\ Safe([inbox EXCEPT ![e].st = st])
  <1>1. [inbox EXCEPT ![e].st = st] \in [Entry -> Row]
    BY DEF Inbox, Rows, Row
  <1> QED BY <1>1, Entries DEF Inbox, Rows, Row, Safe

LEMMA LeaseKept ==
    ASSUME Leases
    PROVE  /\ Renewed \in Execution
           /\ \A h \in Turn \cup {SealId}, i \in Inst : Leased(h, i) \in Execution
           /\ \A h, i : Released(h, i) \in Execution
  BY DEF Leases, Execution, Renewed, Leased, Released

\* What closes an unfinished turn leaves the logs typed.
LEMMA SealedLogs ==
    ASSUME Logs, NEW u \in Turn, SealFooter(u) \/ SealEnd(u)
    PROVE  Logs'
  <1>1. log[u] \in Log BY DEF Logs
  <1>2. CASE SealFooter(u)
    <2>1. [log[u] EXCEPT !.footer = "sealed"] \in Log BY <1>1 DEF Log
    <2>2. log' = [log EXCEPT ![u] = [log[u] EXCEPT !.footer = "sealed"]]
      BY <1>2 DEF SealFooter
    <2> QED BY <2>1, <2>2 DEF Logs
  <1>3. CASE SealEnd(u)
    <2>1. [log[u] EXCEPT !.terminal = TRUE] \in Log BY <1>1 DEF Log
    <2>2. log' = [log EXCEPT ![u] = [log[u] EXCEPT !.terminal = TRUE]]
      BY <1>3 DEF SealEnd
    <2> QED BY <2>1, <2>2 DEF Logs
  <1> QED BY <1>2, <1>3

\* Every step keeps the types.
LEMMA TypedStep ==
    ASSUME Typed, Next
    PROVE  Typed'
  <1> USE DEF Typed
  <1>1. ASSUME NEW m \in Msg, NEW i \in Inst, Send(m, i) PROVE Typed'
    <2>1. Inbox' BY <1>1, Numbered, Entries DEF Send, Inbox, Rows, Row
    <2>2. Local' BY <1>1 DEF Send, Local
    <2> QED BY <1>1, <2>1, <2>2 DEF Send, Leases, Turns, Source, Calls, Logs, Sayings,
        Jobs
  <1>2. ASSUME NEW m \in Msg, Withdraw(m) PROVE Typed'
    <2>1. Inbox'
      <3>1. NewRow("cancelled", 1) \in Row /\ NewRow("cancelled", 1).st = "cancelled"
        BY Numbered
      <3>2. Rows([inbox EXCEPT ![m] = NewRow("cancelled", 1)])
        BY <3>1 DEF Inbox, Rows
      <3> QED BY <1>2, <3>2, WithdrawnSafe, Entries DEF Withdraw, Inbox
    <2> QED BY <1>2, <2>1 DEF Withdraw, Leases, Turns, Source, Calls, Logs, Sayings,
        Jobs, Local
  <1>3. ASSUME NEW i \in Inst, NEW q \in Msg \cup {NoMsg}, Look(q, i) PROVE Typed'
    <2>1. Inbox' BY <1>3, WithdrawnSafe, Entries DEF Look, Inbox
    <2>2. Local' BY <1>3 DEF Look, Local
    <2> QED BY <1>3, <2>1, <2>2 DEF Look, Leases, Turns, Source, Calls, Logs, Sayings,
        Jobs
  <1>4. ASSUME NEW i \in Inst, NEW q \in Msg \cup {NoMsg}, GiveUp(q, i)
        PROVE  Typed'
    <2>1. Local' BY <1>4 DEF GiveUp, Local
    <2> QED BY <1>4, <2>1 DEF GiveUp, Inbox, Leases, Turns, Source, Calls, Logs,
        Sayings, Jobs
  <1>5. ASSUME NEW i \in Inst, NEW q \in Msg \cup {NoMsg}, NEW t \in Turn, Claim(q, i, t)
        PROVE  Typed'
    <2>1. Leases' BY <1>5, LeaseKept DEF Claim, Leases
    <2>2. Turns' /\ Source'
      <3> DEFINE r ==
            [NewTurn EXCEPT !.at = "claimed", !.inst = i, !.quiet = q, !.todo = Unterminated(i)]
      <3>1. r \in TurnState /\ (r.at \in {"preparing", "refusing"} => r.src \in Entry)
        BY <1>5, Phases DEF Turns, Source, TurnState, NewTurn, Unterminated
      <3> QED BY <1>5, <3>1, TurnPut DEF Claim
    <2>3. Local' BY <1>5 DEF Claim, Local
    <2> QED BY <1>5, <2>1, <2>2, <2>3 DEF Claim, Inbox, Calls, Logs, Sayings, Jobs
  <1>6. ASSUME NEW t \in Turn, NEW u \in Turn, Seal(t, u) PROVE Typed'
    <2>1. Inbox' BY <1>6, ContinuedSafe DEF Seal, Inbox, SealFooter, SealEnd
    <2>2. Turns' /\ Source'
      <3> DEFINE r == [turn[t] EXCEPT !.todo = @ \ {u}]
      <3>1. r \in TurnState /\ (r.at \in {"preparing", "refusing"} => r.src \in Entry)
        BY <1>6, Phases DEF Turns, Source, TurnState
      <3> QED BY <1>6, <3>1, TurnPut DEF Seal
    <2>3. Logs' BY <1>6, SealedLogs DEF Seal
    <2> QED BY <1>6, <2>1, <2>2, <2>3 DEF Seal, Leases, Calls, Sayings, Jobs, Local,
        SealFooter, SealEnd
  <1>7. ASSUME NEW i \in Inst, SealerClaim(i) PROVE Typed'
    <2>1. Leases' BY <1>7, LeaseKept DEF SealerClaim, Leases
    <2>2. Local' BY <1>7 DEF SealerClaim, Local, Unterminated
    <2> QED BY <1>7, <2>1, <2>2 DEF SealerClaim, Inbox, Turns, Source, Calls, Logs,
        Sayings, Jobs
  <1>8. ASSUME NEW i \in Inst, NEW u \in Turn, SealerSeal(i, u) PROVE Typed'
    <2>1. Inbox' BY <1>8, ContinuedSafe DEF SealerSeal, Inbox, SealFooter, SealEnd
    <2>2. Logs' BY <1>8, SealedLogs DEF SealerSeal
    <2>3. Local'
      <3> DEFINE less == [sealer EXCEPT ![i].todo = @ \ {u}]
      <3>1. sealer' \in {sealer, less} BY <1>8 DEF SealerSeal
      <3>2. less \in [Inst -> [on : BOOLEAN, todo : SUBSET Turn]] BY DEF Local
      <3> HIDE DEF less
      <3>3. sealer' \in [Inst -> [on : BOOLEAN, todo : SUBSET Turn]]
        BY <3>1, <3>2 DEF Local
      <3> QED BY <1>8, <3>3 DEF SealerSeal, Local
    <2> QED BY <1>8, <2>1, <2>2, <2>3 DEF SealerSeal, Leases, Turns, Source, Calls,
        Sayings, Jobs, SealFooter, SealEnd
  <1>9. ASSUME NEW i \in Inst, SealerRelease(i) PROVE Typed'
    <2>1. Leases' BY <1>9, LeaseKept DEF SealerRelease, Leases
    <2>2. Local' BY <1>9 DEF SealerRelease, Local, NoSeal
    <2> QED BY <1>9, <2>1, <2>2 DEF SealerRelease, Inbox, Turns, Source, Calls, Logs,
        Sayings, Jobs
  <1>10. ASSUME NEW t \in Turn, Pick(t) PROVE Typed'
    <2>1. Turns' /\ Source' BY <1>10, Phases, TurnAt, PickTurns DEF Pick
    <2> QED BY <1>10, <2>1 DEF Pick, Inbox, Leases, Calls, Logs, Sayings, Jobs, Local
  <1>11. ASSUME NEW t \in Turn, Commit(t) PROVE Typed'
    <2>1. Inbox'
      <3>1. turn[t].src \in Entry
        BY <1>11 DEF Commit, Source
      <3>2. PICK more \in SUBSET Entry : inbox' = Taken({turn[t].src} \cup more, t)
        BY <1>11, Entries DEF Commit, Waiting
      <3>3. {turn[t].src} \cup more \in SUBSET Entry
        BY <3>1
      <3> QED BY <3>2, <3>3, TakenRows DEF Inbox
    <2>2. Leases' BY <1>11, LeaseKept DEF Commit, Leases
    <2>3. Turns' /\ Source' BY <1>11, Phases, TurnAt DEF Commit
    <2>4. Sayings' BY <1>11, Entries DEF Commit, Sayings
    <2> QED BY <1>11, <2>1, <2>2, <2>3, <2>4 DEF Commit, Calls, Logs, Jobs, Local
  <1>12. ASSUME NEW t \in Turn, Pass(t) PROVE Typed'
    <2>1. Inbox'
      <3>1. turn[t].src \in Entry
        BY <1>12 DEF Pass, Source
      <3>2. Pending(turn[t].src) => Rows([inbox EXCEPT ![turn[t].src].st = "cancelled"])
        BY <3>1, Marked DEF Pending
      <3>3. Rows(Taken({turn[t].src}, t))
        BY <3>1, TakenRows
      <3> QED BY <1>12, <3>2, <3>3 DEF Pass, Inbox
    <2>2. Leases' BY <1>12, LeaseKept DEF Pass, Leases
    <2>3. Turns' /\ Source' BY <1>12, Phases, TurnAt DEF Pass
    <2> QED BY <1>12, <2>1, <2>2, <2>3 DEF Pass, Calls, Logs, Sayings, Jobs, Local
  <1>13. ASSUME NEW t \in Turn, Leave(t) PROVE Typed'
    <2>1. Leases' BY <1>13, LeaseKept DEF Leave, Leases
    <2>2. Turns' /\ Source' BY <1>13, TurnFree DEF Leave
    <2>3. Local' BY <1>13, TurnFields DEF Leave, Local
    <2> QED BY <1>13, <2>1, <2>2, <2>3 DEF Leave, Inbox, Calls, Logs, Sayings, Jobs
  <1>14. ASSUME NEW t \in Turn, Refuse(t) PROVE Typed'
    <2>1. Leases' BY <1>14, LeaseKept DEF Refuse, Leases
    <2>2. Turns' /\ Source'
      <3> DEFINE r == [turn[t] EXCEPT !.at = "refusing"]
      <3>1. r \in TurnState /\ r.src \in Entry
        BY <1>14, Phases, Entries DEF Refuse, Turns, Source, TurnState
      <3> QED BY <1>14, <3>1, TurnPut DEF Refuse, At
    <2> QED BY <1>14, <2>1, <2>2 DEF Refuse, Inbox, Calls, Logs, Sayings, Jobs, Local
  <1>15. ASSUME NEW t \in Turn, Refused(t) PROVE Typed'
    <2>1. Inbox'
      <3>1. turn[t].src \in Entry
        BY <1>15 DEF Refused, Source
      <3>2. Pending(turn[t].src) => Rows([inbox EXCEPT ![turn[t].src].st = "failed"])
        BY <3>1, Marked DEF Pending
      <3>3. inbox' \in {inbox, Withdrawn(turn[t].src), [inbox EXCEPT ![turn[t].src].st = "failed"]}
            /\ (~Pending(turn[t].src) => inbox' \in {inbox, Withdrawn(turn[t].src)})
        BY <1>15 DEF Refused
      <3> QED BY <3>1, <3>2, <3>3, WithdrawnSafe DEF Inbox
    <2>2. Turns' /\ Source' BY <1>15, TurnFree DEF Refused
    <2>3. Local' BY <1>15, TurnFields DEF Refused, Local
    <2> QED BY <1>15, <2>1, <2>2, <2>3 DEF Refused, Leases, Calls, Logs, Sayings, Jobs
  <1>16. ASSUME NEW t \in Turn, Dropped(t) PROVE Typed'
    <2>1. Inbox' BY <1>16, WithdrawnSafe, Entries, TurnFields DEF Dropped, Inbox
    <2>2. Turns' /\ Source'
      <3>1. Gone(t) \in TurnState /\ Gone(t).at = "over"
        BY Phases DEF Turns, TurnState, Gone, NewTurn
      <3> QED BY <1>16, <3>1, TurnPut, TurnFree DEF Dropped
    <2> QED BY <1>16, <2>1, <2>2 DEF Dropped, Leases, Calls, Logs, Sayings, Jobs,
        Local
  <1>17. ASSUME NEW t \in Turn, Start(t) PROVE Typed'
    <2>1. Leases' BY <1>17, LeaseKept DEF Start, Leases
    <2>2. Turns' /\ Source'
      <3> DEFINE r == [turn[t] EXCEPT !.at = "running", !.quiet = NoMsg, !.src = NoMsg]
      <3>1. turn[t] \in TurnState BY DEF Turns
      <3>2. r \in TurnState BY <3>1, Changed
      <3>3. r.at \in {"preparing", "refusing"} => r.src \in Entry BY <3>1 DEF Source,
          TurnState
      <3> HIDE DEF r
      <3> QED BY <1>17, <3>2, <3>3, TurnPut DEF Start, r
    <2> QED BY <1>17, <2>1, <2>2 DEF Start, Inbox, Calls, Logs, Sayings, Jobs, Local
  <1>18. ASSUME NEW t \in Turn, Persist(t) PROVE Typed'
    <2>1. Logs' BY <1>18 DEF Persist, Logs, Log
    <2> QED BY <1>18, <2>1 DEF Persist, Inbox, Leases, Turns, Source, Calls, Sayings,
        Jobs, Local
  <1>19. ASSUME NEW t \in Turn, WriteQueue(t) PROVE Typed'
    <2>1. Leases' BY <1>19, LeaseKept DEF WriteQueue, Leases
    <2>2. Turns' /\ Source'
      <3> DEFINE r == [turn[t] EXCEPT !.queue = {}]
      <3>1. r \in TurnState /\ (r.at \in {"preparing", "refusing"} => r.src \in Entry)
        BY <1>19, Phases DEF Turns, Source, TurnState
      <3> QED BY <1>19, <3>1, TurnPut DEF WriteQueue
    <2>3. Sayings' BY <1>19 DEF WriteQueue, Sayings
    <2> QED BY <1>19, <2>1, <2>2, <2>3 DEF WriteQueue, Inbox, Calls, Logs, Jobs, Local
  <1>20. ASSUME NEW t \in Turn, SubmitJob(t) PROVE Typed'
    <2>1. Leases' BY <1>20, LeaseKept DEF SubmitJob, Leases
    <2>2. Jobs' BY <1>20 DEF SubmitJob, Jobs, JobState
    <2> QED BY <1>20, <2>1, <2>2 DEF SubmitJob, Inbox, Turns, Source, Calls, Logs,
        Sayings, Local
  <1>21. ASSUME NEW t \in Turn, Heartbeat(t) PROVE Typed'
    <2>1. Leases' BY <1>21, LeaseKept DEF Heartbeat, Leases
    <2>2. Turns' /\ Source'
      <3> DEFINE r == [turn[t] EXCEPT !.aborted = TRUE]
      <3>1. turn[t] \in TurnState BY DEF Turns
      <3>2. r \in TurnState BY <3>1, Changed
      <3>3. r.at \in {"preparing", "refusing"} => r.src \in Entry BY <3>1 DEF Source,
          TurnState
      <3> HIDE DEF r
      <3> QED BY <1>21, <3>2, <3>3, TurnPut DEF Heartbeat, r
    <2> QED BY <1>21, <2>1, <2>2 DEF Heartbeat, Inbox, Calls, Logs, Sayings, Jobs,
        Local
  <1>22. ASSUME NEW t \in Turn, Close(t) PROVE Typed'
    <2>1. Turns' /\ Source'
      <3> DEFINE r == [turn[t] EXCEPT !.at = "closing", !.aborted = FALSE]
      <3>1. turn[t] \in TurnState BY DEF Turns
      <3>2. r \in TurnState BY <3>1, Changed
      <3>3. r.at \in {"preparing", "refusing"} => r.src \in Entry BY <3>1 DEF Source,
          TurnState
      <3> HIDE DEF r
      <3> QED BY <1>22, <3>2, <3>3, TurnPut DEF Close, r
    <2> QED BY <1>22, <2>1 DEF Close, Inbox, Leases, Calls, Logs, Sayings, Jobs, Local
  <1>23. ASSUME NEW t \in Turn, Flush(t) PROVE Typed'
    <2>1. Leases' BY <1>23, LeaseKept DEF Flush, Leases
    <2>2. Turns' /\ Source'
      <3> DEFINE r == [turn[t] EXCEPT !.at = "flushed", !.queue = {}]
      <3>1. turn[t] \in TurnState BY DEF Turns
      <3>2. r \in TurnState BY <3>1, Changed
      <3>3. r.at \in {"preparing", "refusing"} => r.src \in Entry BY <3>1 DEF Source,
          TurnState
      <3> HIDE DEF r
      <3> QED BY <1>23, <3>2, <3>3, TurnPut DEF Flush, r
    <2>3. Sayings' BY <1>23 DEF Flush, Sayings
    <2>4. Jobs' /\ Inbox'
      <3>1. CASE SubmittedLate(t)
        BY <1>23, <3>1, Cancelling DEF Flush
      <3>2. CASE ~SubmittedLate(t)
        BY <1>23, <3>2 DEF Flush, Jobs, Inbox
      <3> QED BY <3>1, <3>2
    <2> QED BY <1>23, <2>1, <2>2, <2>3, <2>4 DEF Flush, Calls, Logs, Local
  <1>24. ASSUME NEW t \in Turn, Lost(t) PROVE Typed'
    <2>1. Turns' /\ Source'
      <3> DEFINE r == [turn[t] EXCEPT !.at = "handoff", !.queue = {}]
      <3>1. turn[t] \in TurnState BY DEF Turns
      <3>2. r \in TurnState BY <3>1, Changed
      <3>3. r.at \in {"preparing", "refusing"} => r.src \in Entry BY <3>1 DEF Source,
          TurnState
      <3> HIDE DEF r
      <3> QED BY <1>24, <3>2, <3>3, TurnPut DEF Lost, r
    <2> QED BY <1>24, <2>1 DEF Lost, Inbox, Leases, Calls, Logs, Sayings, Jobs, Local
  <1>25. ASSUME NEW t \in Turn, Footer(t) PROVE Typed'
    <2>1. Turns' /\ Source' BY <1>25, Phases, TurnAt DEF Footer
    <2>2. Logs' BY <1>25 DEF Footer, Logs, Log
    <2> QED BY <1>25, <2>1, <2>2 DEF Footer, Inbox, Leases, Calls, Sayings, Jobs,
        Local
  <1>26. ASSUME NEW t \in Turn, End(t) PROVE Typed'
    <2>1. Turns' /\ Source' BY <1>26, Phases, TurnAt DEF End
    <2>2. Logs' BY <1>26 DEF End, Logs, Log
    <2> QED BY <1>26, <2>1, <2>2 DEF End, Inbox, Leases, Calls, Sayings, Jobs, Local
  <1>27. ASSUME NEW t \in Turn, Release(t) PROVE Typed'
    <2>1. Leases' BY <1>27, LeaseKept DEF Release, Leases
    <2>2. Turns' /\ Source' BY <1>27, Phases, TurnAt DEF Release
    <2> QED BY <1>27, <2>1, <2>2 DEF Release, Inbox, Calls, Logs, Sayings, Jobs, Local
  <1>28. ASSUME NEW t \in Turn, Ask(t) PROVE Typed'
    <2>1. Turns' /\ Source' BY <1>28, Phases, TurnAt DEF Ask
    <2> QED BY <1>28, <2>1 DEF Ask, Inbox, Leases, Calls, Logs, Sayings, Jobs, Local
  <1>29. ASSUME NEW t \in Turn, Handoff(t) PROVE Typed'
    <2>1. Inbox' BY <1>29, Delivered DEF Handoff, Inbox, Jobs
    <2>2. Turns' /\ Source' BY <1>29, Phases, TurnAt DEF Handoff
    <2>3. Jobs' BY <1>29, Delivered DEF Handoff, Jobs
    <2>4. Local'
      <3>1. looking' \in [Inst -> SUBSET (Msg \cup {NoMsg})]
        <4> DEFINE more == [looking EXCEPT ![turn[t].inst] = @ \cup {NoMsg}]
        <4>1. looking' \in {looking, more} BY <1>29 DEF Handoff
        <4>2. more \in [Inst -> SUBSET (Msg \cup {NoMsg})] BY DEF Local
        <4> QED BY <4>1, <4>2 DEF Local
      <3> QED BY <1>29, <3>1 DEF Handoff, Local
    <2> QED BY <1>29, <2>1, <2>2, <2>3, <2>4 DEF Handoff, Leases, Calls, Logs, Sayings
  <1>30. ASSUME NEW t \in Turn, EndJob(t) PROVE Typed'
    <2>1. Inbox' BY <1>30, Ending DEF EndJob, JobOver, Inbox
    <2>2. Jobs' BY <1>30, Ending DEF EndJob, JobOver, Jobs
    <2> QED BY <1>30, <2>1, <2>2 DEF EndJob, Leases, Turns, Source, Calls, Logs,
        Sayings, Local
  <1>31. ASSUME NEW i \in Inst, SweepJobs(i) PROVE Typed'
    <2>1. Inbox' BY <1>31, Delivered DEF SweepJobs, Inbox, Jobs
    <2>2. Jobs' BY <1>31, Delivered DEF SweepJobs, Jobs
    <2> QED BY <1>31, <2>1, <2>2 DEF SweepJobs, Leases, Turns, Source, Calls, Logs,
        Sayings, Local
  <1>32. ASSUME NEW i \in Inst, Sweep(i) PROVE Typed'
    <2>1. Local' BY <1>32 DEF Sweep, Local
    <2> QED BY <1>32, <2>1 DEF Sweep, Inbox, Leases, Turns, Source, Calls, Logs,
        Sayings, Jobs
  <1>33. ASSUME NEW m \in Msg, NEW t \in Turn, PromoteCall(m, t) PROVE Typed'
    <2>1. Calls' BY <1>33 DEF PromoteCall, Calls, Promotion
    <2> QED BY <1>33, <2>1 DEF PromoteCall, Inbox, Leases, Turns, Source, Logs,
        Sayings, Jobs, Local
  <1>34. ASSUME NEW m \in Msg, PromoteClaim(m) PROVE Typed'
    <2>1. Inbox' BY <1>34, TakenRows, Entries DEF PromoteClaim, Inbox, Calls
    <2>2. Calls' BY <1>34 DEF PromoteClaim, Calls, Promotion
    <2> QED BY <1>34, <2>1, <2>2 DEF PromoteClaim, Leases, Turns, Source, Logs,
        Sayings, Jobs, Local
  <1>35. ASSUME NEW m \in Msg, PromoteLand(m) PROVE Typed'
    <2>1. Turns' /\ Source'
      <3> DEFINE t == promotion[m].turn
      <3> DEFINE r == [turn[t] EXCEPT !.queue = @ \cup {m}]
      <3>1. t \in Turn BY <1>35 DEF PromoteLand, Calls
      <3>2. r \in TurnState /\ (r.at \in {"preparing", "refusing"} => r.src \in Entry)
        BY <3>1 DEF Turns, Source, TurnState
      <3>3. turn' \in {turn, Put(t, r)} BY <1>35 DEF PromoteLand
      <3> HIDE DEF r, t
      <3> QED BY <3>1, <3>2, <3>3, TurnPut
    <2>2. Calls' BY <1>35 DEF PromoteLand, Calls, Promotion
    <2> QED BY <1>35, <2>1, <2>2 DEF PromoteLand, Inbox, Leases, Logs, Sayings, Jobs,
        Local
  <1>36. ASSUME NEW m \in Msg, PromoteRequeue(m) PROVE Typed'
    <2>1. Inbox'
      <3> DEFINE r == [inbox[m] EXCEPT !.st = "pending", !.by = NoTurn]
      <3>1. m \in Entry /\ r \in Row /\ r.by = NoTurn /\ r.st = "pending"
        BY Entries DEF Inbox, Rows, Row
      <3>2. inbox' \in {inbox, [inbox EXCEPT ![m] = r]}
        BY <1>36, <3>1 DEF PromoteRequeue, PutBack, Inbox, Rows
      <3> HIDE DEF r
      <3> QED BY <3>1, <3>2 DEF Inbox, Rows
    <2>2. Calls' BY <1>36 DEF PromoteRequeue, Calls, Promotion
    <2>3. Local' BY <1>36, TurnFields DEF PromoteRequeue, Local, Calls
    <2> QED BY <1>36, <2>1, <2>2, <2>3 DEF PromoteRequeue, Leases, Turns, Source,
        Logs, Sayings, Jobs
  <1>37. ASSUME NEW t \in Turn, StopBegin(t) PROVE Typed'
    <2>1. Jobs' BY <1>37 DEF StopBegin, Jobs
    <2> QED BY <1>37, <2>1 DEF StopBegin, Inbox, Leases, Turns, Source, Calls, Logs,
        Sayings, Local
  <1>38. ASSUME NEW t \in Turn, StopReturn(t) PROVE Typed'
    <2>1. Inbox'
      <3> DEFINE back(e) == [inbox[e] EXCEPT !.st = "cancelled", !.by = t]
      <3>1. \A e \in Entry : back(e) \in Row /\ back(e).st = "cancelled"
        BY DEF Inbox, Rows, Row
      <3>2. inbox' = [e \in Entry |-> IF e \in Msg /\ inbox[e].st \in {"pending", "failed"}
                                         THEN back(e) ELSE inbox[e]]
        BY <1>38 DEF StopReturn
      <3> HIDE DEF back
      <3> QED BY <3>1, <3>2 DEF Inbox, Rows
    <2>2. Jobs' BY <1>38 DEF StopReturn, Jobs
    <2> QED BY <1>38, <2>1, <2>2 DEF StopReturn, Leases, Turns, Source, Calls, Logs,
        Sayings, Local
  <1>39. ASSUME NEW t \in Turn, StopAbort(t) PROVE Typed'
    <2>1. Turns' /\ Source'
      <3> DEFINE r == [turn[t] EXCEPT !.aborted = TRUE]
      <3>1. turn[t] \in TurnState BY DEF Turns
      <3>2. r \in TurnState BY <3>1, Changed
      <3>3. r.at \in {"preparing", "refusing"} => r.src \in Entry BY <3>1 DEF Source,
          TurnState
      <3> HIDE DEF r
      <3> QED BY <1>39, <3>2, <3>3, TurnPut DEF StopAbort, r
    <2>2. Jobs' /\ Inbox'
      <3>1. CASE job[t] = "running"
        BY <1>39, <3>1, Cancelling DEF StopAbort
      <3>2. CASE job[t] # "running"
        BY <1>39, <3>2 DEF StopAbort, Jobs, Inbox
      <3> QED BY <3>1, <3>2
    <2> QED BY <1>39, <2>1, <2>2 DEF StopAbort, Leases, Calls, Logs, Sayings,
        Local
  <1>40. ASSUME Expire PROVE Typed'
    <2>1. Leases' BY <1>40 DEF Expire, Leases, Execution
    <2>2. Local' BY <1>40 DEF Expire, Local
    <2> QED BY <1>40, <2>1, <2>2 DEF Expire, Inbox, Turns, Source, Calls, Logs,
        Sayings, Jobs
  <1>41. ASSUME NEW i \in Inst, Crash(i) PROVE Typed'
    <2>1. Turns' /\ Source'
      <3>1. NewTurn \in TurnState /\ NewTurn.at = "free"
        BY Phases DEF TurnState, NewTurn
      <3>2. \A t \in Turn : Gone(t) \in TurnState /\ Gone(t).at = "over"
        BY Phases DEF Turns, TurnState, Gone, NewTurn
      <3>3. \A t \in Turn : turn'[t] \in {turn[t], NewTurn, Gone(t)}
        BY <1>41 DEF Crash
      <3>4. turn' = [t \in Turn |-> turn'[t]]
        BY <1>41 DEF Crash
      <3>5. Turns'
        BY <3>1, <3>2, <3>3, <3>4 DEF Turns
      <3> QED BY <3>1, <3>2, <3>3, <3>5 DEF Source
    <2>2. Calls' BY <1>41 DEF Crash, Calls, Promotion
    <2>3. Jobs' BY <1>41 DEF Crash, Jobs
    <2>4. Local' BY <1>41 DEF Crash, Local, NoSeal
    <2> QED BY <1>41, <2>1, <2>2, <2>3, <2>4 DEF Crash, Inbox, Leases, Logs, Sayings
  <1>42. ASSUME NEW i \in Inst, DrainBegin(i) PROVE Typed'
    <2>1. Local' BY <1>42 DEF DrainBegin, Local
    <2> QED BY <1>42, <2>1 DEF DrainBegin, Inbox, Leases, Turns, Source, Calls, Logs,
        Sayings, Jobs
  <1> QED
    <2>1. CASE User
      BY <2>1, BoundsAssumption, <1>1, <1>2, <1>33, <1>37 DEF User
    <2>2. CASE \E i \in Inst : Drain(i)
      BY <2>2, <1>3, <1>4, <1>5 DEF Drain
    <2>3. CASE \E i \in Inst : Seals(i)
      BY <2>3, <1>7, <1>8, <1>9 DEF Seals
    <2>4. CASE \E i \in Inst : SweepJobs(i) \/ Sweep(i) \/ Crash(i) \/ DrainBegin(i)
      BY <2>4, <1>31, <1>32, <1>41, <1>42
    <2>5. CASE \E t \in Turn : Runs(t)
      BY <2>5, <1>6, <1>10, <1>11, <1>12, <1>13, <1>14, <1>15, <1>16, <1>17, <1>18,
          <1>22, <1>23, <1>24, <1>25, <1>26, <1>27, <1>28, <1>29 DEF Runs
    <2>6. CASE \E t \in Turn : EndJob(t) \/ StopReturn(t) \/ StopAbort(t)
      BY <2>6, <1>30, <1>38, <1>39
    <2>7. CASE \E m \in Msg : Promote(m)
      BY <2>7, <1>34, <1>35, <1>36 DEF Promote
    <2>8. CASE \E t \in Turn : Heartbeat(t) \/ WriteQueue(t) \/ SubmitJob(t)
      BY <2>8, <1>21, <1>19, <1>20
    <2>9. CASE Expire
      BY <2>9, <1>40
    <2> QED BY <2>1, <2>2, <2>3, <2>4, <2>5, <2>6, <2>7, <2>8, <2>9 DEF Next, System,
        ExpireGone

LEMMA TypedInit == Init => Typed
  <1> SUFFICES ASSUME Init PROVE Typed
    OBVIOUS
  <1>1. Inbox /\ Leases /\ Calls
    BY DEF Init, Inbox, Rows, Row, Leases, Execution, Calls, Promotion
  <1>2. NewTurn \in TurnState /\ NewTurn.at = "free"
    BY Phases DEF NewTurn, TurnState
  <1>3. Turns /\ Source
    BY <1>2 DEF Init, Turns, Source
  <1>4. Logs /\ Sayings /\ Jobs /\ Local
    BY DEF Init, Logs, Log, Sayings, Jobs, JobState, Local, NoSeal
  <1> QED BY <1>1, <1>3, <1>4 DEF Typed

LEMMA TypedStutter == Typed /\ UNCHANGED vars => Typed'
  BY DEF vars, Typed, Inbox, Leases, Turns, Source, Calls, Logs, Sayings, Jobs, Local

\* Every reachable state is well typed, and a message that waits belongs to no
\* turn while one that was taken belongs to one (lib/agent/inbox.ts).
THEOREM TypeCorrect == Spec => []TypeOK
  <1>1. Init => Typed
    BY TypedInit
  <1>2. Typed /\ [Next]_vars => Typed'
    BY TypedStep, TypedStutter
  <1>3. Typed => TypeOK
    BY DEF Typed, TypeOK, Inbox, Rows, Leases, Turns, Calls, Logs, Sayings, Jobs, JobState,
       Local
  <1> QED BY <1>1, <1>2, <1>3, PTL DEF Spec

-----------------------------------------------------------------------------
(* The steps that disturb nothing *)

\* What a turn may become while nothing is said: it goes on, and one that takes
\* interjections keeps those it has.
Follows(s, r) ==
    /\ s.at = "free" => r.at = "free"
    /\ s.at \notin Early => r.at \notin Early
    /\ s.at \in Taking => r.at \in Taking /\ r.queue = s.queue
    /\ s.at \notin Taking => r.queue \subseteq s.queue
    /\ s.at \in After => r.at \in After
    /\ s.at = "footed" => r.at \in After \cup {"footed"}
    /\ r.at \in {"flushed", "footed"} => s.at \in {"flushed", "footed"}

TurnsFollow == \A u \in Turn : Follows(turn[u], turn'[u])

LeaseStays == exec'.running /\ exec'.holder \in Turn =>
                  exec.running /\ exec'.holder = exec.holder

JobStays(t) == /\ job'[t] = "running" => job[t] = "running"
               /\ stop'[t] = "done" => stop[t] = "done"

Calm == /\ Safe(inbox') /\ TurnsFollow /\ LeaseStays
        /\ UNCHANGED <<said, promotion>>
        /\ \A t \in Turn : log'[t].footer = "own" => log[t].footer = "own"

Jobless == \A t \in Turn : JobStays(t)

\* What every step is to keep; and it is one of Transcript.
Kept == Placed' /\ Ended' /\ Written' /\ NoJobLeft' /\ T!Next

LEMMA CalmStep ==
    ASSUME Typed, Inv, Calm, NoJobLeft'
    PROVE  Kept
  <1> USE DEF Inv, Placed, Calm
  <1>1. \A m \in Msg, t \in Turn : Has(t, m)' <=> Has(t, m)
    BY DEF Safe, Has
  <1>2. \A m \in Msg : promotion[m].at \in {"won", "refused"} => promotion[m].turn \in Turn
    BY DEF Typed, Calls
  <1>3. Heard'
    BY <1>1 DEF Heard, Typed, Sayings
  <1>4. Spoke'
    BY DEF Spoke, TurnsFollow, Follows, Typed, Sayings
  <1>5. \A t \in Turn : turn'[t].queue \subseteq turn[t].queue /\ turn[t].queue \subseteq Msg
    BY TurnFields DEF TurnsFollow, Follows, Typed
  <1>6. Queued'
    BY <1>1, <1>5 DEF Queued, TurnsFollow, Follows
  <1>7. OnItsWay'
    BY <1>1, <1>2 DEF OnItsWay
  <1>8. LastClaim'
    BY DEF LastClaim, LeaseStays, TurnsFollow, Follows
  <1>9. Ended'
    BY DEF Ended, TurnsFollow, Follows
  <1>10. Written'
    BY <1>1 DEF Written, Queued, TurnsFollow, Follows
  <1>11. T!GiveBack
    BY DEF T!GiveBack, Safe, Heard, Has, Typed, Sayings
  <1> QED BY <1>3, <1>4, <1>6, <1>7, <1>8, <1>9, <1>10, <1>11 DEF Kept, T!Next

LEMMA JoblessStep ==
    ASSUME NoJobLeft, TurnsFollow, Jobless,
           \A t \in Turn : log'[t].footer = "own" => log[t].footer = "own"
    PROVE  NoJobLeft'
  BY DEF NoJobLeft, TurnsFollow, Follows, Jobless, JobStays

LEMMA PutFollows ==
    ASSUME Turns, NEW t \in Turn, NEW r, Follows(turn[t], r), turn' \in {turn, Put(t, r)}
    PROVE  TurnsFollow
  <1>1. \A u \in Turn : Follows(turn[u], turn[u])
    BY DEF Follows
  <1>2. \A u \in Turn : turn'[u] \in {turn[u], IF u = t THEN r ELSE turn[u]}
    BY DEF Turns, Put
  <1> QED BY <1>1, <1>2 DEF TurnsFollow

LEMMA SameFollows == UNCHANGED turn => TurnsFollow
  BY DEF Follows, TurnsFollow

LEMMA LeaseFollows ==
    ASSUME Leases,
           \/ exec' \in {exec, Renewed, [exec EXCEPT !.fresh = FALSE]}
           \/ \E h, i : exec' = Released(h, i)
           \/ \E i : exec' = Leased(SealId, i)
    PROVE  LeaseStays
  BY Entries DEF LeaseStays, Leases, Execution, Renewed, Released, Leased

-----------------------------------------------------------------------------
(* Every step keeps the invariant *)

\* The messages that were given back.
Back == {m \in Msg : inbox[m].st = "cancelled"}

\* The moves of a turn from a phase to another one while nothing is said.
Moves(a, b) == /\ a # "free" /\ a \notin Taking
               /\ a \in Early \/ b \notin Early
               /\ a \in After \cup {"footed"} => b \in After
               /\ b \in {"flushed", "footed"} => a \in {"flushed", "footed"}

LEMMA QueuedFacts ==
    ASSUME Typed, Placed
    PROVE  /\ \A t \in Turn : \A m \in turn[t].queue :
                 /\ m \in Msg /\ inbox[m].st = "consumed" /\ inbox[m].by = t /\ said[m] = {}
                 /\ promotion[m].at = "in" /\ promotion[m].turn = t
                 /\ turn[t].at \in Taking
  BY TurnFields DEF Typed, Placed, Queued, Has

LEMMA AtFollows ==
    ASSUME Turns, NEW t \in Turn, NEW p, Moves(turn[t].at, p), turn' = At(t, p)
    PROVE  TurnsFollow
  <1> DEFINE r == [turn[t] EXCEPT !.at = p]
  <1>1. turn[t] \in TurnState
    BY DEF Turns
  <1>2. r.at = p /\ r.queue = turn[t].queue
    BY <1>1 DEF TurnState
  <1> HIDE DEF r
  <1>3. Follows(turn[t], r)
    BY <1>2 DEF Follows, Moves
  <1> QED BY <1>3, PutFollows DEF At, r

LEMMA FreeFollows ==
    ASSUME Turns, NEW t \in Turn, turn[t].at \in Early, turn' = Free(t)
    PROVE  TurnsFollow
  <1>1. Follows(turn[t], NewTurn)
    BY DEF Follows, NewTurn, Early, Taking, After
  <1> QED BY <1>1, PutFollows DEF Free

\* Nobody later than the holder of the lease has spoken.
LEMMA LatestHolder ==
    ASSUME Typed, Placed, NEW t \in Turn, Owns(t)
    PROVE  T!Latest(t)
  <1>1. \A m \in Msg : \A u \in said[m] : u \in Turn /\ ~(u > t)
    BY DEF Typed, Sayings, Placed, LastClaim, Spoke, Owns, Early
  <1> QED BY <1>1 DEF T!Latest, Turn

\* Every step keeps the invariant, and is a step of Transcript.
LEMMA KeptStep ==
    ASSUME Inv, Next
    PROVE  Kept
  <1> USE DEF Inv, Typed, Placed
  <1>1. ASSUME NEW m \in Msg, NEW i \in Inst, Send(m, i) PROVE Kept
    <2>1. Safe(inbox') BY <1>1, Numbered, Entries DEF Send, Safe, Inbox, Rows
    <2>2. TurnsFollow BY <1>1, SameFollows DEF Send
    <2>3. LeaseStays BY <1>1, LeaseFollows DEF Send
    <2>4. \A u \in Turn : log'[u].footer = "own" => log[u].footer = "own"
      BY <1>1 DEF Send
    <2>5. Jobless BY <1>1 DEF Send, Jobless, JobStays
    <2>6. NoJobLeft' BY <2>2, <2>4, <2>5, JoblessStep
    <2> QED BY <1>1, <2>1, <2>2, <2>3, <2>4, <2>6, CalmStep DEF Send, Calm
  <1>2. ASSUME NEW m \in Msg, Withdraw(m) PROVE Kept
    <2>1. Safe(inbox') BY <1>2, Numbered, Entries, WithdrawnSafe DEF Withdraw, Safe,
        Inbox, Rows
    <2>2. TurnsFollow BY <1>2, SameFollows DEF Withdraw
    <2>3. LeaseStays BY <1>2, LeaseFollows DEF Withdraw
    <2>4. \A u \in Turn : log'[u].footer = "own" => log[u].footer = "own"
      BY <1>2 DEF Withdraw
    <2>5. Jobless BY <1>2 DEF Withdraw, Jobless, JobStays
    <2>6. NoJobLeft' BY <2>2, <2>4, <2>5, JoblessStep
    <2> QED BY <1>2, <2>1, <2>2, <2>3, <2>4, <2>6, CalmStep DEF Withdraw, Calm
  <1>3. ASSUME NEW i \in Inst, NEW q \in Msg \cup {NoMsg}, Look(q, i) PROVE Kept
    <2>1. Safe(inbox') BY <1>3, WithdrawnSafe, Entries DEF Look, Safe
    <2>2. TurnsFollow BY <1>3, SameFollows DEF Look
    <2>3. LeaseStays BY <1>3, LeaseFollows DEF Look
    <2>4. \A u \in Turn : log'[u].footer = "own" => log[u].footer = "own"
      BY <1>3 DEF Look
    <2>5. Jobless BY <1>3 DEF Look, Jobless, JobStays
    <2>6. NoJobLeft' BY <2>2, <2>4, <2>5, JoblessStep
    <2> QED BY <1>3, <2>1, <2>2, <2>3, <2>4, <2>6, CalmStep DEF Look, Calm
  <1>4. ASSUME NEW i \in Inst, NEW q \in Msg \cup {NoMsg}, GiveUp(q, i)
        PROVE  Kept
    <2>1. Safe(inbox') BY <1>4 DEF GiveUp, Safe
    <2>2. TurnsFollow BY <1>4, SameFollows DEF GiveUp
    <2>3. LeaseStays BY <1>4, LeaseFollows DEF GiveUp
    <2>4. \A u \in Turn : log'[u].footer = "own" => log[u].footer = "own"
      BY <1>4 DEF GiveUp
    <2>5. Jobless BY <1>4 DEF GiveUp, Jobless, JobStays
    <2>6. NoJobLeft' BY <2>2, <2>4, <2>5, JoblessStep
    <2> QED BY <1>4, <2>1, <2>2, <2>3, <2>4, <2>6, CalmStep DEF GiveUp, Calm
  <1>5. ASSUME NEW i \in Inst, NEW q \in Msg \cup {NoMsg}, NEW t \in Turn, Claim(q, i, t)
        PROVE  Kept
    <2>1. turn[t].at = "free" /\ \A u \in Turn : u > t => turn[u].at = "free"
      BY <1>5 DEF Claim, NextId, Unused, Turn
    <2>2. /\ turn'[t].at = "claimed" /\ turn'[t].queue = {}
          /\ \A u \in Turn : u # t => turn'[u] = turn[u]
      BY <1>5 DEF Claim, Put, NewTurn, Turns
    <2>3. /\ UNCHANGED <<inbox, said, promotion, log, job, stop>>
          /\ exec'.running /\ exec'.holder = t
      BY <1>5 DEF Claim, Leased
    <2>4. Heard' /\ OnItsWay'
      BY <2>3 DEF Heard, OnItsWay, Has
    <2>5. Spoke'
      BY <2>1, <2>2, <2>3 DEF Spoke, Early, Sayings
    <2>6. Queued'
      BY <2>2, <2>3 DEF Queued, Has
    <2>7. LastClaim'
      BY <2>1, <2>2, <2>3 DEF LastClaim, Turn
    <2>8. Ended'
      BY <2>1, <2>2, <2>3 DEF Ended, After
    <2>9. Written'
      BY <2>1, <2>2, <2>3 DEF Written, Queued, After, Taking, Has
    <2>10. NoJobLeft'
      BY <2>1, <2>2, <2>3 DEF NoJobLeft, Ended, After
    <2>11. T!GiveBack
      BY <2>3 DEF Back, T!GiveBack
    <2> QED BY <2>4, <2>5, <2>6, <2>7, <2>8, <2>9, <2>10, <2>11 DEF Kept, Placed, T!Next
  <1>6. ASSUME NEW t \in Turn, NEW u \in Turn, Seal(t, u) PROVE Kept
    <2>1. Safe(inbox') BY <1>6, ContinuedSafe DEF Seal, SealFooter, SealEnd, Safe
    <2>2. TurnsFollow
      <3> DEFINE r == [turn[t] EXCEPT !.todo = @ \ {u}]
      <3>1. turn[t] \in TurnState
        BY DEF Turns
      <3>2. Follows(turn[t], r)
        BY <1>6, <3>1 DEF Seal, Follows, TurnState, Early, Taking, After
      <3> HIDE DEF r
      <3> QED BY <1>6, <3>2, PutFollows DEF Seal, r
    <2>3. LeaseStays BY <1>6, LeaseFollows DEF Seal
    <2>4. \A w \in Turn : log'[w].footer = "own" => log[w].footer = "own"
      BY <1>6 DEF Seal, SealFooter, SealEnd, Logs, Log
    <2>5. Jobless BY <1>6 DEF Seal, Jobless, JobStays
    <2>6. NoJobLeft' BY <2>2, <2>4, <2>5, JoblessStep
    <2> QED BY <1>6, <2>1, <2>2, <2>3, <2>4, <2>6, CalmStep DEF Seal, Calm
  <1>7. ASSUME NEW i \in Inst, SealerClaim(i) PROVE Kept
    <2>1. Safe(inbox') BY <1>7 DEF SealerClaim, Safe
    <2>2. TurnsFollow BY <1>7, SameFollows DEF SealerClaim
    <2>3. LeaseStays BY <1>7, LeaseFollows DEF SealerClaim
    <2>4. \A u \in Turn : log'[u].footer = "own" => log[u].footer = "own"
      BY <1>7 DEF SealerClaim
    <2>5. Jobless BY <1>7 DEF SealerClaim, Jobless, JobStays
    <2>6. NoJobLeft' BY <2>2, <2>4, <2>5, JoblessStep
    <2> QED BY <1>7, <2>1, <2>2, <2>3, <2>4, <2>6, CalmStep DEF SealerClaim, Calm
  <1>8. ASSUME NEW i \in Inst, NEW u \in Turn, SealerSeal(i, u) PROVE Kept
    <2>1. Safe(inbox') BY <1>8, ContinuedSafe DEF SealerSeal, SealFooter, SealEnd,
        Safe
    <2>2. TurnsFollow BY <1>8, SameFollows DEF SealerSeal
    <2>3. LeaseStays BY <1>8, LeaseFollows DEF SealerSeal
    <2>4. \A w \in Turn : log'[w].footer = "own" => log[w].footer = "own"
      BY <1>8 DEF SealerSeal, SealFooter, SealEnd, Logs, Log
    <2>5. Jobless BY <1>8 DEF SealerSeal, Jobless, JobStays
    <2>6. NoJobLeft' BY <2>2, <2>4, <2>5, JoblessStep
    <2> QED BY <1>8, <2>1, <2>2, <2>3, <2>4, <2>6, CalmStep DEF SealerSeal, Calm
  <1>9. ASSUME NEW i \in Inst, SealerRelease(i) PROVE Kept
    <2>1. Safe(inbox') BY <1>9 DEF SealerRelease, Safe
    <2>2. TurnsFollow BY <1>9, SameFollows DEF SealerRelease
    <2>3. LeaseStays BY <1>9, LeaseFollows DEF SealerRelease
    <2>4. \A u \in Turn : log'[u].footer = "own" => log[u].footer = "own"
      BY <1>9 DEF SealerRelease
    <2>5. Jobless BY <1>9 DEF SealerRelease, Jobless, JobStays
    <2>6. NoJobLeft' BY <2>2, <2>4, <2>5, JoblessStep
    <2> QED BY <1>9, <2>1, <2>2, <2>3, <2>4, <2>6, CalmStep DEF SealerRelease, Calm
  <1>10. ASSUME NEW t \in Turn, Pick(t) PROVE Kept
    <2>1. Safe(inbox') BY <1>10 DEF Pick, Safe
    <2>2. TurnsFollow
      <3>1. turn[t] \in TurnState /\ turn[t].at = "claimed"
        BY <1>10 DEF Pick, Turns
      <3>2. CASE turn' = At(t, "leaving")
        BY <1>10, <3>1, <3>2, AtFollows DEF Moves, Early, Taking, After
      <3>3. ASSUME NEW e \in Entry,
                   turn' = Put(t, [turn[t] EXCEPT !.at = "preparing", !.src = e])
            PROVE  TurnsFollow
        <4> DEFINE r == [turn[t] EXCEPT !.at = "preparing", !.src = e]
        <4>1. Follows(turn[t], r)
          BY <3>1 DEF Follows, TurnState, Early, Taking, After
        <4> QED BY <3>3, <4>1, PutFollows
      <3> QED BY <1>10, <3>2, <3>3 DEF Pick
    <2>3. LeaseStays BY <1>10, LeaseFollows DEF Pick
    <2>4. \A u \in Turn : log'[u].footer = "own" => log[u].footer = "own"
      BY <1>10 DEF Pick
    <2>5. Jobless BY <1>10 DEF Pick, Jobless, JobStays
    <2>6. NoJobLeft' BY <2>2, <2>4, <2>5, JoblessStep
    <2> QED BY <1>10, <2>1, <2>2, <2>3, <2>4, <2>6, CalmStep DEF Pick, Calm
  <1>11. ASSUME NEW t \in Turn, Commit(t) PROVE Kept
    <2>1. PICK src \in Entry :
             /\ src = turn[t].src /\ inbox[src].st = "pending" /\ turn[t].at = "preparing"
             /\ turn[t] \in TurnState
      BY <1>11 DEF Commit, Source, Pending, Turns
    <2>2. /\ turn'[t].at = "committed" /\ turn'[t].queue = turn[t].queue
          /\ \A u \in Turn : u # t => turn'[u] = turn[u]
      BY <1>11, <2>1 DEF Commit, At, Put, Turns, TurnState
    <2>3. \A m \in Msg : inbox'[m] = IF m = src THEN [inbox[m] EXCEPT !.st = "consumed", !.by = t]
                                               ELSE inbox[m]
      <3>1. PICK more \in SUBSET Wakes : inbox' = Taken({src} \cup more, t)
        BY <1>11, <2>1 DEF Commit
      <3> QED BY <3>1, Entries DEF Taken
    <2>4. src \in Msg => Has(t, src)' /\ said[src] = {} /\ inbox[src].st # "cancelled"
                         /\ \A u \in Turn : Has(u, src)' => u = t
      <3>1. src \in Msg => said[src] = {}
        BY <2>1 DEF Has, Heard, Sayings
      <3>2. inbox[src] \in Row
        BY <2>1 DEF Inbox, Rows
      <3>3. src \in Msg => inbox'[src].st = "consumed" /\ inbox'[src].by = t
        BY <2>3, <3>2 DEF Row
      <3> QED BY <2>1, <3>1, <3>3 DEF Has
    <2>5. \A m \in Msg, u \in Turn : m # src => (Has(u, m)' <=> Has(u, m))
      BY <2>3 DEF Has
    <2>6. \A u \in Turn : ~Has(u, src)
      BY <2>1 DEF Has
    <2>7. /\ UNCHANGED <<promotion, log, job, stop>> /\ LeaseStays
          /\ said' = IF src \in Msg THEN [said EXCEPT ![src] = @ \cup {t}] ELSE said
      BY <1>11, <2>1, LeaseFollows DEF Commit
    <2>8. \A m \in Msg : said'[m] = IF m = src THEN {t} ELSE said[m]
      BY <2>4, <2>7 DEF Sayings
    <2>9. Heard'
      <3>1. \A m \in Msg : m # src => \A u \in said[m] : u \in Turn /\ Has(u, m)
        BY DEF Heard, Sayings
      <3>2. \A m \in Msg : \A u \in said'[m] : IF m = src THEN u = t ELSE u \in said[m]
        BY <2>8
      <3>3. \A m \in Msg : \A u \in said'[m] : Has(u, m)'
        BY <2>4, <2>5, <3>1, <3>2
      <3> QED BY <3>3 DEF Heard
    <2>10. Spoke'
      BY <2>1, <2>2, <2>8 DEF Spoke, Early, Sayings
    <2>11. Queued'
      <3>1. \A u \in Turn : \A m \in turn[u].queue : m # src
        BY <2>1, <2>6 DEF Queued
      <3>2. \A u \in Turn : \A m \in turn[u].queue : m \in Msg /\ u # t
        BY <2>1, TurnFields DEF Queued, Taking
      <3>3. \A u \in Turn : turn'[u].queue = turn[u].queue
        BY <2>2
      <3> QED BY <2>2, <2>5, <2>7, <2>8, <3>1, <3>2, <3>3 DEF Queued
    <2>12. OnItsWay'
      BY <2>5, <2>6, <2>7, <2>8 DEF OnItsWay, Calls
    <2>13. LastClaim'
      BY <2>1, <2>2, <2>7 DEF LastClaim, LeaseStays
    <2>14. Ended'
      BY <2>1, <2>2, <2>7 DEF Ended, After
    <2>15. Written'
      BY <2>1, <2>2, <2>4, <2>5, <2>7, <2>8 DEF Written, After
    <2>16. NoJobLeft'
      BY <2>1, <2>2, <2>7 DEF NoJobLeft
    <2>17. T!Next
      <3>1. Back' = Back
        BY <2>1, <2>3 DEF Back, Inbox, Rows, Row
      <3>2. CASE src \in Msg
        <4>1. T!Latest(t)
          BY <1>11, LatestHolder DEF Commit
        <4>2. T!Hear(t)
          BY <2>4, <2>7, <2>8, <3>1, <3>2, <4>1 DEF Back, T!Hear, Sayings
        <4> QED BY <4>2 DEF T!Next
      <3>3. CASE src \notin Msg
        <4>1. T!GiveBack
          BY <2>7, <3>1, <3>3 DEF Back, T!GiveBack
        <4> QED BY <4>1 DEF T!Next
      <3> QED BY <3>2, <3>3
    <2> QED
      BY <2>9, <2>10, <2>11, <2>12, <2>13, <2>14, <2>15, <2>16, <2>17 DEF Kept, Placed
  <1>12. ASSUME NEW t \in Turn, Pass(t) PROVE Kept
    <2>1. Safe(inbox')
      <3>1. turn[t].src \in Entry
        BY <1>12 DEF Pass, Source
      <3>2. Pending(turn[t].src) => Safe([inbox EXCEPT ![turn[t].src].st = "cancelled"])
        BY <3>1, Marked DEF Pending
      <3>3. turn[t].src \in Wakes => Safe(Taken({turn[t].src}, t))
        BY Entries DEF Taken, Safe
      <3> QED BY <1>12, <3>2, <3>3 DEF Pass, Safe
    <2>2. TurnsFollow BY <1>12, AtFollows DEF Pass, Moves, Early, Taking, After
    <2>3. LeaseStays BY <1>12, LeaseFollows DEF Pass
    <2>4. \A u \in Turn : log'[u].footer = "own" => log[u].footer = "own"
      BY <1>12 DEF Pass
    <2>5. Jobless BY <1>12 DEF Pass, Jobless, JobStays
    <2>6. NoJobLeft' BY <2>2, <2>4, <2>5, JoblessStep
    <2> QED BY <1>12, <2>1, <2>2, <2>3, <2>4, <2>6, CalmStep DEF Pass, Calm
  <1>13. ASSUME NEW t \in Turn, Leave(t) PROVE Kept
    <2>1. Safe(inbox') BY <1>13 DEF Leave, Safe
    <2>2. TurnsFollow BY <1>13, FreeFollows DEF Leave, Early
    <2>3. LeaseStays BY <1>13, LeaseFollows DEF Leave
    <2>4. \A u \in Turn : log'[u].footer = "own" => log[u].footer = "own"
      BY <1>13 DEF Leave
    <2>5. Jobless BY <1>13 DEF Leave, Jobless, JobStays
    <2>6. NoJobLeft' BY <2>2, <2>4, <2>5, JoblessStep
    <2> QED BY <1>13, <2>1, <2>2, <2>3, <2>4, <2>6, CalmStep DEF Leave, Calm
  <1>14. ASSUME NEW t \in Turn, Refuse(t) PROVE Kept
    <2>1. Safe(inbox') BY <1>14 DEF Refuse, Safe
    <2>2. TurnsFollow BY <1>14, AtFollows DEF Refuse, Moves, Early, Taking, After
    <2>3. LeaseStays BY <1>14, LeaseFollows DEF Refuse
    <2>4. \A u \in Turn : log'[u].footer = "own" => log[u].footer = "own"
      BY <1>14 DEF Refuse
    <2>5. Jobless BY <1>14 DEF Refuse, Jobless, JobStays
    <2>6. NoJobLeft' BY <2>2, <2>4, <2>5, JoblessStep
    <2> QED BY <1>14, <2>1, <2>2, <2>3, <2>4, <2>6, CalmStep DEF Refuse, Calm
  <1>15. ASSUME NEW t \in Turn, Refused(t) PROVE Kept
    <2>1. Safe(inbox')
      <3>1. turn[t].src \in Entry
        BY <1>15 DEF Refused, Source
      <3>2. Pending(turn[t].src) => Safe([inbox EXCEPT ![turn[t].src].st = "failed"])
        BY <3>1, Marked DEF Pending
      <3>3. Safe(Withdrawn(turn[t].src)) /\ Safe(inbox)
        BY <3>1, WithdrawnSafe DEF Safe
      <3> QED BY <1>15, <3>2, <3>3 DEF Refused
    <2>2. TurnsFollow BY <1>15, FreeFollows DEF Refused, Early
    <2>3. LeaseStays BY <1>15, LeaseFollows DEF Refused
    <2>4. \A u \in Turn : log'[u].footer = "own" => log[u].footer = "own"
      BY <1>15 DEF Refused
    <2>5. Jobless BY <1>15 DEF Refused, Jobless, JobStays
    <2>6. NoJobLeft' BY <2>2, <2>4, <2>5, JoblessStep
    <2> QED BY <1>15, <2>1, <2>2, <2>3, <2>4, <2>6, CalmStep DEF Refused, Calm
  <1>16. ASSUME NEW t \in Turn, Dropped(t) PROVE Kept
    <2>1. Safe(inbox') BY <1>16, WithdrawnSafe, Entries, TurnFields DEF Dropped
    <2>2. TurnsFollow
      <3>1. CASE turn[t].at = "preparing"
        BY <1>16, <3>1, FreeFollows DEF Dropped, Early
      <3>2. CASE turn[t].at = "committed"
        <4>1. Follows(turn[t], Gone(t))
          BY <3>2 DEF Follows, Gone, NewTurn, Early, Taking, After
        <4> QED BY <1>16, <3>2, <4>1, PutFollows DEF Dropped
      <3> QED BY <1>16, <3>1, <3>2 DEF Dropped
    <2>3. LeaseStays BY <1>16, LeaseFollows DEF Dropped
    <2>4. \A u \in Turn : log'[u].footer = "own" => log[u].footer = "own"
      BY <1>16 DEF Dropped
    <2>5. Jobless BY <1>16 DEF Dropped, Jobless, JobStays
    <2>6. NoJobLeft' BY <2>2, <2>4, <2>5, JoblessStep
    <2> QED BY <1>16, <2>1, <2>2, <2>3, <2>4, <2>6, CalmStep DEF Dropped, Calm
  <1>17. ASSUME NEW t \in Turn, Start(t) PROVE Kept
    <2>1. Safe(inbox') BY <1>17 DEF Start, Safe
    <2>2. TurnsFollow
      <3> DEFINE r == [turn[t] EXCEPT !.at = "running", !.quiet = NoMsg, !.src = NoMsg]
      <3>1. turn[t] \in TurnState
        BY DEF Turns
      <3>2. Follows(turn[t], r)
        BY <1>17, <3>1 DEF Start, Follows, TurnState, Early, Taking, After
      <3> HIDE DEF r
      <3> QED BY <1>17, <3>2, PutFollows DEF Start, r
    <2>3. LeaseStays BY <1>17, LeaseFollows DEF Start
    <2>4. \A u \in Turn : log'[u].footer = "own" => log[u].footer = "own"
      BY <1>17 DEF Start
    <2>5. Jobless BY <1>17 DEF Start, Jobless, JobStays
    <2>6. NoJobLeft' BY <2>2, <2>4, <2>5, JoblessStep
    <2> QED BY <1>17, <2>1, <2>2, <2>3, <2>4, <2>6, CalmStep DEF Start, Calm
  <1>18. ASSUME NEW t \in Turn, Persist(t) PROVE Kept
    <2>1. Safe(inbox') BY <1>18 DEF Persist, Safe
    <2>2. TurnsFollow BY <1>18, SameFollows DEF Persist
    <2>3. LeaseStays BY <1>18, LeaseFollows DEF Persist
    <2>4. \A u \in Turn : log'[u].footer = "own" => log[u].footer = "own"
      BY <1>18 DEF Persist, Logs
    <2>5. Jobless BY <1>18 DEF Persist, Jobless, JobStays
    <2>6. NoJobLeft' BY <2>2, <2>4, <2>5, JoblessStep
    <2> QED BY <1>18, <2>1, <2>2, <2>3, <2>4, <2>6, CalmStep DEF Persist, Calm
  <1>19. ASSUME NEW t \in Turn, WriteQueue(t) PROVE Kept
    <2>1. turn[t] \in TurnState /\ turn[t].at = "running" /\ turn[t].queue \subseteq Msg
      BY <1>19 DEF WriteQueue, Turns, TurnState
    <2>2. /\ turn'[t].at = "running" /\ turn'[t].queue = {}
          /\ \A u \in Turn : u # t => turn'[u] = turn[u]
      BY <1>19, <2>1 DEF WriteQueue, Put, Turns, TurnState
    <2>3. /\ UNCHANGED <<inbox, promotion, log, stop>> /\ LeaseStays
          /\ \A m \in Msg : said'[m] = IF m \in turn[t].queue THEN said[m] \cup {t} ELSE said[m]
      BY <1>19, LeaseFollows DEF WriteQueue
    <2>4. /\ \A m \in turn[t].queue : Has(t, m) /\ said[m] = {} /\ promotion[m].at = "in"
          /\ \A m \in Msg : \A u \in Turn : m \in turn[t].queue /\ m \in turn[u].queue => u = t
      BY QueuedFacts DEF Has
    <2>14. \A m \in Msg : \A u \in said'[m] : u \in said[m] \/ (m \in turn[t].queue /\ u = t)
      BY <2>3
    <2>5. Heard'
      <3>1. \A m \in Msg : \A u \in said'[m] : Has(u, m)
        BY <2>4, <2>14 DEF Heard
      <3> QED BY <2>3, <3>1 DEF Heard, Has
    <2>6. Spoke'
      <3>1. \A m \in Msg : \A u \in said'[m] : u \in Turn /\ turn[u].at \notin Early
        BY <2>1, <2>14 DEF Spoke, Sayings, Early
      <3> QED BY <2>1, <2>2, <3>1 DEF Spoke, Early
    <2>7. Queued'
      <3>1. \A u \in Turn : \A m \in turn'[u].queue : u # t /\ m \in turn[u].queue /\ m \in Msg
        BY <2>2, QueuedFacts
      <3>2. \A u \in Turn : \A m \in turn'[u].queue : said'[m] = said[m] /\ turn'[u] = turn[u]
        BY <2>2, <2>3, <2>4, <3>1
      <3> QED BY <2>3, <3>1, <3>2, QueuedFacts DEF Queued, Has
    <2>8. OnItsWay'
      BY <2>3, <2>4 DEF OnItsWay, Has
    <2>9. LastClaim'
      BY <2>1, <2>2, <2>3 DEF LastClaim, LeaseStays
    <2>10. Ended'
      BY <2>1, <2>2, <2>3 DEF Ended, After
    <2>11. Written'
      BY <2>1, <2>2, <2>3 DEF Written, Has, After
    <2>12. NoJobLeft'
      BY <1>19, <2>1, <2>2, <2>3 DEF NoJobLeft, WriteQueue
    <2>13. T!Next
      <3>1. UNCHANGED Back
        BY <2>3 DEF Back
      <3>2. CASE turn[t].queue = {}
        <4>1. said' = said
          BY <2>3, <3>2, <1>19 DEF WriteQueue, Sayings
        <4> QED BY <3>1, <4>1 DEF Back, T!GiveBack, T!Next
      <3>3. CASE turn[t].queue # {}
        <4>1. T!Latest(t)
          BY <1>19, <3>3, LatestHolder DEF WriteQueue
        <4>2. \A m \in turn[t].queue : m \notin Back
          BY <2>4 DEF Has, Back
        <4>3. T!Hear(t)
          BY <1>19, <2>3, <2>4, <3>1, <4>1, <4>2 DEF Back, T!Hear, WriteQueue
        <4> QED BY <4>3 DEF T!Next
      <3> QED BY <3>2, <3>3
    <2> QED
      BY <2>5, <2>6, <2>7, <2>8, <2>9, <2>10, <2>11, <2>12, <2>13 DEF Kept, Placed
  <1>20. ASSUME NEW t \in Turn, SubmitJob(t) PROVE Kept
    <2>1. Safe(inbox') BY <1>20 DEF SubmitJob, Safe
    <2>2. TurnsFollow BY <1>20, SameFollows DEF SubmitJob
    <2>3. LeaseStays BY <1>20, LeaseFollows DEF SubmitJob
    <2>4. \A u \in Turn : log'[u].footer = "own" => log[u].footer = "own"
      BY <1>20 DEF SubmitJob
    <2>5. NoJobLeft'
      BY <1>20 DEF SubmitJob, NoJobLeft, Ended, After, Jobs
    <2> QED BY <1>20, <2>1, <2>2, <2>3, <2>4, <2>5, CalmStep DEF SubmitJob, Calm
  <1>21. ASSUME NEW t \in Turn, Heartbeat(t) PROVE Kept
    <2>1. Safe(inbox') BY <1>21 DEF Heartbeat, Safe
    <2>2. TurnsFollow
      <3> DEFINE r == [turn[t] EXCEPT !.aborted = TRUE]
      <3>1. turn[t] \in TurnState
        BY DEF Turns
      <3>2. Follows(turn[t], r)
        BY <1>21, <3>1 DEF Heartbeat, Follows, TurnState, Early, Taking, After
      <3> HIDE DEF r
      <3> QED BY <1>21, <3>2, PutFollows DEF Heartbeat, r
    <2>3. LeaseStays BY <1>21, LeaseFollows DEF Heartbeat
    <2>4. \A u \in Turn : log'[u].footer = "own" => log[u].footer = "own"
      BY <1>21 DEF Heartbeat
    <2>5. Jobless BY <1>21 DEF Heartbeat, Jobless, JobStays
    <2>6. NoJobLeft' BY <2>2, <2>4, <2>5, JoblessStep
    <2> QED BY <1>21, <2>1, <2>2, <2>3, <2>4, <2>6, CalmStep DEF Heartbeat, Calm
  <1>22. ASSUME NEW t \in Turn, Close(t) PROVE Kept
    <2>1. Safe(inbox') BY <1>22 DEF Close, Safe
    <2>2. TurnsFollow
      <3> DEFINE r == [turn[t] EXCEPT !.at = "closing", !.aborted = FALSE]
      <3>1. turn[t] \in TurnState
        BY DEF Turns
      <3>2. Follows(turn[t], r)
        BY <1>22, <3>1 DEF Close, Follows, TurnState, Early, Taking, After
      <3> HIDE DEF r
      <3> QED BY <1>22, <3>2, PutFollows DEF Close, r
    <2>3. LeaseStays BY <1>22, LeaseFollows DEF Close
    <2>4. \A u \in Turn : log'[u].footer = "own" => log[u].footer = "own"
      BY <1>22 DEF Close
    <2>5. Jobless BY <1>22 DEF Close, Jobless, JobStays
    <2>6. NoJobLeft' BY <2>2, <2>4, <2>5, JoblessStep
    <2> QED BY <1>22, <2>1, <2>2, <2>3, <2>4, <2>6, CalmStep DEF Close, Calm
  <1>23. ASSUME NEW t \in Turn, Flush(t) PROVE Kept
    <2>1. turn[t] \in TurnState /\ turn[t].at = "closing" /\ turn[t].queue \subseteq Msg
      BY <1>23 DEF Flush, Turns, TurnState
    <2>2. /\ turn'[t].at = "flushed" /\ turn'[t].queue = {}
          /\ \A u \in Turn : u # t => turn'[u] = turn[u]
      BY <1>23, <2>1 DEF Flush, Put, Turns, TurnState
    <2>3. /\ UNCHANGED <<promotion, log>> /\ LeaseStays
          /\ \A m \in Msg : said'[m] = IF m \in turn[t].queue THEN said[m] \cup {t} ELSE said[m]
          /\ \A m \in Msg : inbox'[m] = inbox[m]
      <3>1. \A m \in Msg : inbox'[m] = inbox[m]
        <4>1. CASE SubmittedLate(t) BY <1>23, <4>1, Cancelling DEF Flush
        <4>2. CASE ~SubmittedLate(t) BY <1>23, <4>2 DEF Flush
        <4> QED BY <4>1, <4>2
      <3> QED BY <1>23, <3>1, LeaseFollows DEF Flush
    <2>4. /\ \A m \in turn[t].queue : Has(t, m) /\ said[m] = {} /\ promotion[m].at = "in"
          /\ \A m \in Msg : \A u \in Turn : m \in turn[t].queue /\ m \in turn[u].queue => u = t
      BY QueuedFacts DEF Has
    <2>14. \A m \in Msg : \A u \in said'[m] : u \in said[m] \/ (m \in turn[t].queue /\ u = t)
      BY <2>3
    <2>5. Heard'
      <3>1. \A m \in Msg : \A u \in said'[m] : Has(u, m)
        BY <2>4, <2>14 DEF Heard
      <3> QED BY <2>3, <3>1 DEF Heard, Has
    <2>6. Spoke'
      <3>1. \A m \in Msg : \A u \in said'[m] : u \in Turn /\ turn[u].at \notin Early
        BY <2>1, <2>14 DEF Spoke, Sayings, Early
      <3> QED BY <2>1, <2>2, <3>1 DEF Spoke, Early
    <2>7. Queued'
      <3>1. \A u \in Turn : \A m \in turn'[u].queue : u # t /\ m \in turn[u].queue /\ m \in Msg
        BY <2>2, QueuedFacts
      <3>2. \A u \in Turn : \A m \in turn'[u].queue : said'[m] = said[m] /\ turn'[u] = turn[u]
        BY <2>2, <2>3, <2>4, <3>1
      <3> QED BY <2>3, <3>1, <3>2, QueuedFacts DEF Queued, Has
    <2>8. OnItsWay'
      BY <2>3, <2>4 DEF OnItsWay, Has
    <2>9. LastClaim'
      BY <2>1, <2>2, <2>3 DEF LastClaim, LeaseStays
    <2>10. Ended'
      BY <2>1, <2>2, <2>3 DEF Ended, After
    <2>11. Written'
      <3>1. \A m \in Msg, u \in Turn : Has(u, m)' <=> Has(u, m)
        BY <2>3 DEF Has
      <3>2. \A m \in Msg, u \in Turn : m \in turn[u].queue => u \in said'[m] \/ m \in turn'[u].queue
        BY <2>2, <2>3
      <3>3. \A m \in Msg, u \in Turn : u \in said[m] => u \in said'[m]
        BY <2>3
      <3>4. \A u \in Turn : log'[u] = log[u] /\ (turn[u].at \in After => turn'[u].at \in After)
        BY <2>1, <2>2, <2>3 DEF After
      <3> QED BY <2>3, <3>1, <3>2, <3>3, <3>4 DEF Written
    <2>12. NoJobLeft'
      <3>1. CASE SubmittedLate(t)
        <4>1. /\ \A u \in Turn : job'[u] = "running" => job[u] = "running"
              /\ \A u \in Turn : u # t => stop'[u] = stop[u]
              /\ stop'[t] = "done" => job'[t] # "running"
          BY <1>23, <3>1, Cancelling DEF Flush
        <4> QED BY <2>1, <2>2, <2>3, <4>1 DEF NoJobLeft
      <3>2. CASE ~SubmittedLate(t)
        BY <1>23, <3>2, <2>1, <2>2, <2>3 DEF NoJobLeft, Flush, SubmittedLate, Jobs
      <3> QED BY <3>1, <3>2
    <2>13. T!Next
      <3>1. UNCHANGED Back
        BY <2>3 DEF Back
      <3>2. CASE turn[t].queue = {}
        <4>1. said' = said
          BY <2>3, <3>2, <1>23 DEF Flush, Sayings
        <4> QED BY <3>1, <4>1 DEF Back, T!GiveBack, T!Next
      <3>3. CASE turn[t].queue # {}
        <4>1. T!Latest(t)
          BY <1>23, <3>3, LatestHolder DEF Flush
        <4>2. \A m \in turn[t].queue : m \notin Back
          BY <2>4 DEF Has, Back
        <4>3. T!Hear(t)
          BY <1>23, <2>3, <2>4, <3>1, <4>1, <4>2 DEF Back, T!Hear, Flush
        <4> QED BY <4>3 DEF T!Next
      <3> QED BY <3>2, <3>3
    <2> QED
      BY <2>5, <2>6, <2>7, <2>8, <2>9, <2>10, <2>11, <2>12, <2>13 DEF Kept, Placed
  <1>24. ASSUME NEW t \in Turn, Lost(t) PROVE Kept
    <2>1. turn[t] \in TurnState /\ turn[t].at = "closing" /\ log[t].footer # "own"
      BY <1>24 DEF Lost, Turns, Ended, After
    <2>2. /\ turn'[t].at = "handoff" /\ turn'[t].queue = {}
          /\ \A u \in Turn : u # t => turn'[u] = turn[u]
      BY <1>24, <2>1 DEF Lost, Put, Turns, TurnState
    <2>3. UNCHANGED <<inbox, exec, said, promotion, log, job, stop>>
      BY <1>24 DEF Lost
    <2>4. Heard' /\ OnItsWay'
      BY <2>3 DEF Heard, OnItsWay, Has
    <2>5. Spoke' /\ LastClaim'
      BY <2>1, <2>2, <2>3 DEF Spoke, LastClaim, Early, Sayings
    <2>6. Queued'
      BY <2>2, <2>3 DEF Queued, Has
    <2>7. Ended' /\ NoJobLeft'
      BY <2>1, <2>2, <2>3 DEF Ended, After, NoJobLeft
    <2>8. Written'
      BY <2>1, <2>2, <2>3 DEF Written, After, Has
    <2>9. T!GiveBack
      BY <2>3 DEF Back, T!GiveBack
    <2> QED BY <2>4, <2>5, <2>6, <2>7, <2>8, <2>9 DEF Kept, Placed, T!Next
  <1>25. ASSUME NEW t \in Turn, Footer(t) PROVE Kept
    <2>1. turn[t] \in TurnState /\ turn[t].at = "flushed"
      BY <1>25 DEF Footer, Turns
    <2>2. /\ turn'[t].at = "footed" /\ turn'[t].queue = turn[t].queue
          /\ \A u \in Turn : u # t => turn'[u] = turn[u]
      BY <1>25, <2>1 DEF Footer, At, Put, Turns, TurnState
    <2>3. /\ UNCHANGED <<inbox, exec, said, promotion, job, stop>>
          /\ \A u \in Turn : u # t => log'[u] = log[u]
      BY <1>25 DEF Footer, Logs
    <2>4. Heard' /\ OnItsWay'
      BY <2>3 DEF Heard, OnItsWay, Has
    <2>5. Spoke' /\ LastClaim'
      BY <2>1, <2>2, <2>3 DEF Spoke, LastClaim, Early, Sayings
    <2>6. Queued'
      BY <2>1, <2>2, <2>3 DEF Queued, Has, Taking
    <2>7. Ended' /\ NoJobLeft'
      BY <2>1, <2>2, <2>3 DEF Ended, After, NoJobLeft
    <2>8. Written'
      BY <2>1, <2>2, <2>3 DEF Written, After, Has, Queued, Taking
    <2>9. T!GiveBack
      BY <2>3 DEF Back, T!GiveBack
    <2> QED BY <2>4, <2>5, <2>6, <2>7, <2>8, <2>9 DEF Kept, Placed, T!Next
  <1>26. ASSUME NEW t \in Turn, End(t) PROVE Kept
    <2>1. Safe(inbox') BY <1>26 DEF End, Safe
    <2>2. TurnsFollow BY <1>26, AtFollows DEF End, Moves, Early, Taking, After
    <2>3. LeaseStays BY <1>26, LeaseFollows DEF End
    <2>4. \A u \in Turn : log'[u].footer = "own" => log[u].footer = "own"
      BY <1>26 DEF End, Logs
    <2>5. Jobless BY <1>26 DEF End, Jobless, JobStays
    <2>6. NoJobLeft' BY <2>2, <2>4, <2>5, JoblessStep
    <2> QED BY <1>26, <2>1, <2>2, <2>3, <2>4, <2>6, CalmStep DEF End, Calm
  <1>27. ASSUME NEW t \in Turn, Release(t) PROVE Kept
    <2>1. Safe(inbox') BY <1>27 DEF Release, Safe
    <2>2. TurnsFollow BY <1>27, AtFollows DEF Release, Moves, Early, Taking, After
    <2>3. LeaseStays BY <1>27, LeaseFollows DEF Release
    <2>4. \A u \in Turn : log'[u].footer = "own" => log[u].footer = "own"
      BY <1>27 DEF Release
    <2>5. Jobless BY <1>27 DEF Release, Jobless, JobStays
    <2>6. NoJobLeft' BY <2>2, <2>4, <2>5, JoblessStep
    <2> QED BY <1>27, <2>1, <2>2, <2>3, <2>4, <2>6, CalmStep DEF Release, Calm
  <1>28. ASSUME NEW t \in Turn, Ask(t) PROVE Kept
    <2>1. Safe(inbox') BY <1>28 DEF Ask, Safe
    <2>2. TurnsFollow BY <1>28, AtFollows DEF Ask, Moves, Early, Taking, After
    <2>3. LeaseStays BY <1>28, LeaseFollows DEF Ask
    <2>4. \A u \in Turn : log'[u].footer = "own" => log[u].footer = "own"
      BY <1>28 DEF Ask
    <2>5. Jobless BY <1>28 DEF Ask, Jobless, JobStays
    <2>6. NoJobLeft' BY <2>2, <2>4, <2>5, JoblessStep
    <2> QED BY <1>28, <2>1, <2>2, <2>3, <2>4, <2>6, CalmStep DEF Ask, Calm
  <1>29. ASSUME NEW t \in Turn, Handoff(t) PROVE Kept
    <2>1. Safe(inbox') BY <1>29, Delivered DEF Handoff, Jobs
    <2>2. TurnsFollow BY <1>29, AtFollows DEF Handoff, Moves, Early, Taking, After
    <2>3. LeaseStays BY <1>29, LeaseFollows DEF Handoff
    <2>4. \A u \in Turn : log'[u].footer = "own" => log[u].footer = "own"
      BY <1>29 DEF Handoff
    <2>5. Jobless BY <1>29, Delivered DEF Handoff, Jobless, JobStays, Jobs
    <2>6. NoJobLeft' BY <2>2, <2>4, <2>5, JoblessStep
    <2> QED BY <1>29, <2>1, <2>2, <2>3, <2>4, <2>6, CalmStep DEF Handoff, Calm
  <1>30. ASSUME NEW t \in Turn, EndJob(t) PROVE Kept
    <2>1. Safe(inbox') BY <1>30, Ending DEF EndJob, JobOver
    <2>2. TurnsFollow BY <1>30, SameFollows DEF EndJob
    <2>3. LeaseStays BY <1>30, LeaseFollows DEF EndJob
    <2>4. \A u \in Turn : log'[u].footer = "own" => log[u].footer = "own"
      BY <1>30 DEF EndJob
    <2>5. Jobless BY <1>30, Ending DEF EndJob, JobOver, Jobless, JobStays
    <2>6. NoJobLeft' BY <2>2, <2>4, <2>5, JoblessStep
    <2> QED BY <1>30, <2>1, <2>2, <2>3, <2>4, <2>6, CalmStep DEF EndJob, Calm
  <1>31. ASSUME NEW i \in Inst, SweepJobs(i) PROVE Kept
    <2>1. Safe(inbox') BY <1>31, Delivered DEF SweepJobs, Jobs
    <2>2. TurnsFollow BY <1>31, SameFollows DEF SweepJobs
    <2>3. LeaseStays BY <1>31, LeaseFollows DEF SweepJobs
    <2>4. \A u \in Turn : log'[u].footer = "own" => log[u].footer = "own"
      BY <1>31 DEF SweepJobs
    <2>5. Jobless BY <1>31, Delivered DEF SweepJobs, Jobless, JobStays, Jobs
    <2>6. NoJobLeft' BY <2>2, <2>4, <2>5, JoblessStep
    <2> QED BY <1>31, <2>1, <2>2, <2>3, <2>4, <2>6, CalmStep DEF SweepJobs, Calm
  <1>32. ASSUME NEW i \in Inst, Sweep(i) PROVE Kept
    <2>1. Safe(inbox') BY <1>32 DEF Sweep, Safe
    <2>2. TurnsFollow BY <1>32, SameFollows DEF Sweep
    <2>3. LeaseStays BY <1>32, LeaseFollows DEF Sweep
    <2>4. \A u \in Turn : log'[u].footer = "own" => log[u].footer = "own"
      BY <1>32 DEF Sweep
    <2>5. Jobless BY <1>32 DEF Sweep, Jobless, JobStays
    <2>6. NoJobLeft' BY <2>2, <2>4, <2>5, JoblessStep
    <2> QED BY <1>32, <2>1, <2>2, <2>3, <2>4, <2>6, CalmStep DEF Sweep, Calm
  <1>33. ASSUME NEW m \in Msg, NEW t \in Turn, PromoteCall(m, t) PROVE Kept
    <2>1. UNCHANGED <<inbox, exec, turn, log, said, job, stop>>
      BY <1>33 DEF PromoteCall
    <2>2. /\ promotion[m].at = "idle" /\ promotion'[m].at = "calling"
          /\ \A n \in Msg : n # m => promotion'[n] = promotion[n]
      BY <1>33 DEF PromoteCall, Calls
    <2>3. Heard' /\ Spoke' /\ LastClaim' /\ Ended' /\ NoJobLeft'
      BY <2>1 DEF Heard, Spoke, LastClaim, Ended, NoJobLeft, Has
    <2>4. Queued'
      BY <2>1, <2>2, QueuedFacts DEF Queued, Has
    <2>5. OnItsWay'
      BY <2>1, <2>2 DEF OnItsWay, Has
    <2>6. Written'
      BY <2>1, <2>2 DEF Written, Has
    <2>7. T!GiveBack
      BY <2>1 DEF Back, T!GiveBack
    <2> QED BY <2>3, <2>4, <2>5, <2>6, <2>7 DEF Kept, Placed, T!Next
  <1>34. ASSUME NEW m \in Msg, PromoteClaim(m) PROVE Kept
    <2> DEFINE t == promotion[m].turn
    <2>1. UNCHANGED <<exec, turn, log, said, job, stop>> /\ promotion[m].at = "calling"
      BY <1>34 DEF PromoteClaim
    <2>2. /\ t \in Turn
          /\ \A n \in Msg : n # m => promotion'[n] = promotion[n] /\ inbox'[n] = inbox[n]
      BY <1>34, Entries DEF PromoteClaim, Calls, Taken
    <2>3. \/ /\ inbox[m].st = "pending"
             /\ promotion'[m].at = "won" /\ promotion'[m].turn = t
             /\ inbox'[m].st = "consumed" /\ inbox'[m].by = t
          \/ inbox'[m] = inbox[m] /\ promotion'[m].at = "idle"
      <3>1. promotion[m] \in Promotion /\ inbox[m] \in Row
        BY Entries DEF Calls, Inbox, Rows
      <3>2. CASE Claimable(m)
        <4>1. /\ inbox[m].st = "pending" /\ inbox' = Taken({m}, t)
              /\ promotion' = [promotion EXCEPT ![m].at = "won"]
          BY <1>34, <3>2 DEF PromoteClaim, Claimable, Pending
        <4>2. promotion'[m].at = "won" /\ promotion'[m].turn = t
          BY <3>1, <4>1 DEF Calls, Promotion
        <4>3. inbox'[m].st = "consumed" /\ inbox'[m].by = t
          BY <3>1, <4>1, Entries DEF Taken, Row
        <4> QED BY <4>1, <4>2, <4>3
      <3>3. CASE ~Claimable(m)
        BY <1>34, <3>3 DEF PromoteClaim, Claimable, Pending, Calls
      <3> QED BY <3>2, <3>3
    <2>4. inbox[m].st = "pending" => said[m] = {}
      BY DEF Heard, Has, Sayings
    <2>5. Heard'
      BY <2>1, <2>2, <2>3, <2>4 DEF Heard, Has
    <2>6. Spoke' /\ LastClaim' /\ Ended' /\ NoJobLeft'
      BY <2>1 DEF Spoke, LastClaim, Ended, NoJobLeft
    <2>7. Queued'
      BY <2>1, <2>2, QueuedFacts DEF Queued, Has
    <2>8. OnItsWay'
      <3>1. ASSUME promotion'[m].at = "won" PROVE Has(t, m)' /\ said'[m] = {} /\ promotion'[m].turn = t
        BY <2>1, <2>3, <2>4, <3>1 DEF Has
      <3> QED BY <2>1, <2>2, <2>3, <3>1 DEF OnItsWay, Has
    <2>9. Written'
      BY <2>1, <2>2, <2>3 DEF Written, Has
    <2>10. T!GiveBack
      <3>1. UNCHANGED Back
        BY <2>2, <2>3 DEF Back
      <3> QED BY <2>1, <3>1 DEF Back, T!GiveBack
    <2> QED BY <2>5, <2>6, <2>7, <2>8, <2>9, <2>10 DEF Kept, Placed, T!Next
  <1>35. ASSUME NEW m \in Msg, PromoteLand(m) PROVE Kept
    <2> DEFINE t == promotion[m].turn
    <2>1. /\ UNCHANGED <<inbox, exec, log, said, job, stop>>
          /\ promotion[m].at = "won" /\ t \in Turn /\ Has(t, m) /\ said[m] = {}
      BY <1>35 DEF PromoteLand, Calls, OnItsWay
    <2>2. \A n \in Msg : n # m => promotion'[n] = promotion[n]
      BY <1>35 DEF PromoteLand, Calls
    <2>3. \/ /\ turn[t].at = "running" /\ turn'[t].at = "running"
             /\ turn'[t].queue = turn[t].queue \cup {m}
             /\ promotion'[m] = [at |-> "in", turn |-> t]
             /\ \A u \in Turn : u # t => turn'[u] = turn[u]
          \/ UNCHANGED turn /\ promotion'[m] = [at |-> "refused", turn |-> t]
      <3>1. turn[t] \in TurnState
        BY <2>1 DEF Turns
      <3> QED BY <1>35, <2>1, <3>1 DEF PromoteLand, Takes, Put, Calls, Promotion, Turns, TurnState
    <2>4. Heard'
      BY <2>1 DEF Heard, Has
    <2>5. Spoke' /\ LastClaim' /\ Ended' /\ NoJobLeft'
      <3>1. \A u \in Turn : turn'[u].at = turn[u].at
        BY <2>1, <2>3
      <3> QED BY <2>1, <3>1 DEF Spoke, LastClaim, Ended, NoJobLeft, Sayings
    <2>6. Queued'
      <3>1. \A u \in Turn : \A n \in turn[u].queue : n # m /\ n \in Msg
        BY <2>1, QueuedFacts
      <3> QED BY <2>1, <2>2, <2>3, <3>1 DEF Queued, Has, Taking
    <2>7. OnItsWay'
      BY <2>1, <2>2, <2>3 DEF OnItsWay, Has
    <2>8. Written'
      BY <2>1, <2>2, <2>3 DEF Written, Has
    <2>9. T!GiveBack
      BY <2>1 DEF Back, T!GiveBack
    <2> QED BY <2>4, <2>5, <2>6, <2>7, <2>8, <2>9 DEF Kept, Placed, T!Next
  <1>36. ASSUME NEW m \in Msg, PromoteRequeue(m) PROVE Kept
    <2> DEFINE t == promotion[m].turn
    <2>1. /\ UNCHANGED <<exec, turn, log, said, job, stop>>
          /\ promotion[m].at = "refused" /\ t \in Turn /\ Has(t, m) /\ said[m] = {}
      BY <1>36 DEF PromoteRequeue, Calls, OnItsWay
    <2>2. /\ \A n \in Msg : n # m => promotion'[n] = promotion[n] /\ inbox'[n] = inbox[n]
          /\ inbox'[m].st = "pending" /\ promotion'[m].at = "requeued"
      BY <1>36, <2>1, Entries DEF PromoteRequeue, PutBack, TakenBy, Has, Calls, Promotion, Inbox, Rows, Row
    <2>3. Heard'
      BY <2>1, <2>2 DEF Heard, Has
    <2>4. Spoke' /\ LastClaim' /\ Ended' /\ NoJobLeft'
      BY <2>1 DEF Spoke, LastClaim, Ended, NoJobLeft
    <2>5. Queued'
      BY <2>1, <2>2, QueuedFacts DEF Queued, Has
    <2>6. OnItsWay'
      BY <2>1, <2>2 DEF OnItsWay, Has
    <2>7. Written'
      BY <2>1, <2>2 DEF Written, Has
    <2>8. T!GiveBack
      <3>1. UNCHANGED Back
        BY <2>1, <2>2 DEF Back, Has
      <3> QED BY <2>1, <3>1 DEF Back, T!GiveBack
    <2> QED BY <2>3, <2>4, <2>5, <2>6, <2>7, <2>8 DEF Kept, Placed, T!Next
  <1>37. ASSUME NEW t \in Turn, StopBegin(t) PROVE Kept
    <2>1. Safe(inbox') BY <1>37 DEF StopBegin, Safe
    <2>2. TurnsFollow BY <1>37, SameFollows DEF StopBegin
    <2>3. LeaseStays BY <1>37, LeaseFollows DEF StopBegin
    <2>4. \A u \in Turn : log'[u].footer = "own" => log[u].footer = "own"
      BY <1>37 DEF StopBegin
    <2>5. Jobless BY <1>37 DEF StopBegin, Jobless, JobStays, Jobs
    <2>6. NoJobLeft' BY <2>2, <2>4, <2>5, JoblessStep
    <2> QED BY <1>37, <2>1, <2>2, <2>3, <2>4, <2>6, CalmStep DEF StopBegin, Calm
  <1>38. ASSUME NEW t \in Turn, StopReturn(t) PROVE Kept
    <2>1. Safe(inbox') BY <1>38, Entries DEF StopReturn, Safe, Inbox, Rows, Row
    <2>2. TurnsFollow BY <1>38, SameFollows DEF StopReturn
    <2>3. LeaseStays BY <1>38, LeaseFollows DEF StopReturn
    <2>4. \A u \in Turn : log'[u].footer = "own" => log[u].footer = "own"
      BY <1>38 DEF StopReturn
    <2>5. Jobless BY <1>38 DEF StopReturn, Jobless, JobStays, Jobs
    <2>6. NoJobLeft' BY <2>2, <2>4, <2>5, JoblessStep
    <2> QED BY <1>38, <2>1, <2>2, <2>3, <2>4, <2>6, CalmStep DEF StopReturn, Calm
  <1>39. ASSUME NEW t \in Turn, StopAbort(t) PROVE Kept
    <2>1. /\ Safe(inbox')
          /\ \A u \in Turn : job'[u] = "running" => job[u] = "running"
          /\ \A u \in Turn : u # t => stop'[u] = stop[u]
          /\ stop'[t] = "done" => job'[t] # "running"
      <3>1. CASE job[t] = "running"
        BY <1>39, <3>1, Cancelling DEF StopAbort
      <3>2. CASE job[t] # "running"
        BY <1>39, <3>2 DEF StopAbort, Safe, Jobs
      <3> QED BY <3>1, <3>2
    <2>2. TurnsFollow
      <3> DEFINE r == [turn[t] EXCEPT !.aborted = TRUE]
      <3>1. turn[t] \in TurnState
        BY DEF Turns
      <3>2. Follows(turn[t], r)
        BY <1>39, <3>1 DEF StopAbort, Follows, TurnState, Early, Taking, After
      <3> HIDE DEF r
      <3> QED BY <1>39, <3>2, PutFollows DEF StopAbort, r
    <2>3. LeaseStays BY <1>39, LeaseFollows DEF StopAbort
    <2>4. \A u \in Turn : log'[u].footer = "own" => log[u].footer = "own"
      BY <1>39 DEF StopAbort
    <2>5. NoJobLeft'
      BY <2>1, <2>2, <2>4 DEF NoJobLeft, TurnsFollow, Follows
    <2> QED BY <1>39, <2>1, <2>2, <2>3, <2>4, <2>5, CalmStep DEF StopAbort, Calm
  <1>40. ASSUME Expire PROVE Kept
    <2>1. Safe(inbox') BY <1>40 DEF Expire, Safe
    <2>2. TurnsFollow BY <1>40, SameFollows DEF Expire
    <2>3. LeaseStays BY <1>40, LeaseFollows DEF Expire
    <2>4. \A u \in Turn : log'[u].footer = "own" => log[u].footer = "own"
      BY <1>40 DEF Expire
    <2>5. Jobless BY <1>40 DEF Expire, Jobless, JobStays
    <2>6. NoJobLeft' BY <2>2, <2>4, <2>5, JoblessStep
    <2> QED BY <1>40, <2>1, <2>2, <2>3, <2>4, <2>6, CalmStep DEF Expire, Calm
  <1>41. ASSUME NEW i \in Inst, Crash(i) PROVE Kept
    <2>1. /\ UNCHANGED <<inbox, exec, said, log, job>>
          /\ \A t \in Turn : stop'[t] = "done" => stop[t] = "done"
      BY <1>41 DEF Crash
    <2>2. \A t \in Turn :
             \/ turn'[t] = turn[t]
             \/ turn[t].at \in Early /\ turn'[t].at = "free" /\ turn'[t].queue = {}
             \/ turn[t].at \notin Early /\ turn'[t].at = "over" /\ turn'[t].queue = {}
      <3>1. \A t \in Turn :
               \/ turn'[t] = turn[t]
               \/ turn[t].at \in Early /\ turn'[t] = NewTurn
               \/ turn[t].at \notin Early /\ turn'[t] = Gone(t)
        BY <1>41 DEF Crash
      <3>2. /\ NewTurn.at = "free" /\ NewTurn.queue = {}
            /\ \A t \in Turn : Gone(t).at = "over" /\ Gone(t).queue = {}
        BY DEF Gone, NewTurn
      <3> QED BY <3>1, <3>2
    <2>3. \A m \in Msg :
             \/ promotion'[m] = promotion[m]
             \/ /\ promotion[m].at \in {"calling", "won", "refused"}
                /\ promotion'[m].at = "lost"
      BY <1>41 DEF Crash, Calls, Promotion
    <2>4. Heard' /\ OnItsWay'
      BY <2>1, <2>3 DEF Heard, OnItsWay, Has
    <2>5. Spoke' /\ LastClaim'
      BY <2>1, <2>2 DEF Spoke, LastClaim, Early, Sayings
    <2>6. Queued'
      BY <2>1, <2>2, <2>3, QueuedFacts DEF Queued, Has
    <2>7. Ended' /\ NoJobLeft'
      BY <2>1, <2>2 DEF Ended, NoJobLeft, After, Early
    <2>8. Written'
      BY <2>1, <2>2, <2>3 DEF Written, Has, Queued, Taking, After, Early, Ended
    <2>9. T!GiveBack
      BY <2>1 DEF Back, T!GiveBack
    <2> QED BY <2>4, <2>5, <2>6, <2>7, <2>8, <2>9 DEF Kept, Placed, T!Next
  <1>42. ASSUME NEW i \in Inst, DrainBegin(i) PROVE Kept
    <2>1. Safe(inbox') BY <1>42 DEF DrainBegin, Safe
    <2>2. TurnsFollow BY <1>42, SameFollows DEF DrainBegin
    <2>3. LeaseStays BY <1>42, LeaseFollows DEF DrainBegin
    <2>4. \A u \in Turn : log'[u].footer = "own" => log[u].footer = "own"
      BY <1>42 DEF DrainBegin
    <2>5. Jobless BY <1>42 DEF DrainBegin, Jobless, JobStays
    <2>6. NoJobLeft' BY <2>2, <2>4, <2>5, JoblessStep
    <2> QED BY <1>42, <2>1, <2>2, <2>3, <2>4, <2>6, CalmStep DEF DrainBegin, Calm
  <1> QED
    <2>1. CASE User
      BY <2>1, BoundsAssumption, <1>1, <1>2, <1>33, <1>37 DEF User
    <2>2. CASE \E i \in Inst : Drain(i)
      BY <2>2, <1>3, <1>4, <1>5 DEF Drain
    <2>3. CASE \E i \in Inst : Seals(i)
      BY <2>3, <1>7, <1>8, <1>9 DEF Seals
    <2>4. CASE \E i \in Inst : SweepJobs(i) \/ Sweep(i) \/ Crash(i) \/ DrainBegin(i)
      BY <2>4, <1>31, <1>32, <1>41, <1>42
    <2>5. CASE \E t \in Turn : Runs(t)
      BY <2>5, <1>6, <1>10, <1>11, <1>12, <1>13, <1>14, <1>15, <1>16, <1>17, <1>18,
          <1>22, <1>23, <1>24, <1>25, <1>26, <1>27, <1>28, <1>29 DEF Runs
    <2>6. CASE \E t \in Turn : EndJob(t) \/ StopReturn(t) \/ StopAbort(t)
      BY <2>6, <1>30, <1>38, <1>39
    <2>7. CASE \E m \in Msg : Promote(m)
      BY <2>7, <1>34, <1>35, <1>36 DEF Promote
    <2>8. CASE \E t \in Turn : Heartbeat(t) \/ WriteQueue(t) \/ SubmitJob(t)
      BY <2>8, <1>21, <1>19, <1>20
    <2>9. CASE Expire
      BY <2>9, <1>40
    <2> QED BY <2>1, <2>2, <2>3, <2>4, <2>5, <2>6, <2>7, <2>8, <2>9 DEF Next, System,
        ExpireGone

-----------------------------------------------------------------------------
(* The theorems *)

LEMMA InvInit == Init => Inv /\ T!Init
  <1> SUFFICES ASSUME Init PROVE Inv /\ T!Init
    OBVIOUS
  <1>1. \A t \in Turn : turn[t].at = "free" /\ turn[t].queue = {}
    BY DEF Init, NewTurn
  <1>2. Typed
    BY TypedInit
  <1>3. Placed
    BY <1>1 DEF Init, Placed, Heard, Spoke, Queued, OnItsWay, LastClaim
  <1>4. Ended /\ Written /\ NoJobLeft
    BY <1>1, Entries DEF Init, Ended, Written, NoJobLeft, Has
  <1>5. T!Init
    BY Entries DEF Init, T!Init
  <1> QED BY <1>2, <1>3, <1>4, <1>5 DEF Inv

LEMMA InvStutter == Inv /\ UNCHANGED vars => Inv'
  <1> SUFFICES ASSUME Inv, UNCHANGED vars PROVE Inv'
    OBVIOUS
  <1>1. Typed'
    BY TypedStutter DEF Inv
  <1>2. Placed'
    BY DEF vars, Inv, Placed, Heard, Spoke, Queued, OnItsWay, LastClaim, Has
  <1>3. Ended' /\ Written' /\ NoJobLeft'
    BY DEF vars, Inv, Ended, Written, NoJobLeft, Has
  <1> QED BY <1>1, <1>2, <1>3 DEF Inv

THEOREM Invariance == Spec => []Inv
  <1>1. Inv /\ [Next]_vars => Inv'
    BY TypedStep, KeptStep, InvStutter DEF Inv, Kept
  <1> QED BY <1>1, InvInit, PTL DEF Spec

\* However a message reaches a turn, it is heard by at most one, and by none once
\* it was withdrawn or given back (conversation-inbox.ts, turn-preparation.ts).
THEOREM OncePerMessage == Spec => []HeardOnce
  <1>1. Inv => HeardOnce
    BY Entries DEF Inv, Placed, Heard, Has, HeardOnce
  <1> QED BY <1>1, Invariance, PTL

\* AgentInbox implements Transcript: each step hears messages that were neither
\* heard nor given back, in a turn no later one has spoken before, or gives back
\* messages nobody heard, or changes neither.
THEOREM Implementation == Spec => TranscriptKept
  <1>1. Inv /\ [Next]_vars => [T!Next]_<<said, Back>>
    <2>1. Inv /\ UNCHANGED vars => UNCHANGED <<said, Back>>
      BY DEF vars, Back
    <2> QED BY <2>1, KeptStep DEF Kept
  <1> QED BY <1>1, InvInit, Invariance, PTL DEF Spec, TranscriptKept, T!Spec, Back

\* A turn that ends with its own footer has written every message it took and did
\* not send back (turn.ts).
THEOREM WroteAll == Spec => []EndedTurnWroteAll
  <1>1. Inv => EndedTurnWroteAll
    BY Entries DEF Inv, Placed, Ended, Written, Queued, Taking, After, Has, TakenBy,
       EndedTurnWroteAll
  <1> QED BY <1>1, Invariance, PTL

\* A turn the user stopped and that ended by itself leaves a job running only if
\* the last attempt to cancel it failed, wherever between a submission, the stop
\* and the close of the turn the job came.
THEOREM NoJobAfterStop == Spec => []StoppedTurnHasNoJob
  <1>1. Inv => StoppedTurnHasNoJob
    BY DEF Inv, NoJobLeft, StoppedTurnHasNoJob
  <1> QED BY <1>1, Invariance, PTL

-----------------------------------------------------------------------------
(* The order in which messages are heard *)

\* The messages no turn has claimed as an interjection.
Plain == {m \in Msg : promotion[m].at \in {"idle", "calling"}}

\* The messages are numbered up to the last number given; a turn that is being
\* prepared is for the first of the plain messages that wait; what was heard is
\* ahead of all that waits, and was heard in order.
Numbers == \A m \in Msg : inbox[m].st # "absent" => inbox[m].seq <= LastSeq
Ahead   == \A t \in Turn : turn[t].at = "preparing" /\ turn[t].src \in Msg =>
               /\ inbox[turn[t].src].st # "absent"
               /\ \A m \in Plain : Pending(m) => inbox[turn[t].src].seq <= inbox[m].seq
Behind  == \A m, n \in Plain :
               said[n] # {} /\ inbox[m].seq < inbox[n].seq => ~Pending(m)
Ordered == \A m, n \in Plain : \A t \in said[m], u \in said[n] :
               inbox[m].seq < inbox[n].seq => t < u
InOrder == Numbers /\ Ahead /\ Behind /\ Ordered

\* The rows there are stay, and no message gets one.
Rest(f) == /\ \A e \in Entry : inbox[e].st # "absent" => f[e].st # "absent"
           /\ \A m \in Msg : /\ inbox[m].st = "absent" => f[m].st = "absent"
                             /\ f[m].seq = inbox[m].seq

\* No turn starts to be prepared.
Prepared == \A t \in Turn : turn'[t].at = "preparing" =>
                turn[t].at = "preparing" /\ turn'[t].src = turn[t].src

\* Nothing happens to a plain message but that it no longer waits, or is no
\* longer plain.
Orderly == /\ Rest(inbox') /\ Prepared
           /\ \A m \in Plain' : /\ m \in Plain /\ said'[m] = said[m]
                                /\ Pending(m)' => Pending(m)

LEMMA LastGrows ==
    ASSUME Inbox, Inbox', Rest(inbox')
    PROVE  LastSeq \in Nat /\ LastSeq' \in Nat /\ LastSeq <= LastSeq'
  <1> DEFINE A == {e \in Entry : inbox[e].st # "absent"}
  <1> DEFINE B == {e \in Entry : inbox'[e].st # "absent"}
  <1>1. A \subseteq B
    BY DEF Rest
  <1>2. IsFiniteSet(A) /\ IsFiniteSet(B)
    BY FiniteEntries, FS_Subset
  <1>3. LastSeq = Cardinality(A) /\ LastSeq' = Cardinality(B)
    BY DEF LastSeq
  <1> HIDE DEF A, B
  <1>4. Cardinality(A) <= Cardinality(B)
    BY <1>1, <1>2, FS_Subset
  <1> QED BY <1>2, <1>3, <1>4, FS_CardinalityType

LEMMA OrderlyStep ==
    ASSUME Typed, Typed', InOrder, Orderly
    PROVE  InOrder'
  <1> USE DEF InOrder, Orderly
  <1>1. LastSeq \in Nat /\ LastSeq' \in Nat /\ LastSeq <= LastSeq'
    BY LastGrows DEF Typed
  <1>2. \A m \in Msg : /\ inbox'[m].seq = inbox[m].seq /\ inbox[m].seq \in Nat
                       /\ inbox'[m].st # "absent" <=> inbox[m].st # "absent"
    BY Entries DEF Rest, Typed, Inbox, Rows, Row
  <1>3. Numbers'
    BY <1>1, <1>2 DEF Numbers
  <1>4. Plain' \subseteq Plain /\ Plain \subseteq Msg
    BY DEF Plain
  <1>5. Ahead'
    BY <1>2, <1>4 DEF Ahead, Prepared
  <1>6. Behind'
    BY <1>2, <1>4 DEF Behind
  <1>7. Ordered'
    BY <1>2, <1>4 DEF Ordered
  <1> QED BY <1>3, <1>5, <1>6, <1>7

LEMMA PutPrepared ==
    ASSUME Turns, NEW t \in Turn, NEW r, turn' \in {turn, Put(t, r)},
           r.at = "preparing" => turn[t].at = "preparing" /\ r.src = turn[t].src
    PROVE  Prepared
  BY DEF Turns, Put, Prepared

LEMMA AtPrepared ==
    ASSUME Turns, NEW t \in Turn, NEW p \in Phase \ {"preparing"}, turn' = At(t, p)
    PROVE  Prepared
  <1> DEFINE r == [turn[t] EXCEPT !.at = p]
  <1>1. r.at = p
    BY DEF Turns, TurnState
  <1>2. turn' = Put(t, r)
    BY DEF At
  <1> HIDE DEF r
  <1> QED BY <1>1, <1>2, PutPrepared

LEMMA FreePrepared ==
    ASSUME Turns, NEW t \in Turn, turn' \in {Free(t), Put(t, Gone(t))}
    PROVE  Prepared
  <1>1. NewTurn.at # "preparing" /\ Gone(t).at # "preparing"
    BY DEF NewTurn, Gone
  <1> QED BY <1>1, PutPrepared DEF Free

LEMMA SamePrepared == UNCHANGED turn => Prepared
  BY DEF Prepared

LEMMA WokenRest ==
    ASSUME Inbox, NEW ts \in SUBSET Turn, NEW jobs
    PROVE  Rest(WithWakes(ts, jobs))
  <1> DEFINE waking == {t \in ts : jobs[t] = "ended"}
  <1> DEFINE rank(e) == Cardinality({u \in waking : u <= e[2]})
  <1>1. WithWakes(ts, jobs) =
          [e \in Entry |-> IF \E t \in waking : e = Wake(t)
                              THEN NewRow("pending", rank(e)) ELSE inbox[e]]
    BY DEF WithWakes
  <1>2. \A e : NewRow("pending", rank(e)).st = "pending"
    BY DEF NewRow
  <1> HIDE DEF waking, rank
  <1>3. \A e \in Entry : WithWakes(ts, jobs)[e].st \in {"pending", inbox[e].st}
    BY <1>1, <1>2
  <1> QED BY <1>3, WokenSafe, Entries DEF Rest

LEMMA EndsRest ==
    ASSUME Inbox, NEW t \in Turn, NEW how, Ends(t, how)
    PROVE  Rest(inbox') /\ \A m \in Msg : inbox'[m] = inbox[m]
  <1>1. \A jobs, late : Due(jobs, late) \subseteq Turn
    BY DEF Due
  <1> QED BY <1>1, WokenRest, WokenSafe DEF Ends, Delivers

LEMMA DeliversRest ==
    ASSUME Inbox, NEW late, Delivers(job, late)
    PROVE  Rest(inbox') /\ \A m \in Msg : inbox'[m] = inbox[m]
  <1>1. \A jobs : Due(jobs, late) \subseteq Turn
    BY DEF Due
  <1> QED BY <1>1, WokenRest, WokenSafe DEF Delivers

LEMMA ContinuedRest ==
    ASSUME Inbox, NEW u \in Turn
    PROVE  Rest(Continued(u)) /\ \A m \in Msg : Continued(u)[m] = inbox[m]
  <1>1. NewRow("pending", 1).st = "pending"
    BY DEF NewRow
  <1> QED BY <1>1, Entries DEF Rest, Continued, Inbox, Rows

\* A row changes its state, and a turn takes rows.
LEMMA MarkedRest ==
    ASSUME Inbox, NEW e \in Entry, inbox[e].st # "absent",
           NEW st \in {"cancelled", "failed"}
    PROVE  /\ Rest([inbox EXCEPT ![e].st = st])
           /\ \A m \in Msg : [inbox EXCEPT ![e].st = st][m].st \in {inbox[m].st, st}
  BY Entries DEF Inbox, Rows, Row, Rest

LEMMA WithdrawnRest ==
    ASSUME Inbox, NEW m \in Entry \cup {NoMsg}
    PROVE  /\ Rest(Withdrawn(m))
           /\ \A n \in Msg : Withdrawn(m)[n].st \in {inbox[n].st, "cancelled"}
  <1>1. Rest(inbox)
    BY DEF Rest
  <1> QED BY <1>1, MarkedRest DEF Withdrawn

LEMMA TakenRest ==
    ASSUME Inbox, NEW es \in SUBSET Entry, NEW t, \A e \in es : inbox[e].st # "absent"
    PROVE  /\ Rest(Taken(es, t))
           /\ \A m \in Msg : Taken(es, t)[m].st \in {inbox[m].st, "consumed"}
  <1> DEFINE r(e) == [inbox[e] EXCEPT !.st = "consumed", !.by = t]
  <1>1. \A e \in Entry : r(e).st = "consumed" /\ r(e).seq = inbox[e].seq
    BY DEF Inbox, Rows, Row
  <1>2. Taken(es, t) = [e \in Entry |-> IF e \in es THEN r(e) ELSE inbox[e]]
    BY DEF Taken
  <1> HIDE DEF r
  <1> QED BY <1>1, <1>2, Entries DEF Rest

\* Most steps leave the order alone.
LEMMA Undisturbing ==
    ASSUME Typed, UNCHANGED <<said, promotion>>, Prepared, Rest(inbox'),
           \A m \in Msg : inbox'[m].st = "pending" => inbox[m].st = "pending"
    PROVE  Orderly
  BY DEF Orderly, Plain, Pending

\* A new row has a number of its own, above all others.
LEMMA NewestLast ==
    ASSUME Inbox, NEW m \in Msg, inbox[m].st = "absent",
           NEW st \in {"pending", "cancelled"},
           inbox' = [inbox EXCEPT ![m] = NewRow(st, 1)]
    PROVE  /\ LastSeq \in Nat /\ LastSeq' = LastSeq + 1
           /\ inbox'[m].seq = LastSeq + 1 /\ inbox'[m].st = st
           /\ \A n \in Msg : n # m => inbox'[n] = inbox[n]
  <1> DEFINE A == {e \in Entry : inbox[e].st # "absent"}
  <1> DEFINE B == {e \in Entry : inbox'[e].st # "absent"}
  <1>1. inbox'[m] = NewRow(st, 1) /\ \A e \in Entry : e # m => inbox'[e] = inbox[e]
    BY Entries DEF Inbox, Rows
  <1>2. NewRow(st, 1).st = st /\ NewRow(st, 1).seq = LastSeq + 1
    BY DEF NewRow
  <1>3. B = A \cup {m} /\ m \notin A
    BY <1>1, <1>2, Entries
  <1>4. IsFiniteSet(A)
    BY FiniteEntries, FS_Subset
  <1>5. LastSeq = Cardinality(A) /\ LastSeq' = Cardinality(B)
    BY DEF LastSeq
  <1> HIDE DEF A, B
  <1>6. Cardinality(A) \in Nat /\ Cardinality(B) = Cardinality(A) + 1
    BY <1>3, <1>4, FS_CardinalityType, FS_AddElement
  <1> QED BY <1>1, <1>2, <1>5, <1>6, Entries

LEMMA NewestStep ==
    ASSUME Typed, Placed, InOrder, NEW m \in Msg, inbox[m].st = "absent",
           NEW st \in {"pending", "cancelled"},
           inbox' = [inbox EXCEPT ![m] = NewRow(st, 1)],
           UNCHANGED <<turn, said, promotion>>
    PROVE  InOrder'
  <1> USE DEF InOrder
  <1>1. /\ LastSeq \in Nat /\ LastSeq' = LastSeq + 1
        /\ inbox'[m].seq = LastSeq + 1 /\ inbox'[m].st = st
        /\ \A n \in Msg : n # m => inbox'[n] = inbox[n]
    BY NewestLast DEF Typed
  <1>2. \A n \in Msg : inbox[n].seq \in Nat
    BY Entries DEF Typed, Inbox, Rows, Row
  <1>3. \A n \in Msg : said[n] # {} => inbox[n].st = "consumed"
    BY DEF Placed, Heard, Has
  <1>4. \A n \in Msg : inbox[n].st # "absent" => inbox[n].seq <= LastSeq /\ n # m
    BY DEF Numbers
  <1>5. Plain' = Plain /\ Plain \subseteq Msg
    BY DEF Plain
  <1>6. Numbers'
    BY <1>1, <1>2, <1>4 DEF Numbers
  <1>7. Ahead'
    <2> SUFFICES ASSUME NEW t \in Turn, turn[t].at = "preparing", turn[t].src \in Msg
                 PROVE  /\ inbox'[turn[t].src].st # "absent"
                        /\ \A n \in Plain : inbox'[n].st = "pending" =>
                               inbox'[turn[t].src].seq <= inbox'[n].seq
      BY <1>5 DEF Ahead, Pending
    <2>1. inbox[turn[t].src].st # "absent" /\ turn[t].src # m
          /\ inbox[turn[t].src].seq <= LastSeq
      BY <1>4 DEF Ahead
    <2>2. inbox'[turn[t].src] = inbox[turn[t].src]
      BY <1>1, <2>1
    <2>3. ASSUME NEW n \in Plain, inbox'[n].st = "pending"
          PROVE  inbox[turn[t].src].seq <= inbox'[n].seq
      <3>1. CASE n = m
        BY <3>1, <1>1, <1>2, <2>1
      <3>2. CASE n # m
        BY <3>2, <1>1, <1>5, <2>3 DEF Ahead, Pending
      <3> QED BY <3>1, <3>2
    <2> QED BY <2>1, <2>2, <2>3
  <1>8. Behind'
    <2> SUFFICES ASSUME NEW k \in Plain, NEW n \in Plain, said[n] # {},
                        inbox'[k].seq < inbox'[n].seq
                 PROVE  inbox'[k].st # "pending"
      BY <1>5 DEF Behind, Pending
    <2>1. n # m /\ inbox'[n] = inbox[n] /\ inbox[n].seq <= LastSeq
      BY <1>1, <1>3, <1>4, <1>5
    <2>2. k # m
      BY <1>1, <1>2, <1>5, <2>1
    <2> QED BY <1>1, <1>5, <2>1, <2>2 DEF Behind, Pending
  <1>9. Ordered'
    <2>1. said[m] = {}
      BY <1>3
    <2> QED BY <1>1, <1>5, <2>1 DEF Ordered
  <1> QED BY <1>6, <1>7, <1>8, <1>9

LEMMA PickOrder ==
    ASSUME Typed, InOrder, NEW t \in Turn, Pick(t)
    PROVE  InOrder'
  <1> USE DEF InOrder
  <1>1. CASE turn' = At(t, "leaving")
    <2>1. Prepared
      BY <1>1, Phases, AtPrepared DEF Typed
    <2>2. Rest(inbox') /\ UNCHANGED <<inbox, said, promotion>>
      BY DEF Pick, Rest
    <2>3. Typed'
      BY TypedStep DEF Next, System, Runs
    <2> QED BY <2>1, <2>2, <2>3, Undisturbing, OrderlyStep
  <1>2. ASSUME NEW e \in Entry, IsNext(e),
               turn' = Put(t, [turn[t] EXCEPT !.at = "preparing", !.src = e])
        PROVE  InOrder'
    <2>1. UNCHANGED <<inbox, said, promotion>>
      BY DEF Pick
    <2>2. Numbers' /\ Behind' /\ Ordered' /\ Plain' = Plain
      BY <2>1 DEF Numbers, Behind, Ordered, Plain, LastSeq, Pending
    <2>3. /\ turn'[t].src = e
          /\ \A u \in Turn : u # t => turn'[u] = turn[u]
      <3>1. turn[t] \in TurnState
        BY DEF Typed, Turns
      <3>2. [turn[t] EXCEPT !.at = "preparing", !.src = e].src = e
        BY <3>1 DEF TurnState
      <3> QED BY <1>2, <3>2 DEF Typed, Turns, Put
    <2>4. inbox[e].st = "pending"
      BY <1>2 DEF IsNext, Pending
    <2>5. ASSUME e \in Msg, NEW m \in Plain, inbox[m].st = "pending"
          PROVE  inbox[e].seq <= inbox[m].seq
      <3>1. m \in Msg /\ m \in Entry /\ m \notin Wakes /\ e \notin Wakes
        BY <2>5, Entries DEF Plain
      <3>2. m # e => inbox[e].seq < inbox[m].seq
        BY <1>2, <2>5, <3>1 DEF IsNext, Waiting, Before, Pending
      <3>3. inbox[e].seq \in Nat /\ inbox[m].seq \in Nat
        BY <3>1 DEF Typed, Inbox, Rows, Row
      <3> QED BY <3>2, <3>3
    <2>6. Ahead'
      BY <2>1, <2>2, <2>3, <2>4, <2>5 DEF Ahead, Pending
    <2> QED BY <2>2, <2>6
  <1> QED BY <1>1, <1>2 DEF Pick

LEMMA CommitOrder ==
    ASSUME Typed, Placed, InOrder, NEW t \in Turn, Commit(t)
    PROVE  InOrder'
  <1> USE DEF InOrder
  <1> DEFINE src == turn[t].src
  <1>1. src \in Entry /\ Owns(t) /\ inbox[src].st = "pending" /\ turn[t].at = "preparing"
    BY DEF Commit, Typed, Source, Pending
  <1>2. Rest(inbox') /\ \A m \in Msg : inbox'[m].st \in {inbox[m].st, "consumed"}
    <2>1. \A more \in {{}, Waiting \cap Wakes} :
             /\ {src} \cup more \subseteq Entry
             /\ \A e \in {src} \cup more : inbox[e].st # "absent"
      BY <1>1, Entries DEF Waiting, Pending
    <2>2. PICK more \in {{}, Waiting \cap Wakes} : inbox' = Taken({src} \cup more, t)
      BY DEF Commit
    <2> QED BY <2>1, <2>2, TakenRest DEF Typed
  <1>3. inbox'[src].st = "consumed"
    <2>1. PICK more : inbox' = Taken({src} \cup more, t)
      BY DEF Commit
    <2>2. inbox'[src] = [inbox[src] EXCEPT !.st = "consumed", !.by = t]
      BY <1>1, <2>1 DEF Taken
    <2> QED BY <1>1, <2>2 DEF Typed, Inbox, Rows, Row
  <1>4. Prepared
    BY Phases, AtPrepared DEF Commit, Typed
  <1>5. Typed'
    BY TypedStep DEF Next, System, Runs
  <1>6. promotion' = promotion /\ Plain' = Plain
    BY DEF Commit, Plain
  <1>7. CASE src \notin Msg
    <2>1. said' = said
      BY <1>7 DEF Commit
    <2> QED BY <1>2, <1>4, <1>5, <1>6, <2>1, Undisturbing, OrderlyStep
  <1>8. CASE src \in Msg
    <2>1. said[src] = {}
      BY <1>1, <1>8 DEF Placed, Heard, Has
    <2>2. said'[src] = {t} /\ \A m \in Msg : m # src => said'[m] = said[m]
      <3>1. said' = [said EXCEPT ![src] = @ \cup {t}]
        BY <1>8 DEF Commit
      <3> QED BY <1>8, <2>1, <3>1 DEF Typed, Sayings
    <2>3. \A m \in Msg : \A u \in said[m] : u < t
      <3> SUFFICES ASSUME NEW m \in Msg, NEW u \in said[m]
                   PROVE  u < t
        OBVIOUS
      <3>1. u \in Turn /\ turn[u].at \notin Early
        BY DEF Typed, Sayings, Placed, Spoke
      <3>2. u # t /\ turn[u].at # "free"
        BY <1>1, <3>1 DEF Early
      <3>3. ~(u > t)
        BY <1>1, <3>1, <3>2 DEF Owns, Placed, LastClaim
      <3> QED BY <3>1, <3>2, <3>3 DEF Turn
    <2>4. /\ LastSeq \in Nat /\ LastSeq' \in Nat /\ LastSeq <= LastSeq'
          /\ \A m \in Msg : /\ inbox'[m].seq = inbox[m].seq /\ inbox[m].seq \in Nat
                            /\ inbox'[m].st # "absent" <=> inbox[m].st # "absent"
      BY <1>2, <1>5, LastGrows, Entries DEF Rest, Typed, Inbox, Rows, Row
    <2>5. Numbers'
      BY <2>4 DEF Numbers
    <2>6. \A m \in Msg : Pending(m)' => Pending(m) /\ m # src
      BY <1>2, <1>3 DEF Pending
    <2>7. Plain \subseteq Msg
      BY DEF Plain
    <2>8. Ahead'
      BY <1>4, <1>6, <2>4, <2>6, <2>7 DEF Ahead, Prepared
    <2>9. Behind'
      <3> SUFFICES ASSUME NEW m \in Plain, NEW n \in Plain, said'[n] # {},
                          inbox[m].seq < inbox[n].seq, Pending(m)'
                   PROVE  FALSE
        BY <1>6, <2>4, <2>7 DEF Behind
      <3>1. Pending(m)
        BY <2>6, <2>7
      <3>2. CASE n = src
        <4>1. inbox[n].seq <= inbox[m].seq
          BY <1>1, <1>8, <3>1, <3>2 DEF Ahead
        <4> QED BY <2>4, <2>7, <4>1
      <3>3. CASE n # src
        BY <2>2, <2>7, <3>1, <3>3 DEF Behind
      <3> QED BY <3>2, <3>3
    <2>10. Ordered'
      <3> SUFFICES ASSUME NEW m \in Plain, NEW n \in Plain,
                          NEW u \in said'[m], NEW w \in said'[n],
                          inbox[m].seq < inbox[n].seq
                   PROVE  u < w
        BY <1>6, <2>4, <2>7 DEF Ordered
      <3>1. m # n
        BY <2>4, <2>7
      <3>2. CASE n = src
        BY <2>2, <2>3, <2>7, <3>1, <3>2
      <3>3. CASE m = src
        BY <1>1, <2>2, <2>7, <3>1, <3>3 DEF Behind, Pending
      <3>4. CASE m # src /\ n # src
        BY <2>2, <2>7, <3>4 DEF Ordered
      <3> QED BY <3>2, <3>3, <3>4
    <2> QED BY <2>5, <2>8, <2>9, <2>10
  <1> QED BY <1>7, <1>8

\* Messages that keep their rows, or are withdrawn or taken, keep the order.
LEMMA RowsRest ==
    ASSUME Typed, UNCHANGED inbox
    PROVE  Rest(inbox') /\ \A m \in Msg : inbox'[m].st = "pending" => inbox[m].st = "pending"
  BY DEF Rest

LEMMA WithdrawnStep ==
    ASSUME Typed, NEW q \in Entry \cup {NoMsg}, inbox' = Withdrawn(q)
    PROVE  Rest(inbox') /\ \A m \in Msg : inbox'[m].st = "pending" => inbox[m].st = "pending"
  BY WithdrawnRest DEF Typed

\* Every step keeps the order.
LEMMA OrderStep ==
    ASSUME Typed, Typed', Placed, InOrder, Next
    PROVE  InOrder'
  <1> USE DEF Typed
  <1>1. ASSUME NEW m \in Msg, NEW i \in Inst, Send(m, i) PROVE InOrder'
    BY <1>1, NewestStep DEF Send
  <1>2. ASSUME NEW m \in Msg, Withdraw(m) PROVE InOrder'
    <2>1. CASE inbox[m].st = "absent"
      BY <1>2, <2>1, NewestStep DEF Withdraw
    <2>2. CASE inbox[m].st # "absent"
      <3>1. inbox' = Withdrawn(m) /\ UNCHANGED <<turn, said, promotion>>
        BY <1>2, <2>2 DEF Withdraw
      <3> QED BY <3>1, Entries, WithdrawnStep, SamePrepared, Undisturbing, OrderlyStep
    <2> QED BY <2>1, <2>2
  <1>3. ASSUME NEW i \in Inst, NEW q \in Msg \cup {NoMsg}, Look(q, i) PROVE InOrder'
    <2>1. Prepared
      BY <1>3, SamePrepared DEF Look
    <2>2. Rest(inbox') /\ \A n \in Msg : inbox'[n].st = "pending" => inbox[n].st = "pending"
      BY <1>3, RowsRest, WithdrawnStep, Entries DEF Look
    <2> QED BY <1>3, <2>1, <2>2, Undisturbing, OrderlyStep DEF Look
  <1>4. ASSUME NEW i \in Inst, NEW q \in Msg \cup {NoMsg}, GiveUp(q, i) PROVE InOrder'
    <2>1. Prepared
      BY <1>4, SamePrepared DEF GiveUp
    <2>2. Rest(inbox') /\ \A n \in Msg : inbox'[n].st = "pending" => inbox[n].st = "pending"
      BY <1>4, RowsRest DEF GiveUp
    <2> QED BY <1>4, <2>1, <2>2, Undisturbing, OrderlyStep DEF GiveUp
  <1>5. ASSUME NEW i \in Inst, NEW q \in Msg \cup {NoMsg}, NEW t \in Turn, Claim(q, i, t) PROVE InOrder'
    <2>1. Prepared
      <3> DEFINE r == [NewTurn EXCEPT !.at = "claimed", !.inst = i, !.quiet = q,
                                      !.todo = Unterminated(i)]
      <3>1. r.at # "preparing"
        BY DEF NewTurn
      <3> HIDE DEF r
      <3>2. turn' \in {turn, Put(t, r)}
        BY <1>5 DEF Claim, r
      <3> QED BY <3>1, <3>2, PutPrepared
    <2>2. Rest(inbox') /\ \A n \in Msg : inbox'[n].st = "pending" => inbox[n].st = "pending"
      BY <1>5, RowsRest DEF Claim
    <2> QED BY <1>5, <2>1, <2>2, Undisturbing, OrderlyStep DEF Claim
  <1>6. ASSUME NEW t \in Turn, NEW u \in Turn, Seal(t, u) PROVE InOrder'
    <2>1. Prepared
      <3> DEFINE r == [turn[t] EXCEPT !.todo = @ \ {u}]
      <3>1. turn[t] \in TurnState
        BY DEF Turns
      <3>2. r.at = "preparing" => turn[t].at = "preparing" /\ r.src = turn[t].src
        BY <3>1 DEF TurnState
      <3> HIDE DEF r
      <3>3. turn' \in {turn, Put(t, r)}
        BY <1>6 DEF Seal, r
      <3> QED BY <3>2, <3>3, PutPrepared
    <2>2. Rest(inbox') /\ \A n \in Msg : inbox'[n].st = "pending" => inbox[n].st = "pending"
      BY <1>6, RowsRest, ContinuedRest DEF Seal, SealFooter, SealEnd
    <2> QED BY <1>6, <2>1, <2>2, Undisturbing, OrderlyStep DEF Seal
  <1>7. ASSUME NEW i \in Inst, SealerClaim(i) PROVE InOrder'
    <2>1. Prepared
      BY <1>7, SamePrepared DEF SealerClaim
    <2>2. Rest(inbox') /\ \A n \in Msg : inbox'[n].st = "pending" => inbox[n].st = "pending"
      BY <1>7, RowsRest DEF SealerClaim
    <2> QED BY <1>7, <2>1, <2>2, Undisturbing, OrderlyStep DEF SealerClaim
  <1>8. ASSUME NEW i \in Inst, NEW u \in Turn, SealerSeal(i, u) PROVE InOrder'
    <2>1. Prepared
      BY <1>8, SamePrepared DEF SealerSeal
    <2>2. Rest(inbox') /\ \A n \in Msg : inbox'[n].st = "pending" => inbox[n].st = "pending"
      BY <1>8, RowsRest, ContinuedRest DEF SealerSeal, SealFooter, SealEnd
    <2> QED BY <1>8, <2>1, <2>2, Undisturbing, OrderlyStep DEF SealerSeal
  <1>9. ASSUME NEW i \in Inst, SealerRelease(i) PROVE InOrder'
    <2>1. Prepared
      BY <1>9, SamePrepared DEF SealerRelease
    <2>2. Rest(inbox') /\ \A n \in Msg : inbox'[n].st = "pending" => inbox[n].st = "pending"
      BY <1>9, RowsRest DEF SealerRelease
    <2> QED BY <1>9, <2>1, <2>2, Undisturbing, OrderlyStep DEF SealerRelease
  <1>10. ASSUME NEW t \in Turn, Pick(t) PROVE InOrder'
    BY <1>10, PickOrder
  <1>11. ASSUME NEW t \in Turn, Commit(t) PROVE InOrder'
    BY <1>11, CommitOrder
  <1>12. ASSUME NEW t \in Turn, Pass(t) PROVE InOrder'
    <2>1. Prepared
      BY <1>12, Phases, AtPrepared DEF Pass
    <2>2. Rest(inbox') /\ \A n \in Msg : inbox'[n].st = "pending" => inbox[n].st = "pending"
      <3>1. turn[t].src \in Entry
        BY <1>12 DEF Pass, Source
      <3>2. CASE inbox' = inbox
        BY <3>2, RowsRest
      <3>3. CASE Pending(turn[t].src) /\ inbox' = [inbox EXCEPT ![turn[t].src].st = "cancelled"]
        BY <3>1, <3>3, MarkedRest DEF Pending
      <3>4. CASE Pending(turn[t].src) /\ inbox' = Taken({turn[t].src}, t)
        BY <3>1, <3>4, TakenRest DEF Pending
      <3> QED BY <1>12, <3>2, <3>3, <3>4 DEF Pass
    <2> QED BY <1>12, <2>1, <2>2, Undisturbing, OrderlyStep DEF Pass
  <1>13. ASSUME NEW t \in Turn, Leave(t) PROVE InOrder'
    <2>1. Prepared
      BY <1>13, FreePrepared DEF Leave
    <2>2. Rest(inbox') /\ \A n \in Msg : inbox'[n].st = "pending" => inbox[n].st = "pending"
      BY <1>13, RowsRest DEF Leave
    <2> QED BY <1>13, <2>1, <2>2, Undisturbing, OrderlyStep DEF Leave
  <1>14. ASSUME NEW t \in Turn, Refuse(t) PROVE InOrder'
    <2>1. Prepared
      BY <1>14, Phases, AtPrepared DEF Refuse
    <2>2. Rest(inbox') /\ \A n \in Msg : inbox'[n].st = "pending" => inbox[n].st = "pending"
      BY <1>14, RowsRest DEF Refuse
    <2> QED BY <1>14, <2>1, <2>2, Undisturbing, OrderlyStep DEF Refuse
  <1>15. ASSUME NEW t \in Turn, Refused(t) PROVE InOrder'
    <2>1. Prepared
      BY <1>15, FreePrepared DEF Refused
    <2>2. Rest(inbox') /\ \A n \in Msg : inbox'[n].st = "pending" => inbox[n].st = "pending"
      <3>1. turn[t].src \in Entry
        BY <1>15 DEF Refused, Source
      <3>2. CASE inbox' = inbox
        BY <3>2, RowsRest
      <3>3. CASE Pending(turn[t].src) /\ inbox' = [inbox EXCEPT ![turn[t].src].st = "failed"]
        BY <3>1, <3>3, MarkedRest DEF Pending
      <3>4. CASE inbox' = Withdrawn(turn[t].src)
        BY <3>1, <3>4, WithdrawnStep
      <3> QED BY <1>15, <3>2, <3>3, <3>4 DEF Refused
    <2> QED BY <1>15, <2>1, <2>2, Undisturbing, OrderlyStep DEF Refused
  <1>16. ASSUME NEW t \in Turn, Dropped(t) PROVE InOrder'
    <2>1. Prepared
      BY <1>16, FreePrepared DEF Dropped
    <2>2. Rest(inbox') /\ \A n \in Msg : inbox'[n].st = "pending" => inbox[n].st = "pending"
      BY <1>16, WithdrawnStep, TurnFields, Entries DEF Dropped
    <2> QED BY <1>16, <2>1, <2>2, Undisturbing, OrderlyStep DEF Dropped
  <1>17. ASSUME NEW t \in Turn, Start(t) PROVE InOrder'
    <2>1. Prepared
      <3> DEFINE r == [turn[t] EXCEPT !.at = "running", !.quiet = NoMsg, !.src = NoMsg]
      <3>1. turn[t] \in TurnState
        BY DEF Turns
      <3>2. r.at = "preparing" => turn[t].at = "preparing" /\ r.src = turn[t].src
        BY <3>1 DEF TurnState
      <3> HIDE DEF r
      <3>3. turn' \in {turn, Put(t, r)}
        BY <1>17 DEF Start, r
      <3> QED BY <3>2, <3>3, PutPrepared
    <2>2. Rest(inbox') /\ \A n \in Msg : inbox'[n].st = "pending" => inbox[n].st = "pending"
      BY <1>17, RowsRest DEF Start
    <2> QED BY <1>17, <2>1, <2>2, Undisturbing, OrderlyStep DEF Start
  <1>18. ASSUME NEW t \in Turn, Persist(t) PROVE InOrder'
    <2>1. Prepared
      BY <1>18, SamePrepared DEF Persist
    <2>2. Rest(inbox') /\ \A n \in Msg : inbox'[n].st = "pending" => inbox[n].st = "pending"
      BY <1>18, RowsRest DEF Persist
    <2> QED BY <1>18, <2>1, <2>2, Undisturbing, OrderlyStep DEF Persist
  <1>19. ASSUME NEW t \in Turn, WriteQueue(t) PROVE InOrder'
    <2>1. Prepared
      <3> DEFINE r == [turn[t] EXCEPT !.queue = {}]
      <3>1. turn[t] \in TurnState
        BY DEF Turns
      <3>2. r.at = "preparing" => turn[t].at = "preparing" /\ r.src = turn[t].src
        BY <3>1 DEF TurnState
      <3> HIDE DEF r
      <3>3. turn' \in {turn, Put(t, r)}
        BY <1>19 DEF WriteQueue, r
      <3> QED BY <3>2, <3>3, PutPrepared
    <2>2. Rest(inbox') /\ UNCHANGED <<inbox, promotion>>
      BY <1>19, RowsRest DEF WriteQueue
    <2>3. \A m \in Plain : m \in Msg /\ m \notin turn[t].queue
      BY QueuedFacts DEF Plain
    <2>4. \A m \in Plain : said'[m] = said[m]
      BY <1>19, <2>3 DEF WriteQueue, Sayings
    <2>5. Orderly
      BY <2>1, <2>2, <2>4 DEF Orderly, Plain, Pending
    <2> QED BY <2>5, OrderlyStep
  <1>20. ASSUME NEW t \in Turn, SubmitJob(t) PROVE InOrder'
    <2>1. Prepared
      BY <1>20, SamePrepared DEF SubmitJob
    <2>2. Rest(inbox') /\ \A n \in Msg : inbox'[n].st = "pending" => inbox[n].st = "pending"
      BY <1>20, RowsRest DEF SubmitJob
    <2> QED BY <1>20, <2>1, <2>2, Undisturbing, OrderlyStep DEF SubmitJob
  <1>21. ASSUME NEW t \in Turn, Heartbeat(t) PROVE InOrder'
    <2>1. Prepared
      <3> DEFINE r == [turn[t] EXCEPT !.aborted = TRUE]
      <3>1. turn[t] \in TurnState
        BY DEF Turns
      <3>2. r.at = "preparing" => turn[t].at = "preparing" /\ r.src = turn[t].src
        BY <3>1 DEF TurnState
      <3> HIDE DEF r
      <3>3. turn' \in {turn, Put(t, r)}
        BY <1>21 DEF Heartbeat, r
      <3> QED BY <3>2, <3>3, PutPrepared
    <2>2. Rest(inbox') /\ \A n \in Msg : inbox'[n].st = "pending" => inbox[n].st = "pending"
      BY <1>21, RowsRest DEF Heartbeat
    <2> QED BY <1>21, <2>1, <2>2, Undisturbing, OrderlyStep DEF Heartbeat
  <1>22. ASSUME NEW t \in Turn, Close(t) PROVE InOrder'
    <2>1. Prepared
      <3> DEFINE r == [turn[t] EXCEPT !.at = "closing", !.aborted = FALSE]
      <3>1. turn[t] \in TurnState
        BY DEF Turns
      <3>2. r.at = "preparing" => turn[t].at = "preparing" /\ r.src = turn[t].src
        BY <3>1 DEF TurnState
      <3> HIDE DEF r
      <3>3. turn' \in {turn, Put(t, r)}
        BY <1>22 DEF Close, r
      <3> QED BY <3>2, <3>3, PutPrepared
    <2>2. Rest(inbox') /\ \A n \in Msg : inbox'[n].st = "pending" => inbox[n].st = "pending"
      BY <1>22, RowsRest DEF Close
    <2> QED BY <1>22, <2>1, <2>2, Undisturbing, OrderlyStep DEF Close
  <1>23. ASSUME NEW t \in Turn, Flush(t) PROVE InOrder'
    <2>1. Prepared
      <3> DEFINE r == [turn[t] EXCEPT !.at = "flushed", !.queue = {}]
      <3>1. turn[t] \in TurnState
        BY DEF Turns
      <3>2. r.at = "preparing" => turn[t].at = "preparing" /\ r.src = turn[t].src
        BY <3>1 DEF TurnState
      <3> HIDE DEF r
      <3>3. turn' \in {turn, Put(t, r)}
        BY <1>23 DEF Flush, r
      <3> QED BY <3>2, <3>3, PutPrepared
    <2>2. Rest(inbox') /\ \A m \in Msg : inbox'[m] = inbox[m]
      <3>1. CASE SubmittedLate(t)
        BY <1>23, <3>1, EndsRest, RowsRest DEF Flush, CancelJob
      <3>2. CASE ~SubmittedLate(t)
        BY <1>23, <3>2, RowsRest DEF Flush
      <3> QED BY <3>1, <3>2
    <2>3. \A m \in Plain : m \in Msg /\ m \notin turn[t].queue
      BY QueuedFacts DEF Plain
    <2>4. \A m \in Plain : said'[m] = said[m]
      BY <1>23, <2>3 DEF Flush, Sayings
    <2>5. promotion' = promotion
      BY <1>23 DEF Flush
    <2>6. Orderly
      BY <2>1, <2>2, <2>3, <2>4, <2>5 DEF Orderly, Plain, Pending
    <2> QED BY <2>6, OrderlyStep
  <1>24. ASSUME NEW t \in Turn, Lost(t) PROVE InOrder'
    <2>1. Prepared
      <3> DEFINE r == [turn[t] EXCEPT !.at = "handoff", !.queue = {}]
      <3>1. turn[t] \in TurnState
        BY DEF Turns
      <3>2. r.at = "preparing" => turn[t].at = "preparing" /\ r.src = turn[t].src
        BY <3>1 DEF TurnState
      <3> HIDE DEF r
      <3>3. turn' \in {turn, Put(t, r)}
        BY <1>24 DEF Lost, r
      <3> QED BY <3>2, <3>3, PutPrepared
    <2>2. Rest(inbox') /\ \A n \in Msg : inbox'[n].st = "pending" => inbox[n].st = "pending"
      BY <1>24, RowsRest DEF Lost
    <2> QED BY <1>24, <2>1, <2>2, Undisturbing, OrderlyStep DEF Lost
  <1>25. ASSUME NEW t \in Turn, Footer(t) PROVE InOrder'
    <2>1. Prepared
      BY <1>25, Phases, AtPrepared DEF Footer
    <2>2. Rest(inbox') /\ \A n \in Msg : inbox'[n].st = "pending" => inbox[n].st = "pending"
      BY <1>25, RowsRest DEF Footer
    <2> QED BY <1>25, <2>1, <2>2, Undisturbing, OrderlyStep DEF Footer
  <1>26. ASSUME NEW t \in Turn, End(t) PROVE InOrder'
    <2>1. Prepared
      BY <1>26, Phases, AtPrepared DEF End
    <2>2. Rest(inbox') /\ \A n \in Msg : inbox'[n].st = "pending" => inbox[n].st = "pending"
      BY <1>26, RowsRest DEF End
    <2> QED BY <1>26, <2>1, <2>2, Undisturbing, OrderlyStep DEF End
  <1>27. ASSUME NEW t \in Turn, Release(t) PROVE InOrder'
    <2>1. Prepared
      BY <1>27, Phases, AtPrepared DEF Release
    <2>2. Rest(inbox') /\ \A n \in Msg : inbox'[n].st = "pending" => inbox[n].st = "pending"
      BY <1>27, RowsRest DEF Release
    <2> QED BY <1>27, <2>1, <2>2, Undisturbing, OrderlyStep DEF Release
  <1>28. ASSUME NEW t \in Turn, Ask(t) PROVE InOrder'
    <2>1. Prepared
      BY <1>28, Phases, AtPrepared DEF Ask
    <2>2. Rest(inbox') /\ \A n \in Msg : inbox'[n].st = "pending" => inbox[n].st = "pending"
      BY <1>28, RowsRest DEF Ask
    <2> QED BY <1>28, <2>1, <2>2, Undisturbing, OrderlyStep DEF Ask
  <1>29. ASSUME NEW t \in Turn, Handoff(t) PROVE InOrder'
    <2>1. Prepared
      BY <1>29, Phases, AtPrepared DEF Handoff
    <2>2. Rest(inbox') /\ \A n \in Msg : inbox'[n].st = "pending" => inbox[n].st = "pending"
      BY <1>29, DeliversRest DEF Handoff
    <2> QED BY <1>29, <2>1, <2>2, Undisturbing, OrderlyStep DEF Handoff
  <1>30. ASSUME NEW t \in Turn, EndJob(t) PROVE InOrder'
    <2>1. Prepared
      BY <1>30, SamePrepared DEF EndJob
    <2>2. Rest(inbox') /\ \A n \in Msg : inbox'[n].st = "pending" => inbox[n].st = "pending"
      BY <1>30, EndsRest DEF EndJob
    <2> QED BY <1>30, <2>1, <2>2, Undisturbing, OrderlyStep DEF EndJob
  <1>31. ASSUME NEW i \in Inst, SweepJobs(i) PROVE InOrder'
    <2>1. Prepared
      BY <1>31, SamePrepared DEF SweepJobs
    <2>2. Rest(inbox') /\ \A n \in Msg : inbox'[n].st = "pending" => inbox[n].st = "pending"
      BY <1>31, DeliversRest DEF SweepJobs
    <2> QED BY <1>31, <2>1, <2>2, Undisturbing, OrderlyStep DEF SweepJobs
  <1>32. ASSUME NEW i \in Inst, Sweep(i) PROVE InOrder'
    <2>1. Prepared
      BY <1>32, SamePrepared DEF Sweep
    <2>2. Rest(inbox') /\ \A n \in Msg : inbox'[n].st = "pending" => inbox[n].st = "pending"
      BY <1>32, RowsRest DEF Sweep
    <2> QED BY <1>32, <2>1, <2>2, Undisturbing, OrderlyStep DEF Sweep
  <1>33. ASSUME NEW m \in Msg, NEW t \in Turn, PromoteCall(m, t) PROVE InOrder'
    <2>1. Prepared /\ Rest(inbox') /\ UNCHANGED <<inbox, said>>
      BY <1>33, SamePrepared, RowsRest DEF PromoteCall
    <2>2. Plain' \subseteq Plain
      BY <1>33 DEF PromoteCall, Plain, Calls
    <2> QED BY <2>1, <2>2, OrderlyStep DEF Orderly, Pending
  <1>34. ASSUME NEW m \in Msg, PromoteClaim(m) PROVE InOrder'
    <2>1. Prepared /\ said' = said
      BY <1>34, SamePrepared DEF PromoteClaim
    <2>2. Rest(inbox') /\ \A n \in Msg : inbox'[n].st = "pending" => inbox[n].st = "pending"
      <3>1. CASE inbox' = inbox
        BY <3>1, RowsRest
      <3>2. CASE inbox[m].st = "pending" /\ inbox' = Taken({m}, promotion[m].turn)
        BY <3>2, TakenRest, Entries
      <3> QED BY <1>34, <3>1, <3>2 DEF PromoteClaim, Claimable, Pending
    <2>3. Plain' \subseteq Plain
      BY <1>34 DEF PromoteClaim, Plain, Calls
    <2>4. Plain \subseteq Msg
      BY DEF Plain
    <2> QED BY <2>1, <2>2, <2>3, <2>4, OrderlyStep DEF Orderly, Pending
  <1>35. ASSUME NEW m \in Msg, PromoteLand(m) PROVE InOrder'
    <2>1. Prepared
      <3> DEFINE t == promotion[m].turn
      <3> DEFINE r == [turn[t] EXCEPT !.queue = @ \cup {m}]
      <3>1. t \in Turn
        BY <1>35 DEF PromoteLand, Calls
      <3>2. turn[t] \in TurnState
        BY <3>1 DEF Turns
      <3>3. r.at = turn[t].at /\ r.src = turn[t].src
        BY <3>2 DEF TurnState
      <3>4. turn' \in {turn, Put(t, r)}
        BY <1>35 DEF PromoteLand
      <3> HIDE DEF r, t
      <3> QED BY <3>1, <3>3, <3>4, PutPrepared
    <2>2. Rest(inbox') /\ UNCHANGED <<inbox, said>>
      BY <1>35, RowsRest DEF PromoteLand
    <2>3. promotion[m].at = "won" /\ \A n \in Msg : n # m => promotion'[n] = promotion[n]
      BY <1>35 DEF PromoteLand, Calls, Promotion
    <2>4. promotion'[m].at \in {"in", "refused"}
      BY <1>35 DEF PromoteLand, Calls, Promotion
    <2>5. Plain' \subseteq Plain
      BY <2>3, <2>4 DEF Plain
    <2> QED BY <2>1, <2>2, <2>5, OrderlyStep DEF Orderly, Pending
  <1>36. ASSUME NEW m \in Msg, PromoteRequeue(m) PROVE InOrder'
    <2>1. Prepared /\ said' = said
      BY <1>36, SamePrepared DEF PromoteRequeue
    <2>2. /\ promotion[m].at = "refused" /\ promotion'[m].at = "requeued"
          /\ \A n \in Msg : n # m => promotion'[n] = promotion[n]
      BY <1>36 DEF PromoteRequeue, Calls, Promotion
    <2>3. Plain' \subseteq Plain /\ m \notin Plain'
      BY <2>2 DEF Plain
    <2>4. Rest(inbox') /\ \A n \in Msg : n # m => inbox'[n] = inbox[n]
      <3> DEFINE r == [inbox[m] EXCEPT !.st = "pending", !.by = NoTurn]
      <3>1. r.seq = inbox[m].seq /\ r.st = "pending"
        BY Entries DEF Inbox, Rows, Row
      <3>2. inbox' = inbox \/ (inbox[m].st = "consumed" /\ inbox' = [inbox EXCEPT ![m] = r])
        BY <1>36, Entries DEF PromoteRequeue, PutBack, TakenBy, Inbox, Rows
      <3> HIDE DEF r
      <3> QED BY <3>1, <3>2, Entries DEF Rest, Inbox, Rows
    <2>5. Plain' \subseteq Msg
      BY DEF Plain
    <2> QED BY <2>1, <2>3, <2>4, <2>5, OrderlyStep DEF Orderly, Pending
  <1>37. ASSUME NEW t \in Turn, StopBegin(t) PROVE InOrder'
    <2>1. Prepared
      BY <1>37, SamePrepared DEF StopBegin
    <2>2. Rest(inbox') /\ \A n \in Msg : inbox'[n].st = "pending" => inbox[n].st = "pending"
      BY <1>37, RowsRest DEF StopBegin
    <2> QED BY <1>37, <2>1, <2>2, Undisturbing, OrderlyStep DEF StopBegin
  <1>38. ASSUME NEW t \in Turn, StopReturn(t) PROVE InOrder'
    <2>1. Prepared
      BY <1>38, SamePrepared DEF StopReturn
    <2>2. Rest(inbox') /\ \A n \in Msg : inbox'[n].st = "pending" => inbox[n].st = "pending"
      <3> DEFINE back(e) == [inbox[e] EXCEPT !.st = "cancelled", !.by = t]
      <3>1. \A e \in Entry : back(e).st = "cancelled" /\ back(e).seq = inbox[e].seq
        BY DEF Inbox, Rows, Row
      <3>2. inbox' = [e \in Entry |-> IF e \in Msg /\ inbox[e].st \in {"pending", "failed"}
                                         THEN back(e) ELSE inbox[e]]
        BY <1>38 DEF StopReturn
      <3> HIDE DEF back
      <3> QED BY <3>1, <3>2, Entries DEF Rest
    <2> QED BY <1>38, <2>1, <2>2, Undisturbing, OrderlyStep DEF StopReturn
  <1>39. ASSUME NEW t \in Turn, StopAbort(t) PROVE InOrder'
    <2>1. Prepared
      <3> DEFINE r == [turn[t] EXCEPT !.aborted = TRUE]
      <3>1. turn[t] \in TurnState
        BY DEF Turns
      <3>2. r.at = "preparing" => turn[t].at = "preparing" /\ r.src = turn[t].src
        BY <3>1 DEF TurnState
      <3> HIDE DEF r
      <3>3. turn' \in {turn, Put(t, r)}
        BY <1>39 DEF StopAbort, r
      <3> QED BY <3>2, <3>3, PutPrepared
    <2>2. Rest(inbox') /\ \A n \in Msg : inbox'[n].st = "pending" => inbox[n].st = "pending"
      <3>1. CASE job[t] = "running"
        BY <1>39, <3>1, EndsRest, RowsRest DEF StopAbort, CancelJob
      <3>2. CASE job[t] # "running"
        BY <1>39, <3>2, RowsRest DEF StopAbort
      <3> QED BY <3>1, <3>2
    <2> QED BY <1>39, <2>1, <2>2, Undisturbing, OrderlyStep DEF StopAbort
  <1>40. ASSUME Expire PROVE InOrder'
    <2>1. Prepared
      BY <1>40, SamePrepared DEF Expire
    <2>2. Rest(inbox') /\ \A n \in Msg : inbox'[n].st = "pending" => inbox[n].st = "pending"
      BY <1>40, RowsRest DEF Expire
    <2> QED BY <1>40, <2>1, <2>2, Undisturbing, OrderlyStep DEF Expire
  <1>41. ASSUME NEW i \in Inst, Crash(i) PROVE InOrder'
    <2>1. Prepared
      <3>1. \A t \in Turn : turn'[t] \in {turn[t], NewTurn, Gone(t)}
        BY <1>41 DEF Crash
      <3>2. NewTurn.at # "preparing" /\ \A t \in Turn : Gone(t).at # "preparing"
        BY DEF NewTurn, Gone
      <3> QED BY <3>1, <3>2 DEF Prepared
    <2>2. Rest(inbox') /\ UNCHANGED <<inbox, said>>
      BY <1>41, RowsRest DEF Crash
    <2>3. Plain' \subseteq Plain
      BY <1>41 DEF Crash, Plain, Calls, Promotion
    <2> QED BY <2>1, <2>2, <2>3, OrderlyStep DEF Orderly, Pending
  <1>42. ASSUME NEW i \in Inst, DrainBegin(i) PROVE InOrder'
    <2>1. Prepared
      BY <1>42, SamePrepared DEF DrainBegin
    <2>2. Rest(inbox') /\ \A n \in Msg : inbox'[n].st = "pending" => inbox[n].st = "pending"
      BY <1>42, RowsRest DEF DrainBegin
    <2> QED BY <1>42, <2>1, <2>2, Undisturbing, OrderlyStep DEF DrainBegin
  <1> QED
    <2>1. CASE User
      BY <2>1, BoundsAssumption, <1>1, <1>2, <1>33, <1>37 DEF User
    <2>2. CASE \E i \in Inst : Drain(i)
      BY <2>2, <1>3, <1>4, <1>5 DEF Drain
    <2>3. CASE \E i \in Inst : Seals(i)
      BY <2>3, <1>7, <1>8, <1>9 DEF Seals
    <2>4. CASE \E i \in Inst : SweepJobs(i) \/ Sweep(i) \/ Crash(i) \/ DrainBegin(i)
      BY <2>4, <1>31, <1>32, <1>41, <1>42
    <2>5. CASE \E t \in Turn : Runs(t)
      BY <2>5, <1>6, <1>10, <1>11, <1>12, <1>13, <1>14, <1>15, <1>16, <1>17,
          <1>18, <1>22, <1>23, <1>24, <1>25, <1>26, <1>27, <1>28, <1>29 DEF Runs
    <2>6. CASE \E t \in Turn : EndJob(t) \/ StopReturn(t) \/ StopAbort(t)
      BY <2>6, <1>30, <1>38, <1>39
    <2>7. CASE \E m \in Msg : Promote(m)
      BY <2>7, <1>34, <1>35, <1>36 DEF Promote
    <2>8. CASE \E t \in Turn : Heartbeat(t) \/ WriteQueue(t) \/ SubmitJob(t)
      BY <2>8, <1>21, <1>19, <1>20
    <2>9. CASE Expire
      BY <2>9, <1>40
    <2> QED BY <2>1, <2>2, <2>3, <2>4, <2>5, <2>6, <2>7, <2>8, <2>9 DEF Next, System,
        ExpireGone

\* No message that was not claimed for a running turn overtakes another one
\* (lib/agent/turn-preparation.ts, the next entry; lib/agent/inbox.ts).
THEOREM HeardInOrder == Spec => []StartedInOrder
  <1>1. Init => InOrder
    <2> SUFFICES ASSUME Init PROVE InOrder
      OBVIOUS
    <2>1. Numbers /\ Behind /\ Ordered
      BY Entries DEF Init, Numbers, Behind, Ordered, Plain, Pending
    <2>2. Ahead
      <3>1. NewTurn.at # "preparing"
        BY DEF NewTurn
      <3> QED BY <3>1 DEF Init, Ahead
    <2> QED BY <2>1, <2>2 DEF InOrder
  <1>2. Typed /\ Placed /\ InOrder /\ [Next]_vars => InOrder'
    <2> SUFFICES ASSUME Typed, Placed, InOrder, [Next]_vars PROVE InOrder'
      OBVIOUS
    <2>1. CASE Next
      BY <2>1, TypedStep, OrderStep
    <2>2. CASE UNCHANGED vars
      BY <2>2 DEF vars, InOrder, Numbers, Ahead, Behind, Ordered, Plain, Pending, LastSeq
    <2> QED BY <2>1, <2>2
  <1>3. Inv => Typed /\ Placed
    BY DEF Inv
  <1>4. InOrder => StartedInOrder
    BY DEF InOrder, Ordered, StartedInOrder, Plain
  <1> QED BY <1>1, <1>2, <1>3, <1>4, Invariance, PTL DEF Spec
=============================================================================
