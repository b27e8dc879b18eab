-------------------------- MODULE TaskRecoveryProofs --------------------------
(***************************************************************************)
(* Theorems about the takeover of a task in TaskLifecycle, for every       *)
(* number of workers, claims, images and attempts: a scan that still finds *)
(* its row decides on what the row holds now, and however often a task is  *)
(* retried, requeued and recovered, no more executions call upstream than  *)
(* it has attempts.                                                        *)
(***************************************************************************)
EXTENDS TaskLifecycleProofs, FiniteSetTheorems

(***************************************************************************)
(* The invariant.  A token that the row or a recovery knows is no longer   *)
(* free, so a claim is the only way to a new one; while a row stays in the *)
(* hands of one token, the copy of its execution and the candidate of a    *)
(* recovery agree with it.                                                 *)
(***************************************************************************)

\* An execution that has called upstream, or may yet: it is in the call, or it is
\* preparing without ids to poll and without a payload to archive.
Spending(e) ==
    \/ \E s \in Slot : e.slot[s] # "none"
    \/ e.phase = "calling"
    \/ e.phase = "preparing" /\ e.ids = {} /\ e.archive = "none"

Spenders == {t \in Token : Spending(exec[t])}

TokensUsed ==
    /\ row.status = "in_progress" => exec[row.token].phase # "unused"
    /\ \A w \in Worker : scan[w] # NoCandidate => exec[scan[w].token].phase # "unused"

\* What a candidate tells of a row that is still the one it was read from; what
\* the scan reads, out of its lease, nobody has touched.
CandidateKept ==
    \A w \in Worker :
        /\ scan[w] # NoCandidate
        /\ row.status = "in_progress" /\ row.token = scan[w].token
        => /\ scan[w].attempts = row.attempts
           /\ scan[w].ids # {} => row.ids # {}
           /\ ~scan[w].named => ~row.lease /\ scan[w] = CandidateOf(FALSE)

CopyKept ==
    \A t \in Token :
        row.status = "in_progress" /\ row.token = t /\ Live(t) =>
            /\ exec[t].attempts = row.attempts
            /\ exec[t].phase = "preparing" => exec[t].archive = row.archive
            /\ exec[t].phase = "calling" => row.archive = "none"

Answered == \A t \in Token : exec[t].phase = "settling" => exec[t].result # "none"

\* An open row has had one such execution for each attempt it has used up, and one
\* more; a queued row that would call upstream again has used up an attempt for
\* each of them.  Stored ids and a saved payload mean that nothing more is sent.
Spent ==
    /\ IsFiniteSet(Spenders)
    /\ Cardinality(Spenders) <= MaxAttempts
    /\ row.status \in Open => Cardinality(Spenders) <= row.attempts + 1
    /\ row.status = "queued" /\ row.ids = {} /\ row.archive = "none"
          => Cardinality(Spenders) <= row.attempts

Inv == TypeOK /\ IdsKnown /\ TokensUsed /\ CandidateKept /\ CopyKept /\ Answered /\ Spent

(***************************************************************************)
(* What a step may do to the row, and to an execution.                     *)
(***************************************************************************)

\* The row stays with its token.
Holds(r, q) ==
    /\ r.status = "in_progress" /\ q.status = "in_progress"
    /\ q.token = r.token /\ q.attempts = r.attempts
    /\ r.ids # {} => q.ids # {}
    /\ r.archive # "none" => q.archive # "none"
    /\ ~r.lease => q = r

\* It goes back to the queue for one more attempt, or for what it has already.
Returns(r, q) ==
    /\ r.status = "in_progress" /\ q.status = "queued"
    /\ \/ q.attempts = r.attempts + 1
       \/ q.attempts = r.attempts /\ (q.ids # {} \/ q.archive # "none")

Waits(r, q) ==
    /\ r.status = "queued" /\ q.status = "queued"
    /\ q.attempts = r.attempts /\ q.ids = r.ids /\ q.archive = r.archive

Writes(r, q) ==
    /\ q.calls = r.calls
    /\ q.status \notin Open \/ Holds(r, q) \/ Returns(r, q) \/ Waits(r, q)

Moves(e, f) ==
    /\ e.phase # "unused" => f.phase # "unused"
    /\ f.phase \in LivePhase => e.phase \in LivePhase /\ f.attempts = e.attempts
    /\ f.phase = "preparing" => e.phase = "preparing" /\ f.archive = e.archive
    /\ f.phase = "calling" =>
          e.phase = "calling" \/ (e.phase = "preparing" /\ e.archive = "none")
    /\ f.phase = "settling" =>
          f.result # "none" \/ (e.phase = "settling" /\ f.result = e.result)
    /\ Spending(f) => Spending(e)

AllMove == \A t \in Token : Moves(exec[t], exec'[t])

\* The archive is written by an execution that has left the upstream call.
ArchiveWritten ==
    row'.status = "in_progress" =>
        \/ row'.archive = row.archive
        \/ exec'[row.token].phase \notin {"preparing", "calling"}

\* A recovery reads the row, or lets go of what it has read.
ScanMoves ==
    \A w \in Worker :
        \/ scan'[w] = scan[w]
        \/ scan'[w] = NoCandidate
        \/ /\ row' = row /\ row.status = "in_progress"
           /\ \/ scan'[w] = CandidateOf(TRUE)
              \/ ~row.lease /\ scan'[w] = CandidateOf(FALSE)

\* No step but a claim makes an execution one that may call upstream.
LEMMA SpendersShrink ==
    ASSUME AllMove, IsFiniteSet(Spenders)
    PROVE  /\ IsFiniteSet(Spenders') /\ Cardinality(Spenders') \in Nat
           /\ Cardinality(Spenders) \in Nat
           /\ Cardinality(Spenders') <= Cardinality(Spenders)
<1>1. Spenders' \subseteq Spenders
  BY DEF Spenders, AllMove, Moves
<1> QED
  BY <1>1, FS_Subset, FS_CardinalityType

(***************************************************************************)
(* A step that neither claims nor counts a request keeps the invariant.    *)
(***************************************************************************)

LEMMA KeepsTokens ==
    ASSUME Inv, TypeOK', Writes(row, row'), AllMove, ScanMoves
    PROVE  TokensUsed'
<1>1. row'.status = "in_progress" =>
        row.status = "in_progress" /\ row'.token = row.token /\ row.token \in Token
  BY DEF Inv, TypeOK, Writes, Holds, Returns, Waits, Open
<1>2. row'.status = "in_progress" => exec'[row'.token].phase # "unused"
  BY <1>1 DEF Inv, TokensUsed, AllMove, Moves
<1>3. ASSUME NEW w \in Worker, scan'[w] # NoCandidate
      PROVE  exec'[scan'[w].token].phase # "unused"
  <2>1. CASE scan'[w] = scan[w]
    <3>1. scan[w] \in Candidate
      BY <1>3, <2>1 DEF Inv, TypeOK
    <3>2. scan[w].token \in Token
      BY <3>1 DEF Candidate
    <3> QED
      BY <1>3, <2>1, <3>2 DEF Inv, TokensUsed, AllMove, Moves
  <2>2. CASE row.status = "in_progress" /\ \E b \in BOOLEAN : scan'[w] = CandidateOf(b)
    <3>1. scan'[w].token = row.token /\ row.token \in Token
      BY <2>2 DEF CandidateOf, Inv, TypeOK
    <3> QED
      BY <2>2, <3>1 DEF Inv, TokensUsed, AllMove, Moves
  <2> QED
    BY <1>3, <2>1, <2>2 DEF ScanMoves
<1> QED
  BY <1>2, <1>3 DEF TokensUsed

LEMMA KeepsCandidate ==
    ASSUME Inv, TypeOK', Writes(row, row'), ScanMoves
    PROVE  CandidateKept'
<1> SUFFICES ASSUME NEW w \in Worker, scan'[w] # NoCandidate,
                    row'.status = "in_progress", row'.token = scan'[w].token
             PROVE  /\ scan'[w].attempts = row'.attempts
                    /\ scan'[w].ids # {} => row'.ids # {}
                    /\ ~scan'[w].named => ~row'.lease /\ scan'[w] = CandidateOf(FALSE)'
  BY DEF CandidateKept
<1>1. Holds(row, row')
  BY DEF Writes, Returns, Waits, Open
<1>2. CASE scan'[w] = scan[w]
  <2>1. /\ scan[w].attempts = row.attempts
        /\ scan[w].ids # {} => row.ids # {}
        /\ ~scan[w].named => ~row.lease /\ scan[w] = CandidateOf(FALSE)
    BY <1>1, <1>2 DEF Inv, CandidateKept, Holds
  <2>2. ASSUME ~scan[w].named PROVE ~row'.lease /\ scan[w] = CandidateOf(FALSE)'
    <3>1. row' = row /\ ~row.lease
      BY <1>1, <2>1, <2>2 DEF Holds
    <3> QED
      BY <2>1, <2>2, <3>1 DEF CandidateOf
  <2> QED
    BY <1>1, <1>2, <2>1, <2>2 DEF Holds
<1>3. CASE row' = row /\ scan'[w] = CandidateOf(TRUE)
  BY <1>3 DEF CandidateOf
<1>4. CASE row' = row /\ ~row.lease /\ scan'[w] = CandidateOf(FALSE)
  BY <1>4 DEF CandidateOf
<1> QED
  BY <1>2, <1>3, <1>4 DEF ScanMoves

LEMMA KeepsCopy ==
    ASSUME Inv, TypeOK', Writes(row, row'), AllMove, ArchiveWritten
    PROVE  CopyKept'
<1> SUFFICES ASSUME NEW t \in Token, row'.status = "in_progress", row'.token = t, Live(t)'
             PROVE  /\ exec'[t].attempts = row'.attempts
                    /\ exec'[t].phase = "preparing" => exec'[t].archive = row'.archive
                    /\ exec'[t].phase = "calling" => row'.archive = "none"
  BY DEF CopyKept
<1>1. row.status = "in_progress" /\ row.token = t /\ row'.attempts = row.attempts
  BY DEF Writes, Holds, Returns, Waits, Open
<1>2. Moves(exec[t], exec'[t]) /\ Live(t)
  BY DEF AllMove, Moves, Live
<1>3. /\ exec[t].attempts = row.attempts
      /\ exec[t].phase = "preparing" => exec[t].archive = row.archive
      /\ exec[t].phase = "calling" => row.archive = "none"
  BY <1>1, <1>2 DEF Inv, CopyKept
<1> QED
  BY <1>1, <1>2, <1>3 DEF Moves, ArchiveWritten, Live

LEMMA KeepsAnswered ==
    ASSUME Inv, AllMove
    PROVE  Answered'
BY DEF Inv, Answered, AllMove, Moves

LEMMA KeepsSpent ==
    ASSUME Inv, TypeOK', Writes(row, row'), AllMove
    PROVE  Spent'
<1>0. row.attempts \in Nat /\ row'.attempts \in Nat
  BY ConstantsAssumption DEF Inv, TypeOK, Row
<1> DEFINE before == Cardinality(Spenders)
           after  == Cardinality(Spenders')
<1>1. IsFiniteSet(Spenders') /\ before \in Nat /\ after \in Nat /\ after <= before
  BY SpendersShrink DEF Inv, Spent
<1>2. /\ before <= MaxAttempts
      /\ row.status \in Open => before <= row.attempts + 1
      /\ row.status = "queued" /\ row.ids = {} /\ row.archive = "none" => before <= row.attempts
  BY DEF Inv, Spent
<1>3. after <= MaxAttempts
  <2> HIDE DEF before, after
  <2> QED
    BY <1>1, <1>2, ConstantsAssumption
<1>4. row'.status \in Open => after <= row'.attempts + 1
  <2> HIDE DEF before, after
  <2> QED
    BY <1>0, <1>1, <1>2 DEF Writes, Holds, Returns, Waits, Open
<1>5. row'.status = "queued" /\ row'.ids = {} /\ row'.archive = "none"
        => after <= row'.attempts
  <2> HIDE DEF before, after
  <2> QED
    BY <1>0, <1>1, <1>2 DEF Writes, Holds, Returns, Waits, Open
<1> QED
  BY <1>1, <1>3, <1>4, <1>5 DEF Spent

LEMMA Keeps ==
    ASSUME Inv, [Next]_vars, Writes(row, row'), AllMove, ArchiveWritten, ScanMoves
    PROVE  Inv'
<1>1. TypeOK' /\ IdsKnown'
  BY StepType, StepsOfIds DEF Inv, IdsStep
<1> QED
  BY <1>1, KeepsTokens, KeepsCandidate, KeepsCopy, KeepsAnswered, KeepsSpent DEF Inv

(***************************************************************************)
(* The executions.                                                         *)
(***************************************************************************)

\* An execution that stays as it is moves; so does one that becomes another.
LEMMA SameMoves == \A e : Moves(e, e)
BY DEF Moves

LEMMA StillMoves ==
    ASSUME UNCHANGED exec
    PROVE  AllMove
BY SameMoves DEF AllMove

LEMMA BecomeMoves ==
    ASSUME TypeOK, NEW t \in Token, NEW e, Become(t, e), Moves(exec[t], e)
    PROVE  AllMove
<1> SUFFICES ASSUME NEW u \in Token PROVE Moves(exec[u], exec'[u])
  BY DEF AllMove
<1>1. exec'[u] = IF u = t THEN e ELSE exec[u]
  BY DEF Become, TypeOK
<1> QED
  BY <1>1, SameMoves

\* One that ends calls upstream no more.
LEMMA OverMoves ==
    ASSUME NEW t \in Token, NEW ph \in {"ended", "died"}
    PROVE  Moves(exec[t], Over(t, ph))
<1>1. Over(t, ph).phase = ph /\ Over(t, ph).slot = exec[t].slot
  BY DEF Over
<1> HIDE DEF Over
<1> QED
  BY <1>1 DEF Moves, Spending, LivePhase

LEMMA EndMoves ==
    ASSUME TypeOK, NEW t \in Token, End(t)
    PROVE  AllMove /\ exec'[t].phase = "ended"
<1>1. Over(t, "ended").phase = "ended"
  BY DEF Over
<1> QED
  BY <1>1, OverMoves, BecomeMoves DEF End, Become, TypeOK

\* The moves past the upstream call.
Late == {"polling", "settling", "archiving", "publishing"}

LEMMA LateMoves ==
    ASSUME NEW e, NEW f, e.phase \in LivePhase, f.phase \in Late,
           f.attempts = e.attempts, f.slot = e.slot,
           f.phase = "settling" => f.result # "none"
    PROVE  Moves(e, f)
BY DEF Moves, Late, Spending, LivePhase, Phase

\* The records they lead to.
LEMMA LateRecords ==
    ASSUME NEW e \in Execution, e.phase \in LivePhase, NEW ph \in Late,
           NEW r \in Result, NEW b \in BOOLEAN, NEW p \in Payload,
           ph = "settling" => r # "none"
    PROVE  /\ Moves(e, [e EXCEPT !.phase = ph, !.result = r])
           /\ Moves(e, [e EXCEPT !.phase = ph, !.saved = b, !.result = r])
           /\ Moves(e, [e EXCEPT !.phase = ph, !.result = r, !.aborted = b])
           /\ ph # "settling" => Moves(e, [e EXCEPT !.phase = ph])
           /\ ph # "settling" => Moves(e, [e EXCEPT !.phase = ph, !.archive = p])
<1>1. Moves(e, [e EXCEPT !.phase = ph, !.result = r])
  <2> DEFINE f == [e EXCEPT !.phase = ph, !.result = r]
  <2>1. f.phase = ph /\ f.attempts = e.attempts /\ f.slot = e.slot /\ f.result = r
    BY DEF Execution
  <2>2. Moves(e, f)
    <3> HIDE DEF f
    <3> QED
      BY <2>1, LateMoves
  <2> QED
    BY <2>2
<1>2. Moves(e, [e EXCEPT !.phase = ph, !.saved = b, !.result = r])
  <2> DEFINE f == [e EXCEPT !.phase = ph, !.saved = b, !.result = r]
  <2>1. f.phase = ph /\ f.attempts = e.attempts /\ f.slot = e.slot /\ f.result = r
    BY DEF Execution
  <2>2. Moves(e, f)
    <3> HIDE DEF f
    <3> QED
      BY <2>1, LateMoves
  <2> QED
    BY <2>2
<1>3. Moves(e, [e EXCEPT !.phase = ph, !.result = r, !.aborted = b])
  <2> DEFINE f == [e EXCEPT !.phase = ph, !.result = r, !.aborted = b]
  <2>1. f.phase = ph /\ f.attempts = e.attempts /\ f.slot = e.slot /\ f.result = r
    BY DEF Execution
  <2>2. Moves(e, f)
    <3> HIDE DEF f
    <3> QED
      BY <2>1, LateMoves
  <2> QED
    BY <2>2
<1>4. ASSUME ph # "settling" PROVE Moves(e, [e EXCEPT !.phase = ph])
  <2> DEFINE f == [e EXCEPT !.phase = ph]
  <2>1. f.phase = ph /\ f.attempts = e.attempts /\ f.slot = e.slot
    BY DEF Execution
  <2>2. Moves(e, f)
    <3> HIDE DEF f
    <3> QED
      BY <1>4, <2>1, LateMoves
  <2> QED
    BY <2>2
<1>5. ASSUME ph # "settling" PROVE Moves(e, [e EXCEPT !.phase = ph, !.archive = p])
  <2> DEFINE f == [e EXCEPT !.phase = ph, !.archive = p]
  <2>1. f.phase = ph /\ f.attempts = e.attempts /\ f.slot = e.slot
    BY DEF Execution
  <2>2. Moves(e, f)
    <3> HIDE DEF f
    <3> QED
      BY <1>5, <2>1, LateMoves
  <2> QED
    BY <2>2
<1> QED
  BY <1>1, <1>2, <1>3, <1>4, <1>5

\* Aborting an execution changes nothing of this.
LEMMA AbortMoves ==
    ASSUME NEW e \in Execution
    PROVE  Moves(e, [e EXCEPT !.aborted = TRUE])
<1> DEFINE f == [e EXCEPT !.aborted = TRUE]
<1>1. /\ f.phase = e.phase /\ f.attempts = e.attempts /\ f.archive = e.archive
      /\ f.result = e.result /\ f.slot = e.slot /\ f.ids = e.ids
  BY DEF Execution
<1>2. Moves(e, f)
  <2> HIDE DEF f
  <2> QED
    BY <1>1 DEF Moves, Spending
<1> QED
  BY <1>2

\* What becomes of the requests of a call, while it goes on.
LEMMA CallMoves ==
    ASSUME NEW e \in Execution, e.phase = "calling", NEW s \in Slot, NEW x, NEW y,
           NEW b \in BOOLEAN
    PROVE  /\ Moves(e, [e EXCEPT !.slot[s] = x])
           /\ Moves(e, [e EXCEPT !.slot[s] = x, !.aborted = b])
           /\ Moves(e, [e EXCEPT !.async = b, !.slot = y])
<1>1. ASSUME NEW f, f.phase = e.phase, f.attempts = e.attempts, f.archive = e.archive,
             f.result = e.result
      PROVE  Moves(e, f)
  BY <1>1 DEF Moves, Spending
<1>2. Moves(e, [e EXCEPT !.slot[s] = x])
  <2> DEFINE f == [e EXCEPT !.slot[s] = x]
  <2>1. f.phase = e.phase /\ f.attempts = e.attempts /\ f.archive = e.archive
        /\ f.result = e.result
    BY DEF Execution
  <2>2. Moves(e, f)
    <3> HIDE DEF f
    <3> QED
      BY <1>1, <2>1
  <2> QED
    BY <2>2
<1>3. Moves(e, [e EXCEPT !.slot[s] = x, !.aborted = b])
  <2> DEFINE f == [e EXCEPT !.slot[s] = x, !.aborted = b]
  <2>1. f.phase = e.phase /\ f.attempts = e.attempts /\ f.archive = e.archive
        /\ f.result = e.result
    BY DEF Execution
  <2>2. Moves(e, f)
    <3> HIDE DEF f
    <3> QED
      BY <1>1, <2>1
  <2> QED
    BY <2>2
<1>4. Moves(e, [e EXCEPT !.async = b, !.slot = y])
  <2> DEFINE f == [e EXCEPT !.async = b, !.slot = y]
  <2>1. f.phase = e.phase /\ f.attempts = e.attempts /\ f.archive = e.archive
        /\ f.result = e.result
    BY DEF Execution
  <2>2. Moves(e, f)
    <3> HIDE DEF f
    <3> QED
      BY <1>1, <2>1
  <2> QED
    BY <2>2
<1> QED
  BY <1>2, <1>3, <1>4

(***************************************************************************)
(* The row.                                                                *)
(***************************************************************************)

\* A row that stays as it is, and one that leaves the queue and the workers.
LEMMA SameWrites ==
    ASSUME TypeOK, UNCHANGED row
    PROVE  Writes(row, row') /\ ArchiveWritten
BY DEF TypeOK, Row, Writes, Holds, Waits, Open, ArchiveWritten

LEMMA LeavesWrites ==
    ASSUME row'.calls = row.calls, row'.status \notin Open
    PROVE  Writes(row, row') /\ ArchiveWritten
BY DEF Writes, ArchiveWritten, Open

LEMMA FinishWrites ==
    ASSUME TypeOK, NEW t, NEW st \in Terminal, NEW p, NEW keep \in BOOLEAN,
           Finish(t, st, p, keep)
    PROVE  Writes(row, row') /\ ArchiveWritten
<1>1. CASE Owns(t)
  <2>1. row' = Finished(row, st, keep) /\ row \in Row
    BY <1>1 DEF Finish, TypeOK
  <2>2. row'.status = st /\ row'.calls = row.calls
    BY <2>1, FinishedKeepsIds
  <2> QED
    BY <2>2, LeavesWrites DEF Terminal, Open
<1>2. CASE ~Owns(t)
  BY <1>2, SameWrites DEF Finish
<1> QED
  BY <1>1, <1>2

LEMMA ReconcileWrites ==
    ASSUME TypeOK, NEW t, NEW require \in BOOLEAN, Reconcile(t, require)
    PROVE  Writes(row, row') /\ ArchiveWritten
<1> DEFINE marked == [row EXCEPT !.recon = @ \/ require]
<1>1. CASE Owns(t)
  <2>1. /\ marked \in Row /\ marked.status = row.status /\ marked.token = row.token
        /\ marked.attempts = row.attempts /\ marked.ids = row.ids
        /\ marked.archive = row.archive /\ marked.calls = row.calls
    BY DEF TypeOK, Row
  <2>2. row' = marked \/ row' = Reconciling(marked)
    BY <1>1 DEF Reconcile
  <2>3. row.status = "in_progress" /\ row.lease
    BY <1>1 DEF Owns
  <2> HIDE DEF marked
  <2>4. CASE row' = marked
    BY <2>1, <2>3, <2>4 DEF Writes, Holds, ArchiveWritten
  <2>5. CASE row' = Reconciling(marked)
    BY <2>1, <2>5, WritesKeepIds, LeavesWrites DEF Open
  <2> QED
    BY <2>2, <2>4, <2>5
<1>2. CASE ~Owns(t)
  BY <1>2, SameWrites DEF Reconcile
<1> QED
  BY <1>1, <1>2

LEMMA FinishUnknownWrites ==
    ASSUME TypeOK, NEW t \in Token, FinishUnknown(t)
    PROVE  Writes(row, row') /\ ArchiveWritten
BY FinishWrites, ReconcileWrites DEF FinishUnknown, Terminal

\* A row requeued with a payload, with an attempt used up, or with its ids.
LEMMA RequeueWrites ==
    ASSUME TypeOK, row.status = "in_progress", NEW d, NEW p, NEW a,
           \/ row' = ArchiveRequeued(row, p, d) /\ p # "none"
           \/ row' = Requeued(row, a, d) /\ a = row.attempts + 1
           \/ row' = Requeued(row, a, d) /\ a = row.attempts /\ row.ids # {}
    PROVE  Writes(row, row') /\ ArchiveWritten
<1>0. row \in Row
  BY DEF TypeOK
<1>1. CASE row' = ArchiveRequeued(row, p, d) /\ p # "none"
  <2>1. /\ ArchiveRequeued(row, p, d).status = "queued"
        /\ ArchiveRequeued(row, p, d).calls = row.calls
        /\ ArchiveRequeued(row, p, d).attempts = row.attempts
        /\ ArchiveRequeued(row, p, d).archive = p
    BY <1>0 DEF ArchiveRequeued, Row
  <2> QED
    BY <1>1, <2>1 DEF Writes, Returns, ArchiveWritten
<1>2. CASE row' = Requeued(row, a, d)
  <2>1. /\ Requeued(row, a, d).status = "queued" /\ Requeued(row, a, d).attempts = a
        /\ Requeued(row, a, d).calls = row.calls /\ Requeued(row, a, d).ids = row.ids
    BY <1>0 DEF Requeued, Row
  <2>2. CASE row' = ArchiveRequeued(row, p, d) /\ p # "none"
    BY <1>1, <2>2
  <2> QED
    BY <1>2, <2>1, <2>2 DEF Writes, Returns, ArchiveWritten
<1> QED
  BY <1>1, <1>2

(***************************************************************************)
(* The steps of an execution.                                              *)
(***************************************************************************)

\* A call that is over has a result.
LEMMA ErrorsAnswer == \A x : ErrorOf(x) # "none"
BY ErrorType

LEMMA CollectedAnswers ==
    ASSUME NEW t \in Token
    PROVE  SyncResult(t) # "none" /\ AsyncError(t) # "none"
<1>1. FirstError(t) # "none"
  BY ErrorsAnswer DEF FirstError
<1> QED
  BY <1>1 DEF SyncResult, AsyncError

LEMMA PrepareStep ==
    ASSUME TypeOK, NEW t \in Token,
           PrepareArchive(t) \/ PrepareInputs(t) \/ PrepareFails(t) \/ ArchiveExpires(t)
    PROVE  Writes(row, row') /\ ArchiveWritten /\ AllMove
<1>0. /\ exec[t] \in Execution /\ exec[t].archive \in Payload /\ exec[t].phase \in LivePhase
      /\ exec[t].archive \in Result
  BY DEF TypeOK, Execution, PrepareArchive, PrepareInputs, PrepareFails, ArchiveExpires,
         LivePhase, Phase, Result
<1>1. CASE PrepareArchive(t)
  <2>1. Moves(exec[t], [exec[t] EXCEPT !.phase = "archiving", !.saved = TRUE,
                                       !.result = exec[t].archive])
    BY <1>0, LateRecords DEF Late
  <2> QED
    BY <1>1, <2>1, BecomeMoves, SameWrites DEF PrepareArchive
<1>2. CASE PrepareInputs(t)
  <2>1. CASE End(t)
    BY <1>2, <2>1, EndMoves, SameWrites DEF PrepareInputs
  <2>2. CASE ~End(t)
    <3>1. PICK b \in AsyncRoutes :
            Become(t, [exec[t] EXCEPT
                         !.async = b,
                         !.phase = IF exec[t].ids = {} THEN "calling" ELSE "polling"])
      BY <1>2, <2>2 DEF PrepareInputs
    <3> DEFINE f == [exec[t] EXCEPT
                       !.async = b,
                       !.phase = IF exec[t].ids = {} THEN "calling" ELSE "polling"]
    <3>2. /\ f.phase \in {"calling", "polling"} /\ f.attempts = exec[t].attempts
          /\ f.slot = exec[t].slot
          /\ f.phase = "calling" => exec[t].ids = {}
      BY <1>0 DEF Execution
    <3>3. exec[t].phase = "preparing" /\ exec[t].archive = "none"
      BY <1>2 DEF PrepareInputs
    <3>4. Moves(exec[t], f)
      <4> HIDE DEF f
      <4>1. Spending(f) => Spending(exec[t])
        BY <3>2, <3>3 DEF Spending
      <4> QED
        BY <1>0, <3>2, <3>3, <4>1 DEF Moves
    <3> QED
      BY <1>2, <3>1, <3>4, BecomeMoves, SameWrites DEF PrepareInputs
  <2> QED
    BY <2>1, <2>2
<1>3. CASE PrepareFails(t)
  <2>1. Moves(exec[t], [exec[t] EXCEPT !.phase = "settling", !.result = "refused"])
    BY <1>0, LateRecords DEF Late, Result
  <2> QED
    BY <1>3, <2>1, BecomeMoves, SameWrites DEF PrepareFails
<1>4. CASE ArchiveExpires(t)
  BY <1>4, FinishWrites, EndMoves DEF ArchiveExpires, Terminal
<1> QED
  BY <1>1, <1>2, <1>3, <1>4

\* A request that is counted.
Counts(t, s) ==
    /\ Owns(t) /\ exec[t].phase = "calling"
    /\ row' = [row EXCEPT !.calls = @ + 1]

LEMMA RequestStep ==
    ASSUME TypeOK, NEW t \in Token, NEW s \in Slot, Request(t, s)
    PROVE  AllMove /\ (UNCHANGED row \/ Counts(t, s))
<1>0. exec[t] \in Execution /\ exec[t].phase = "calling"
  BY DEF TypeOK, Request, BeginDispatch, QueueTimesOut, CommitDispatch, DispatchFails,
         Respond, SendAgain
<1>1. ASSUME NEW x, SetSlot(t, s, x)
      PROVE  AllMove
  BY <1>0, <1>1, CallMoves, BecomeMoves DEF SetSlot
<1>2. CASE BeginDispatch(t, s) \/ QueueTimesOut(t, s) \/ Respond(t, s) \/ SendAgain(t, s)
  BY <1>1, <1>2 DEF BeginDispatch, QueueTimesOut, Respond, SendAgain
<1>3. CASE CommitDispatch(t, s)
  <2>1. CASE Owns(t)
    BY <1>0, <1>1, <1>3, <2>1 DEF CommitDispatch, Counts
  <2>2. CASE ~Owns(t)
    <3>1. Moves(exec[t], [exec[t] EXCEPT !.slot[s] = "cut", !.aborted = TRUE])
      BY <1>0, CallMoves
    <3> QED
      BY <1>3, <2>2, <3>1, BecomeMoves DEF CommitDispatch
  <2> QED
    BY <2>1, <2>2
<1>4. CASE DispatchFails(t, s)
  BY <1>0, <1>1, <1>4 DEF DispatchFails, Counts
<1> QED
  BY <1>2, <1>3, <1>4 DEF Request

LEMMA GatherStep ==
    ASSUME TypeOK, NEW t \in Token,
           SwitchRoute(t) \/ Collect(t) \/ CollectIds(t) \/ Poll(t)
    PROVE  Writes(row, row') /\ ArchiveWritten /\ AllMove
<1>0. exec[t] \in Execution /\ exec[t].phase \in LivePhase /\ row \in Row
  BY DEF TypeOK, SwitchRoute, Collect, CollectIds, Poll, LivePhase, Phase
<1>1. ASSUME NEW r \in Result, r # "none"
      PROVE  Moves(exec[t], [exec[t] EXCEPT !.phase = "settling", !.result = r])
  <2>1. "settling" \in Late /\ TRUE \in BOOLEAN /\ "none" \in Payload
    BY DEF Late, Payload
  <2> QED
    BY <1>0, <1>1, <2>1, LateRecords
<1>2. CASE Collect(t)
  BY <1>1, <1>2, CollectedType, CollectedAnswers, BecomeMoves, SameWrites DEF Collect
<1>3. CASE CollectIds(t)
  <2> DEFINE accepted == SlotsIn(t, {"accepted"})
             result == IF FailedSlots(t) = {} THEN "none"
                       ELSE IF accepted # {} THEN "unknownRecon" ELSE AsyncError(t)
             ph == IF result = "none" THEN "polling" ELSE "settling"
             lost == accepted # {} /\ ~Owns(t)
             stored == [row EXCEPT !.ids = accepted]
  <2>1. result \in Result /\ ph \in Late /\ (ph = "settling" => result # "none")
    BY CollectedType DEF Result, Payload, Late
  <2>2. \/ Become(t, [exec[t] EXCEPT !.phase = ph, !.result = result, !.aborted = @ \/ lost])
        \/ Become(t, [exec[t] EXCEPT !.phase = "settling", !.result = "unknownRecon"])
    BY <1>3 DEF CollectIds
  <2>3. AllMove
    <3> HIDE DEF result, ph, lost, accepted
    <3>1. Moves(exec[t], [exec[t] EXCEPT !.phase = ph, !.result = result,
                                         !.aborted = @ \/ lost])
      <4>1. (exec[t].aborted \/ lost) \in BOOLEAN
        OBVIOUS
      <4> QED
        BY <1>0, <2>1, <4>1, LateRecords DEF Payload
    <3>2. Moves(exec[t], [exec[t] EXCEPT !.phase = "settling", !.result = "unknownRecon"])
      BY <1>1 DEF Result
    <3> QED
      BY <2>2, <3>1, <3>2, BecomeMoves
  <2>4. row' = row \/ (Owns(t) /\ accepted # {} /\ row' = stored)
    BY <1>3 DEF CollectIds
  <2>5. CASE Owns(t) /\ accepted # {} /\ row' = stored
    <3>1. /\ row'.ids = accepted /\ row'.status = row.status /\ row'.token = row.token
          /\ row'.attempts = row.attempts /\ row'.archive = row.archive
          /\ row'.calls = row.calls
      BY <1>0, <2>5 DEF Row
    <3> HIDE DEF accepted, stored
    <3> QED
      BY <2>3, <2>5, <3>1 DEF Owns, Writes, Holds, ArchiveWritten
  <2> QED
    BY <2>3, <2>4, <2>5, SameWrites
<1>4. CASE Poll(t)
  <2>1. PICK r \in Result \ {"none"} :
          Become(t, [exec[t] EXCEPT !.phase = "settling", !.result = r])
    BY <1>4 DEF Poll, Result, Payload
  <2> QED
    BY <1>1, <1>4, <2>1, BecomeMoves, SameWrites DEF Poll
<1>5. CASE SwitchRoute(t)
  <2>0. exec[t].phase = "calling"
    BY <1>5 DEF SwitchRoute
  <2>1. 1 \in Slot
    BY ConstantsAssumption DEF Slot
  <2>2. PICK b \in BOOLEAN :
          Become(t, [exec[t] EXCEPT !.async = b, !.slot = [s \in Slot |-> "again"]])
    BY <1>5, ConstantsAssumption DEF SwitchRoute
  <2>3. Moves(exec[t], [exec[t] EXCEPT !.async = b, !.slot = [s \in Slot |-> "again"]])
    BY <1>0, <2>0, <2>1, CallMoves
  <2> QED
    BY <1>5, <2>2, <2>3, BecomeMoves, SameWrites DEF SwitchRoute
<1> QED
  BY <1>2, <1>3, <1>4, <1>5

\* What an execution does with its result.  The payload it checkpoints is a
\* result; a retry uses up the attempt the row was claimed with.
LEMMA SettleStep ==
    ASSUME Inv, NEW t \in Token,
           \/ SettleImages(t) \/ SettlePartial(t) \/ SettleUnknown(t)
           \/ SettleRetry(t) \/ SettleFailure(t) \/ SettleAbort(t)
    PROVE  Writes(row, row') /\ ArchiveWritten /\ AllMove
<1>0. /\ exec[t] \in Execution /\ exec[t].phase = "settling" /\ exec[t].phase \in LivePhase
      /\ row \in Row /\ TypeOK /\ exec[t].result # "none"
  BY DEF Inv, TypeOK, Answered, LivePhase, Phase, SettleImages, SettlePartial,
         SettleUnknown, SettleRetry, SettleFailure, SettleAbort
<1>1. CASE SettleImages(t)
  <2>1. exec[t].result \in Payload
    BY <1>1 DEF SettleImages
  <2>2. /\ Moves(exec[t], [exec[t] EXCEPT !.phase = "archiving"])
        /\ Moves(exec[t], [exec[t] EXCEPT !.phase = "archiving", !.archive = exec[t].result])
    <3>1. "archiving" \in Late /\ "none" \in Result /\ TRUE \in BOOLEAN
      BY DEF Late, Result, Payload
    <3> QED
      BY <1>0, <2>1, <3>1, LateRecords
  <2>3. AllMove
    BY <1>0, <1>1, <2>2, BecomeMoves, EndMoves DEF SettleImages
  <2>4. CASE row' # row
    <3>1. /\ Owns(t) /\ row' = [row EXCEPT !.archive = exec[t].result]
          /\ Become(t, [exec[t] EXCEPT !.phase = "archiving", !.archive = exec[t].result])
      BY <1>1, <2>4 DEF SettleImages
    <3>2. exec'[t].phase = "archiving"
      <4>1. [exec[t] EXCEPT !.phase = "archiving", !.archive = exec[t].result].phase = "archiving"
        BY <1>0 DEF Execution
      <4> QED
        BY <1>0, <3>1, <4>1 DEF Become, TypeOK
    <3>3. /\ row'.archive = exec[t].result /\ row'.status = row.status /\ row'.token = row.token
          /\ row'.attempts = row.attempts /\ row'.ids = row.ids /\ row'.calls = row.calls
      BY <1>0, <3>1 DEF Row
    <3> QED
      BY <1>0, <2>3, <3>1, <3>2, <3>3 DEF Owns, Writes, Holds, ArchiveWritten
  <2> QED
    BY <1>0, <2>3, <2>4, SameWrites
<1>2. CASE SettlePartial(t)
  <2>1. AllMove
    BY <1>0, <1>2, EndMoves DEF SettlePartial
  <2>2. CASE Finish(t, "failed", "none", FALSE)
    BY <1>0, <2>1, <2>2, FinishWrites DEF Terminal
  <2>3. CASE ~Finish(t, "failed", "none", FALSE)
    <3>1. PICK p \in {"whole", "short"} :
            row' = IF Owns(t) THEN ArchiveRequeued(row, p, FALSE) ELSE row
      BY <1>2, <2>3 DEF SettlePartial
    <3>2. CASE Owns(t)
      BY <1>0, <2>1, <3>1, <3>2, RequeueWrites DEF Owns
    <3> QED
      BY <1>0, <2>1, <3>1, <3>2, SameWrites
  <2> QED
    BY <2>2, <2>3
<1>3. CASE SettleUnknown(t)
  BY <1>0, <1>3, EndMoves, FinishUnknownWrites, ReconcileWrites DEF SettleUnknown
<1>4. CASE SettleRetry(t)
  <2>1. AllMove
    BY <1>0, <1>4, EndMoves DEF SettleRetry
  <2>2. CASE Owns(t)
    <3>1. exec[t].attempts = row.attempts
      BY <1>0, <2>2 DEF Inv, CopyKept, Owns, Live
    <3> QED
      BY <1>0, <1>4, <2>1, <2>2, <3>1, RequeueWrites DEF SettleRetry, Owns
  <2> QED
    BY <1>0, <1>4, <2>1, <2>2, SameWrites DEF SettleRetry
<1>5. CASE SettleFailure(t)
  BY <1>0, <1>5, EndMoves, FinishWrites DEF SettleFailure, Terminal
<1>6. CASE SettleAbort(t)
  BY <1>0, <1>6, EndMoves, SameWrites DEF SettleAbort
<1> QED
  BY <1>1, <1>2, <1>3, <1>4, <1>5, <1>6

\* Archiving and publishing: a saved payload is written, and requeued, as it is.
LEMMA ArchiveStep ==
    ASSUME TypeOK, NEW t \in Token,
           \/ Spool(t) \/ Publish(t) \/ PublishMissing(t) \/ ArchiveFails(t) \/ Interrupted(t)
    PROVE  Writes(row, row') /\ ArchiveWritten /\ AllMove
<1>0. exec[t] \in Execution /\ exec[t].phase \in LivePhase /\ row \in Row
      /\ exec[t].archive \in Payload
  BY DEF TypeOK, Execution, Spool, Publish, PublishMissing, ArchiveFails, Interrupted,
         LivePhase, Phase
<1>1. CASE Spool(t)
  <2>1. Moves(exec[t], [exec[t] EXCEPT !.phase = "publishing"])
    <3>1. "publishing" \in Late /\ "none" \in Result /\ TRUE \in BOOLEAN
      BY DEF Late, Result, Payload
    <3> QED
      BY <1>0, <3>1, LateRecords
  <2>2. AllMove
    BY <1>1, <2>1, BecomeMoves, EndMoves DEF Spool
  <2>3. CASE row' # row
    <3>1. /\ Owns(t) /\ exec[t].archive # "none"
          /\ row' = [row EXCEPT !.archive = exec[t].archive]
          /\ Become(t, [exec[t] EXCEPT !.phase = "publishing"])
      BY <1>1, <2>3 DEF Spool
    <3>2. exec'[t].phase = "publishing"
      <4>1. [exec[t] EXCEPT !.phase = "publishing"].phase = "publishing"
        BY <1>0 DEF Execution
      <4> QED
        BY <3>1, <4>1 DEF Become, TypeOK
    <3>3. /\ row'.archive = exec[t].archive /\ row'.status = row.status
          /\ row'.token = row.token /\ row'.attempts = row.attempts
          /\ row'.ids = row.ids /\ row'.calls = row.calls
      BY <1>0, <3>1 DEF Row
    <3> QED
      BY <2>2, <3>1, <3>2, <3>3 DEF Owns, Writes, Holds, ArchiveWritten
  <2> QED
    BY <2>2, <2>3, SameWrites
<1>2. CASE Publish(t)
  BY <1>2, EndMoves, FinishWrites DEF Publish, Terminal
<1>3. CASE PublishMissing(t)
  BY <1>3, EndMoves, FinishUnknownWrites DEF PublishMissing
<1>4. CASE ArchiveFails(t)
  <2>1. CASE /\ exec[t].archive # "none"
             /\ row' = IF Owns(t) THEN ArchiveRequeued(row, exec[t].archive, FALSE) ELSE row
             /\ End(t)
    BY <2>1, EndMoves, RequeueWrites, SameWrites DEF Owns
  <2>2. CASE Finish(t, "failed", "none", TRUE) /\ End(t)
    BY <2>2, EndMoves, FinishWrites DEF Terminal
  <2>3. ASSUME NEW c \in {"rejected", "refused"},
               Become(t, [exec[t] EXCEPT !.phase = "settling", !.result = c]),
               UNCHANGED row
        PROVE  Writes(row, row') /\ ArchiveWritten /\ AllMove
    <3>1. "settling" \in Late /\ c \in Result /\ TRUE \in BOOLEAN
      BY DEF Late, Result
    <3>2. Moves(exec[t], [exec[t] EXCEPT !.phase = "settling", !.result = c])
      BY <1>0, <3>1, LateRecords
    <3> QED
      BY <2>3, <3>2, BecomeMoves, SameWrites
  <2>4. CASE End(t) /\ UNCHANGED row
    BY <2>4, EndMoves, SameWrites
  <2> QED
    BY <1>4, <2>1, <2>2, <2>3, <2>4 DEF ArchiveFails
<1>5. CASE Interrupted(t)
  <2>1. AllMove
    BY <1>5, EndMoves DEF Interrupted
  <2> QED
    BY <1>5, <2>1, FinishWrites, ReconcileWrites, SameWrites DEF Interrupted, Terminal
<1> QED
  BY <1>1, <1>2, <1>3, <1>4, <1>5

(***************************************************************************)
(* The other steps.                                                        *)
(***************************************************************************)

\* A recovery that still covers the row knows its attempts, and whether it has
\* ids: it uses up one attempt, or returns the row with what it has.
LEMMA RecoverWrites ==
    ASSUME Inv, NEW w \in Worker, RecoverWrite(w)
    PROVE  Writes(row, row') /\ ArchiveWritten
<1> DEFINE c == scan[w]
<1>0. TypeOK /\ row \in Row
  BY DEF Inv, TypeOK
<1>1. CASE row' # row
  <2>1. c # NoCandidate /\ row.status = "in_progress" /\ row.token = c.token
    BY <1>1 DEF RecoverWrite
  <2>2. c.attempts = row.attempts /\ (c.ids # {} => row.ids # {})
    BY <2>1 DEF Inv, CandidateKept
  <2>3. \/ c.archive # "none" /\ row' = ArchiveRequeued(row, c.archive, TRUE)
        \/ row' = Reconciling(row)
        \/ c.ids # {} /\ row' = Requeued(row, row.attempts, TRUE)
        \/ row' = Requeued(row, c.attempts + 1, FALSE)
        \/ row' = [Finished(row, "failed", FALSE) EXCEPT !.attempts = c.attempts + 1]
    BY <1>1 DEF RecoverWrite
  <2> HIDE DEF c
  <2>4. CASE row' = Reconciling(row)
    BY <1>0, <2>4, WritesKeepIds, LeavesWrites DEF Open
  <2>5. CASE row' = [Finished(row, "failed", FALSE) EXCEPT !.attempts = c.attempts + 1]
    <3> DEFINE f == Finished(row, "failed", FALSE)
    <3>1. f \in Row /\ f.calls = row.calls /\ f.status = "failed"
      BY <1>0, FinishedKeepsIds, FinishedType DEF Terminal
    <3>2. row'.calls = f.calls /\ row'.status = f.status
      <4> HIDE DEF f
      <4> QED
        BY <2>5, <3>1 DEF Row, f
    <3> QED
      BY <3>1, <3>2, LeavesWrites DEF Open
  <2>6. CASE c.archive # "none" /\ row' = ArchiveRequeued(row, c.archive, TRUE)
    BY <1>0, <2>1, <2>6, RequeueWrites
  <2>7. CASE c.ids # {} /\ row' = Requeued(row, row.attempts, TRUE)
    BY <1>0, <2>1, <2>2, <2>7, RequeueWrites
  <2>8. CASE row' = Requeued(row, c.attempts + 1, FALSE)
    BY <1>0, <2>1, <2>2, <2>8, RequeueWrites
  <2> QED
    BY <2>3, <2>4, <2>5, <2>6, <2>7, <2>8
<1> QED
  BY <1>0, <1>1, SameWrites

LEMMA KilledMoves ==
    ASSUME NEW w, exec' = Killed(w)
    PROVE  AllMove
<1> SUFFICES ASSUME NEW t \in Token PROVE Moves(exec[t], exec'[t])
  BY DEF AllMove
<1>1. exec'[t] = Over(t, "died") \/ exec'[t] = exec[t]
  BY DEF Killed
<1> QED
  BY <1>1, OverMoves, SameMoves

\* Scans, shutdowns, crashes and restarts.
LEMMA ProcessStep ==
    ASSUME Inv, NEW w \in Worker, Recover(w) \/ Process(w)
    PROVE  Writes(row, row') /\ ArchiveWritten /\ AllMove /\ ScanMoves
<1>0. TypeOK
  BY DEF Inv
<1>1. Writes(row, row') /\ ArchiveWritten
  BY <1>0, SameWrites, RecoverWrites
     DEF Recover, Process, ScanRead, RecoverScanned, Terminate, Drained, AbortAll,
         NamedRead, RecoverNamed, Crash, Restart
<1>2. AllMove
  <2>1. CASE AbortAll(w)
    <3> SUFFICES ASSUME NEW t \in Token PROVE Moves(exec[t], exec'[t])
      BY DEF AllMove
    <3>1. exec'[t] = exec[t] \/ exec'[t] = [exec[t] EXCEPT !.aborted = TRUE]
      BY <2>1 DEF AbortAll
    <3>2. exec[t] \in Execution
      BY <1>0 DEF TypeOK
    <3> QED
      BY <3>1, <3>2, SameMoves, AbortMoves
  <2> QED
    BY <2>1, StillMoves, KilledMoves
       DEF Recover, Process, ScanRead, RecoverScanned, Terminate, Drained, NamedRead,
           RecoverNamed, Crash, Restart
<1>3. ScanMoves
  <2>1. CASE UNCHANGED scan
    BY <2>1 DEF ScanMoves
  <2>2. CASE scan' = [scan EXCEPT ![w] = NoCandidate]
    BY <1>0, <2>2 DEF ScanMoves, TypeOK
  <2>3. CASE ScanRead(w) \/ NamedRead(w)
    BY <1>0, <2>1, <2>3 DEF ScanMoves, ScanRead, NamedRead, TypeOK
  <2> QED
    BY <2>1, <2>2, <2>3
       DEF Recover, Process, RecoverScanned, RecoverWrite, Terminate, Drained, AbortAll,
           RecoverNamed, Crash, Restart
<1> QED
  BY <1>1, <1>2, <1>3

\* The user, a reconciliation command, and time.
LEMMA OtherStep ==
    ASSUME TypeOK,
           \/ \E t \in Token : LoseLease(t)
           \/ Cancel \/ SettleReconciliation \/ LeaseExpires \/ BackoffPasses
    PROVE  Writes(row, row') /\ ArchiveWritten /\ AllMove
<1>0. row \in Row
  BY DEF TypeOK
<1>1. ASSUME NEW t \in Token, LoseLease(t)
      PROVE  Writes(row, row') /\ ArchiveWritten /\ AllMove
  <2>1. exec[t] \in Execution
    BY DEF TypeOK
  <2> QED
    BY <1>1, <2>1, AbortMoves, BecomeMoves, SameWrites DEF LoseLease
<1>2. CASE Cancel
  <2>1. row' = Reconciling(row) \/ row' = [row EXCEPT !.status = "cancelled"]
    BY <1>2 DEF Cancel
  <2>2. row'.calls = row.calls /\ row'.status \notin Open
    BY <1>0, <2>1, WritesKeepIds DEF Row, Open
  <2> QED
    BY <1>2, <2>2, LeavesWrites, StillMoves DEF Cancel
<1>3. CASE SettleReconciliation
  <2>1. PICK st \in {"completed", "failed"} : row' = Finished(row, st, FALSE)
    BY <1>3 DEF SettleReconciliation
  <2>2. row'.calls = row.calls /\ row'.status \notin Open
    BY <1>0, <2>1, FinishedKeepsIds DEF Terminal, Open
  <2> QED
    BY <1>3, <2>2, LeavesWrites, StillMoves DEF SettleReconciliation
<1>4. CASE LeaseExpires \/ BackoffPasses
  <2>1. /\ row'.calls = row.calls /\ row'.status = row.status /\ row'.token = row.token
        /\ row'.attempts = row.attempts /\ row'.ids = row.ids /\ row'.archive = row.archive
        /\ row.status = "queued" \/ (row.status = "in_progress" /\ row.lease)
    BY <1>0, <1>4 DEF LeaseExpires, BackoffPasses, Row
  <2>2. Writes(row, row') /\ ArchiveWritten
    BY <2>1 DEF Writes, Holds, Waits, ArchiveWritten
  <2> QED
    BY <1>4, <2>2, StillMoves DEF LeaseExpires, BackoffPasses
<1> QED
  BY <1>1, <1>2, <1>3, <1>4

\* A claim takes a token that nobody knows, with a copy of the row.
LEMMA ClaimKeeps ==
    ASSUME Inv, TypeOK', IdsKnown', NEW v \in Worker, NEW t \in Token, Claim(v, t)
    PROVE  Inv'
<1>0. /\ row \in Row /\ exec[t] \in Execution /\ row.status = "queued"
      /\ exec[t].phase = "unused" /\ row.calls \in Nat /\ row.attempts \in Nat
      /\ UNCHANGED scan /\ exec \in [Token -> Execution]
  BY ConstantsAssumption DEF Inv, TypeOK, Row, Claim
<1>1. /\ row'.status = "in_progress" /\ row'.token = t /\ row'.lease
      /\ row'.attempts = row.attempts /\ row'.ids = row.ids
      /\ row'.archive = row.archive /\ row'.calls = row.calls
  BY <1>0 DEF Row, Claim
<1>2. /\ exec'[t].phase = "preparing" /\ exec'[t].attempts = row.attempts
      /\ exec'[t].archive = row.archive /\ exec'[t].slot = exec[t].slot
  <2> DEFINE e == [exec[t] EXCEPT !.worker = v, !.phase = "preparing",
                                  !.attempts = row.attempts, !.calls = row.calls,
                                  !.ids = row.ids, !.recon = row.recon,
                                  !.archive = row.archive]
  <2>1. /\ e.phase = "preparing" /\ e.attempts = row.attempts /\ e.archive = row.archive
        /\ e.slot = exec[t].slot
    BY <1>0 DEF Execution
  <2>2. exec' = [exec EXCEPT ![t] = e]
    BY DEF Claim, Become
  <2> HIDE DEF e
  <2> QED
    BY <1>0, <2>1, <2>2
<1>3. \A u \in Token : u # t => exec'[u] = exec[u]
  BY <1>0 DEF Claim, Become
<1>4. \A w \in Worker : scan[w] # NoCandidate => scan[w].token \in Token /\ scan[w].token # t
  BY <1>0 DEF Inv, TypeOK, TokensUsed, Candidate
<1>5. TokensUsed'
  BY <1>0, <1>1, <1>2, <1>3, <1>4 DEF Inv, TokensUsed
<1>6. CandidateKept'
  BY <1>0, <1>1, <1>4 DEF CandidateKept
<1>7. CopyKept'
  BY <1>1, <1>2 DEF CopyKept
<1>8. Answered'
  BY <1>2, <1>3 DEF Inv, Answered
<1>9. Spent'
  <2>1. exec'[t].ids = row.ids
    <3> DEFINE e == [exec[t] EXCEPT !.worker = v, !.phase = "preparing",
                                    !.attempts = row.attempts, !.calls = row.calls,
                                    !.ids = row.ids, !.recon = row.recon,
                                    !.archive = row.archive]
    <3>1. e.ids = row.ids
      BY <1>0 DEF Execution
    <3>2. exec' = [exec EXCEPT ![t] = e]
      BY DEF Claim, Become
    <3> HIDE DEF e
    <3> QED
      BY <1>0, <3>1, <3>2
  <2>2. IsFiniteSet(Spenders) /\ Cardinality(Spenders) \in Nat
    BY FS_CardinalityType DEF Inv, Spent
  <2>3. /\ IsFiniteSet(Spenders') /\ Cardinality(Spenders') \in Nat
        /\ Cardinality(Spenders') <= row.attempts + 1
    <3>1. CASE row.ids = {} /\ row.archive = "none"
      <4>1. Spenders' \subseteq Spenders \cup {t}
        BY <1>3 DEF Spenders
      <4>2. /\ IsFiniteSet(Spenders \cup {t})
            /\ Cardinality(Spenders \cup {t}) <= Cardinality(Spenders) + 1
            /\ Cardinality(Spenders \cup {t}) \in Nat
        <5>1. /\ IsFiniteSet(Spenders \cup {t})
              /\ \/ Cardinality(Spenders \cup {t}) = Cardinality(Spenders)
                 \/ Cardinality(Spenders \cup {t}) = Cardinality(Spenders) + 1
          BY <2>2, FS_AddElement
        <5> QED
          BY <2>2, <5>1
      <4>3. Cardinality(Spenders) <= row.attempts
        BY <1>0, <3>1 DEF Inv, Spent
      <4> QED
        BY <1>0, <2>2, <4>1, <4>2, <4>3, FS_Subset, FS_CardinalityType
    <3>2. CASE ~(row.ids = {} /\ row.archive = "none")
      <4>1. Spending(exec'[t]) => Spending(exec[t])
        BY <1>2, <2>1, <3>2 DEF Spending
      <4>2. Spenders' \subseteq Spenders
        BY <1>3, <4>1 DEF Spenders
      <4>3. Cardinality(Spenders) <= row.attempts + 1
        BY <1>0 DEF Inv, Spent, Open
      <4> QED
        BY <1>0, <2>2, <4>2, <4>3, FS_Subset, FS_CardinalityType
    <3> QED
      BY <3>1, <3>2
  <2>4. row.attempts + 1 <= MaxAttempts
    BY <1>0, ConstantsAssumption DEF Inv, TypeOK
  <2>5. Cardinality(Spenders') <= MaxAttempts
    BY <1>0, <2>3, <2>4, ConstantsAssumption
  <2> QED
    BY <1>1, <2>3, <2>5 DEF Spent
<1> QED
  BY <1>5, <1>6, <1>7, <1>8, <1>9 DEF Inv

\* A request is counted by the execution that holds a row without ids and without
\* a payload: it is in the call already.
LEMMA CountKeeps ==
    ASSUME Inv, TypeOK', IdsKnown', NEW t \in Token, NEW s \in Slot, Counts(t, s),
           AllMove, UNCHANGED scan
    PROVE  Inv'
<1>0. /\ row \in Row /\ row.calls \in Nat /\ row.attempts \in Nat
      /\ row.status = "in_progress" /\ row.token = t /\ row.lease
      /\ row.attempts < MaxAttempts
  BY ConstantsAssumption DEF Inv, TypeOK, Row, Counts, Owns
<1>1. row.ids = {} /\ row.archive = "none"
  BY <1>0 DEF Inv, IdsKnown, CopyKept, Counts, Live, LivePhase, Phase
<1>2. /\ row'.status = row.status /\ row'.token = row.token /\ row'.lease = row.lease
      /\ row'.attempts = row.attempts /\ row'.ids = row.ids
      /\ row'.archive = row.archive /\ row'.calls = row.calls + 1
  BY <1>0 DEF Row, Counts
<1>3. TokensUsed'
  <2>1. \A w \in Worker : scan[w] # NoCandidate => scan[w].token \in Token
    BY DEF Inv, TypeOK, Candidate
  <2> QED
    BY <1>0, <1>2, <2>1 DEF Inv, TokensUsed, AllMove, Moves
<1>4. CandidateKept'
  BY <1>0, <1>2 DEF Inv, CandidateKept
<1>5. CopyKept'
  <2> SUFFICES ASSUME Live(t)'
               PROVE  /\ exec'[t].attempts = row'.attempts
                      /\ exec'[t].phase = "preparing" => exec'[t].archive = row'.archive
                      /\ exec'[t].phase = "calling" => row'.archive = "none"
    BY <1>0, <1>2 DEF CopyKept
  <2>1. Moves(exec[t], exec'[t])
    BY DEF AllMove
  <2> QED
    BY <1>0, <1>1, <1>2, <2>1 DEF Inv, CopyKept, Moves, Live
<1>6. Answered'
  BY KeepsAnswered
<1>7. Spent'
  <2>1. /\ IsFiniteSet(Spenders') /\ Cardinality(Spenders') \in Nat
        /\ Cardinality(Spenders) \in Nat
        /\ Cardinality(Spenders') <= Cardinality(Spenders)
    BY SpendersShrink DEF Inv, Spent
  <2>2. Cardinality(Spenders) <= MaxAttempts /\ Cardinality(Spenders) <= row.attempts + 1
    BY <1>0 DEF Inv, Spent, Open
  <2>3. Cardinality(Spenders') <= MaxAttempts /\ Cardinality(Spenders') <= row.attempts + 1
    BY <1>0, <2>1, <2>2, ConstantsAssumption
  <2> QED
    BY <1>0, <1>2, <2>1, <2>3 DEF Spent
<1> QED
  BY <1>3, <1>4, <1>5, <1>6, <1>7 DEF Inv

\* A new task satisfies the invariant.
LEMMA InitInv == Init => Inv
<1> SUFFICES ASSUME Init PROVE Inv
  OBVIOUS
<1>1. TypeOK /\ IdsKnown
  BY InitType DEF Init, IdsKnown
<1>2. TokensUsed /\ CandidateKept /\ CopyKept
  BY DEF Init, TokensUsed, CandidateKept, CopyKept
<1>3. Answered
  BY DEF Init, Answered
<1>4. Spent
  <2>1. Spenders = {}
    BY DEF Init, Spenders, Spending
  <2>2. IsFiniteSet(Spenders) /\ Cardinality(Spenders) = 0
    BY <2>1, FS_EmptySet
  <2>3. row.attempts = 0
    BY DEF Init
  <2> QED
    BY <2>2, <2>3, ConstantsAssumption DEF Spent
<1> QED
  BY <1>1, <1>2, <1>3, <1>4 DEF Inv

\* Every step keeps it.
LEMMA StepInv == Inv /\ [Next]_vars => Inv'
<1> SUFFICES ASSUME Inv, [Next]_vars PROVE Inv'
  OBVIOUS
<1>0. TypeOK /\ TypeOK' /\ IdsKnown'
  BY StepType, StepsOfIds DEF Inv, IdsStep
<1>1. ASSUME NEW t \in Token, Execute(t) PROVE Inv'
  <2>1. UNCHANGED scan
    BY <1>1 DEF Execute, PrepareArchive, PrepareInputs, PrepareFails, ArchiveExpires, Request,
                BeginDispatch, QueueTimesOut, CommitDispatch, DispatchFails, Respond, SendAgain,
                SwitchRoute, Collect,
                CollectIds, Poll, SettleImages, SettlePartial, SettleUnknown, SettleRetry,
                SettleFailure, SettleAbort, Spool, Publish, PublishMissing, ArchiveFails,
                Interrupted
  <2>2. ScanMoves
    BY <2>1 DEF ScanMoves
  <2>3. ASSUME NEW s \in Slot, Request(t, s) PROVE Inv'
    <3>1. AllMove /\ (UNCHANGED row \/ Counts(t, s))
      BY <1>0, <2>3, RequestStep
    <3>2. CASE UNCHANGED row
      BY <1>0, <2>2, <3>1, <3>2, SameWrites, Keeps
    <3>3. CASE Counts(t, s)
      BY <1>0, <2>1, <3>1, <3>3, CountKeeps
    <3> QED
      BY <3>1, <3>2, <3>3
  <2>4. CASE ~\E s \in Slot : Request(t, s)
    BY <1>0, <1>1, <2>2, <2>4, PrepareStep, GatherStep, SettleStep, ArchiveStep, Keeps
       DEF Execute
  <2> QED
    BY <2>3, <2>4
<1>2. ASSUME NEW w \in Worker, Recover(w) \/ Process(w) PROVE Inv'
  BY <1>2, ProcessStep, Keeps
<1>3. ASSUME \/ \E t \in Token : LoseLease(t)
             \/ Cancel \/ SettleReconciliation \/ LeaseExpires \/ BackoffPasses
      PROVE  Inv'
  <2>1. ScanMoves
    BY <1>3 DEF ScanMoves, LoseLease, Cancel, SettleReconciliation, LeaseExpires, BackoffPasses
  <2> QED
    BY <1>0, <1>3, <2>1, OtherStep, Keeps
<1>4. ASSUME NEW w \in Worker, NEW t \in Token, Claim(w, t) PROVE Inv'
  BY <1>0, <1>4, ClaimKeeps
<1>5. CASE UNCHANGED vars
  <2>1. UNCHANGED row /\ UNCHANGED exec /\ ScanMoves
    BY <1>5 DEF vars, ScanMoves
  <2> QED
    BY <1>0, <2>1, SameWrites, StillMoves, Keeps
<1> QED
  BY <1>1, <1>2, <1>3, <1>4, <1>5 DEF Next

\* What a scan decides on is what the row holds when it writes: while the row is in
\* progress under the token it read and out of its lease, nobody has written it.
THEOREM ScanCurrent == Spec => []ScanIsCurrent
<1>1. Inv => ScanIsCurrent
  BY DEF Inv, CandidateKept, ScanIsCurrent
<1> QED
  BY <1>1, InitInv, StepInv, PTL DEF Spec

\* However its executions are cut off, retried, requeued for their ids or payload,
\* and recovered, no more of them begin a request than the task has attempts.
THEOREM BudgetKept == Spec => []AttemptBudget
<1>1. ASSUME Inv PROVE AttemptBudget
  <2> DEFINE senders == {t \in Token : \E s \in Slot : exec[t].slot[s] # "none"}
  <2>1. senders \subseteq Spenders
    BY DEF Spenders, Spending
  <2>2. IsFiniteSet(Spenders) /\ Cardinality(Spenders) <= MaxAttempts
    BY <1>1 DEF Inv, Spent
  <2>3. /\ Cardinality(senders) \in Nat /\ Cardinality(Spenders) \in Nat
        /\ Cardinality(senders) <= Cardinality(Spenders)
    <3> HIDE DEF senders
    <3> QED
      BY <2>1, <2>2, FS_Subset, FS_CardinalityType
  <2>4. Cardinality(senders) <= MaxAttempts
    <3> HIDE DEF senders
    <3> QED
      BY <2>2, <2>3, ConstantsAssumption
  <2> QED
    BY <2>4 DEF AttemptBudget
<1> QED
  BY <1>1, InitInv, StepInv, PTL DEF Spec

=============================================================================
