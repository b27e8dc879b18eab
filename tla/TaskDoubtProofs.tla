---------------------------- MODULE TaskDoubtProofs ----------------------------
(***************************************************************************)
(* Theorems about requests in doubt in TaskLifecycle: for every number of  *)
(* workers, claims and attempts, and for workers that are killed but not   *)
(* told to stop, a task under reconciliation keeps its hold while a        *)
(* request is in doubt, and a task of one image sends no second request    *)
(* after one in doubt.  The hypotheses are needed: a shutdown recovery     *)
(* decides on a row that may still count a request, and of several         *)
(* requests the first failure alone may decide on a retry.                 *)
(***************************************************************************)
EXTENDS TaskRecoveryProofs

(***************************************************************************)
(* The invariant.                                                          *)
(***************************************************************************)

\* A request in doubt, seen from the ids a row has stored.
Loose == {"inflight", "dropped", "unknown"}
Doubt(e, ids) ==
    \E s \in Slot : e.slot[s] \in Loose \/ (e.slot[s] = "accepted" /\ s \notin ids)

\* A result that tells what became of the requests.
Vague   == {"unknown", "unknownRecon", "abort"}
Told(e) == \/ e.phase \in {"polling", "archiving", "publishing"}
           \/ e.phase = "settling" /\ e.result \notin Vague

\* No worker is in its shutdown recovery.
NoShutdown ==
    \A w \in Worker : /\ worker[w] \in {"up", "down"}
                      /\ scan[w] # NoCandidate => ~scan[w].named

\* Whatever reached upstream was counted first.
Reached == Loose \cup {"accepted", "ok", "empty"}
Counted ==
    \A t \in Token :
        /\ (\E s \in Slot : exec[t].slot[s] \in Reached) => row.calls > 0
        /\ exec[t].phase = "settling" /\ exec[t].result = "unknownRecon" => row.calls > 0

\* A task is put under reconciliation when it is submitted, or in the step that
\* puts it aside; the execution that holds it knows.
ReconKept ==
    /\ Images # 1 /\ row.status \in Open => ~row.recon
    /\ \A t \in Token :
          row.status = "in_progress" /\ row.token = t /\ Live(t) => exec[t].recon = row.recon

SlotsKnown ==
    \A t \in Token :
        /\ exec[t].phase \in {"unused", "preparing"} => \A s \in Slot : exec[t].slot[s] = "none"
        /\ exec[t].phase = "calling" /\ ~exec[t].async
              => \A s \in Slot : exec[t].slot[s] # "accepted"

\* No execution but the one that holds the row has a request in doubt; neither has
\* that one when the row has ids or a payload, or a result that tells.
OthersClear ==
    /\ row.status = "queued" => \A t \in Token : ~Doubt(exec[t], row.ids)
    /\ row.status = "in_progress" =>
          \A t \in Token : t # row.token => ~Doubt(exec[t], row.ids)

HolderClear ==
    /\ row.status = "in_progress"
    /\ row.archive # "none" \/ row.ids # {} \/ (row.lease /\ Told(exec[row.token]))
    => ~Doubt(exec[row.token], row.ids)

Clear == Images = 1 => OthersClear /\ HolderClear

Guarded == Inv /\ NoShutdown /\ Counted /\ ReconKept /\ SlotsKnown /\ Clear

(***************************************************************************)
(* What a step that sends nothing and gathers nothing may do.              *)
(***************************************************************************)

Follows(e, f) ==
    /\ f.slot = e.slot
    /\ f.phase \in LivePhase => e.phase \in LivePhase /\ f.recon = e.recon
    /\ f.phase \in {"unused", "preparing"} => f.phase = e.phase
    /\ f.phase = "calling" =>
          e.phase = "preparing" \/ (e.phase = "calling" /\ f.async = e.async)
    /\ Told(f) => Told(e) \/ e.phase = "preparing"
    /\ f.phase = "settling" /\ f.result = "unknownRecon" =>
          e.phase = "settling" /\ e.result = "unknownRecon"

AllFollow == \A t \in Token : Follows(exec[t], exec'[t])

\* A row that stays open keeps its ids and its mark; a payload comes from a result
\* that tells; and it goes back to the queue with nothing in doubt.
RowFollows ==
    row'.status \in Open =>
        /\ row.status \in Open /\ row'.recon = row.recon
        /\ row'.ids = row.ids /\ row'.calls = row.calls
        /\ row'.status = "in_progress" =>
              /\ row.status = "in_progress" /\ row'.token = row.token
              /\ row'.lease => row.lease
              /\ \/ row'.archive = row.archive \/ row.archive # "none"
                 \/ row.lease /\ Told(exec[row.token])
        /\ row'.status = "queued" /\ row.status = "in_progress" /\ Images = 1
              => ~Doubt(exec[row.token], row.ids)

\* The hold of an open task under reconciliation is settled with nothing in doubt.
HoldSafe ==
    \/ UNCHANGED billing
    \/ row.status \in Open /\ row.recon => \A t \in Token : ~Doubt(exec[t], row.ids)

Careful == RowFollows /\ row'.calls = row.calls /\ AllFollow /\ HoldSafe

\* What has not reached upstream is not in doubt.
LEMMA NotReached ==
    ASSUME Counted, NEW t \in Token, NEW ids, ~(row.calls > 0)
    PROVE  ~Doubt(exec[t], ids)
BY DEF Counted, Doubt, Reached, Loose

LEMMA NothingSent ==
    ASSUME SlotsKnown, NEW t \in Token, NEW ids, exec[t].phase \in {"unused", "preparing"}
    PROVE  ~Doubt(exec[t], ids)
BY DEF SlotsKnown, Doubt, Loose

\* Doubt is a matter of the slots.
LEMMA SameDoubt ==
    ASSUME NEW e, NEW f, NEW ids, f.slot = e.slot
    PROVE  Doubt(f, ids) <=> Doubt(e, ids)
BY DEF Doubt

\* Such a step keeps the invariant.
LEMMA CarefulKeeps ==
    ASSUME Guarded, Inv', NoShutdown', Careful
    PROVE  Guarded'
<1>0. \A t \in Token : Follows(exec[t], exec'[t]) /\ exec'[t].slot = exec[t].slot
  BY DEF Careful, AllFollow, Follows
<1>1. Counted'
  BY <1>0 DEF Guarded, Counted, Careful, Follows
<1>2. ReconKept'
  <2>1. Images # 1 /\ row'.status \in Open => ~row'.recon
    BY DEF Guarded, ReconKept, Careful, RowFollows
  <2>2. ASSUME NEW t \in Token, row'.status = "in_progress", row'.token = t, Live(t)'
        PROVE  exec'[t].recon = row'.recon
    <3>1. row.status = "in_progress" /\ row.token = t /\ row'.recon = row.recon
      BY <2>2 DEF Careful, RowFollows, Open
    <3>2. Live(t) /\ exec'[t].recon = exec[t].recon
      BY <1>0, <2>2 DEF Follows, Live
    <3> QED
      BY <3>1, <3>2 DEF Guarded, ReconKept
  <2> QED
    BY <2>1, <2>2 DEF ReconKept
<1>3. SlotsKnown'
  BY <1>0 DEF Guarded, SlotsKnown, Follows
<1>4. Clear'
  <2> SUFFICES ASSUME Images = 1 PROVE OthersClear' /\ HolderClear'
    BY DEF Clear
  <2>0. OthersClear /\ HolderClear /\ SlotsKnown
    BY DEF Guarded, Clear
  <2>1. OthersClear'
    <3>1. ASSUME NEW t \in Token, row'.status = "queued" PROVE ~Doubt(exec'[t], row'.ids)
      <4>1. row'.ids = row.ids /\ row.status \in Open
        BY <3>1 DEF Careful, RowFollows, Open
      <4>2. ~Doubt(exec[t], row.ids)
        BY <2>0, <3>1, <4>1 DEF OthersClear, Careful, RowFollows, Open
      <4> QED
        BY <1>0, <4>1, <4>2, SameDoubt
    <3>2. ASSUME NEW t \in Token, row'.status = "in_progress", t # row'.token
          PROVE  ~Doubt(exec'[t], row'.ids)
      <4>1. row'.ids = row.ids /\ row.status = "in_progress" /\ t # row.token
        BY <3>2 DEF Careful, RowFollows, Open
      <4>2. ~Doubt(exec[t], row.ids)
        BY <2>0, <4>1 DEF OthersClear
      <4> QED
        BY <1>0, <4>1, <4>2, SameDoubt
    <3> QED
      BY <3>1, <3>2 DEF OthersClear
  <2>2. HolderClear'
    <3> SUFFICES ASSUME row'.status = "in_progress",
                        \/ row'.archive # "none" \/ row'.ids # {}
                        \/ row'.lease /\ Told(exec'[row'.token])
                 PROVE  ~Doubt(exec'[row'.token], row'.ids)
      BY DEF HolderClear
    <3>1. /\ row.status = "in_progress" /\ row'.token = row.token /\ row'.ids = row.ids
          /\ row'.lease => row.lease
          /\ \/ row'.archive = row.archive \/ row.archive # "none"
             \/ row.lease /\ Told(exec[row.token])
      BY DEF Careful, RowFollows, Open
    <3>2. row.token \in Token
      BY <3>1 DEF Guarded, Inv, TypeOK
    <3>3. CASE exec[row.token].phase = "preparing"
      BY <1>0, <2>0, <3>1, <3>2, <3>3, NothingSent, SameDoubt
    <3>4. CASE exec[row.token].phase # "preparing"
      <4>1. Told(exec'[row.token]) => Told(exec[row.token])
        BY <1>0, <3>2, <3>4 DEF Follows
      <4>2. ~Doubt(exec[row.token], row.ids)
        BY <2>0, <3>1, <4>1 DEF HolderClear
      <4> QED
        BY <1>0, <3>1, <3>2, <4>2, SameDoubt
    <3> QED
      BY <3>3, <3>4
  <2> QED
    BY <2>1, <2>2
<1> QED
  BY <1>1, <1>2, <1>3, <1>4 DEF Guarded

(***************************************************************************)
(* The executions.                                                         *)
(***************************************************************************)

LEMMA SelfFollows == \A e : Follows(e, e)
BY DEF Follows

LEMMA StillFollows ==
    ASSUME UNCHANGED exec
    PROVE  AllFollow
BY SelfFollows DEF AllFollow

LEMMA BecomeFollows ==
    ASSUME TypeOK, NEW t \in Token, NEW e, Become(t, e), Follows(exec[t], e)
    PROVE  AllFollow
<1> SUFFICES ASSUME NEW u \in Token PROVE Follows(exec[u], exec'[u])
  BY DEF AllFollow
<1>1. exec'[u] = IF u = t THEN e ELSE exec[u]
  BY DEF Become, TypeOK
<1> QED
  BY <1>1, SelfFollows

\* An execution that is over claims nothing.
LEMMA OverFollows ==
    ASSUME NEW t \in Token, NEW ph \in {"ended", "died"}
    PROVE  Follows(exec[t], Over(t, ph))
<1>1. Over(t, ph).phase = ph /\ Over(t, ph).slot = exec[t].slot
  BY DEF Over
<1> HIDE DEF Over
<1> QED
  BY <1>1 DEF Follows, Told, LivePhase

LEMMA EndFollows ==
    ASSUME TypeOK, NEW t \in Token, End(t)
    PROVE  AllFollow
BY OverFollows, BecomeFollows DEF End

LEMMA KilledFollows ==
    ASSUME NEW w, exec' = Killed(w)
    PROVE  AllFollow
<1> SUFFICES ASSUME NEW t \in Token PROVE Follows(exec[t], exec'[t])
  BY DEF AllFollow
<1>1. exec'[t] = Over(t, "died") \/ exec'[t] = exec[t]
  BY DEF Killed
<1> QED
  BY <1>1, OverFollows, SelfFollows

LEMMA AbortFollows ==
    ASSUME NEW e \in Execution
    PROVE  Follows(e, [e EXCEPT !.aborted = TRUE])
<1> DEFINE f == [e EXCEPT !.aborted = TRUE]
<1>1. /\ f.phase = e.phase /\ f.recon = e.recon /\ f.async = e.async
      /\ f.result = e.result /\ f.slot = e.slot
  BY DEF Execution
<1>2. Follows(e, f)
  <2> HIDE DEF f
  <2> QED
    BY <1>1 DEF Follows, Told
<1> QED
  BY <1>2

\* From a result that tells, or from no request at all, to another such.
LEMMA LateFollow ==
    ASSUME NEW e, NEW f, e.phase \in LivePhase, f.phase \in Late,
           f.slot = e.slot, f.recon = e.recon, Told(e) \/ e.phase = "preparing",
           f.phase = "settling" => f.result # "unknownRecon"
    PROVE  Follows(e, f)
BY DEF Follows, Late

LEMMA LateFollows ==
    ASSUME NEW e \in Execution, e.phase \in LivePhase, NEW ph \in Late,
           NEW r, NEW b, NEW p, Told(e) \/ e.phase = "preparing", r # "unknownRecon"
    PROVE  /\ Follows(e, [e EXCEPT !.phase = ph, !.result = r])
           /\ Follows(e, [e EXCEPT !.phase = ph, !.saved = b, !.result = r])
           /\ ph # "settling" => Follows(e, [e EXCEPT !.phase = ph])
           /\ ph # "settling" => Follows(e, [e EXCEPT !.phase = ph, !.archive = p])
<1>1. Follows(e, [e EXCEPT !.phase = ph, !.result = r])
  <2> DEFINE f == [e EXCEPT !.phase = ph, !.result = r]
  <2>1. f.phase = ph /\ f.slot = e.slot /\ f.recon = e.recon /\ f.result = r
    BY DEF Execution
  <2>2. Follows(e, f)
    <3> HIDE DEF f
    <3> QED
      BY <2>1, LateFollow
  <2> QED
    BY <2>2
<1>2. Follows(e, [e EXCEPT !.phase = ph, !.saved = b, !.result = r])
  <2> DEFINE f == [e EXCEPT !.phase = ph, !.saved = b, !.result = r]
  <2>1. f.phase = ph /\ f.slot = e.slot /\ f.recon = e.recon /\ f.result = r
    BY DEF Execution
  <2>2. Follows(e, f)
    <3> HIDE DEF f
    <3> QED
      BY <2>1, LateFollow
  <2> QED
    BY <2>2
<1>3. ASSUME ph # "settling" PROVE Follows(e, [e EXCEPT !.phase = ph])
  <2> DEFINE f == [e EXCEPT !.phase = ph]
  <2>1. f.phase = ph /\ f.slot = e.slot /\ f.recon = e.recon
    BY DEF Execution
  <2>2. Follows(e, f)
    <3> HIDE DEF f
    <3> QED
      BY <1>3, <2>1, LateFollow
  <2> QED
    BY <2>2
<1>4. ASSUME ph # "settling" PROVE Follows(e, [e EXCEPT !.phase = ph, !.archive = p])
  <2> DEFINE f == [e EXCEPT !.phase = ph, !.archive = p]
  <2>1. f.phase = ph /\ f.slot = e.slot /\ f.recon = e.recon
    BY DEF Execution
  <2>2. Follows(e, f)
    <3> HIDE DEF f
    <3> QED
      BY <1>4, <2>1, LateFollow
  <2> QED
    BY <2>2
<1> QED
  BY <1>1, <1>2, <1>3, <1>4

(***************************************************************************)
(* The row and the hold.                                                   *)
(***************************************************************************)

RowSafe == RowFollows /\ row'.calls = row.calls /\ HoldSafe

LEMMA SameSafe ==
    ASSUME UNCHANGED <<row, billing>>
    PROVE  RowSafe
BY DEF RowSafe, RowFollows, HoldSafe, Open

\* A task of several images is only marked when it is put aside.
LEMMA HoldNeedsOne ==
    ASSUME Guarded, Images # 1
    PROVE  HoldSafe
BY DEF Guarded, ReconKept, HoldSafe

\* A fenced finish: of a task without the mark, or with nothing in doubt.
LEMMA FinishSafe ==
    ASSUME Guarded, NEW t \in Token, NEW st \in Terminal, NEW p, NEW keep \in BOOLEAN,
           Finish(t, st, p, keep),
           Owns(t) /\ row.recon /\ Images = 1 => ~Doubt(exec[t], row.ids)
    PROVE  RowSafe
<1>1. CASE Owns(t)
  <2>1. row' = Finished(row, st, keep) /\ row \in Row
    BY <1>1 DEF Finish, Guarded, Inv, TypeOK
  <2>2. row'.status \notin Open /\ row'.calls = row.calls
    BY <2>1, FinishedKeepsIds DEF Terminal, Open
  <2>3. HoldSafe
    <3>1. CASE Images = 1 /\ row.recon
      <4>1. \A u \in Token : u # t => ~Doubt(exec[u], row.ids)
        BY <1>1, <3>1 DEF Guarded, Clear, OthersClear, Owns
      <4> QED
        BY <1>1, <3>1, <4>1 DEF HoldSafe
    <3> QED
      BY <3>1, HoldNeedsOne DEF HoldSafe
  <2> QED
    BY <2>2, <2>3 DEF RowSafe, RowFollows
<1>2. CASE ~Owns(t)
  BY <1>2, SameSafe DEF Finish
<1> QED
  BY <1>1, <1>2

\* A reconcile: the mark is only set on a row that leaves with it.
LEMMA ReconcileSafe ==
    ASSUME Guarded, NEW t, NEW require \in BOOLEAN, Reconcile(t, require),
           require => row.calls > 0
    PROVE  RowSafe
<1> DEFINE marked == [row EXCEPT !.recon = @ \/ require]
<1>0. row \in Row /\ UNCHANGED billing
  BY DEF Guarded, Inv, TypeOK, Reconcile
<1>1. CASE Owns(t)
  <2>1. /\ marked \in Row /\ marked.status = row.status /\ marked.token = row.token
        /\ marked.ids = row.ids /\ marked.archive = row.archive /\ marked.calls = row.calls
        /\ marked.lease = row.lease /\ marked.recon = (row.recon \/ require)
    BY <1>0 DEF Row
  <2>2. \/ row' = marked /\ ~MayReconcile(marked)
        \/ row' = Reconciling(marked)
    BY <1>1 DEF Reconcile
  <2>3. row.status = "in_progress"
    BY <1>1 DEF Owns
  <2> HIDE DEF marked
  <2>4. CASE row' = marked /\ ~MayReconcile(marked)
    <3>1. row'.recon = row.recon
      BY <1>0, <2>1, <2>3, <2>4 DEF MayReconcile, Row
    <3> QED
      BY <1>0, <2>1, <2>3, <2>4, <3>1 DEF RowSafe, RowFollows, HoldSafe, Open
  <2>5. CASE row' = Reconciling(marked)
    <3>1. row'.status \notin Open /\ row'.calls = row.calls
      BY <2>1, <2>5, WritesKeepIds DEF Open
    <3> QED
      BY <1>0, <3>1 DEF RowSafe, RowFollows, HoldSafe
  <2> QED
    BY <2>2, <2>4, <2>5
<1>2. CASE ~Owns(t)
  BY <1>0, <1>2, SameSafe DEF Reconcile
<1> QED
  BY <1>1, <1>2

\* The end of a result that stays unknown.
LEMMA FinishUnknownSafe ==
    ASSUME Guarded, NEW t \in Token, Live(t), FinishUnknown(t)
    PROVE  RowSafe
<1>1. CASE exec[t].recon
  BY <1>1, ReconcileSafe DEF FinishUnknown
<1>2. CASE ~exec[t].recon
  <2>1. Owns(t) => ~row.recon
    BY <1>2 DEF Guarded, ReconKept, Owns
  <2>2. Finish(t, "failed", "none", FALSE)
    BY <1>2 DEF FinishUnknown
  <2> QED
    BY <2>1, <2>2, FinishSafe DEF Terminal
<1> QED
  BY <1>1, <1>2

\* A row that goes back to the queue.
LEMMA RequeueSafe ==
    ASSUME Guarded, row.status = "in_progress", UNCHANGED billing, NEW p, NEW d, NEW a,
           row' = ArchiveRequeued(row, p, d) \/ row' = Requeued(row, a, d),
           Images = 1 => ~Doubt(exec[row.token], row.ids)
    PROVE  RowSafe
<1>0. row \in Row
  BY DEF Guarded, Inv, TypeOK
<1>1. /\ row'.status = "queued" /\ row'.ids = row.ids /\ row'.calls = row.calls
      /\ row'.recon = row.recon
  BY <1>0 DEF ArchiveRequeued, Requeued, Row
<1> QED
  BY <1>1 DEF RowSafe, RowFollows, HoldSafe, Open

\* The payload is written by the execution that has it.
LEMMA PayloadSafe ==
    ASSUME Guarded, NEW t \in Token, UNCHANGED billing, NEW p,
           row' = [row EXCEPT !.archive = p], Owns(t), Told(exec[t])
    PROVE  RowSafe
<1>0. row \in Row
  BY DEF Guarded, Inv, TypeOK
<1>1. /\ row'.status = row.status /\ row'.ids = row.ids /\ row'.calls = row.calls
      /\ row'.recon = row.recon /\ row'.token = row.token /\ row'.lease = row.lease
  BY <1>0 DEF Row
<1> QED
  BY <1>1 DEF RowSafe, RowFollows, HoldSafe, Open, Owns

\* The execution that holds the row and has a result that tells is not in doubt.
LEMMA HolderTold ==
    ASSUME Guarded, NEW t \in Token, Owns(t), Told(exec[t]), Images = 1
    PROVE  ~Doubt(exec[t], row.ids)
BY DEF Guarded, Clear, HolderClear, Owns

(***************************************************************************)
(* The steps.                                                              *)
(***************************************************************************)

LEMMA PrepareCareful ==
    ASSUME Guarded, NEW t \in Token,
           PrepareArchive(t) \/ PrepareInputs(t) \/ PrepareFails(t) \/ ArchiveExpires(t)
    PROVE  RowSafe /\ AllFollow
<1>0. /\ exec[t] \in Execution /\ exec[t].phase = "preparing" /\ exec[t].phase \in LivePhase
      /\ TypeOK
  BY DEF Guarded, Inv, TypeOK, PrepareArchive, PrepareInputs, PrepareFails, ArchiveExpires,
         LivePhase, Phase
<1>1. CASE PrepareArchive(t)
  <2>1. "archiving" \in Late /\ exec[t].archive # "unknownRecon"
    BY <1>0 DEF Late, Execution, Payload
  <2>2. Follows(exec[t], [exec[t] EXCEPT !.phase = "archiving", !.saved = TRUE,
                                         !.result = exec[t].archive])
    BY <1>0, <2>1, LateFollows
  <2> QED
    BY <1>0, <1>1, <2>2, BecomeFollows, SameSafe DEF PrepareArchive
<1>2. CASE PrepareInputs(t)
  <2>1. CASE End(t)
    BY <1>0, <1>2, <2>1, EndFollows, SameSafe DEF PrepareInputs
  <2>2. CASE ~End(t)
    <3>1. PICK b \in AsyncRoutes :
            Become(t, [exec[t] EXCEPT
                         !.async = b,
                         !.phase = IF exec[t].ids = {} THEN "calling" ELSE "polling"])
      BY <1>2, <2>2 DEF PrepareInputs
    <3> DEFINE f == [exec[t] EXCEPT
                       !.async = b,
                       !.phase = IF exec[t].ids = {} THEN "calling" ELSE "polling"]
    <3>2. f.phase \in {"calling", "polling"} /\ f.recon = exec[t].recon
          /\ f.slot = exec[t].slot
      BY <1>0 DEF Execution
    <3>3. Follows(exec[t], f)
      <4> HIDE DEF f
      <4> QED
        BY <1>0, <3>2 DEF Follows, Told
    <3> QED
      BY <1>0, <1>2, <3>1, <3>3, BecomeFollows, SameSafe DEF PrepareInputs
  <2> QED
    BY <2>1, <2>2
<1>3. CASE PrepareFails(t)
  <2>1. "settling" \in Late
    BY DEF Late
  <2>2. Follows(exec[t], [exec[t] EXCEPT !.phase = "settling", !.result = "refused"])
    BY <1>0, <2>1, LateFollows
  <2> QED
    BY <1>0, <1>3, <2>2, BecomeFollows, SameSafe DEF PrepareFails
<1>4. CASE ArchiveExpires(t)
  <2>1. ~Doubt(exec[t], row.ids)
    BY <1>0, NothingSent DEF Guarded
  <2> QED
    BY <1>0, <1>4, <2>1, FinishSafe, EndFollows DEF ArchiveExpires, Terminal
<1> QED
  BY <1>1, <1>2, <1>3, <1>4

\* Polling stored ids ends with a result that tells, or one that stays unknown.
LEMMA PollCareful ==
    ASSUME Guarded, NEW t \in Token, Poll(t)
    PROVE  RowSafe /\ AllFollow
<1>0. /\ exec[t] \in Execution /\ exec[t].phase = "polling" /\ exec[t].phase \in LivePhase
      /\ TypeOK
  BY DEF Guarded, Inv, TypeOK, Poll, LivePhase, Phase
<1>1. PICK r \in Result \ {"unknownRecon"} :
        Become(t, [exec[t] EXCEPT !.phase = "settling", !.result = r])
  BY DEF Poll, Result, Payload
<1>2. "settling" \in Late /\ Told(exec[t])
  BY <1>0 DEF Late, Told
<1>3. Follows(exec[t], [exec[t] EXCEPT !.phase = "settling", !.result = r])
  BY <1>0, <1>2, LateFollows
<1> QED
  BY <1>0, <1>1, <1>3, BecomeFollows, SameSafe DEF Poll

LEMMA SettleCareful ==
    ASSUME Guarded, NEW t \in Token,
           \/ SettleImages(t) \/ SettlePartial(t) \/ SettleUnknown(t)
           \/ SettleRetry(t) \/ SettleFailure(t) \/ SettleAbort(t)
    PROVE  RowSafe /\ AllFollow
<1>0. /\ exec[t] \in Execution /\ exec[t].phase = "settling" /\ exec[t].phase \in LivePhase
      /\ TypeOK /\ Live(t)
  BY DEF Guarded, Inv, TypeOK, Live, LivePhase, Phase, SettleImages, SettlePartial,
         SettleUnknown, SettleRetry, SettleFailure, SettleAbort
<1>1. CASE SettleImages(t)
  <2>1. Told(exec[t])
    BY <1>0, <1>1 DEF SettleImages, Told, Vague, Payload
  <2>2. "archiving" \in Late
    BY DEF Late
  <2>3. /\ Follows(exec[t], [exec[t] EXCEPT !.phase = "archiving"])
        /\ Follows(exec[t], [exec[t] EXCEPT !.phase = "archiving", !.archive = exec[t].result])
    BY <1>0, <2>1, <2>2, LateFollows
  <2>4. AllFollow
    BY <1>0, <1>1, <2>3, BecomeFollows, EndFollows DEF SettleImages
  <2>5. RowSafe
    BY <1>1, <2>1, SameSafe, PayloadSafe DEF SettleImages
  <2> QED
    BY <2>4, <2>5
<1>2. CASE SettlePartial(t)
  <2>1. Told(exec[t]) /\ ~exec[t].recon
    BY <1>0, <1>2 DEF SettlePartial, Told, Vague
  <2>2. AllFollow
    BY <1>0, <1>2, EndFollows DEF SettlePartial
  <2>3. CASE Finish(t, "failed", "none", FALSE)
    <3>1. Owns(t) => ~row.recon
      BY <1>0, <2>1 DEF Guarded, ReconKept, Owns
    <3> QED
      BY <2>2, <2>3, <3>1, FinishSafe DEF Terminal
  <2>4. CASE ~Finish(t, "failed", "none", FALSE)
    <3>1. UNCHANGED billing /\ \E p : row' = IF Owns(t) THEN ArchiveRequeued(row, p, FALSE) ELSE row
      BY <1>2, <2>4 DEF SettlePartial
    <3>2. CASE Owns(t)
      <4>1. Images = 1 => ~Doubt(exec[row.token], row.ids)
        BY <2>1, <3>2, HolderTold DEF Owns
      <4> QED
        BY <2>2, <3>1, <3>2, <4>1, RequeueSafe DEF Owns
    <3>3. CASE ~Owns(t)
      BY <2>2, <3>1, <3>3, SameSafe
    <3> QED
      BY <3>2, <3>3
  <2> QED
    BY <2>3, <2>4
<1>3. CASE SettleUnknown(t)
  <2>1. AllFollow
    BY <1>0, <1>3, EndFollows DEF SettleUnknown
  <2>2. CASE FinishUnknown(t)
    BY <1>0, <2>1, <2>2, FinishUnknownSafe
  <2>3. CASE exec[t].result = "unknownRecon" /\ Reconcile(t, TRUE)
    <3>1. row.calls > 0
      BY <1>0, <2>3 DEF Guarded, Counted
    <3> QED
      BY <2>1, <2>3, <3>1, ReconcileSafe
  <2> QED
    BY <1>3, <2>2, <2>3 DEF SettleUnknown
<1>4. CASE SettleRetry(t)
  <2>1. Told(exec[t])
    BY <1>0, <1>4 DEF SettleRetry, Told, Vague
  <2>2. AllFollow
    BY <1>0, <1>4, EndFollows DEF SettleRetry
  <2>3. CASE Owns(t)
    <3>1. Images = 1 => ~Doubt(exec[row.token], row.ids)
      BY <2>1, <2>3, HolderTold DEF Owns
    <3> QED
      BY <1>4, <2>2, <2>3, <3>1, RequeueSafe DEF SettleRetry, Owns
  <2>4. CASE ~Owns(t)
    BY <1>4, <2>2, <2>4, SameSafe DEF SettleRetry
  <2> QED
    BY <2>3, <2>4
<1>5. CASE SettleFailure(t)
  <2>1. Told(exec[t])
    BY <1>0, <1>5 DEF SettleFailure, Told, Vague
  <2> QED
    BY <1>0, <1>5, <2>1, HolderTold, FinishSafe, EndFollows DEF SettleFailure, Terminal
<1>6. CASE SettleAbort(t)
  BY <1>0, <1>6, EndFollows, SameSafe DEF SettleAbort
<1> QED
  BY <1>1, <1>2, <1>3, <1>4, <1>5, <1>6

LEMMA ArchiveCareful ==
    ASSUME Guarded, NEW t \in Token,
           \/ Spool(t) \/ Publish(t) \/ PublishMissing(t) \/ ArchiveFails(t)
    PROVE  RowSafe /\ AllFollow
<1>0. /\ exec[t] \in Execution /\ exec[t].phase \in {"archiving", "publishing"}
      /\ exec[t].phase \in LivePhase /\ TypeOK /\ Live(t) /\ Told(exec[t])
  BY DEF Guarded, Inv, TypeOK, Live, LivePhase, Phase, Told, Spool, Publish, PublishMissing,
         ArchiveFails
<1>1. CASE Spool(t)
  <2>1. "publishing" \in Late
    BY DEF Late
  <2>2. Follows(exec[t], [exec[t] EXCEPT !.phase = "publishing"])
    BY <1>0, <2>1, LateFollows
  <2>3. AllFollow
    BY <1>0, <1>1, <2>2, BecomeFollows, EndFollows DEF Spool
  <2>4. RowSafe
    BY <1>0, <1>1, SameSafe, PayloadSafe DEF Spool
  <2> QED
    BY <2>3, <2>4
<1>2. CASE Publish(t)
  BY <1>0, <1>2, HolderTold, FinishSafe, EndFollows DEF Publish, Terminal
<1>3. CASE PublishMissing(t)
  BY <1>0, <1>3, FinishUnknownSafe, EndFollows DEF PublishMissing
<1>4. CASE ArchiveFails(t)
  <2>1. CASE /\ row' = IF Owns(t) THEN ArchiveRequeued(row, exec[t].archive, FALSE) ELSE row
             /\ End(t) /\ UNCHANGED billing
    <3>1. CASE Owns(t)
      <4>1. Images = 1 => ~Doubt(exec[row.token], row.ids)
        BY <1>0, <3>1, HolderTold DEF Owns
      <4> QED
        BY <1>0, <2>1, <3>1, <4>1, RequeueSafe, EndFollows DEF Owns
    <3>2. CASE ~Owns(t)
      BY <1>0, <2>1, <3>2, SameSafe, EndFollows
    <3> QED
      BY <3>1, <3>2
  <2>2. CASE Finish(t, "failed", "none", TRUE) /\ End(t)
    BY <1>0, <2>2, HolderTold, FinishSafe, EndFollows DEF Terminal
  <2>3. ASSUME NEW c \in {"rejected", "refused"},
               Become(t, [exec[t] EXCEPT !.phase = "settling", !.result = c]),
               UNCHANGED <<row, billing>>
        PROVE  RowSafe /\ AllFollow
    <3>1. "settling" \in Late
      BY DEF Late
    <3>2. Follows(exec[t], [exec[t] EXCEPT !.phase = "settling", !.result = c])
      BY <1>0, <3>1, LateFollows
    <3> QED
      BY <1>0, <2>3, <3>2, BecomeFollows, SameSafe
  <2>4. CASE End(t) /\ UNCHANGED <<row, billing>>
    BY <1>0, <2>4, EndFollows, SameSafe
  <2> QED
    BY <1>4, <2>1, <2>2, <2>3, <2>4 DEF ArchiveFails
<1> QED
  BY <1>1, <1>2, <1>3, <1>4

\* A task that fails with its mark after an interruption has sent nothing.
LEMMA InterruptedCareful ==
    ASSUME Guarded, NEW t \in Token, Interrupted(t)
    PROVE  RowSafe /\ AllFollow
<1>0. TypeOK
  BY DEF Guarded, Inv
<1>1. AllFollow
  BY <1>0, EndFollows DEF Interrupted
<1>2. CASE Reconcile(t, FALSE)
  BY <1>1, <1>2, ReconcileSafe
<1>3. CASE ~(Owns(t) /\ MayReconcile(row)) /\ Finish(t, "failed", "none", TRUE)
  <2>1. Owns(t) /\ row.recon => ~(row.calls > 0)
    BY <1>3 DEF MayReconcile, Owns
  <2>2. Owns(t) /\ row.recon => ~Doubt(exec[t], row.ids)
    BY <2>1, NotReached DEF Guarded
  <2> QED
    BY <1>1, <1>3, <2>2, FinishSafe DEF Terminal
<1>4. CASE UNCHANGED <<row, billing>>
  BY <1>1, <1>4, SameSafe
<1> QED
  BY <1>2, <1>3, <1>4 DEF Interrupted

\* While no worker is told to stop, a recovery that covers the row has read what
\* the row holds.
LEMMA RecoverCareful ==
    ASSUME Guarded, NEW w \in Worker, RecoverWrite(w)
    PROVE  RowSafe
<1> DEFINE c == scan[w]
<1>0. row \in Row /\ c # NoCandidate /\ ~c.named
  BY DEF Guarded, Inv, TypeOK, NoShutdown, RecoverWrite
<1>1. CASE UNCHANGED <<row, billing>>
  BY <1>1, SameSafe
<1>2. CASE ~UNCHANGED <<row, billing>>
  <2>1. row.status = "in_progress" /\ row.token = c.token
    BY <1>2 DEF RecoverWrite
  <2>2. c = CandidateOf(FALSE) /\ row.token \in Token
    BY <1>0, <2>1 DEF Guarded, Inv, TypeOK, CandidateKept
  <2>3. /\ c.archive = row.archive /\ c.ids = row.ids /\ c.calls = row.calls
        /\ c.recon = row.recon /\ row.calls \in Nat
    BY <1>0, <2>2 DEF CandidateOf, Row
  <2>4. \/ UNCHANGED billing /\ row.archive # "none" /\ row' = ArchiveRequeued(row, c.archive, TRUE)
        \/ UNCHANGED billing /\ row' = Reconciling(row)
        \/ UNCHANGED billing /\ row.ids # {} /\ row' = Requeued(row, row.attempts, TRUE)
        \/ UNCHANGED billing /\ row.calls = 0 /\ row' = Requeued(row, c.attempts + 1, FALSE)
        \/ /\ ~(row.recon /\ row.calls > 0)
           /\ row' = [Finished(row, "failed", FALSE) EXCEPT !.attempts = c.attempts + 1]
    BY <1>2, <2>3 DEF RecoverWrite
  <2> HIDE DEF c
  <2>5. ASSUME row.archive # "none" \/ row.ids # {} \/ row.calls = 0
        PROVE  Images = 1 => ~Doubt(exec[row.token], row.ids)
    <3>1. CASE row.calls = 0
      <4>1. ~(row.calls > 0) /\ Counted
        BY <3>1 DEF Guarded
      <4> QED
        BY <2>2, <4>1, NotReached
    <3>2. CASE row.archive # "none" \/ row.ids # {}
      BY <2>1, <3>2 DEF Guarded, Clear, HolderClear
    <3> QED
      BY <2>5, <3>1, <3>2
  <2>6. CASE UNCHANGED billing /\ row' = Reconciling(row)
    BY <1>0, <2>6, WritesKeepIds DEF RowSafe, RowFollows, HoldSafe, Open
  <2>7. CASE /\ ~(row.recon /\ row.calls > 0)
             /\ row' = [Finished(row, "failed", FALSE) EXCEPT !.attempts = c.attempts + 1]
    <3> DEFINE f == Finished(row, "failed", FALSE)
    <3>1. f \in Row /\ f.calls = row.calls /\ f.status = "failed"
      BY <1>0, FinishedKeepsIds, FinishedType DEF Terminal
    <3>2. row'.calls = f.calls /\ row'.status = f.status
      <4> HIDE DEF f
      <4> QED
        BY <2>7, <3>1 DEF Row, f
    <3>3. row.recon => \A t \in Token : ~Doubt(exec[t], row.ids)
      BY <2>7, NotReached DEF Guarded
    <3> QED
      BY <3>1, <3>2, <3>3 DEF RowSafe, RowFollows, HoldSafe, Open
  <2> QED
    BY <2>1, <2>4, <2>5, <2>6, <2>7, RequeueSafe
<1> QED
  BY <1>1, <1>2

LEMMA ProcessCareful ==
    ASSUME Guarded, NEW w \in Worker, Recover(w) \/ Process(w)
    PROVE  RowSafe /\ AllFollow
<1>0. TypeOK
  BY DEF Guarded, Inv
<1>1. RowSafe
  BY SameSafe, RecoverCareful
     DEF Recover, Process, ScanRead, RecoverScanned, Terminate, Drained, AbortAll,
         NamedRead, RecoverNamed, Crash, Restart
<1>2. AllFollow
  <2>1. CASE AbortAll(w)
    <3> SUFFICES ASSUME NEW t \in Token PROVE Follows(exec[t], exec'[t])
      BY DEF AllFollow
    <3>1. exec'[t] = exec[t] \/ exec'[t] = [exec[t] EXCEPT !.aborted = TRUE]
      BY <2>1 DEF AbortAll
    <3>2. exec[t] \in Execution
      BY <1>0 DEF TypeOK
    <3> QED
      BY <3>1, <3>2, SelfFollows, AbortFollows
  <2> QED
    BY <2>1, StillFollows, KilledFollows
       DEF Recover, Process, ScanRead, RecoverScanned, Terminate, Drained, NamedRead,
           RecoverNamed, Crash, Restart
<1> QED
  BY <1>1, <1>2

\* A cancellation of a marked task that is not put aside finds nothing in doubt.
LEMMA OtherCareful ==
    ASSUME Guarded,
           \/ \E t \in Token : LoseLease(t)
           \/ Cancel \/ SettleReconciliation \/ LeaseExpires \/ BackoffPasses
    PROVE  RowSafe /\ AllFollow
<1>0. row \in Row /\ TypeOK
  BY DEF Guarded, Inv, TypeOK
<1>1. ASSUME NEW t \in Token, LoseLease(t) PROVE RowSafe /\ AllFollow
  <2>1. exec[t] \in Execution
    BY <1>0 DEF TypeOK
  <2> QED
    BY <1>0, <1>1, <2>1, AbortFollows, BecomeFollows, SameSafe DEF LoseLease
<1>2. CASE Cancel
  <2>1. row' = Reconciling(row) \/ row' = [row EXCEPT !.status = "cancelled"]
    BY <1>2 DEF Cancel
  <2>2. row'.calls = row.calls /\ row'.status \notin Open
    BY <1>0, <2>1, WritesKeepIds DEF Row, Open
  <2>3. HoldSafe
    <3>1. CASE row.recon /\ ~MayReconcile(row) /\ Images = 1
      <4>1. CASE row.status = "queued"
        BY <3>1, <4>1 DEF Guarded, Clear, OthersClear, HoldSafe
      <4>2. CASE row.status = "in_progress"
        <5>1. ~(row.calls > 0)
          BY <3>1, <4>2 DEF MayReconcile
        <5> QED
          BY <5>1, NotReached DEF Guarded, HoldSafe
      <4> QED
        BY <1>2, <4>1, <4>2 DEF Cancel
    <3>2. CASE MayReconcile(row) \/ ~row.recon
      BY <1>2, <3>2 DEF Cancel, HoldSafe
    <3> QED
      BY <3>1, <3>2, HoldNeedsOne
  <2> QED
    BY <1>2, <2>2, <2>3, StillFollows DEF Cancel, RowSafe, RowFollows
<1>3. CASE SettleReconciliation
  <2>1. PICK st \in {"completed", "failed"} : row' = Finished(row, st, FALSE)
    BY <1>3 DEF SettleReconciliation
  <2>2. row'.calls = row.calls /\ row'.status \notin Open
    BY <1>0, <2>1, FinishedKeepsIds DEF Terminal, Open
  <2> QED
    BY <1>3, <2>2, StillFollows DEF SettleReconciliation, RowSafe, RowFollows, HoldSafe, Open
<1>4. CASE LeaseExpires \/ BackoffPasses
  <2>1. /\ row'.calls = row.calls /\ row'.status = row.status /\ row'.token = row.token
        /\ row'.recon = row.recon /\ row'.ids = row.ids /\ row'.archive = row.archive
        /\ row'.lease => row.lease
        /\ UNCHANGED billing
    BY <1>0, <1>4 DEF LeaseExpires, BackoffPasses, Row
  <2>2. RowSafe
    BY <2>1 DEF RowSafe, RowFollows, HoldSafe, Open
  <2> QED
    BY <1>4, <2>2, StillFollows DEF LeaseExpires, BackoffPasses
<1> QED
  BY <1>1, <1>2, <1>3, <1>4

(***************************************************************************)
(* Requests, claims, and the gathering of the answers.                     *)
(***************************************************************************)

LEMMA MoreIdsLessDoubt ==
    ASSUME NEW e, NEW ids, NEW more, ids \subseteq more, ~Doubt(e, ids)
    PROVE  ~Doubt(e, more)
BY DEF Doubt

\* What a request may do to its slot: nothing reaches upstream uncounted.
LEMMA RequestSlots ==
    ASSUME TypeOK, NEW t \in Token, NEW s \in Slot, Request(t, s)
    PROVE  /\ UNCHANGED billing /\ UNCHANGED scan /\ UNCHANGED worker
           /\ \A u \in Token : u # t => exec'[u] = exec[u]
           /\ exec[t].phase = "calling" /\ exec'[t].phase = "calling"
           /\ exec'[t].recon = exec[t].recon /\ exec'[t].async = exec[t].async
           /\ \A r \in Slot : r # s => exec'[t].slot[r] = exec[t].slot[r]
           /\ UNCHANGED row \/ Counts(t, s)
           /\ \/ exec'[t].slot[s] \notin Reached
              \/ exec[t].slot[s] = "inflight"
                 /\ (exec'[t].slot[s] = "accepted" => exec[t].async)
              \/ Counts(t, s) /\ exec'[t].slot[s] # "accepted"
<1>0. exec[t] \in Execution /\ exec[t].slot \in [Slot -> SlotState]
  BY DEF TypeOK, Execution
<1>1. ASSUME NEW x, NEW b,
             \/ Become(t, [exec[t] EXCEPT !.slot[s] = x])
             \/ Become(t, [exec[t] EXCEPT !.slot[s] = x, !.aborted = b])
      PROVE  /\ \A u \in Token : u # t => exec'[u] = exec[u]
             /\ exec'[t].phase = exec[t].phase
             /\ exec'[t].recon = exec[t].recon /\ exec'[t].async = exec[t].async
             /\ \A r \in Slot : r # s => exec'[t].slot[r] = exec[t].slot[r]
             /\ exec'[t].slot[s] = x
  <2>1. ASSUME NEW f, f \in {[exec[t] EXCEPT !.slot[s] = x],
                             [exec[t] EXCEPT !.slot[s] = x, !.aborted = b]}
        PROVE  /\ f.phase = exec[t].phase /\ f.recon = exec[t].recon /\ f.async = exec[t].async
               /\ \A r \in Slot : r # s => f.slot[r] = exec[t].slot[r]
               /\ f.slot[s] = x
    BY <1>0, <2>1 DEF Execution
  <2>2. PICK f \in {[exec[t] EXCEPT !.slot[s] = x],
                    [exec[t] EXCEPT !.slot[s] = x, !.aborted = b]} : exec' = [exec EXCEPT ![t] = f]
    BY <1>1 DEF Become
  <2>3. exec'[t] = f /\ \A u \in Token : u # t => exec'[u] = exec[u]
    BY <2>2 DEF TypeOK
  <2> QED
    BY <2>1, <2>3
<1>2. PICK x, b : \/ Become(t, [exec[t] EXCEPT !.slot[s] = x])
                  \/ Become(t, [exec[t] EXCEPT !.slot[s] = x, !.aborted = b])
  BY DEF Request, BeginDispatch, QueueTimesOut, CommitDispatch, DispatchFails, Respond,
         SendAgain, SetSlot
<1>3. /\ \A u \in Token : u # t => exec'[u] = exec[u]
      /\ exec'[t].phase = exec[t].phase
      /\ exec'[t].recon = exec[t].recon /\ exec'[t].async = exec[t].async
      /\ \A r \in Slot : r # s => exec'[t].slot[r] = exec[t].slot[r]
  BY <1>1, <1>2
<1>4. exec[t].phase = "calling" /\ UNCHANGED billing /\ UNCHANGED scan /\ UNCHANGED worker
  BY DEF Request, BeginDispatch, QueueTimesOut, CommitDispatch, DispatchFails, Respond,
         SendAgain
<1>5. UNCHANGED row \/ Counts(t, s)
  BY RequestStep
<1>6. \/ exec'[t].slot[s] \notin Reached
      \/ exec[t].slot[s] = "inflight"
         /\ (exec'[t].slot[s] = "accepted" => exec[t].async)
      \/ Counts(t, s) /\ exec'[t].slot[s] # "accepted"
  <2>1. CASE BeginDispatch(t, s)
    <3>1. PICK y \in {"cut", "committing"} : SetSlot(t, s, y)
      BY <2>1 DEF BeginDispatch
    <3> QED
      BY <1>1, <3>1 DEF SetSlot, Reached, Loose
  <2>2. CASE QueueTimesOut(t, s)
    <3>1. exec'[t].slot[s] = "refused"
      BY <1>1, <2>2 DEF QueueTimesOut, SetSlot
    <3> QED
      BY <3>1 DEF Reached, Loose
  <2>3. CASE CommitDispatch(t, s)
    <3>1. CASE Owns(t)
      <4>1. PICK y \in {"dropped", "inflight"} : SetSlot(t, s, y)
        BY <2>3, <3>1 DEF CommitDispatch
      <4>2. exec'[t].slot[s] = y
        BY <1>1, <4>1 DEF SetSlot
      <4> QED
        BY <2>3, <3>1, <4>2 DEF CommitDispatch, Counts
    <3>2. CASE ~Owns(t)
      <4>1. Become(t, [exec[t] EXCEPT !.slot[s] = "cut", !.aborted = TRUE])
        BY <2>3, <3>2 DEF CommitDispatch
      <4>2. exec'[t].slot[s] = "cut"
        BY <1>1, <4>1
      <4> QED
        BY <4>2 DEF Reached, Loose
    <3> QED
      BY <3>1, <3>2
  <2>4. CASE DispatchFails(t, s)
    <3>1. PICK y \in {"refused", "unsent"} : SetSlot(t, s, y)
      BY <2>4 DEF DispatchFails
    <3> QED
      BY <1>1, <3>1 DEF SetSlot, Reached, Loose
  <2>5. CASE Respond(t, s)
    <3>1. PICK y : SetSlot(t, s, y) /\ (y = "accepted" => exec[t].async)
      BY <2>5 DEF Respond
    <3>2. exec'[t].slot[s] = y
      BY <1>1, <3>1 DEF SetSlot
    <3> QED
      BY <2>5, <3>1, <3>2 DEF Respond
  <2>6. CASE SendAgain(t, s)
    <3>1. exec'[t].slot[s] = "again"
      BY <1>1, <2>6 DEF SendAgain, SetSlot
    <3> QED
      BY <3>1 DEF Reached, Loose
  <2> QED
    BY <2>1, <2>2, <2>3, <2>4, <2>5, <2>6 DEF Request
<1> QED
  BY <1>3, <1>4, <1>5, <1>6

\* The row a request leaves.
LEMMA RequestRow ==
    ASSUME TypeOK, NEW t \in Token, NEW s \in Slot, UNCHANGED row \/ Counts(t, s)
    PROVE  /\ row'.status = row.status /\ row'.token = row.token /\ row'.lease = row.lease
           /\ row'.ids = row.ids /\ row'.archive = row.archive /\ row'.recon = row.recon
           /\ row.calls \in Nat
           /\ row'.calls = row.calls \/ (Counts(t, s) /\ row'.calls = row.calls + 1)
<1>1. row \in Row
  BY DEF TypeOK
<1> QED
  BY <1>1 DEF Row, Counts

\* A request is counted before it is sent, and by the execution that holds the row.
LEMMA RequestKeeps ==
    ASSUME Guarded, Inv', NoShutdown', NEW t \in Token, NEW s \in Slot, Request(t, s)
    PROVE  Guarded'
<1>0. TypeOK /\ Counted /\ ReconKept /\ SlotsKnown /\ Clear
  BY DEF Guarded, Inv
<1>1. /\ \A u \in Token : u # t => exec'[u] = exec[u]
      /\ exec[t].phase = "calling" /\ exec'[t].phase = "calling"
      /\ exec'[t].recon = exec[t].recon /\ exec'[t].async = exec[t].async
      /\ \A r \in Slot : r # s => exec'[t].slot[r] = exec[t].slot[r]
      /\ \/ exec'[t].slot[s] \notin Reached
         \/ exec[t].slot[s] = "inflight" /\ (exec'[t].slot[s] = "accepted" => exec[t].async)
         \/ Counts(t, s) /\ exec'[t].slot[s] # "accepted"
  BY <1>0, RequestSlots
<1>2. /\ row'.status = row.status /\ row'.token = row.token /\ row'.lease = row.lease
      /\ row'.ids = row.ids /\ row'.archive = row.archive /\ row'.recon = row.recon
      /\ row.calls \in Nat
      /\ row'.calls = row.calls \/ (Counts(t, s) /\ row'.calls = row.calls + 1)
  BY <1>0, RequestSlots, RequestRow
<1>3. Counted'
  <2>1. ASSUME NEW u \in Token, NEW r \in Slot, exec'[u].slot[r] \in Reached
        PROVE  row'.calls > 0
    <3>1. CASE exec[u].slot[r] \in Reached
      <4>1. row.calls > 0
        BY <1>0, <3>1 DEF Counted
      <4> QED
        BY <1>2, <4>1
    <3>2. CASE exec[u].slot[r] \notin Reached
      <4>1. u = t /\ r = s
        BY <1>1, <2>1, <3>2
      <4>2. Counts(t, s)
        BY <1>1, <2>1, <3>2, <4>1 DEF Reached, Loose
      <4>3. row'.calls = row.calls + 1
        BY <1>0, <4>2 DEF Counts, TypeOK, Row
      <4> QED
        BY <1>2, <4>3
    <3> QED
      BY <3>1, <3>2
  <2>2. ASSUME NEW u \in Token, exec'[u].phase = "settling", exec'[u].result = "unknownRecon"
        PROVE  row'.calls > 0
    <3>1. exec'[u] = exec[u]
      BY <1>1, <2>2
    <3>2. row.calls > 0
      BY <1>0, <2>2, <3>1 DEF Counted
    <3> QED
      BY <1>2, <3>2
  <2> QED
    BY <2>1, <2>2 DEF Counted
<1>4. ReconKept'
  <2>1. \A u \in Token : exec'[u].recon = exec[u].recon /\ (Live(u)' => Live(u))
    BY <1>1 DEF Live
  <2> QED
    BY <1>0, <1>2, <2>1 DEF ReconKept
<1>5. SlotsKnown'
  <2>1. ASSUME ~exec'[t].async, NEW r \in Slot PROVE exec'[t].slot[r] # "accepted"
    <3>1. exec[t].slot[r] # "accepted"
      BY <1>0, <1>1, <2>1 DEF SlotsKnown
    <3>2. CASE r = s
      BY <1>1, <2>1, <3>2 DEF Reached
    <3>3. CASE r # s
      BY <1>1, <3>1, <3>3
    <3> QED
      BY <3>2, <3>3
  <2> QED
    BY <1>0, <1>1, <2>1 DEF SlotsKnown
<1>6. ASSUME NEW u \in Token, ~Doubt(exec[u], row.ids), ~Counts(t, s)
      PROVE  ~Doubt(exec'[u], row'.ids)
  <2>1. CASE u # t
    BY <1>1, <1>2, <1>6, <2>1
  <2>2. CASE u = t
    <3>1. exec[t].slot[s] # "inflight"
      BY <1>6, <2>2 DEF Doubt, Loose
    <3>2. exec'[t].slot[s] \notin Reached
      BY <1>1, <1>6, <3>1
    <3> QED
      BY <1>1, <1>2, <1>6, <2>2, <3>2 DEF Doubt, Reached
  <2> QED
    BY <2>1, <2>2
<1>7. Clear'
  <2> SUFFICES ASSUME Images = 1 PROVE OthersClear' /\ HolderClear'
    BY DEF Clear
  <2>1. OthersClear /\ HolderClear
    BY <1>0 DEF Clear
  <2>2. OthersClear'
    <3>1. row.status = "queued" => \A u \in Token : ~Doubt(exec'[u], row'.ids)
      BY <1>6, <2>1 DEF OthersClear, Counts, Owns
    <3>2. ASSUME row.status = "in_progress", NEW u \in Token, u # row.token
          PROVE  ~Doubt(exec'[u], row'.ids)
      <4>1. ~Doubt(exec[u], row.ids)
        BY <2>1, <3>2 DEF OthersClear
      <4>2. CASE u = t
        BY <1>6, <3>2, <4>1, <4>2 DEF Counts, Owns
      <4>3. CASE u # t
        BY <1>1, <1>2, <4>1, <4>3
      <4> QED
        BY <4>2, <4>3
    <3> QED
      BY <1>2, <3>1, <3>2 DEF OthersClear
  <2>3. HolderClear'
    <3> SUFFICES ASSUME row.status = "in_progress",
                        \/ row'.archive # "none" \/ row'.ids # {}
                        \/ row'.lease /\ Told(exec'[row'.token])
                 PROVE  ~Doubt(exec'[row'.token], row'.ids)
      BY <1>2 DEF HolderClear
    <3>1. CASE row.token = t
      <4>1. row'.archive = "none" /\ row'.ids = {}
        BY <1>1, <1>2, <3>1 DEF Inv, IdsKnown, CopyKept, Live, LivePhase, Phase
      <4>2. ~Told(exec'[t])
        BY <1>1 DEF Told
      <4> QED
        BY <1>2, <3>1, <4>1, <4>2
    <3>2. CASE row.token # t
      <4>1. exec'[row.token] = exec[row.token]
        BY <1>0, <1>1, <3>2 DEF TypeOK
      <4> QED
        BY <1>2, <2>1, <4>1 DEF HolderClear
    <3> QED
      BY <3>1, <3>2
  <2> QED
    BY <2>2, <2>3
<1> QED
  BY <1>3, <1>4, <1>5, <1>7 DEF Guarded

\* A call that was turned away for certain leaves nothing in doubt, and starts again
\* over another route.
LEMMA SwitchKeeps ==
    ASSUME Guarded, Inv', NoShutdown', NEW t \in Token, SwitchRoute(t)
    PROVE  Guarded'
<1>0. TypeOK /\ Counted /\ ReconKept /\ SlotsKnown /\ Clear
  BY DEF Guarded, Inv
<1>1. exec[t] \in Execution /\ exec[t].phase = "calling" /\ UNCHANGED row
  BY <1>0 DEF TypeOK, SwitchRoute
<1>2. PICK b : Become(t, [exec[t] EXCEPT !.async = b, !.slot = [s \in Slot |-> "again"]])
  BY DEF SwitchRoute
<1>3. /\ exec'[t].phase = "calling" /\ exec'[t].recon = exec[t].recon
      /\ \A r \in Slot : exec'[t].slot[r] = "again"
      /\ \A u \in Token : u # t => exec'[u] = exec[u]
  <2> DEFINE f == [exec[t] EXCEPT !.async = b, !.slot = [s \in Slot |-> "again"]]
  <2>1. f.phase = "calling" /\ f.recon = exec[t].recon /\ f.slot = [s \in Slot |-> "again"]
    BY <1>1 DEF Execution
  <2>2. exec'[t] = f /\ \A u \in Token : u # t => exec'[u] = exec[u]
    BY <1>0, <1>2 DEF Become, TypeOK
  <2> HIDE DEF f
  <2> QED
    BY <2>1, <2>2
<1>4. Counted'
  BY <1>0, <1>1, <1>3 DEF Counted, Reached, Loose
<1>5. ReconKept'
  BY <1>0, <1>1, <1>3 DEF ReconKept, Live, LivePhase, Phase
<1>6. SlotsKnown'
  BY <1>0, <1>3 DEF SlotsKnown
<1>7. Clear'
  <2>1. \A u \in Token : /\ ~Doubt(exec[u], row.ids) => ~Doubt(exec'[u], row'.ids)
                         /\ Told(exec'[u]) => Told(exec[u])
    BY <1>1, <1>3 DEF Doubt, Loose, Told
  <2> SUFFICES ASSUME Images = 1 PROVE OthersClear' /\ HolderClear'
    BY DEF Clear
  <2>2. OthersClear /\ HolderClear
    BY <1>0 DEF Clear
  <2>3. row.status = "in_progress" => row.token \in Token
    BY <1>0 DEF TypeOK
  <2> QED
    BY <1>1, <2>1, <2>2, <2>3 DEF OthersClear, HolderClear
<1> QED
  BY <1>4, <1>5, <1>6, <1>7 DEF Guarded

\* The answers of an execution are gathered; the ids among them may be stored.
LEMMA GatherKeeps ==
    ASSUME Guarded, Inv', NoShutdown', NEW t \in Token, NEW f, Become(t, f),
           exec[t].phase = "calling", f.slot = exec[t].slot, f.recon = exec[t].recon,
           f.phase \in {"polling", "settling"}, UNCHANGED billing,
           \/ row' = row
           \/ /\ Owns(t) /\ SlotsIn(t, {"accepted"}) # {}
              /\ row' = [row EXCEPT !.ids = SlotsIn(t, {"accepted"})],
           f.phase = "settling" /\ f.result = "unknownRecon"
              => \E s \in Slot : exec[t].slot[s] \in Reached,
           Images = 1 /\ (row'.ids # {} \/ Told(f)) /\ Owns(t) => ~Doubt(exec[t], row'.ids)
    PROVE  Guarded'
<1>0. TypeOK /\ Counted /\ ReconKept /\ SlotsKnown /\ Clear
  BY DEF Guarded, Inv
<1>1. exec'[t] = f /\ \A u \in Token : u # t => exec'[u] = exec[u]
  BY <1>0 DEF Become, TypeOK
<1>2. \A u \in Token : exec'[u].slot = exec[u].slot /\ exec'[u].recon = exec[u].recon
  BY <1>1
<1>3. /\ row'.status = row.status /\ row'.token = row.token /\ row'.lease = row.lease
      /\ row'.archive = row.archive /\ row'.recon = row.recon /\ row'.calls = row.calls
      /\ row'.ids = row.ids \/ Owns(t)
  BY <1>0 DEF TypeOK, Row
<1>4. Owns(t) => row.ids = {} /\ row.archive = "none"
  BY DEF Guarded, Inv, IdsKnown, CopyKept, Owns, Live, LivePhase, Phase
<1>5. Counted'
  BY <1>0, <1>1, <1>2, <1>3 DEF Counted
<1>6. ReconKept'
  <2>1. \A u \in Token : Live(u)' => Live(u)
    BY <1>1 DEF Live, LivePhase, Phase
  <2> QED
    BY <1>0, <1>2, <1>3, <2>1 DEF ReconKept
<1>7. SlotsKnown'
  BY <1>0, <1>1 DEF SlotsKnown
<1>8. Clear'
  <2> SUFFICES ASSUME Images = 1 PROVE OthersClear' /\ HolderClear'
    BY DEF Clear
  <2>1. OthersClear /\ HolderClear
    BY <1>0 DEF Clear
  <2>2. ASSUME NEW u \in Token, ~Doubt(exec[u], row.ids) PROVE ~Doubt(exec'[u], row'.ids)
    <3>1. row.ids \subseteq row'.ids
      BY <1>3, <1>4
    <3> QED
      BY <1>2, <2>2, <3>1, SameDoubt, MoreIdsLessDoubt
  <2>3. OthersClear'
    BY <1>3, <2>1, <2>2 DEF OthersClear
  <2>4. HolderClear'
    <3> SUFFICES ASSUME row.status = "in_progress",
                        \/ row'.archive # "none" \/ row'.ids # {}
                        \/ row'.lease /\ Told(exec'[row'.token])
                 PROVE  ~Doubt(exec'[row'.token], row'.ids)
      BY <1>3 DEF HolderClear
    <3>0. row.token \in Token
      BY <1>0 DEF TypeOK
    <3>1. CASE row.token = t /\ row.lease
      <4>1. Owns(t) /\ (row'.ids # {} \/ Told(f))
        BY <1>1, <1>3, <1>4, <3>1 DEF Owns
      <4>2. ~Doubt(exec[t], row'.ids)
        BY <4>1
      <4> QED
        BY <1>2, <1>3, <3>1, <4>2, SameDoubt
    <3>2. CASE row.token = t /\ ~row.lease
      <4>1. row'.archive = "none" /\ row'.ids = {}
        BY <1>1, <1>3, <3>2
           DEF Guarded, Inv, IdsKnown, CopyKept, Owns, Live, LivePhase, Phase
      <4> QED
        BY <1>3, <3>2, <4>1
    <3>3. CASE row.token # t
      <4>1. exec'[row.token] = exec[row.token] /\ row' = row
        BY <1>1, <3>0, <3>3 DEF Owns
      <4> QED
        BY <2>1, <4>1 DEF HolderClear
    <3> QED
      BY <3>1, <3>2, <3>3
  <2> QED
    BY <2>3, <2>4
<1> QED
  BY <1>5, <1>6, <1>7, <1>8 DEF Guarded

\* With one request, the first failure is that request's.
LEMMA OneRequest ==
    ASSUME Images = 1, NEW t
    PROVE  /\ Slot = {1}
           /\ FailedSlots(t) # {} => FirstError(t) = ErrorOf(exec[t].slot[1])
           /\ \A S : SlotsIn(t, S) = IF exec[t].slot[1] \in S THEN {1} ELSE {}
<1>1. Slot = {1}
  BY DEF Slot
<1>2. \A S : SlotsIn(t, S) = IF exec[t].slot[1] \in S THEN {1} ELSE {}
  BY <1>1 DEF SlotsIn
<1>3. ASSUME FailedSlots(t) # {} PROVE FirstError(t) = ErrorOf(exec[t].slot[1])
  <2>1. FailedSlots(t) = {1}
    BY <1>2, <1>3 DEF FailedSlots
  <2>2. (CHOOSE s \in FailedSlots(t) : \A r \in FailedSlots(t) : s <= r) = 1
    BY <2>1
  <2> QED
    BY <2>2 DEF FirstError
<1> QED
  BY <1>1, <1>2, <1>3

\* What that request throws tells of it, unless it is unknown or was cut off.
LEMMA ErrorTells ==
    ASSUME NEW x, ErrorOf(x) \notin Vague
    PROVE  x \notin Loose \cup {"accepted"}
BY DEF ErrorOf, Vague, Loose

LEMMA CollectKeeps ==
    ASSUME Guarded, Inv', NoShutdown', NEW t \in Token, Collect(t)
    PROVE  Guarded'
<1> DEFINE f == [exec[t] EXCEPT !.phase = "settling", !.result = SyncResult(t)]
<1>0. /\ exec[t] \in Execution /\ exec[t].phase = "calling" /\ ~exec[t].async
      /\ SlotsKnown /\ Become(t, f) /\ UNCHANGED <<row, billing>>
  BY DEF Guarded, Inv, TypeOK, Collect
<1>1. /\ f.slot = exec[t].slot /\ f.recon = exec[t].recon /\ f.phase = "settling"
      /\ f.result = SyncResult(t)
  BY <1>0 DEF Execution
<1>2. SyncResult(t) = "unknownRecon" => \E s \in Slot : exec[t].slot[s] \in Reached
  <2>1. SlotsIn(t, {"ok", "empty"}) # {} => \E s \in Slot : exec[t].slot[s] \in Reached
    BY DEF SlotsIn, Reached
  <2>2. FirstError(t) # "unknownRecon"
    BY ErrorType DEF FirstError
  <2> QED
    BY <2>1, <2>2 DEF SyncResult
<1>3. ASSUME Images = 1, Told(f) PROVE ~Doubt(exec[t], row.ids)
  <2>1. SyncResult(t) \notin Vague
    BY <1>1, <1>3 DEF Told
  <2>2. exec[t].slot[1] # "accepted" /\ Slot = {1}
    BY <1>0, <1>3, OneRequest DEF SlotsKnown
  <2>3. exec[t].slot[1] \notin Loose
    <3>1. CASE FailedSlots(t) = {}
      <4>1. exec[t].slot[1] \in SlotState
        BY <1>0, <2>2 DEF Execution
      <4>2. exec[t].slot[1] \in {"ok", "empty", "accepted"}
        BY <1>3, <3>1, <4>1, OneRequest DEF FailedSlots
      <4> QED
        BY <4>2 DEF Loose
    <3>2. CASE FailedSlots(t) # {}
      <4>1. exec[t].slot[1] \notin {"ok", "empty"}
        BY <1>3, <3>2, OneRequest DEF FailedSlots
      <4>2. SlotsIn(t, {"ok", "empty"}) = {}
        BY <1>3, <4>1, OneRequest
      <4>3. SyncResult(t) = FirstError(t) \/ SyncResult(t) = "unknown"
        BY <3>2, <4>2 DEF SyncResult
      <4>4. ErrorOf(exec[t].slot[1]) \notin Vague
        BY <1>3, <2>1, <3>2, <4>3, OneRequest DEF Vague
      <4> QED
        BY <4>4, ErrorTells
    <3> QED
      BY <3>1, <3>2
  <2> QED
    BY <2>2, <2>3 DEF Doubt
<1>4. row.ids # {} => ~Owns(t)
  BY <1>0 DEF Guarded, Inv, IdsKnown, Owns
<1> HIDE DEF f
<1> QED
  BY <1>0, <1>1, <1>2, <1>3, <1>4, GatherKeeps

LEMMA CollectIdsKeeps ==
    ASSUME Guarded, Inv', NoShutdown', NEW t \in Token, CollectIds(t)
    PROVE  Guarded'
<1> DEFINE accepted == SlotsIn(t, {"accepted"})
           result == IF FailedSlots(t) = {} THEN "none"
                     ELSE IF accepted # {} THEN "unknownRecon" ELSE AsyncError(t)
           ph == IF result = "none" THEN "polling" ELSE "settling"
           lost == accepted # {} /\ ~Owns(t)
           stored == [row EXCEPT !.ids = accepted]
           told == [exec[t] EXCEPT !.phase = ph, !.result = result, !.aborted = @ \/ lost]
           failed == [exec[t] EXCEPT !.phase = "settling", !.result = "unknownRecon"]
<1>0. /\ exec[t] \in Execution /\ exec[t].phase = "calling" /\ UNCHANGED billing
      /\ row \in Row
  BY DEF Guarded, Inv, TypeOK, CollectIds
<1>1. \/ Become(t, told) /\ row' = IF accepted # {} /\ Owns(t) THEN stored ELSE row
      \/ Become(t, failed) /\ accepted # {} /\ (row' = row \/ (Owns(t) /\ row' = stored))
  BY DEF CollectIds
<1>2. stored.ids = accepted
  BY <1>0 DEF Row
<1>3. accepted # {} => \E s \in Slot : exec[t].slot[s] \in Reached
  BY DEF SlotsIn, Reached
<1>4. AsyncError(t) # "unknownRecon"
  BY ErrorType DEF AsyncError, FirstError
<1>5. Owns(t) => row.ids = {}
  BY <1>0 DEF Guarded, Inv, IdsKnown, Owns
<1>6. ASSUME Images = 1, accepted # {} PROVE ~Doubt(exec[t], accepted)
  <2>1. Slot = {1} /\ accepted = {1} /\ exec[t].slot[1] = "accepted"
    BY <1>6, OneRequest
  <2> HIDE DEF accepted
  <2> QED
    BY <2>1 DEF Doubt, Loose
<1>7. ASSUME Images = 1, accepted = {}, ph = "polling" \/ result \notin Vague
      PROVE  ~Doubt(exec[t], row.ids)
  <2>1. Slot = {1} /\ exec[t].slot[1] # "accepted"
    BY <1>7, OneRequest
  <2>2. exec[t].slot[1] \notin Loose
    <3>1. CASE FailedSlots(t) = {}
      <4>1. exec[t].slot[1] \in SlotState
        BY <1>0, <2>1 DEF Execution
      <4>2. exec[t].slot[1] \in {"ok", "empty", "accepted"}
        BY <1>7, <3>1, <4>1, OneRequest DEF FailedSlots
      <4> QED
        BY <4>2 DEF Loose
    <3>2. CASE FailedSlots(t) # {}
      <4>1. result = AsyncError(t) /\ AsyncError(t) # "none"
        BY <1>7, <3>2, ErrorType DEF AsyncError, FirstError
      <4>2. AsyncError(t) \notin Vague
        BY <1>7, <4>1
      <4>3. ErrorOf(exec[t].slot[1]) \notin Vague
        BY <1>7, <3>2, <4>2, OneRequest DEF AsyncError, Vague
      <4> QED
        BY <4>3, ErrorTells
    <3> QED
      BY <3>1, <3>2
  <2> QED
    BY <2>1, <2>2 DEF Doubt
<1>8. CASE /\ Become(t, told)
           /\ row' = IF accepted # {} /\ Owns(t) THEN stored ELSE row
  <2>1. /\ told.slot = exec[t].slot /\ told.recon = exec[t].recon /\ told.phase = ph
        /\ told.result = result
    <3> HIDE DEF ph, result, lost, accepted
    <3> QED
      BY <1>0 DEF Execution
  <2>2. ph \in {"polling", "settling"}
    OBVIOUS
  <2>3. result = "unknownRecon" => \E s \in Slot : exec[t].slot[s] \in Reached
    BY <1>3, <1>4
  <2>4. ASSUME Images = 1, row'.ids # {} \/ Told(told), Owns(t)
        PROVE  ~Doubt(exec[t], row'.ids)
    <3>1. CASE accepted # {}
      BY <1>2, <1>6, <1>8, <2>4, <3>1
    <3>2. CASE accepted = {}
      <4>1. row' = row /\ row.ids = {} /\ Told(told)
        BY <1>5, <1>8, <2>4, <3>2
      <4>2. ph = "polling" \/ result \notin Vague
        <5> HIDE DEF told, ph, result
        <5> QED
          BY <2>1, <2>2, <4>1 DEF Told
      <4> QED
        BY <1>7, <2>4, <3>2, <4>1, <4>2
    <3> QED
      BY <3>1, <3>2
  <2>5. row' = row \/ (Owns(t) /\ accepted # {} /\ row' = stored)
    BY <1>8
  <2> HIDE DEF told, ph, result, lost
  <2> QED
    BY <1>0, <1>8, <2>1, <2>2, <2>3, <2>4, <2>5, GatherKeeps
<1>9. CASE Become(t, failed) /\ accepted # {} /\ (row' = row \/ (Owns(t) /\ row' = stored))
  <2>1. /\ failed.slot = exec[t].slot /\ failed.recon = exec[t].recon
        /\ failed.phase = "settling" /\ failed.result = "unknownRecon"
    BY <1>0 DEF Execution
  <2>2. ~Told(failed)
    <3> HIDE DEF failed
    <3> QED
      BY <2>1 DEF Told, Vague
  <2>3. Images = 1 /\ (row'.ids # {} \/ Told(failed)) /\ Owns(t) => ~Doubt(exec[t], row'.ids)
    BY <1>2, <1>5, <1>6, <1>9, <2>2
  <2> HIDE DEF failed
  <2> QED
    BY <1>0, <1>3, <1>9, <2>1, <2>3, GatherKeeps
<1> QED
  BY <1>1, <1>8, <1>9

\* A claim takes a token that nothing was sent for, with the row's mark.
LEMMA ClaimGuards ==
    ASSUME Guarded, Inv', NoShutdown', NEW v \in Worker, NEW t \in Token, Claim(v, t)
    PROVE  Guarded' /\ UNCHANGED billing /\ row'.calls = row.calls
<1>0. /\ row \in Row /\ exec[t] \in Execution /\ row.status = "queued" /\ row.status \in Open
      /\ exec[t].phase = "unused" /\ UNCHANGED billing /\ exec \in [Token -> Execution]
      /\ Counted /\ ReconKept /\ SlotsKnown /\ Clear
  BY DEF Guarded, Inv, TypeOK, Claim, Open
<1>1. /\ row'.status = "in_progress" /\ row'.token = t /\ row'.ids = row.ids
      /\ row'.calls = row.calls /\ row'.recon = row.recon
  BY <1>0 DEF Row, Claim
<1>2. exec'[t].phase = "preparing" /\ exec'[t].recon = row.recon /\ exec'[t].slot = exec[t].slot
  <2> DEFINE e == [exec[t] EXCEPT !.worker = v, !.phase = "preparing",
                                  !.attempts = row.attempts, !.calls = row.calls,
                                  !.ids = row.ids, !.recon = row.recon,
                                  !.archive = row.archive]
  <2>1. e.phase = "preparing" /\ e.recon = row.recon /\ e.slot = exec[t].slot
    BY <1>0 DEF Execution
  <2>2. exec' = [exec EXCEPT ![t] = e]
    BY DEF Claim, Become
  <2> HIDE DEF e
  <2> QED
    BY <1>0, <2>1, <2>2
<1>3. \A u \in Token : u # t => exec'[u] = exec[u]
  BY <1>0 DEF Claim, Become
<1>4. Counted'
  BY <1>0, <1>1, <1>2, <1>3 DEF Counted
<1>5. ReconKept'
  BY <1>0, <1>1, <1>2 DEF ReconKept
<1>6. \A s \in Slot : exec'[t].slot[s] = "none"
  BY <1>0, <1>2 DEF SlotsKnown
<1>7. SlotsKnown'
  BY <1>0, <1>2, <1>3, <1>6 DEF SlotsKnown
<1>8. Clear'
  <2>1. ~Doubt(exec'[t], row'.ids)
    BY <1>6 DEF Doubt, Loose
  <2>2. ASSUME Images = 1, NEW u \in Token, u # t PROVE ~Doubt(exec'[u], row'.ids)
    BY <1>0, <1>1, <1>3, <2>2 DEF Clear, OthersClear
  <2> QED
    BY <1>1, <2>1, <2>2 DEF Clear, OthersClear, HolderClear
<1> QED
  BY <1>0, <1>1, <1>4, <1>5, <1>7, <1>8 DEF Guarded

\* Without a SIGTERM no recovery names its rows.
LEMMA NoShutdownStep ==
    ASSUME TypeOK, NoShutdown, [Next]_vars, Stoppable = {}
    PROVE  NoShutdown'
<1>1. CASE UNCHANGED <<worker, scan>>
  BY <1>1 DEF NoShutdown
<1>2. ASSUME NEW w \in Worker, ScanRead(w) PROVE NoShutdown'
  <2>1. \A v \in Worker : scan'[v] = scan[v] \/ scan'[v] = CandidateOf(FALSE)
    BY <1>2 DEF TypeOK, ScanRead
  <2> QED
    BY <1>2, <2>1 DEF NoShutdown, ScanRead, CandidateOf
<1>3. ASSUME NEW w \in Worker, RecoverScanned(w) PROVE NoShutdown'
  <2>1. \A v \in Worker : scan'[v] = scan[v] \/ scan'[v] = NoCandidate
    BY <1>3 DEF TypeOK, RecoverScanned, RecoverWrite
  <2> QED
    BY <1>3, <2>1 DEF NoShutdown, RecoverScanned
<1>4. ASSUME NEW w \in Worker, Crash(w) \/ Restart(w) PROVE NoShutdown'
  <2>1. \A v \in Worker : /\ worker'[v] \in {worker[v], "up", "down"}
                          /\ scan'[v] = scan[v] \/ scan'[v] = NoCandidate
    BY <1>4 DEF TypeOK, Crash, Restart
  <2> QED
    BY <2>1 DEF NoShutdown
<1>5. ASSUME NEW w \in Worker,
             Terminate(w) \/ Drained(w) \/ AbortAll(w) \/ NamedRead(w) \/ RecoverNamed(w)
      PROVE  FALSE
  BY <1>5 DEF NoShutdown, Terminate, Drained, AbortAll, NamedRead, RecoverNamed
<1>6. CASE \/ \E w \in Worker, t \in Token : Claim(w, t)
           \/ \E t \in Token : LoseLease(t)
           \/ Cancel \/ SettleReconciliation \/ LeaseExpires \/ BackoffPasses
           \/ UNCHANGED vars
  BY <1>1, <1>6
     DEF Claim, LoseLease, Cancel, SettleReconciliation, LeaseExpires, BackoffPasses, vars
<1>7. ASSUME NEW t \in Token, Execute(t) PROVE NoShutdown'
  <2>1. ASSUME NEW s \in Slot, Request(t, s) PROVE NoShutdown'
    BY <1>1, <2>1 DEF Request, BeginDispatch, QueueTimesOut, CommitDispatch, DispatchFails, Respond,
                SendAgain
  <2>2. CASE \/ PrepareArchive(t) \/ PrepareInputs(t) \/ PrepareFails(t)
             \/ ArchiveExpires(t) \/ SwitchRoute(t)
    BY <1>1, <2>2 DEF PrepareArchive, PrepareInputs, PrepareFails, ArchiveExpires, SwitchRoute
  <2>3. CASE Collect(t) \/ CollectIds(t) \/ Poll(t)
    BY <1>1, <2>3 DEF Collect, CollectIds, Poll
  <2>4. CASE \/ SettleImages(t) \/ SettlePartial(t) \/ SettleUnknown(t)
             \/ SettleRetry(t) \/ SettleFailure(t) \/ SettleAbort(t)
    BY <1>1, <2>4 DEF SettleImages, SettlePartial, SettleUnknown, SettleRetry, SettleFailure,
                SettleAbort
  <2>5. CASE \/ Spool(t) \/ Publish(t) \/ PublishMissing(t) \/ ArchiveFails(t)
             \/ Interrupted(t)
    BY <1>1, <2>5 DEF Spool, Publish, PublishMissing, ArchiveFails, Interrupted
  <2> QED
    BY <1>7, <2>1, <2>2, <2>3, <2>4, <2>5 DEF Execute
<1> QED
  BY <1>2, <1>3, <1>4, <1>5, <1>6, <1>7 DEF Next, Recover, Process

(***************************************************************************)
(* The invariant, and what a step does to the count and to the hold.       *)
(***************************************************************************)

LEMMA InitGuarded == Init => Guarded
<1> SUFFICES ASSUME Init PROVE Guarded
  OBVIOUS
<1>0. row.status = "queued" /\ (Images # 1 => ~row.recon)
  BY DEF Init
<1>1. /\ worker = [w \in Worker |-> "up"] /\ scan = [w \in Worker |-> NoCandidate]
      /\ \A t \in Token : /\ exec[t].phase = "unused"
                          /\ exec[t].slot = [s \in Slot |-> "none"]
  BY DEF Init
<1>2. NoShutdown
  BY <1>1 DEF NoShutdown
<1>3. Counted /\ SlotsKnown
  BY <1>1 DEF Counted, SlotsKnown, Reached, Loose
<1>4. ReconKept
  BY <1>0 DEF ReconKept
<1>5. Clear
  BY <1>0, <1>1, <1>3, NothingSent DEF Clear, OthersClear, HolderClear
<1> QED
  BY <1>2, <1>3, <1>4, <1>5, InitInv DEF Guarded

\* Only a request is counted, and only with nothing in doubt is the hold settled.
StepSafe ==
    /\ HoldSafe
    /\ row'.calls = row.calls \/ \E t \in Token, s \in Slot : Counts(t, s)

LEMMA StepGuarded ==
    ASSUME Guarded, [Next]_vars, Stoppable = {}
    PROVE  Guarded' /\ StepSafe
<1>0. TypeOK /\ Inv' /\ NoShutdown'
  BY StepInv, NoShutdownStep DEF Guarded, Inv
<1>1. ASSUME RowSafe, AllFollow PROVE Guarded' /\ StepSafe
  BY <1>0, <1>1, CarefulKeeps DEF RowSafe, Careful, StepSafe
<1>2. ASSUME NEW t \in Token, Execute(t) PROVE Guarded' /\ StepSafe
  <2>1. ASSUME NEW s \in Slot, Request(t, s) PROVE Guarded' /\ StepSafe
    <3>1. Guarded'
      BY <1>0, <2>1, RequestKeeps
    <3>2. UNCHANGED billing /\ (UNCHANGED row \/ Counts(t, s))
      BY <1>0, <2>1, RequestSlots
    <3> QED
      BY <3>1, <3>2 DEF StepSafe, HoldSafe
  <2>2. CASE SwitchRoute(t) \/ Collect(t) \/ CollectIds(t)
    <3>1. Guarded'
      BY <1>0, <2>2, SwitchKeeps, CollectKeeps, CollectIdsKeeps
    <3>2. UNCHANGED billing
      BY <2>2 DEF SwitchRoute, Collect, CollectIds
    <3>3. row'.calls = row.calls
      BY <1>0, <2>2, GatherStep DEF Writes
    <3> QED
      BY <3>1, <3>2, <3>3 DEF StepSafe, HoldSafe
  <2>3. CASE ~(SwitchRoute(t) \/ Collect(t) \/ CollectIds(t)) /\ ~\E s \in Slot : Request(t, s)
    BY <1>1, <1>2, <2>3, PrepareCareful, PollCareful, SettleCareful, ArchiveCareful,
       InterruptedCareful DEF Execute
  <2> QED
    BY <2>1, <2>2, <2>3
<1>3. ASSUME NEW w \in Worker, Recover(w) \/ Process(w) PROVE Guarded' /\ StepSafe
  BY <1>1, <1>3, ProcessCareful
<1>4. CASE \/ \E t \in Token : LoseLease(t)
           \/ Cancel \/ SettleReconciliation \/ LeaseExpires \/ BackoffPasses
  BY <1>1, <1>4, OtherCareful
<1>5. ASSUME NEW w \in Worker, NEW t \in Token, Claim(w, t) PROVE Guarded' /\ StepSafe
  BY <1>0, <1>5, ClaimGuards DEF StepSafe, HoldSafe
<1>6. CASE UNCHANGED vars
  BY <1>1, <1>6, SameSafe, StillFollows DEF vars
<1> QED
  BY <1>2, <1>3, <1>4, <1>5, <1>6 DEF Next

\* The definition the runs check, and the one of the proof.
LEMMA Bridge ==
    ASSUME NEW t \in Token
    PROVE  Unresolved(t) <=> Doubt(exec[t], row.ids)
BY DEF Unresolved, Doubt, Loose, SlotsIn

\* As long as no worker is told to stop, a task under reconciliation keeps its hold
\* while upstream may still have a request of it, whichever execution, recovery or
\* cancellation reaches its row: only a reconciliation command settles it then.
THEOREM HoldKept ==
    ASSUME Stoppable = {}
    PROVE  Spec => UnresolvedHoldKept
<1>1. Guarded /\ [Next]_vars => Guarded'
  BY StepGuarded
<1>2. Guarded /\ HoldSettledOnce /\ [Next]_vars
        => [/\ row.recon /\ billing.hold = "held" /\ billing'.hold # "held"
            /\ \E t \in Token : Unresolved(t)
            => row.status = "reconciling"]_vars
  <2> SUFFICES ASSUME Guarded, HoldSettledOnce, [Next]_vars,
                      row.recon, billing.hold = "held", billing'.hold # "held",
                      NEW t \in Token, Unresolved(t)
               PROVE  row.status = "reconciling"
    OBVIOUS
  <2>1. row.status \notin Open
    BY StepGuarded, Bridge DEF StepSafe, HoldSafe
  <2>2. row.status \in Status /\ row.status \notin Terminal
    BY DEF Guarded, Inv, TypeOK, Row, HoldSettledOnce
  <2> QED
    BY <2>1, <2>2 DEF Status, Open
<1> QED
  BY <1>1, <1>2, InitGuarded, SettledOnce, PTL DEF Spec, UnresolvedHoldKept

\* As long as no worker is told to stop, a task of one image never sends a request
\* while another execution of it has one whose outcome the row does not know.
THEOREM NotRepeated ==
    ASSUME Stoppable = {}, Images = 1
    PROVE  Spec => NoRepeatWhileUnresolved
<1>1. Guarded /\ [Next]_vars => Guarded'
  BY StepGuarded
<1>2. Guarded /\ [Next]_vars
        => [row'.calls > row.calls =>
              \A t \in Token : t # row.token => ~Unresolved(t)]_vars
  <2> SUFFICES ASSUME Guarded, [Next]_vars, row'.calls > row.calls,
                      NEW t \in Token, t # row.token
               PROVE  ~Unresolved(t)
    OBVIOUS
  <2>1. row.calls \in Nat
    BY DEF Guarded, Inv, TypeOK, Row
  <2>2. PICK u \in Token, s \in Slot : Counts(u, s)
    BY <2>1, StepGuarded DEF StepSafe
  <2>3. row.status = "in_progress" /\ OthersClear
    BY <2>2 DEF Counts, Owns, Guarded, Clear
  <2> QED
    BY <2>3, Bridge DEF OthersClear
<1> QED
  BY <1>1, <1>2, InitGuarded, PTL DEF Spec, NoRepeatWhileUnresolved

=============================================================================
