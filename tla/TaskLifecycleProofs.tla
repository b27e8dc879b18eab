------------------------- MODULE TaskLifecycleProofs -------------------------
(***************************************************************************)
(* Theorems about TaskLifecycle, for every number of workers, claims,      *)
(* images and attempts: type correctness; what any step may do to the row   *)
(* and its reservation, with the three properties that follow from it; and  *)
(* that stored upstream ids are only polled.                                *)
(***************************************************************************)
EXTENDS TaskLifecycle, TLAPS

(***************************************************************************)
(* Type correctness.  First what the shared writes return.                 *)
(***************************************************************************)

\* A requeued row is a row.
LEMMA RequeuedType ==
    ASSUME NEW r \in Row, NEW a \in 0 .. MaxAttempts, NEW d \in BOOLEAN
    PROVE  /\ Requeued(r, a, d) \in Row
           /\ Requeued(r, a, d).status = "queued"
           /\ Requeued(r, a, d).attempts = a
BY DEF Requeued, Row, Status

\* So is one requeued for its archive.
LEMMA ArchiveRequeuedType ==
    ASSUME NEW r \in Row, NEW p \in Payload, NEW d \in BOOLEAN
    PROVE  /\ ArchiveRequeued(r, p, d) \in Row
           /\ ArchiveRequeued(r, p, d).status = "queued"
           /\ ArchiveRequeued(r, p, d).attempts = r.attempts
BY DEF ArchiveRequeued, Row, Status

\* So is a reconciling one.
LEMMA ReconcilingType ==
    ASSUME NEW r \in Row
    PROVE  /\ Reconciling(r) \in Row
           /\ Reconciling(r).status = "reconciling"
           /\ Reconciling(r).attempts = r.attempts
BY DEF Reconciling, Row, Status

\* So is a finished one.
LEMMA FinishedType ==
    ASSUME NEW r \in Row, NEW st \in Terminal, NEW keep \in BOOLEAN
    PROVE  /\ Finished(r, st, keep) \in Row
           /\ Finished(r, st, keep).status = st
           /\ Finished(r, st, keep).attempts = r.attempts
BY DEF Finished, Row, Status, Terminal, Payload

\* The settled reservation is well formed.
LEMMA FinalizedType ==
    ASSUME billing \in Billing, NEW st, NEW p \in Payload
    PROVE  Finalized(st, p) \in Billing
BY DEF Finalized, Billing, Payload

\* An execution that is over is well formed.
LEMMA OverType ==
    ASSUME TypeOK, NEW t \in Token, NEW ph \in Phase
    PROVE  Over(t, ph) \in Execution
<1>1. exec[t].slot \in [Slot -> SlotState]
  BY DEF TypeOK, Execution
<1> QED
  BY <1>1, ConstantsAssumption DEF Over, Execution, Payload, Result

\* Ending an execution keeps the others.
LEMMA EndType ==
    ASSUME TypeOK, NEW t \in Token, End(t)
    PROVE  exec' \in [Token -> Execution]
BY OverType DEF TypeOK, End, Become, Phase

\* The row keeps what TypeOK says of it.
RowOK ==
    /\ row \in Row
    /\ row.status # "failed" => row.attempts < MaxAttempts
    /\ row.status = "in_progress" => row.token \in Token

\* A fenced finish writes a well-formed row and reservation.
LEMMA FinishType ==
    ASSUME TypeOK, NEW t \in Token, NEW st \in Terminal, NEW p \in Payload,
           NEW keep \in BOOLEAN, Finish(t, st, p, keep)
    PROVE  RowOK' /\ billing' \in Billing
<1>1. CASE Owns(t)
  <2>1. row' = Finished(row, st, keep) /\ billing' = Finalized(st, p)
    BY <1>1 DEF Finish
  <2>2. row.attempts < MaxAttempts /\ row \in Row /\ billing \in Billing
    BY <1>1 DEF TypeOK, Owns
  <2>3. st # "in_progress"
    BY DEF Terminal
  <2> QED
    BY <2>1, <2>2, <2>3, FinishedType, FinalizedType DEF RowOK
<1>2. CASE ~Owns(t)
  BY <1>2 DEF Finish, TypeOK, RowOK
<1> QED
  BY <1>1, <1>2

\* So does a reconcile.
LEMMA ReconcileType ==
    ASSUME TypeOK, NEW t \in Token, NEW require \in BOOLEAN, Reconcile(t, require)
    PROVE  RowOK' /\ billing' \in Billing
<1> DEFINE marked == [row EXCEPT !.recon = @ \/ require]
<1>1. marked \in Row /\ marked.attempts = row.attempts /\ marked.token = row.token
      /\ marked.status = row.status
  BY DEF TypeOK, Row
<1>2. row' \in {row, marked, Reconciling(marked)} /\ billing' = billing
  BY DEF Reconcile
<1>3. CASE row' = Reconciling(marked)
  <2>1. Owns(t) \/ row' = row
    BY DEF Reconcile
  <2>2. row.attempts < MaxAttempts
    BY <2>1, <1>1, <1>3, ReconcilingType DEF Owns, TypeOK
  <2> QED
    BY <1>1, <1>2, <1>3, <2>2, ReconcilingType DEF RowOK, TypeOK
<1> QED
  BY <1>1, <1>2, <1>3 DEF TypeOK, RowOK

\* The end of an unknown result is one or the other.
LEMMA FinishUnknownType ==
    ASSUME TypeOK, NEW t \in Token, FinishUnknown(t)
    PROVE  RowOK' /\ billing' \in Billing
BY FinishType, ReconcileType DEF FinishUnknown, Terminal, Payload

\* The error classes of a call are results.
LEMMA ErrorType == ASSUME NEW x PROVE ErrorOf(x) \in {"unknown", "rejected", "refused", "abort"}
BY DEF ErrorOf

\* What a fan-out returns or throws is a result.
LEMMA CollectedType ==
    ASSUME NEW t \in Token
    PROVE  SyncResult(t) \in Result /\ AsyncError(t) \in Result
BY ErrorType DEF SyncResult, AsyncError, FirstError, Result, Payload

\* An execution that becomes a well-formed one leaves the others as they are.
LEMMA BecomeType ==
    ASSUME TypeOK, NEW t \in Token, NEW e, Become(t, e), e \in Execution
    PROVE  exec' \in [Token -> Execution]
BY DEF TypeOK, Become

\* The steps of an execution before it calls upstream.
LEMMA PrepareType ==
    ASSUME TypeOK, NEW t \in Token,
           PrepareArchive(t) \/ PrepareInputs(t) \/ PrepareFails(t) \/ ArchiveExpires(t)
    PROVE  TypeOK'
<1>0. exec[t] \in Execution
  BY DEF TypeOK
<1>1. CASE PrepareArchive(t)
  <2>1. exec[t].archive \in Payload
    BY <1>0 DEF Execution
  <2>2. [exec[t] EXCEPT !.phase = "archiving", !.saved = TRUE, !.result = exec[t].archive]
          \in Execution
    BY <1>0, <2>1 DEF Execution, Phase, Result
  <2> QED
    BY <1>1, <2>2, BecomeType DEF PrepareArchive, TypeOK
<1>2. CASE PrepareInputs(t)
  <2>1. ASSUME NEW b \in AsyncRoutes
        PROVE  [exec[t] EXCEPT !.async = b,
                               !.phase = IF exec[t].ids = {} THEN "calling" ELSE "polling"]
                 \in Execution
    <3>1. b \in BOOLEAN
      BY ConstantsAssumption
    <3> QED
      BY <1>0, <3>1 DEF Execution, Phase
  <2>2. exec' \in [Token -> Execution]
    <3>1. CASE End(t)
      BY <3>1, EndType
    <3>2. CASE ~End(t)
      <4>1. PICK b \in AsyncRoutes :
              Become(t, [exec[t] EXCEPT
                           !.async = b,
                           !.phase = IF exec[t].ids = {} THEN "calling" ELSE "polling"])
        BY <1>2, <3>2 DEF PrepareInputs
      <4> QED
        BY <4>1, <2>1, BecomeType
    <3> QED
      BY <3>1, <3>2
  <2> QED
    BY <1>2, <2>2 DEF PrepareInputs, TypeOK
<1>3. CASE PrepareFails(t)
  <2>1. [exec[t] EXCEPT !.phase = "settling", !.result = "refused"] \in Execution
    BY <1>0 DEF Execution, Phase, Result
  <2> QED
    BY <1>3, <2>1, BecomeType DEF PrepareFails, TypeOK
<1>4. CASE ArchiveExpires(t)
  <2>1. exec' \in [Token -> Execution]
    BY <1>4, EndType DEF ArchiveExpires
  <2>2. RowOK' /\ billing' \in Billing
    BY <1>4, FinishType DEF ArchiveExpires, Terminal, Payload
  <2> QED
    BY <1>4, <2>1, <2>2 DEF ArchiveExpires, TypeOK, RowOK
<1> QED
  BY <1>1, <1>2, <1>3, <1>4

\* Moving one request of an execution.
LEMMA SetSlotType ==
    ASSUME TypeOK, NEW t \in Token, NEW s \in Slot, NEW x \in SlotState, SetSlot(t, s, x)
    PROVE  exec' \in [Token -> Execution]
<1>1. exec[t] \in Execution
  BY DEF TypeOK
<1>2. [exec[t] EXCEPT !.slot[s] = x] \in Execution
  BY <1>1 DEF Execution
<1> QED
  BY <1>2, BecomeType DEF SetSlot

\* A request of an execution keeps the state well formed.
LEMMA RequestType ==
    ASSUME TypeOK, NEW t \in Token, NEW s \in Slot, Request(t, s)
    PROVE  TypeOK'
<1>1. CASE BeginDispatch(t, s)
  BY <1>1, SetSlotType DEF BeginDispatch, TypeOK, SlotState
<1>2. CASE QueueTimesOut(t, s)
  BY <1>2, SetSlotType DEF QueueTimesOut, TypeOK, SlotState
<1>3. CASE CommitDispatch(t, s)
  <2>1. exec' \in [Token -> Execution]
    <3>1. CASE Owns(t)
      BY <1>3, <3>1, SetSlotType DEF CommitDispatch, SlotState
    <3>2. CASE ~Owns(t)
      <4>1. exec[t] \in Execution
        BY DEF TypeOK
      <4>2. [exec[t] EXCEPT !.slot[s] = "cut", !.aborted = TRUE] \in Execution
        BY <4>1 DEF Execution, SlotState
      <4> QED
        BY <1>3, <3>2, <4>2, BecomeType DEF CommitDispatch
    <3> QED
      BY <3>1, <3>2
  <2>2. RowOK'
    BY <1>3 DEF CommitDispatch, TypeOK, RowOK, Row
  <2> QED
    BY <1>3, <2>1, <2>2 DEF CommitDispatch, TypeOK, RowOK
<1>4. CASE DispatchFails(t, s)
  <2>1. exec' \in [Token -> Execution]
    BY <1>4, SetSlotType DEF DispatchFails, SlotState
  <2>2. RowOK'
    BY <1>4 DEF DispatchFails, TypeOK, RowOK, Row
  <2> QED
    BY <1>4, <2>1, <2>2 DEF DispatchFails, TypeOK, RowOK
<1>5. CASE Respond(t, s)
  BY <1>5, SetSlotType DEF Respond, TypeOK, SlotState
<1>6. CASE SendAgain(t, s)
  BY <1>6, SetSlotType DEF SendAgain, TypeOK, SlotState
<1> QED
  BY <1>1, <1>2, <1>3, <1>4, <1>5, <1>6 DEF Request

\* Its requests start again over another route.
LEMMA SwitchType ==
    ASSUME TypeOK, NEW t \in Token, SwitchRoute(t)
    PROVE  TypeOK'
<1>1. PICK b \in BOOLEAN :
        Become(t, [exec[t] EXCEPT !.async = b, !.slot = [s \in Slot |-> "again"]])
  BY ConstantsAssumption DEF SwitchRoute
<1>2. exec[t] \in Execution /\ [s \in Slot |-> "again"] \in [Slot -> SlotState]
  BY DEF TypeOK, SlotState
<1>3. [exec[t] EXCEPT !.async = b, !.slot = [s \in Slot |-> "again"]] \in Execution
  BY <1>2 DEF Execution
<1>4. exec' \in [Token -> Execution]
  BY <1>1, <1>3, BecomeType
<1> QED
  BY <1>4 DEF SwitchRoute, TypeOK

\* Gathering the answers.
LEMMA GatherType ==
    ASSUME TypeOK, NEW t \in Token, Collect(t) \/ CollectIds(t) \/ Poll(t)
    PROVE  TypeOK'
<1>0. exec[t] \in Execution
  BY DEF TypeOK
<1>1. ASSUME NEW res \in Result
      PROVE  [exec[t] EXCEPT !.phase = "settling", !.result = res] \in Execution
  BY <1>0 DEF Execution, Phase
<1>2. CASE Collect(t)
  <2>1. exec' \in [Token -> Execution]
    BY <1>1, <1>2, CollectedType, BecomeType DEF Collect
  <2> QED
    BY <1>2, <2>1 DEF Collect, TypeOK
<1>3. CASE CollectIds(t)
  <2> DEFINE accepted == SlotsIn(t, {"accepted"})
             result == IF FailedSlots(t) = {} THEN "none"
                       ELSE IF accepted # {} THEN "unknownRecon" ELSE AsyncError(t)
             ph == IF result = "none" THEN "polling" ELSE "settling"
             lost == accepted # {} /\ ~Owns(t)
  <2>1. result \in Result /\ accepted \in SUBSET Slot /\ ph \in Phase
        /\ ph \notin {"archiving", "publishing"}
    BY CollectedType DEF Result, Payload, SlotsIn, Phase
  <2>2. \/ Become(t, [exec[t] EXCEPT !.phase = ph, !.result = result, !.aborted = @ \/ lost])
        \/ Become(t, [exec[t] EXCEPT !.phase = "settling", !.result = "unknownRecon"])
    BY <1>3 DEF CollectIds
  <2>3. exec' \in [Token -> Execution]
    <3> HIDE DEF result, accepted, ph, lost
    <3>1. [exec[t] EXCEPT !.phase = ph, !.result = result, !.aborted = @ \/ lost] \in Execution
      BY <1>0, <2>1 DEF Execution
    <3>2. [exec[t] EXCEPT !.phase = "settling", !.result = "unknownRecon"] \in Execution
      BY <1>1 DEF Result
    <3> QED
      BY <2>2, <3>1, <3>2, BecomeType
  <2>4. row' = row \/ row' = [row EXCEPT !.ids = accepted]
    BY <1>3 DEF CollectIds
  <2>5. RowOK'
    <3> HIDE DEF accepted
    <3> QED
      BY <2>1, <2>4 DEF TypeOK, RowOK, Row
  <2> QED
    BY <1>3, <2>3, <2>5 DEF CollectIds, TypeOK, RowOK
<1>4. CASE Poll(t)
  <2>1. PICK res \in Result :
          Become(t, [exec[t] EXCEPT !.phase = "settling", !.result = res])
    BY <1>4 DEF Poll, Result, Payload
  <2>2. exec' \in [Token -> Execution]
    BY <1>1, <2>1, BecomeType
  <2> QED
    BY <1>4, <2>2 DEF Poll, TypeOK
<1> QED
  BY <1>2, <1>3, <1>4

\* What an execution does with the outcome of its call.
LEMMA SettleType ==
    ASSUME TypeOK, NEW t \in Token,
           \/ SettleImages(t) \/ SettlePartial(t) \/ SettleUnknown(t)
           \/ SettleRetry(t) \/ SettleFailure(t) \/ SettleAbort(t)
    PROVE  TypeOK'
<1>0. exec[t] \in Execution
  BY DEF TypeOK
<1>1. CASE SettleImages(t)
  <2>1. exec[t].result \in Payload
    BY <1>1 DEF SettleImages
  <2>2. /\ [exec[t] EXCEPT !.phase = "archiving"] \in Execution
        /\ [exec[t] EXCEPT !.phase = "archiving", !.archive = exec[t].result] \in Execution
    BY <1>0, <2>1 DEF Execution, Phase
  <2>3. exec' \in [Token -> Execution]
    BY <1>1, <2>2, BecomeType, EndType DEF SettleImages
  <2>4. RowOK'
    BY <1>1, <2>1 DEF SettleImages, TypeOK, RowOK, Row
  <2> QED
    BY <1>1, <2>3, <2>4 DEF SettleImages, TypeOK, RowOK
<1>2. CASE SettlePartial(t)
  <2>1. exec' \in [Token -> Execution]
    BY <1>2, EndType DEF SettlePartial
  <2>2. RowOK' /\ billing' \in Billing
    <3>1. CASE Finish(t, "failed", "none", FALSE)
      BY <3>1, FinishType DEF Terminal, Payload
    <3>2. CASE ~Finish(t, "failed", "none", FALSE)
      <4>1. PICK p \in Payload :
              /\ row' = IF Owns(t) THEN ArchiveRequeued(row, p, FALSE) ELSE row
              /\ UNCHANGED billing
        BY <1>2, <3>2 DEF SettlePartial, Payload
      <4> QED
        BY <4>1, ArchiveRequeuedType DEF TypeOK, RowOK, Owns
    <3> QED
      BY <3>1, <3>2
  <2> QED
    BY <1>2, <2>1, <2>2 DEF SettlePartial, TypeOK, RowOK
<1>3. CASE SettleUnknown(t)
  <2>1. exec' \in [Token -> Execution]
    BY <1>3, EndType DEF SettleUnknown
  <2>2. RowOK' /\ billing' \in Billing
    BY <1>3, FinishUnknownType, ReconcileType DEF SettleUnknown
  <2> QED
    BY <1>3, <2>1, <2>2 DEF SettleUnknown, TypeOK, RowOK
<1>4. CASE SettleRetry(t)
  <2>1. exec' \in [Token -> Execution]
    BY <1>4, EndType DEF SettleRetry
  <2>2. RowOK'
    <3>1. exec[t].attempts \in 0 .. MaxAttempts - 1 /\ exec[t].attempts + 1 < MaxAttempts
      BY <1>0, <1>4 DEF Execution, SettleRetry
    <3>2. exec[t].attempts + 1 \in 0 .. MaxAttempts
      BY <3>1, ConstantsAssumption
    <3>3. row' = row \/ row' = Requeued(row, exec[t].attempts + 1, FALSE)
      BY <1>4 DEF SettleRetry
    <3> QED
      <4> DEFINE r == Requeued(row, exec[t].attempts + 1, FALSE)
      <4>1. r \in Row /\ r.status = "queued" /\ r.attempts = exec[t].attempts + 1
        BY <3>2, RequeuedType DEF TypeOK
      <4>2. CASE row' = r
        <5> HIDE DEF r
        <5> QED
          BY <3>1, <4>1, <4>2 DEF RowOK
      <4>3. CASE row' = row
        BY <4>3 DEF TypeOK, RowOK
      <4> QED
        BY <3>3, <4>2, <4>3
  <2> QED
    BY <1>4, <2>1, <2>2 DEF SettleRetry, TypeOK, RowOK
<1>5. CASE SettleFailure(t)
  <2>1. exec' \in [Token -> Execution]
    BY <1>5, EndType DEF SettleFailure
  <2>2. RowOK' /\ billing' \in Billing
    BY <1>5, FinishType DEF SettleFailure, Terminal, Payload
  <2> QED
    BY <1>5, <2>1, <2>2 DEF SettleFailure, TypeOK, RowOK
<1>6. CASE SettleAbort(t)
  BY <1>6, EndType DEF SettleAbort, TypeOK
<1> QED
  BY <1>1, <1>2, <1>3, <1>4, <1>5, <1>6

\* Archiving and publishing.
LEMMA ArchiveType ==
    ASSUME TypeOK, NEW t \in Token,
           \/ Spool(t) \/ Publish(t) \/ PublishMissing(t) \/ ArchiveFails(t) \/ Interrupted(t)
    PROVE  TypeOK'
<1>0. exec[t] \in Execution
  BY DEF TypeOK
<1>1. CASE Spool(t)
  <2>1. [exec[t] EXCEPT !.phase = "publishing"] \in Execution /\ exec[t].archive \in Payload
    BY <1>0, <1>1 DEF Execution, Phase, Spool
  <2>2. exec' \in [Token -> Execution]
    BY <1>1, <2>1, BecomeType, EndType DEF Spool
  <2>3. RowOK'
    BY <1>1, <2>1 DEF Spool, TypeOK, RowOK, Row
  <2> QED
    BY <1>1, <2>2, <2>3 DEF Spool, TypeOK, RowOK
<1>2. CASE Publish(t)
  <2>1. exec' \in [Token -> Execution]
    BY <1>2, EndType DEF Publish
  <2>2. RowOK' /\ billing' \in Billing
    <3>1. exec[t].result \in Payload
      BY <1>0, <1>2 DEF Execution, Publish
    <3> QED
      BY <1>2, <3>1, FinishType DEF Publish, Terminal
  <2> QED
    BY <1>2, <2>1, <2>2 DEF Publish, TypeOK, RowOK
<1>3. CASE PublishMissing(t)
  <2>1. exec' \in [Token -> Execution]
    BY <1>3, EndType DEF PublishMissing
  <2>2. RowOK' /\ billing' \in Billing
    BY <1>3, FinishUnknownType DEF PublishMissing
  <2> QED
    BY <1>3, <2>1, <2>2 DEF PublishMissing, TypeOK, RowOK
<1>4. CASE ArchiveFails(t)
  <2>1. exec[t].archive \in Payload
    BY <1>0 DEF Execution
  <2>2. CASE row' = (IF Owns(t) THEN ArchiveRequeued(row, exec[t].archive, FALSE) ELSE row)
             /\ End(t) /\ UNCHANGED billing
    <3>1. RowOK'
      BY <2>1, <2>2, ArchiveRequeuedType DEF TypeOK, RowOK, Owns
    <3> QED
      BY <1>4, <2>2, <3>1, EndType DEF ArchiveFails, TypeOK, RowOK
  <2>3. CASE Finish(t, "failed", "none", TRUE) /\ End(t)
    <3>1. RowOK' /\ billing' \in Billing
      BY <2>3, FinishType DEF Terminal, Payload
    <3> QED
      BY <1>4, <2>3, <3>1, EndType DEF ArchiveFails, TypeOK, RowOK
  <2>4. ASSUME NEW c \in {"rejected", "refused"},
               Become(t, [exec[t] EXCEPT !.phase = "settling", !.result = c]),
               UNCHANGED <<row, billing>>
        PROVE  TypeOK'
    <3>1. [exec[t] EXCEPT !.phase = "settling", !.result = c] \in Execution
      BY <1>0 DEF Execution, Phase, Result
    <3> QED
      BY <1>4, <2>4, <3>1, BecomeType DEF ArchiveFails, TypeOK
  <2>5. CASE End(t) /\ UNCHANGED <<row, billing>>
    BY <1>4, <2>5, EndType DEF ArchiveFails, TypeOK
  <2> QED
    BY <1>4, <2>2, <2>3, <2>4, <2>5 DEF ArchiveFails
<1>5. CASE Interrupted(t)
  <2>1. exec' \in [Token -> Execution]
    BY <1>5, EndType DEF Interrupted
  <2>2. RowOK' /\ billing' \in Billing
    <3>1. CASE Reconcile(t, FALSE)
      BY <3>1, ReconcileType
    <3>2. CASE Finish(t, "failed", "none", TRUE)
      BY <3>2, FinishType DEF Terminal, Payload
    <3>3. CASE UNCHANGED <<row, billing>>
      BY <3>3 DEF TypeOK, RowOK
    <3> QED
      BY <1>5, <3>1, <3>2, <3>3 DEF Interrupted
  <2> QED
    BY <1>5, <2>1, <2>2 DEF Interrupted, TypeOK, RowOK
<1> QED
  BY <1>1, <1>2, <1>3, <1>4, <1>5

\* Claims, lost leases, and the writers of the row that run no execution.
LEMMA OtherType ==
    ASSUME TypeOK,
           \/ \E w \in Worker, t \in Token : Claim(w, t)
           \/ \E t \in Token : LoseLease(t)
           \/ Cancel \/ SettleReconciliation \/ LeaseExpires \/ BackoffPasses
    PROVE  TypeOK'
<1>1. ASSUME NEW w \in Worker, NEW t \in Token, Claim(w, t)
      PROVE  TypeOK'
  <2>1. exec[t] \in Execution /\ row \in Row /\ row.attempts < MaxAttempts
    BY <1>1 DEF TypeOK, Claim
  <2>2. row.attempts \in 0 .. MaxAttempts - 1
    BY <2>1, ConstantsAssumption DEF Row
  <2>3. [exec[t] EXCEPT !.worker = w, !.phase = "preparing",
                        !.attempts = row.attempts, !.calls = row.calls, !.ids = row.ids,
                        !.recon = row.recon, !.archive = row.archive] \in Execution
    BY <2>1, <2>2 DEF Execution, Row, Phase
  <2>4. exec' \in [Token -> Execution]
    BY <1>1, <2>3, BecomeType DEF Claim
  <2>5. RowOK'
    BY <1>1, <2>1 DEF Claim, Row, RowOK, Status
  <2> QED
    BY <1>1, <2>4, <2>5 DEF Claim, TypeOK, RowOK
<1>2. ASSUME NEW t \in Token, LoseLease(t)
      PROVE  TypeOK'
  <2>1. exec[t] \in Execution
    BY DEF TypeOK
  <2>2. [exec[t] EXCEPT !.aborted = TRUE] \in Execution
    BY <2>1 DEF Execution
  <2> QED
    BY <1>2, <2>2, BecomeType DEF LoseLease, TypeOK
<1>3. CASE Cancel
  <2>1. billing' \in Billing
    BY <1>3, FinalizedType DEF Cancel, TypeOK, Payload
  <2>2. RowOK'
    BY <1>3, ReconcilingType DEF Cancel, TypeOK, RowOK, Row, Status, Terminal
  <2> QED
    BY <1>3, <2>1, <2>2 DEF Cancel, TypeOK, RowOK
<1>4. CASE SettleReconciliation
  <2>1. PICK st \in {"completed", "failed"}, p \in {"whole"} \cup ({row.archive} \ {"none"}) :
          row' = Finished(row, st, FALSE) /\ billing' = Finalized(st, p)
    BY <1>4 DEF SettleReconciliation
  <2>2. st \in Terminal /\ p \in Payload /\ row \in Row /\ row.attempts < MaxAttempts
    BY <1>4 DEF SettleReconciliation, TypeOK, Row, Payload, Terminal
  <2>3. RowOK' /\ billing' \in Billing
    BY <2>1, <2>2, FinishedType, FinalizedType DEF TypeOK, RowOK
  <2> QED
    BY <1>4, <2>3 DEF SettleReconciliation, TypeOK, RowOK
<1>5. CASE LeaseExpires \/ BackoffPasses
  <2>1. RowOK'
    BY <1>5 DEF LeaseExpires, BackoffPasses, TypeOK, RowOK, Row
  <2> QED
    BY <1>5, <2>1 DEF LeaseExpires, BackoffPasses, TypeOK, RowOK
<1> QED
  BY <1>1, <1>2, <1>3, <1>4, <1>5

\* What a recovery reads is a candidate, and what it writes is well formed.
LEMMA CandidateType ==
    ASSUME TypeOK, row.status = "in_progress", NEW b \in BOOLEAN
    PROVE  CandidateOf(b) \in Candidate
<1>1. row \in Row /\ row.token \in Token /\ row.attempts < MaxAttempts
  BY DEF TypeOK
<1>2. row.attempts \in 0 .. MaxAttempts - 1
  BY <1>1, ConstantsAssumption DEF Row
<1> QED
  BY <1>1, <1>2 DEF CandidateOf, Candidate, Row

\* The write of a recovery, on the candidate it read.
LEMMA RecoverWriteType ==
    ASSUME TypeOK, NEW w \in Worker, RecoverWrite(w)
    PROVE  RowOK' /\ billing' \in Billing /\ scan' \in [Worker -> Candidate \cup {NoCandidate}]
<1> DEFINE c == scan[w]
           failed == c.attempts + 1
           covered == /\ row.status = "in_progress" /\ row.token = c.token
                      /\ c.named \/ ~row.lease
<1>1. c \in Candidate
  BY DEF RecoverWrite, TypeOK
<1>2. row \in Row /\ billing \in Billing
  BY DEF TypeOK
<1>3. scan' \in [Worker -> Candidate \cup {NoCandidate}]
  BY DEF RecoverWrite, TypeOK
<1>4. failed \in 0 .. MaxAttempts /\ c.archive \in Payload
  BY <1>1, ConstantsAssumption DEF Candidate
<1>5. CASE UNCHANGED <<row, billing>>
  BY <1>3, <1>5 DEF TypeOK, RowOK
<1>6. CASE ~UNCHANGED <<row, billing>>
  <2>1. covered /\ row.attempts < MaxAttempts /\ row.attempts \in 0 .. MaxAttempts
    BY <1>2, <1>6 DEF RecoverWrite, TypeOK, Row
  <2>2. \/ row' = ArchiveRequeued(row, c.archive, TRUE) /\ billing' = billing
        \/ row' = Reconciling(row) /\ billing' = billing
        \/ row' = Requeued(row, row.attempts, TRUE) /\ billing' = billing
        \/ failed < MaxAttempts /\ row' = Requeued(row, failed, FALSE) /\ billing' = billing
        \/ /\ row' = [Finished(row, "failed", FALSE) EXCEPT !.attempts = failed]
           /\ billing' = Finalized("failed", "none")
    <3> HIDE DEF covered
    <3> QED
      BY <1>6, <2>1 DEF RecoverWrite, covered
  <2> HIDE DEF c, failed
  <2>3. CASE row' = ArchiveRequeued(row, c.archive, TRUE) /\ billing' = billing
    BY <1>2, <1>3, <1>4, <2>1, <2>3, ArchiveRequeuedType DEF RowOK
  <2>4. CASE row' = Reconciling(row) /\ billing' = billing
    BY <1>2, <1>3, <2>1, <2>4, ReconcilingType DEF RowOK
  <2>5. CASE row' = Requeued(row, row.attempts, TRUE) /\ billing' = billing
    BY <1>2, <1>3, <2>1, <2>5, RequeuedType DEF RowOK
  <2>6. CASE failed < MaxAttempts /\ row' = Requeued(row, failed, FALSE) /\ billing' = billing
    BY <1>2, <1>3, <1>4, <2>1, <2>6, RequeuedType DEF RowOK
  <2>7. CASE /\ row' = [Finished(row, "failed", FALSE) EXCEPT !.attempts = failed]
             /\ billing' = Finalized("failed", "none")
    <3>1. Finished(row, "failed", FALSE) \in Row /\ Finished(row, "failed", FALSE).status = "failed"
      BY <1>2, FinishedType DEF Terminal
    <3>2. row' \in Row /\ row'.status = "failed"
      BY <1>4, <2>7, <3>1 DEF Row
    <3>3. billing' \in Billing
      BY <1>2, <2>7, FinalizedType DEF Payload
    <3> QED
      BY <1>3, <3>2, <3>3 DEF RowOK
  <2> QED
    BY <2>2, <2>3, <2>4, <2>5, <2>6, <2>7
<1> QED
  BY <1>5, <1>6

\* Killing a process ends its executions and nothing else.
LEMMA KilledType ==
    ASSUME TypeOK, NEW w
    PROVE  Killed(w) \in [Token -> Execution]
<1>1. \A t \in Token : Over(t, "died") \in Execution /\ exec[t] \in Execution
  BY OverType DEF TypeOK, Phase
<1> QED
  BY <1>1 DEF Killed

\* Recoveries and processes.
LEMMA ProcessType ==
    ASSUME TypeOK, NEW w \in Worker, Recover(w) \/ Process(w)
    PROVE  TypeOK'
<1>1. CASE ScanRead(w)
  BY <1>1, CandidateType DEF ScanRead, TypeOK
<1>2. CASE RecoverScanned(w)
  BY <1>2, RecoverWriteType DEF RecoverScanned, TypeOK, RowOK
<1>3. CASE Terminate(w) \/ Drained(w) \/ Restart(w)
  BY <1>3 DEF Terminate, Drained, Restart, TypeOK, WorkerState
<1>4. CASE AbortAll(w)
  <2>1. \A t \in Token : [exec[t] EXCEPT !.aborted = TRUE] \in Execution
    <3> SUFFICES ASSUME NEW t \in Token
                 PROVE  [exec[t] EXCEPT !.aborted = TRUE] \in Execution
      OBVIOUS
    <3>1. exec[t] \in Execution
      BY DEF TypeOK
    <3> QED
      BY <3>1 DEF Execution
  <2>2. exec' \in [Token -> Execution]
    BY <1>4, <2>1 DEF AbortAll, TypeOK
  <2> QED
    BY <1>4, <2>2 DEF AbortAll, TypeOK, WorkerState
<1>5. CASE NamedRead(w)
  <2>1. scan' \in [Worker -> Candidate \cup {NoCandidate}]
    BY <1>5, CandidateType DEF NamedRead, TypeOK
  <2>2. exec' \in [Token -> Execution]
    BY <1>5, KilledType DEF NamedRead, TypeOK
  <2>3. worker' \in [Worker -> WorkerState]
    BY <1>5 DEF NamedRead, TypeOK, WorkerState
  <2> QED
    BY <1>5, <2>1, <2>2, <2>3 DEF NamedRead, TypeOK
<1>6. CASE RecoverNamed(w)
  BY <1>6, RecoverWriteType, KilledType DEF RecoverNamed, TypeOK, RowOK, WorkerState
<1>7. CASE Crash(w)
  BY <1>7, KilledType DEF Crash, TypeOK, WorkerState
<1> QED
  BY <1>1, <1>2, <1>3, <1>4, <1>5, <1>6, <1>7 DEF Recover, Process

\* The state a submission leaves is well formed.
LEMMA InitType == Init => TypeOK
<1> SUFFICES ASSUME Init PROVE TypeOK
  OBVIOUS
<1>1. row \in Row /\ row.status = "queued" /\ row.attempts < MaxAttempts
  <2>1. PICK recon \in BOOLEAN, cloud \in BOOLEAN :
          row = [status |-> "queued", token |-> NoToken, lease |-> FALSE, due |-> TRUE,
                 attempts |-> 0, calls |-> 0, ids |-> {}, archive |-> "none",
                 cloud |-> cloud, recon |-> recon]
    BY DEF Init
  <2>2. 0 \in 0 .. MaxAttempts /\ 0 < MaxAttempts
    BY ConstantsAssumption
  <2> QED
    BY <2>1, <2>2 DEF Row, Status, Payload
<1>2. billing \in Billing
  BY DEF Init, Billing, Payload
<1>3. exec \in [Token -> Execution]
  BY ConstantsAssumption DEF Init, Execution, Phase, Payload, Result, SlotState
<1>4. worker \in [Worker -> WorkerState] /\ scan \in [Worker -> Candidate \cup {NoCandidate}]
  BY DEF Init, WorkerState
<1> QED
  BY <1>1, <1>2, <1>3, <1>4 DEF TypeOK

\* Every step keeps the types.
LEMMA StepType == TypeOK /\ [Next]_vars => TypeOK'
<1> SUFFICES ASSUME TypeOK, [Next]_vars PROVE TypeOK'
  OBVIOUS
<1>1. ASSUME NEW t \in Token, Execute(t) PROVE TypeOK'
  BY <1>1, PrepareType, RequestType, SwitchType, GatherType, SettleType, ArchiveType DEF Execute
<1>2. ASSUME NEW w \in Worker, Recover(w) \/ Process(w) PROVE TypeOK'
  BY <1>2, ProcessType
<1>3. CASE UNCHANGED vars
  BY <1>3 DEF vars, TypeOK
<1> QED
  BY <1>1, <1>2, <1>3, OtherType DEF Next

\* The state is always well formed: in particular only a failed row has used up
\* its attempts, an execution publishes nothing but images, and a recovery never
\* holds a row that nobody has claimed.
THEOREM TypeCorrect == Spec => []TypeOK
<1> QED
  BY InitType, StepType, PTL DEF Spec

(***************************************************************************)
(* The row and its reservation.  Whoever takes a step, it does one of      *)
(* three things to them: nothing that matters to the settlement, putting   *)
(* the task aside, or ending it together with its reservation.             *)
(***************************************************************************)
Open == {"queued", "in_progress"}

Ends ==
    /\ row.status \notin Terminal /\ row'.status \in Terminal
    /\ row'.status = "cancelled" => row.status \in Open
    /\ \E p \in Payload : billing' = Finalized(row'.status, p)

RowStep ==
    \/ UNCHANGED <<row, billing>>
    \/ /\ row.status \in Open /\ row'.status \in Open \cup {"reconciling"}
       /\ UNCHANGED billing
    \/ Ends

\* A fenced finish ends the task or does nothing.
LEMMA FinishStep ==
    ASSUME TypeOK, NEW t, NEW st \in Terminal, NEW p \in Payload,
           NEW keep \in BOOLEAN, Finish(t, st, p, keep)
    PROVE  RowStep
<1>1. CASE Owns(t)
  <2>1. row' = Finished(row, st, keep) /\ billing' = Finalized(st, p) /\ row \in Row
    BY <1>1 DEF Finish, TypeOK
  <2>2. row'.status = st /\ row.status = "in_progress"
    BY <1>1, <2>1, FinishedType DEF Owns
  <2> QED
    BY <2>1, <2>2 DEF RowStep, Ends, Open, Terminal
<1>2. CASE ~Owns(t)
  BY <1>2 DEF Finish, RowStep
<1> QED
  BY <1>1, <1>2

\* A reconcile puts the task aside or does nothing.
LEMMA ReconcileStep ==
    ASSUME TypeOK, NEW t, NEW require \in BOOLEAN, Reconcile(t, require)
    PROVE  RowStep
<1> DEFINE marked == [row EXCEPT !.recon = @ \/ require]
<1>1. CASE Owns(t)
  <2>1. marked \in Row /\ marked.status = "in_progress" /\ row.status = "in_progress"
    BY <1>1 DEF TypeOK, Row, Owns
  <2>2. (row' = Reconciling(marked) \/ row' = marked) /\ UNCHANGED billing
    BY <1>1 DEF Reconcile
  <2> HIDE DEF marked
  <2> QED
    BY <2>1, <2>2, ReconcilingType DEF RowStep, Open
<1>2. CASE ~Owns(t)
  BY <1>2 DEF Reconcile, RowStep
<1> QED
  BY <1>1, <1>2

\* An execution that owns the row and only writes fields keeps it open.
LEMMA OwnedWriteStep ==
    ASSUME row \in Row, UNCHANGED billing,
           \/ row' = row
           \/ row.status = "in_progress" /\ row'.status \in Open
    PROVE  RowStep
BY DEF RowStep, Open

\* Every step of an execution does one of the three.
LEMMA ExecuteStep ==
    ASSUME TypeOK, NEW t \in Token, Execute(t)
    PROVE  RowStep
<1>0. row \in Row /\ exec[t] \in Execution
  BY DEF TypeOK
<1>1. CASE UNCHANGED <<row, billing>>
  BY <1>1 DEF RowStep
<1>2. ASSUME NEW s \in Slot, Request(t, s) PROVE RowStep
  <2>1. UNCHANGED billing
    BY <1>2 DEF Request, BeginDispatch, QueueTimesOut, CommitDispatch, DispatchFails, Respond,
                SendAgain
  <2>2. row' = row \/ (row.status = "in_progress" /\ row' = [row EXCEPT !.calls = @ + 1])
    BY <1>2 DEF Request, BeginDispatch, QueueTimesOut, CommitDispatch, DispatchFails,
                Respond, SendAgain, Owns
  <2>3. row' = row \/ (row.status = "in_progress" /\ row'.status \in Open)
    BY <1>0, <2>2 DEF Row, Open
  <2> QED
    BY <1>0, <2>1, <2>3, OwnedWriteStep
<1>3. CASE CollectIds(t)
  <2>1. /\ UNCHANGED billing
        /\ row' = row \/ (row.status = "in_progress"
                          /\ row' = [row EXCEPT !.ids = SlotsIn(t, {"accepted"})])
    BY <1>3 DEF CollectIds, Owns
  <2>2. row' = row \/ (row.status = "in_progress" /\ row'.status \in Open)
    BY <1>0, <2>1 DEF Row, Open
  <2> QED
    BY <1>0, <2>1, <2>2, OwnedWriteStep
<1>4. CASE SettleImages(t) \/ Spool(t)
  <2>1. /\ UNCHANGED billing
        /\ row' = row \/ (row.status = "in_progress"
                          /\ \E p \in Payload : row' = [row EXCEPT !.archive = p])
    BY <1>0, <1>4 DEF SettleImages, Spool, Owns, Execution
  <2>2. row' = row \/ (row.status = "in_progress" /\ row'.status \in Open)
    BY <1>0, <2>1 DEF Row, Open
  <2> QED
    BY <1>0, <2>1, <2>2, OwnedWriteStep
<1>5. ASSUME NEW p \in Payload, UNCHANGED billing,
             row' = IF Owns(t) THEN ArchiveRequeued(row, p, FALSE) ELSE row
      PROVE  RowStep
  BY <1>0, <1>5, ArchiveRequeuedType DEF RowStep, Open, Owns
<1>6. CASE SettlePartial(t)
  <2>1. CASE Finish(t, "failed", "none", FALSE)
    BY <2>1, FinishStep DEF Terminal, Payload
  <2>2. CASE ~Finish(t, "failed", "none", FALSE)
    BY <1>5, <1>6, <2>2 DEF SettlePartial, Payload
  <2> QED
    BY <2>1, <2>2
<1>7. CASE SettleUnknown(t) \/ PublishMissing(t)
  BY <1>7, FinishStep, ReconcileStep
     DEF SettleUnknown, PublishMissing, FinishUnknown, Terminal, Payload
<1>8. CASE SettleRetry(t)
  <2>1. exec[t].attempts + 1 \in 0 .. MaxAttempts
    BY <1>0, <1>8, ConstantsAssumption DEF SettleRetry, Execution
  <2>2. /\ UNCHANGED billing
        /\ \/ row' = row
           \/ row.status = "in_progress" /\ row' = Requeued(row, exec[t].attempts + 1, FALSE)
    BY <1>8 DEF SettleRetry, Owns
  <2>3. Requeued(row, exec[t].attempts + 1, FALSE).status = "queued"
    BY <1>0, <2>1, RequeuedType
  <2> QED
    BY <1>0, <2>2, <2>3, OwnedWriteStep DEF Open
<1>9. CASE SettleFailure(t) \/ ArchiveExpires(t)
  BY <1>9, FinishStep DEF SettleFailure, ArchiveExpires, Terminal, Payload
<1>10. CASE Publish(t)
  <2>1. exec[t].result \in Payload
    BY <1>0, <1>10 DEF Publish, Execution
  <2> QED
    BY <1>10, <2>1, FinishStep DEF Publish, Terminal
<1>11. CASE ArchiveFails(t)
  <2>1. exec[t].archive \in Payload
    BY <1>0 DEF Execution
  <2>2. CASE Finish(t, "failed", "none", TRUE)
    BY <2>2, FinishStep DEF Terminal, Payload
  <2>3. CASE ~Finish(t, "failed", "none", TRUE)
    BY <1>1, <1>5, <1>11, <2>1, <2>3 DEF ArchiveFails
  <2> QED
    BY <2>2, <2>3
<1>12. CASE Interrupted(t)
  BY <1>1, <1>12, FinishStep, ReconcileStep DEF Interrupted, Terminal, Payload
<1> QED
  BY <1>1, <1>2, <1>3, <1>4, <1>6, <1>7, <1>8, <1>9, <1>10, <1>11, <1>12
     DEF Execute, PrepareArchive, PrepareInputs, PrepareFails, SwitchRoute, Collect, Poll,
         SettleAbort

\* A recovery puts aside, requeues or fails a row in progress, or does nothing.
LEMMA RecoverStep ==
    ASSUME TypeOK, NEW w \in Worker, RecoverWrite(w)
    PROVE  RowStep
<1> DEFINE c == scan[w]
<1>1. c \in Candidate /\ row \in Row
  BY DEF RecoverWrite, TypeOK
<1>2. c.attempts + 1 \in 0 .. MaxAttempts /\ c.archive \in Payload
      /\ row.attempts \in 0 .. MaxAttempts
  BY <1>1, ConstantsAssumption DEF Candidate, Row
<1>3. CASE UNCHANGED <<row, billing>>
  BY <1>3 DEF RowStep
<1>4. CASE ~UNCHANGED <<row, billing>>
  <2>1. row.status = "in_progress"
    BY <1>4 DEF RecoverWrite
  <2>2. \/ /\ billing' = billing
           /\ \/ row' = ArchiveRequeued(row, c.archive, TRUE)
              \/ row' = Reconciling(row)
              \/ row' = Requeued(row, row.attempts, TRUE)
              \/ row' = Requeued(row, c.attempts + 1, FALSE)
        \/ /\ row' = [Finished(row, "failed", FALSE) EXCEPT !.attempts = c.attempts + 1]
           /\ billing' = Finalized("failed", "none")
    BY <1>4 DEF RecoverWrite
  <2> HIDE DEF c
  <2>3. CASE billing' = billing /\ row'.status \in Open \cup {"reconciling"}
    BY <2>1, <2>3 DEF RowStep, Open
  <2>4. CASE /\ row' = [Finished(row, "failed", FALSE) EXCEPT !.attempts = c.attempts + 1]
             /\ billing' = Finalized("failed", "none")
    <3>1. Finished(row, "failed", FALSE) \in Row /\ Finished(row, "failed", FALSE).status = "failed"
      BY <1>1, FinishedType DEF Terminal
    <3>2. row'.status = "failed"
      BY <2>4, <3>1 DEF Row
    <3> QED
      BY <2>1, <2>4, <3>2 DEF RowStep, Ends, Terminal, Payload
  <2> QED
    <3>1. /\ ArchiveRequeued(row, c.archive, TRUE).status = "queued"
          /\ Requeued(row, row.attempts, TRUE).status = "queued"
          /\ Requeued(row, c.attempts + 1, FALSE).status = "queued"
          /\ Reconciling(row).status = "reconciling"
      BY <1>1, <1>2, ArchiveRequeuedType, ReconcilingType, RequeuedType
    <3> QED
      BY <2>2, <2>3, <2>4, <3>1 DEF Open
<1> QED
  BY <1>3, <1>4

\* Every step is one of the three.
LEMMA StepsOfRow == TypeOK /\ [Next]_vars => RowStep
<1> SUFFICES ASSUME TypeOK, [Next]_vars PROVE RowStep
  OBVIOUS
<1>0. row \in Row
  BY DEF TypeOK
<1>1. CASE UNCHANGED <<row, billing>>
  BY <1>1 DEF RowStep
<1>2. ASSUME NEW w \in Worker, NEW t \in Token, Claim(w, t) PROVE RowStep
  BY <1>0, <1>2 DEF Claim, RowStep, Open, Row
<1>3. ASSUME NEW t \in Token, Execute(t) \/ LoseLease(t) PROVE RowStep
  BY <1>1, <1>3, ExecuteStep DEF LoseLease
<1>4. ASSUME NEW w \in Worker, Recover(w) \/ Process(w) PROVE RowStep
  BY <1>1, <1>4, RecoverStep
     DEF Recover, Process, ScanRead, RecoverScanned, Terminate, Drained, AbortAll,
         NamedRead, RecoverNamed, Crash, Restart
<1>5. CASE Cancel
  BY <1>0, <1>5, ReconcilingType
     DEF Cancel, RowStep, Ends, Open, Terminal, Payload, Row
<1>6. CASE SettleReconciliation
  <2>1. PICK st \in {"completed", "failed"}, p \in {"whole"} \cup ({row.archive} \ {"none"}) :
          row' = Finished(row, st, FALSE) /\ billing' = Finalized(st, p)
    BY <1>6 DEF SettleReconciliation
  <2>2. st \in Terminal /\ p \in Payload /\ row.status = "reconciling"
    BY <1>0, <1>6 DEF SettleReconciliation, Row, Payload, Terminal
  <2>3. row'.status = st
    BY <1>0, <2>1, <2>2, FinishedType
  <2> QED
    BY <2>1, <2>2, <2>3 DEF RowStep, Ends, Terminal
<1>7. CASE LeaseExpires \/ BackoffPasses
  BY <1>0, <1>7 DEF LeaseExpires, BackoffPasses, RowStep, Open, Row
<1> QED
  BY <1>1, <1>2, <1>3, <1>4, <1>5, <1>6, <1>7 DEF Next, vars

\* A terminal row is never written again, and neither is its reservation: by no
\* execution that was cut off, by no recovery with an old candidate.
THEOREM Final == Spec => TerminalIsFinal
<1>1. TypeOK /\ [Next]_vars
        => [row.status \in Terminal =>
              row'.status = row.status /\ row'.archive = row.archive /\ billing' = billing]_vars
  <2> SUFFICES ASSUME TypeOK, [Next]_vars, row.status \in Terminal
               PROVE  row' = row /\ billing' = billing
    OBVIOUS
  <2> QED
    BY StepsOfRow DEF RowStep, Ends, Open, Terminal
<1> QED
  BY <1>1, TypeCorrect, PTL DEF Spec, TerminalIsFinal

\* The reservation is settled exactly when the row becomes terminal, once, and
\* the way the status says, whoever wins the race for the row.
THEOREM SettledOnce == Spec => []HoldSettledOnce
<1>1. Init => HoldSettledOnce
  BY DEF Init, HoldSettledOnce, Terminal
<1>2. TypeOK /\ HoldSettledOnce /\ [Next]_vars => HoldSettledOnce'
  <2> SUFFICES ASSUME TypeOK, HoldSettledOnce, [Next]_vars PROVE HoldSettledOnce'
    OBVIOUS
  <2>1. CASE UNCHANGED <<row, billing>>
    BY <2>1 DEF HoldSettledOnce
  <2>2. CASE /\ row.status \in Open /\ row'.status \in Open \cup {"reconciling"}
             /\ UNCHANGED billing
    BY <2>2 DEF HoldSettledOnce, Open, Terminal
  <2>3. CASE Ends
    <3>1. PICK p \in Payload : billing' = Finalized(row'.status, p)
      BY <2>3 DEF Ends
    <3>2. billing.finals = 0 /\ billing \in Billing
      BY <2>3 DEF Ends, HoldSettledOnce, TypeOK
    <3>3. /\ billing'.finals = 1
          /\ billing'.hold \in IF row'.status = "completed" THEN {"full", "delivered"}
                                                            ELSE {"released"}
      BY <3>1, <3>2 DEF Finalized
    <3> QED
      BY <2>3, <3>3 DEF Ends, HoldSettledOnce, Terminal
  <2> QED
    BY <2>1, <2>2, <2>3, StepsOfRow DEF RowStep
<1> QED
  BY <1>1, <1>2, TypeCorrect, PTL DEF Spec

\* TaskLifecycle implements TaskSettlement: what the workers do to the row looks,
\* from outside, like putting a task aside and ending it once.
THEOREM Implementation == Spec => SettlementKept
<1> DEFINE stage == IF row.status \in {"queued", "in_progress"} THEN "open" ELSE row.status
<1>1. Init => Settlement!Init
  BY DEF Init, Settlement!Init
<1>2. TypeOK /\ [Next]_vars => [Settlement!Next]_<<stage, billing.hold>>
  <2> SUFFICES ASSUME TypeOK, [Next]_vars
               PROVE  [Settlement!Next]_<<stage, billing.hold>>
    OBVIOUS
  <2>1. CASE UNCHANGED <<row, billing>>
    BY <2>1
  <2>2. CASE /\ row.status \in Open /\ row'.status \in Open \cup {"reconciling"}
             /\ UNCHANGED billing
    <3>1. CASE row'.status = "reconciling"
      BY <2>2, <3>1 DEF Open, Settlement!Next, Settlement!PutAside
    <3>2. CASE row'.status \in Open
      BY <2>2, <3>2 DEF Open
    <3> QED
      BY <2>2, <3>1, <3>2
  <2>3. CASE Ends
    <3>1. PICK p \in Payload : billing' = Finalized(row'.status, p)
      BY <2>3 DEF Ends
    <3>2. billing'.hold \in IF row'.status = "completed" THEN {"full", "delivered"}
                                                         ELSE {"released"}
      BY <3>1 DEF Finalized
    <3>3. Settlement!Settle(row'.status)
      BY <2>3, <3>2 DEF Ends, Open, Terminal, Settlement!Settle, Settlement!Ended
    <3> QED
      BY <2>3, <3>3 DEF Ends, Terminal, Settlement!Next, Settlement!Ended
  <2> QED
    BY <2>1, <2>2, <2>3, StepsOfRow DEF RowStep
<1> QED
  BY <1>1, <1>2, TypeCorrect, PTL DEF Spec, SettlementKept, Settlement!Spec

(***************************************************************************)
(* Stored upstream ids.  The execution that holds the row either has not   *)
(* looked at the ids yet, and then its copy is the row's; or it is calling *)
(* upstream, and then there are none.                                      *)
(***************************************************************************)
IdsKnown ==
    \A t \in Token :
        row.status = "in_progress" /\ row.token = t =>
            /\ exec[t].phase = "preparing" => exec[t].ids = row.ids
            /\ exec[t].phase = "calling" => row.ids = {}

\* A write that keeps the ids and the count, and gives the row to nobody.
RowKeepsIds ==
    /\ row'.ids = row.ids /\ row'.calls = row.calls
    /\ row'.status = "in_progress" => row.status = "in_progress" /\ row'.token = row.token

\* A move that keeps what IdsKnown says of an execution.
ExecKeepsIds ==
    \A t \in Token :
        /\ exec'[t].phase = "preparing" =>
              exec[t].phase = "preparing" /\ exec'[t].ids = exec[t].ids
        /\ exec'[t].phase = "calling" =>
              exec[t].phase = "calling" \/ (exec[t].phase = "preparing" /\ exec[t].ids = {})

IdsStep == IdsKnown' /\ (row.ids # {} => row'.ids = row.ids /\ row'.calls = row.calls)

\* A step that leaves both alone keeps the invariant.
LEMMA KeepsIds ==
    ASSUME IdsKnown, RowKeepsIds, ExecKeepsIds
    PROVE  IdsStep
BY DEF IdsKnown, RowKeepsIds, ExecKeepsIds, IdsStep

\* The shared writes keep the ids.
LEMMA WritesKeepIds ==
    ASSUME NEW r \in Row, NEW a, NEW d, NEW p
    PROVE  /\ Requeued(r, a, d).ids = r.ids /\ Requeued(r, a, d).calls = r.calls
           /\ Requeued(r, a, d).status = "queued"
           /\ ArchiveRequeued(r, p, d).ids = r.ids /\ ArchiveRequeued(r, p, d).calls = r.calls
           /\ ArchiveRequeued(r, p, d).status = "queued"
           /\ Reconciling(r).ids = r.ids /\ Reconciling(r).calls = r.calls
           /\ Reconciling(r).status = "reconciling"
BY DEF Requeued, ArchiveRequeued, Reconciling, Row

\* The end of a row clears neither its ids nor its count.
LEMMA FinishedKeepsIds ==
    ASSUME NEW r \in Row, NEW st \in Terminal, NEW keep \in BOOLEAN
    PROVE  /\ Finished(r, st, keep).ids = r.ids /\ Finished(r, st, keep).calls = r.calls
           /\ Finished(r, st, keep).status = st
           /\ st # "in_progress"
BY DEF Finished, Row, Terminal

\* So a fenced finish keeps them.
LEMMA FinishKeepsIds ==
    ASSUME TypeOK, NEW t, NEW st \in Terminal, NEW p, NEW keep \in BOOLEAN,
           Finish(t, st, p, keep)
    PROVE  RowKeepsIds
BY FinishedKeepsIds DEF TypeOK, Finish, RowKeepsIds

\* So does a move to reconciliation.
LEMMA ReconcileKeepsIds ==
    ASSUME TypeOK, NEW t, NEW require \in BOOLEAN, Reconcile(t, require)
    PROVE  RowKeepsIds
<1> DEFINE marked == [row EXCEPT !.recon = @ \/ require]
<1>1. /\ marked \in Row /\ marked.ids = row.ids /\ marked.calls = row.calls
      /\ marked.status = row.status /\ marked.token = row.token
  BY DEF TypeOK, Row
<1>2. row' = row \/ row' = marked \/ row' = Reconciling(marked)
  BY DEF Reconcile
<1> HIDE DEF marked
<1> QED
  BY <1>1, <1>2, WritesKeepIds DEF RowKeepsIds

\* The moves that leave the first two phases.
LEMMA LeavesCall ==
    ASSUME TypeOK, NEW t \in Token, NEW ph, NEW r, NEW b, NEW p,
           ph \notin {"preparing", "calling"}
    PROVE  /\ [exec[t] EXCEPT !.phase = ph].phase \notin {"preparing", "calling"}
           /\ [exec[t] EXCEPT !.phase = ph, !.result = r].phase \notin {"preparing", "calling"}
           /\ [exec[t] EXCEPT !.phase = ph, !.archive = p].phase \notin {"preparing", "calling"}
           /\ [exec[t] EXCEPT !.phase = ph, !.result = r, !.aborted = b].phase
                \notin {"preparing", "calling"}
<1>1. exec[t] \in Execution
  BY DEF TypeOK
<1> QED
  BY <1>1 DEF Execution

\* An execution that moves to any phase but the first two keeps the others' ids.
LEMMA BecomeKeepsIds ==
    ASSUME TypeOK, NEW t \in Token, NEW e, Become(t, e),
           e.phase \notin {"preparing", "calling"}
    PROVE  ExecKeepsIds
BY DEF TypeOK, Become, ExecKeepsIds

\* An execution that ends forgets what it read.
LEMMA EndKeepsIds ==
    ASSUME TypeOK, NEW t \in Token, End(t)
    PROVE  ExecKeepsIds
BY BecomeKeepsIds DEF End, Over

\* A request changes its slot only.
LEMMA SetSlotKeepsIds ==
    ASSUME TypeOK, NEW t \in Token, NEW s, NEW x, SetSlot(t, s, x)
    PROVE  ExecKeepsIds /\ exec'[t].phase = exec[t].phase
<1>1. exec[t] \in Execution
  BY DEF TypeOK
<1>2. /\ [exec[t] EXCEPT !.slot[s] = x].phase = exec[t].phase
      /\ [exec[t] EXCEPT !.slot[s] = x].ids = exec[t].ids
  BY <1>1 DEF Execution
<1> QED
  BY <1>2 DEF TypeOK, SetSlot, Become, ExecKeepsIds

\* The first steps of an execution: a copy without ids is the way to a call.
LEMMA PrepareIds ==
    ASSUME TypeOK, NEW t \in Token,
           PrepareArchive(t) \/ PrepareInputs(t) \/ PrepareFails(t) \/ ArchiveExpires(t)
    PROVE  RowKeepsIds /\ ExecKeepsIds
<1>0. exec[t] \in Execution
  BY DEF TypeOK
<1>1. CASE PrepareArchive(t)
  <2>1. [exec[t] EXCEPT !.phase = "archiving", !.saved = TRUE, !.result = exec[t].archive].phase
          = "archiving"
    BY <1>0 DEF Execution
  <2> QED
    BY <1>1, <2>1, BecomeKeepsIds DEF PrepareArchive, RowKeepsIds
<1>2. CASE PrepareInputs(t)
  <2>1. RowKeepsIds
    BY <1>2 DEF PrepareInputs, RowKeepsIds
  <2>2. CASE End(t)
    BY <2>1, <2>2, EndKeepsIds
  <2>3. CASE ~End(t)
    <3>1. PICK b \in AsyncRoutes :
            Become(t, [exec[t] EXCEPT
                         !.async = b,
                         !.phase = IF exec[t].ids = {} THEN "calling" ELSE "polling"])
      BY <1>2, <2>3 DEF PrepareInputs
    <3>2. [exec[t] EXCEPT !.async = b,
                          !.phase = IF exec[t].ids = {} THEN "calling" ELSE "polling"].phase
            = IF exec[t].ids = {} THEN "calling" ELSE "polling"
      BY <1>0 DEF Execution
    <3>3. exec[t].phase = "preparing"
      BY <1>2 DEF PrepareInputs
    <3> QED
      BY <2>1, <3>1, <3>2, <3>3 DEF TypeOK, Become, ExecKeepsIds
  <2> QED
    BY <2>2, <2>3
<1>3. CASE PrepareFails(t)
  <2>1. [exec[t] EXCEPT !.phase = "settling", !.result = "refused"].phase = "settling"
    BY <1>0 DEF Execution
  <2> QED
    BY <1>3, <2>1, BecomeKeepsIds DEF PrepareFails, RowKeepsIds
<1>4. CASE ArchiveExpires(t)
  BY <1>4, FinishKeepsIds, EndKeepsIds DEF ArchiveExpires, Terminal
<1> QED
  BY <1>1, <1>2, <1>3, <1>4

\* A request is counted, and ids are stored, only while there are none.
LEMMA RequestIds ==
    ASSUME TypeOK, IdsKnown, NEW t \in Token, NEW s \in Slot, Request(t, s)
    PROVE  IdsStep
<1>0. exec[t] \in Execution /\ row \in Row
  BY DEF TypeOK
<1>1. ExecKeepsIds
  <2>1. CASE \E x \in SlotState : SetSlot(t, s, x)
    BY <2>1, SetSlotKeepsIds
  <2>2. CASE CommitDispatch(t, s) /\ ~Owns(t)
    <3>1. /\ [exec[t] EXCEPT !.slot[s] = "cut", !.aborted = TRUE].phase = exec[t].phase
          /\ [exec[t] EXCEPT !.slot[s] = "cut", !.aborted = TRUE].ids = exec[t].ids
      BY <1>0 DEF Execution
    <3> QED
      BY <2>2, <3>1 DEF CommitDispatch, TypeOK, Become, ExecKeepsIds
  <2> QED
    BY <2>1, <2>2 DEF Request, BeginDispatch, QueueTimesOut, CommitDispatch, DispatchFails,
                      Respond, SendAgain, SlotState
<1>2. CASE row' = row
  BY <1>1, <1>2, KeepsIds DEF RowKeepsIds
<1>3. CASE row' # row
  <2>1. Owns(t) /\ exec[t].phase = "calling" /\ row' = [row EXCEPT !.calls = @ + 1]
    BY <1>3 DEF Request, BeginDispatch, QueueTimesOut, CommitDispatch, DispatchFails, Respond,
                SendAgain
  <2>2. row.ids = {}
    BY <2>1 DEF IdsKnown, Owns
  <2>3. row'.ids = row.ids /\ row'.status = row.status /\ row'.token = row.token
    BY <1>0, <2>1 DEF Row
  <2> QED
    BY <1>1, <2>2, <2>3 DEF IdsKnown, ExecKeepsIds, IdsStep
<1> QED
  BY <1>2, <1>3

\* A switch to another route changes neither the phase nor the ids.
LEMMA SwitchIds ==
    ASSUME TypeOK, NEW t \in Token, SwitchRoute(t)
    PROVE  RowKeepsIds /\ ExecKeepsIds
<1>1. PICK b : Become(t, [exec[t] EXCEPT !.async = b, !.slot = [s \in Slot |-> "again"]])
  BY DEF SwitchRoute
<1>2. exec[t] \in Execution
  BY DEF TypeOK
<1>3. /\ [exec[t] EXCEPT !.async = b, !.slot = [s \in Slot |-> "again"]].phase = exec[t].phase
      /\ [exec[t] EXCEPT !.async = b, !.slot = [s \in Slot |-> "again"]].ids = exec[t].ids
  BY <1>2 DEF Execution
<1> QED
  BY <1>1, <1>3 DEF SwitchRoute, TypeOK, Become, RowKeepsIds, ExecKeepsIds

\* Gathering the results: ids are stored only into a row that has none.
LEMMA GatherIds ==
    ASSUME TypeOK, IdsKnown, NEW t \in Token, Collect(t) \/ CollectIds(t) \/ Poll(t)
    PROVE  IdsStep
<1>0. exec[t] \in Execution /\ row \in Row
  BY DEF TypeOK
<1>1. exec'[t].phase \notin {"preparing", "calling"} /\ ExecKeepsIds
  <2>1. \E ph \in {"settling", "polling"} : \E r, b :
          \/ Become(t, [exec[t] EXCEPT !.phase = ph, !.result = r])
          \/ Become(t, [exec[t] EXCEPT !.phase = ph, !.result = r, !.aborted = b])
    <3>1. CASE Collect(t)
      BY <3>1 DEF Collect
    <3>2. CASE CollectIds(t)
      BY <3>2 DEF CollectIds
    <3>3. CASE Poll(t)
      BY <3>3 DEF Poll
    <3> QED
      BY <3>1, <3>2, <3>3
  <2>2. \E e : Become(t, e) /\ e.phase \notin {"preparing", "calling"}
    BY <2>1, LeavesCall
  <2> QED
    BY <2>2, BecomeKeepsIds DEF Become, TypeOK
<1>2. CASE row' = row
  BY <1>1, <1>2, KeepsIds DEF RowKeepsIds
<1>3. CASE row' # row
  <2>1. Owns(t) /\ exec[t].phase = "calling" /\ row' = [row EXCEPT !.ids = SlotsIn(t, {"accepted"})]
    BY <1>3 DEF Collect, CollectIds, Poll
  <2>2. row.ids = {}
    BY <2>1 DEF IdsKnown, Owns
  <2>3. row'.token = t
    BY <1>0, <2>1 DEF Row, Owns
  <2> QED
    BY <1>1, <2>2, <2>3 DEF IdsKnown, IdsStep
<1> QED
  BY <1>2, <1>3

\* From there on an execution keeps the ids.
LEMMA SettleIds ==
    ASSUME TypeOK, NEW t \in Token,
           \/ SettleImages(t) \/ SettlePartial(t) \/ SettleUnknown(t)
           \/ SettleRetry(t) \/ SettleFailure(t) \/ SettleAbort(t)
           \/ Spool(t) \/ Publish(t) \/ PublishMissing(t) \/ ArchiveFails(t) \/ Interrupted(t)
    PROVE  RowKeepsIds /\ ExecKeepsIds
<1>0. exec[t] \in Execution /\ row \in Row
  BY DEF TypeOK
<1>1. ExecKeepsIds
  <2>1. CASE End(t)
    BY <2>1, EndKeepsIds
  <2>2. CASE ~End(t)
    <3>1. SettleImages(t) \/ Spool(t) \/ ArchiveFails(t)
      BY <2>2 DEF SettlePartial, SettleUnknown, SettleRetry, SettleFailure, SettleAbort,
                  Publish, PublishMissing, Interrupted
    <3>2. CASE SettleImages(t)
      BY <2>2, <3>2, LeavesCall, BecomeKeepsIds DEF SettleImages
    <3>3. CASE Spool(t)
      BY <2>2, <3>3, LeavesCall, BecomeKeepsIds DEF Spool
    <3>4. CASE ArchiveFails(t)
      BY <2>2, <3>4, LeavesCall, BecomeKeepsIds DEF ArchiveFails
    <3> QED
      BY <3>1, <3>2, <3>3, <3>4
  <2> QED
    BY <2>1, <2>2
<1>2. RowKeepsIds
  <2>1. CASE UNCHANGED row
    BY <2>1 DEF RowKeepsIds
  <2>2. ASSUME NEW st \in Terminal, NEW p, NEW keep \in BOOLEAN, Finish(t, st, p, keep)
        PROVE  RowKeepsIds
    BY <2>2, FinishKeepsIds
  <2>3. ASSUME NEW require \in BOOLEAN, Reconcile(t, require) PROVE RowKeepsIds
    BY <2>3, ReconcileKeepsIds
  <2>4. ASSUME NEW p, row' = [row EXCEPT !.archive = p] PROVE RowKeepsIds
    BY <1>0, <2>4 DEF Row, RowKeepsIds
  <2>5. ASSUME NEW p, NEW a, NEW d,
               row' = ArchiveRequeued(row, p, d) \/ row' = Requeued(row, a, d)
        PROVE  RowKeepsIds
    BY <1>0, <2>5, WritesKeepIds DEF RowKeepsIds
  <2>6. CASE SettleImages(t) \/ Spool(t)
    BY <2>1, <2>4, <2>6 DEF SettleImages, Spool
  <2>7. CASE SettlePartial(t) \/ SettleFailure(t) \/ Publish(t)
    BY <2>1, <2>2, <2>5, <2>7 DEF SettlePartial, SettleFailure, Publish, Terminal
  <2>8. CASE SettleUnknown(t) \/ PublishMissing(t)
    BY <2>2, <2>3, <2>8 DEF SettleUnknown, PublishMissing, FinishUnknown, Terminal
  <2>9. CASE SettleRetry(t) \/ SettleAbort(t)
    BY <2>1, <2>5, <2>9 DEF SettleRetry, SettleAbort
  <2>10. CASE ArchiveFails(t)
    BY <2>1, <2>2, <2>5, <2>10 DEF ArchiveFails, Terminal
  <2>11. CASE Interrupted(t)
    BY <2>1, <2>2, <2>3, <2>11 DEF Interrupted, Terminal
  <2> QED
    BY <2>6, <2>7, <2>8, <2>9, <2>10, <2>11
<1> QED
  BY <1>1, <1>2

\* Killing or aborting the executions of a process keeps the others' ids.
LEMMA ProcessIds ==
    ASSUME TypeOK, NEW w \in Worker, Recover(w) \/ Process(w)
    PROVE  RowKeepsIds /\ ExecKeepsIds
<1>0. row \in Row /\ (scan[w] # NoCandidate => scan[w] \in Candidate)
  BY DEF TypeOK
<1>1. ExecKeepsIds
  <2>1. CASE UNCHANGED exec
    BY <2>1 DEF ExecKeepsIds
  <2>2. CASE exec' = Killed(w)
    BY <2>2 DEF Killed, Over, ExecKeepsIds
  <2>3. CASE AbortAll(w)
    <3>1. \A t \in Token : /\ [exec[t] EXCEPT !.aborted = TRUE].phase = exec[t].phase
                           /\ [exec[t] EXCEPT !.aborted = TRUE].ids = exec[t].ids
      <4> SUFFICES ASSUME NEW t \in Token
                   PROVE  /\ [exec[t] EXCEPT !.aborted = TRUE].phase = exec[t].phase
                          /\ [exec[t] EXCEPT !.aborted = TRUE].ids = exec[t].ids
        OBVIOUS
      <4>1. exec[t] \in Execution
        BY DEF TypeOK
      <4> QED
        BY <4>1 DEF Execution
    <3> QED
      BY <2>3, <3>1 DEF AbortAll, ExecKeepsIds
  <2> QED
    BY <2>1, <2>2, <2>3
       DEF Recover, Process, ScanRead, RecoverScanned, Terminate, Drained, NamedRead,
           RecoverNamed, Crash, Restart
<1>2. RowKeepsIds
  <2>1. CASE UNCHANGED row
    BY <2>1 DEF RowKeepsIds
  <2>2. CASE RecoverWrite(w)
    <3>1. \/ UNCHANGED row
          \/ \E p, d : row' = ArchiveRequeued(row, p, d)
          \/ row' = Reconciling(row)
          \/ \E a, d : row' = Requeued(row, a, d)
          \/ \E a : row' = [Finished(row, "failed", FALSE) EXCEPT !.attempts = a]
      BY <2>2 DEF RecoverWrite
    <3>2. ASSUME NEW a, row' = [Finished(row, "failed", FALSE) EXCEPT !.attempts = a]
          PROVE  RowKeepsIds
      <4> DEFINE f == Finished(row, "failed", FALSE)
      <4>1. f \in Row /\ f.ids = row.ids /\ f.calls = row.calls /\ f.status = "failed"
        BY <1>0, FinishedKeepsIds, FinishedType DEF Terminal
      <4>2. row'.ids = f.ids /\ row'.calls = f.calls /\ row'.status = f.status
        <5> HIDE DEF f
        <5> QED
          BY <3>2, <4>1 DEF Row, f
      <4> QED
        BY <4>1, <4>2 DEF RowKeepsIds
    <3>3. ASSUME NEW p, NEW a, NEW d,
                 \/ row' = ArchiveRequeued(row, p, d)
                 \/ row' = Reconciling(row)
                 \/ row' = Requeued(row, a, d)
          PROVE  RowKeepsIds
      BY <1>0, <3>3, WritesKeepIds DEF RowKeepsIds
    <3> QED
      BY <2>1, <3>1, <3>2, <3>3
  <2> QED
    BY <2>1, <2>2
       DEF Recover, Process, ScanRead, RecoverScanned, Terminate, Drained, AbortAll,
           NamedRead, RecoverNamed, Crash, Restart
<1> QED
  BY <1>1, <1>2

\* A claim copies the ids it read.
LEMMA ClaimIds ==
    ASSUME TypeOK, NEW w \in Worker, NEW t \in Token, Claim(w, t)
    PROVE  IdsStep
<1>1. row \in Row /\ exec[t] \in Execution
  BY DEF TypeOK
<1>2. /\ row'.token = t /\ row'.ids = row.ids /\ row'.calls = row.calls
  BY <1>1 DEF Claim, Row
<1>3. exec'[t].phase = "preparing" /\ exec'[t].ids = row.ids
  <2> DEFINE e == [exec[t] EXCEPT !.worker = w, !.phase = "preparing",
                                  !.attempts = row.attempts, !.calls = row.calls,
                                  !.ids = row.ids, !.recon = row.recon,
                                  !.archive = row.archive]
  <2>1. e.phase = "preparing" /\ e.ids = row.ids
    BY <1>1 DEF Execution
  <2>2. exec' = [exec EXCEPT ![t] = e]
    BY DEF Claim, Become
  <2> HIDE DEF e
  <2> QED
    BY <2>1, <2>2 DEF TypeOK
<1> QED
  BY <1>2, <1>3 DEF IdsKnown, IdsStep

\* The writers outside the executions and the recoveries.
LEMMA OtherIds ==
    ASSUME TypeOK,
           \/ \E t \in Token : LoseLease(t)
           \/ Cancel \/ SettleReconciliation \/ LeaseExpires \/ BackoffPasses
    PROVE  RowKeepsIds /\ ExecKeepsIds
<1>0. row \in Row
  BY DEF TypeOK
<1>1. ASSUME NEW t \in Token, LoseLease(t) PROVE RowKeepsIds /\ ExecKeepsIds
  <2>1. exec[t] \in Execution
    BY DEF TypeOK
  <2>2. /\ [exec[t] EXCEPT !.aborted = TRUE].phase = exec[t].phase
        /\ [exec[t] EXCEPT !.aborted = TRUE].ids = exec[t].ids
    BY <2>1 DEF Execution
  <2> QED
    BY <1>1, <2>2 DEF LoseLease, Become, RowKeepsIds, ExecKeepsIds, TypeOK
<1>2. CASE Cancel
  <2>1. \/ row' = Reconciling(row)
        \/ row' = [row EXCEPT !.status = "cancelled"]
    BY <1>2 DEF Cancel
  <2>2. RowKeepsIds
    BY <1>0, <2>1, WritesKeepIds DEF RowKeepsIds, Row
  <2> QED
    BY <1>2, <2>2 DEF Cancel, ExecKeepsIds
<1>3. CASE SettleReconciliation
  <2>1. PICK st \in {"completed", "failed"} : row' = Finished(row, st, FALSE)
    BY <1>3 DEF SettleReconciliation
  <2>2. RowKeepsIds
    BY <1>0, <2>1, FinishedKeepsIds DEF RowKeepsIds, Terminal
  <2> QED
    BY <1>3, <2>2 DEF SettleReconciliation, ExecKeepsIds
<1>4. CASE LeaseExpires \/ BackoffPasses
  BY <1>0, <1>4 DEF LeaseExpires, BackoffPasses, RowKeepsIds, ExecKeepsIds, Row
<1> QED
  BY <1>1, <1>2, <1>3, <1>4

\* Every step keeps the invariant, and the ids with it.
LEMMA StepsOfIds == TypeOK /\ IdsKnown /\ [Next]_vars => IdsStep
<1> SUFFICES ASSUME TypeOK, IdsKnown, [Next]_vars PROVE IdsStep
  OBVIOUS
<1>1. ASSUME NEW t \in Token, Execute(t) PROVE IdsStep
  BY <1>1, PrepareIds, RequestIds, SwitchIds, GatherIds, SettleIds, KeepsIds DEF Execute
<1>2. ASSUME NEW w \in Worker, Recover(w) \/ Process(w) PROVE IdsStep
  BY <1>2, ProcessIds, KeepsIds
<1>3. CASE UNCHANGED vars
  BY <1>3 DEF vars, IdsStep, IdsKnown
<1> QED
  BY <1>1, <1>2, <1>3, ClaimIds, OtherIds, KeepsIds DEF Next

\* Upstream ids, once stored, are neither dropped nor followed by one more counted
\* request: every retry, takeover and recovery only polls them.
THEOREM OnlyPolled == Spec => StoredIdsOnlyPolled
<1>1. Init => IdsKnown
  BY DEF Init, IdsKnown
<1>2. TypeOK /\ IdsKnown /\ [Next]_vars => IdsKnown'
  BY StepsOfIds DEF IdsStep
<1>3. TypeOK /\ IdsKnown /\ [Next]_vars
        => [row.ids # {} => row'.ids = row.ids /\ row'.calls = row.calls]_vars
  BY StepsOfIds DEF IdsStep
<1> QED
  BY <1>1, <1>2, <1>3, TypeCorrect, PTL DEF Spec, StoredIdsOnlyPolled

=============================================================================
