------------------------- MODULE EscrowOrderProofs -------------------------
(***************************************************************************)
(* Theorems about EscrowOrder, for every set of requests, attempts, refunds*)
(* and references, every provider, surface and set of faults.              *)
(***************************************************************************)
EXTENDS EscrowOrderInv, FiniteSetTheorems, TLAPS

USE DEF order, ledger, psp, rest, RowFree, Exposed
-----------------------------------------------------------------------------
(* Facts about the types.                                                  *)

\* A request that ended is a request again.
LEMMA IdleType == Idle \in Request
  BY DEF Idle, Request, Stages, OrderState

\* A new row is a row, and so is a row whose status or reference is set.
LEMMA RowType ==
    /\ NewRow \in Row
    /\ \A b \in BOOLEAN, s \in RowStatus : [status |-> s, ref |-> b] \in Row
    /\ \A w \in Row : /\ w.status \in RowStatus /\ w.ref \in BOOLEAN
                      /\ [w EXCEPT !.ref = TRUE] \in Row
                      /\ \A s \in RowStatus : [w EXCEPT !.status = s] \in Row
  BY DEF NewRow, Row, RowStatus
-----------------------------------------------------------------------------
\* The initial state is of the declared types.
LEMMA TypeInit == Init => TypeOK
<1> SUFFICES ASSUME Init PROVE TypeOK
  OBVIOUS
<1>1. /\ releases \in [Attempts -> Row] /\ refunds \in [Refunds -> Row]
      /\ req \in [Requests -> Request]
  BY IdleType DEF Init, Row, RowStatus
<1>2. /\ ostate \in OrderState /\ lastEvent \in OrderState
      /\ holds \in [PayRefs -> Nat] /\ earned \in Nat
  BY DEF Init, OrderState
<1> QED
  BY <1>1, <1>2 DEF Init, TypeOK

\* No step leaves the declared types.
LEMMA TypeStep == TypeOK /\ [Next]_vars => TypeOK'
<1> USE ConstantsAssumption, IdleType DEF Goto, Finish
<1> SUFFICES ASSUME TypeOK, [Next]_vars
             PROVE  TypeOK'
  OBVIOUS
<1> USE DEF TypeOK
<1>1. CASE AdvanceToAuthed
  BY <1>1 DEF AdvanceToAuthed, Transition, OrderState
<1>2. CASE AdvanceToReviewed
  BY <1>2 DEF AdvanceToReviewed, Transition, OrderState
<1>3. CASE CreateInvoice
  BY <1>3 DEF CreateInvoice
<1>4. CASE BookShipment
  BY <1>4 DEF BookShipment, Transition, OrderState
<1>5. CASE MockSellerShipped
  BY <1>5 DEF MockSellerShipped, Transition, OrderState
<1>6. CASE CancelShipment
  BY <1>6 DEF CancelShipment, Transition, OrderState
<1>7. CASE MockDelivered
  BY <1>7 DEF MockDelivered, Transition, OrderState
<1>8. CASE ShipmentEvent
  BY <1>8 DEF ShipmentEvent, Delivered, Problem, Transition, TryTransition, OrderState
<1>9. CASE OpenDispute
  BY <1>9 DEF OpenDispute, Transition, OrderState
<1>10. CASE ReleaseWindowElapses
  BY <1>10 DEF ReleaseWindowElapses
<1>11. CASE RefundEnds
  BY <1>11 DEF RefundEnds
<1>12. CASE RefundCallback
  BY <1>12 DEF RefundCallback, Row, RowStatus
<1>13. ASSUME NEW p \in PayRefs, XenditPaid(p) PROVE TypeOK'
  BY <1>13 DEF XenditPaid, MarkOrderPaid, Transition, OrderState
<1>14. ASSUME NEW r \in Requests, NEW p \in PayRefs, ResolvePaid(r, p) PROVE TypeOK'
  BY <1>14 DEF ResolvePaid, Request, Stages, Handlers
<1>15. ASSUME NEW r \in Requests, ApplyPaid(r) PROVE TypeOK'
  BY <1>15 DEF ApplyPaid, MarkOrderPaid, Transition, OrderState
<1>16. ASSUME NEW r \in Requests, TrackingLookup(r) PROVE TypeOK'
  BY <1>16 DEF TrackingLookup, Request, Stages, Handlers, ReleaseHandlers, OrderState
<1>17. ASSUME NEW r \in Requests, TrackingWrite(r) PROVE TypeOK'
  BY <1>17 DEF TrackingWrite, Delivered, Problem, Transition, TryTransition, OrderState
<1>18. ASSUME NEW r \in Requests, BecknLookup(r) PROVE TypeOK'
  BY <1>18 DEF BecknLookup, Request, Stages, Handlers, ReleaseHandlers, OrderState
<1>19. ASSUME NEW r \in Requests, BecknRefund(r) PROVE TypeOK'
  BY <1>19 DEF BecknRefund, Transition, OrderState
<1>20. ASSUME NEW r \in Requests, PeekOrder(r) PROVE TypeOK'
  BY <1>20 DEF PeekOrder, Request, Stages, Handlers, ReleaseHandlers, OrderState
<1>21. ASSUME NEW r \in Requests, LockPeeked(r) PROVE TypeOK'
  BY <1>21 DEF LockPeeked, Request, Stages
<1>22. ASSUME NEW r \in Requests, ReleaseConflict(r) PROVE TypeOK'
  BY <1>22 DEF ReleaseConflict
<1>23. ASSUME NEW r \in Requests, ReleaseCheck(r) PROVE TypeOK'
  BY <1>23 DEF ReleaseCheck, Request, Stages
<1>24. ASSUME NEW r \in Requests, ReleaseCommit(r) PROVE TypeOK'
  <2>4. PICK e \in Attempts :
           /\ releases' = [releases EXCEPT ![e] = NewRow]
           /\ \/ /\ Transition("FULFILLING", "RECEIVED")
                 /\ req' = [req EXCEPT ![r].pc = "paying", ![r].row = e,
                                       ![r].seen = "RECEIVED"]
              \/ /\ UNCHANGED <<ostate, lastEvent>>
                 /\ req' = [req EXCEPT ![r].pc = "paying", ![r].row = e]
    BY <1>24 DEF ReleaseCommit
  <2>1. releases' \in [Attempts -> Row]
    BY <2>4, RowType
  <2>2. ostate' \in OrderState /\ lastEvent' \in OrderState
    BY <2>4 DEF Transition, OrderState
  <2>3. req' \in [Requests -> Request]
    BY <2>4 DEF Request, Stages, OrderState
  <2> QED
    BY <1>24, <2>1, <2>2, <2>3 DEF ReleaseCommit
<1>25. ASSUME NEW r \in Requests, PayoutSkipped(r) PROVE TypeOK'
  BY <1>25 DEF PayoutSkipped, Request, Stages
<1>26. ASSUME NEW r \in Requests, PayoutNotTaken(r) PROVE TypeOK'
  BY <1>26 DEF PayoutNotTaken, Request, Stages
<1>27. ASSUME NEW r \in Requests, PayoutTaken(r) PROVE TypeOK'
  <2>1. req' \in [Requests -> Request]
    BY <1>27 DEF PayoutTaken, Request, Stages
  <2>2. disb' \in [Keys -> {"none", "accepted", "settled", "failed"}]
    BY <1>27 DEF PayoutTaken
  <2> QED
    BY <1>27, <2>1, <2>2 DEF PayoutTaken
<1>28. ASSUME NEW r \in Requests, RecordFailure(r) PROVE TypeOK'
  <2>1. releases' \in [Attempts -> Row]
    <3>1. releases' = [releases EXCEPT ![req[r].row].status = "FAILED"]
      BY <1>28 DEF RecordFailure
    <3>2. ASSUME NEW e \in Attempts PROVE releases'[e] \in Row
      BY <3>1, RowType DEF RowStatus
    <3>3. releases' = [e \in Attempts |-> releases'[e]]
      BY <3>1
    <3> QED
      BY <3>2, <3>3
  <2>2. req' \in [Requests -> Request]
    BY <1>28 DEF RecordFailure
  <2> QED
    BY <1>28, <2>1, <2>2 DEF RecordFailure
<1>29. ASSUME NEW r \in Requests, RecordSuccess(r) PROVE TypeOK'
  <2>1. releases' \in [Attempts -> Row]
    <3>1. releases' = [releases EXCEPT ![req[r].row].ref = TRUE]
      BY <1>29 DEF RecordSuccess
    <3>2. ASSUME NEW e \in Attempts PROVE releases'[e] \in Row
      BY <3>1, RowType
    <3>3. releases' = [e \in Attempts |-> releases'[e]]
      BY <3>1
    <3> QED
      BY <3>2, <3>3
  <2>2. req' \in [Requests -> Request]
    BY <1>29 DEF RecordSuccess, Request, Stages
  <2> QED
    BY <1>29, <2>1, <2>2 DEF RecordSuccess
<1>30. ASSUME NEW r \in Requests, CloseRelease(r) PROVE TypeOK'
  BY <1>30 DEF CloseRelease, TryTransition, OrderState
<1>31. ASSUME NEW r \in Requests, RefundCall(r) PROVE TypeOK'
  BY <1>31 DEF RefundCall, Request, Stages
<1>32. ASSUME NEW r \in Requests, RefundCommit(r) PROVE TypeOK'
  BY <1>32 DEF RefundCommit, Transition, OrderState, Row, RowStatus
<1>33. ASSUME NEW r \in Requests, Crash(r) PROVE TypeOK'
  BY <1>33 DEF Crash
<1>34. ASSUME NEW r \in Requests,
          NEW h \in {"buyer_confirm_receipt", "mock_elapse_d3", "mock_release",
                   "mock_refund"},
          LockOrder(r, h)
       PROVE TypeOK'
  BY <1>34 DEF LockOrder, Request, Stages, Handlers, ReleaseHandlers
<1>35. ASSUME NEW k \in Keys, PayoutEnds(k) PROVE TypeOK'
  BY <1>35 DEF PayoutEnds
<1>36. ASSUME NEW k \in Keys, PayoutCallback(k) PROVE TypeOK'
  BY <1>36 DEF PayoutCallback, Found, Row, RowStatus
<1>37. ASSUME NEW k \in Keys, PayoutCallbackUnmatched(k) PROVE TypeOK'
  BY <1>37 DEF PayoutCallbackUnmatched
<1>38. CASE UNCHANGED vars
  BY <1>38 DEF vars
<1> QED
  BY <1>1, <1>2, <1>3, <1>4, <1>5, <1>6, <1>7, <1>8, <1>9, <1>10, <1>11, <1>12, <1>13, <1>14, <1>15, <1>16, <1>17, <1>18, <1>19, <1>20, <1>21, <1>22, <1>23, <1>24, <1>25, <1>26, <1>27, <1>28, <1>29, <1>30, <1>31, <1>32, <1>33, <1>34, <1>35, <1>36, <1>37, <1>38 DEF Next, Step

\* Type correctness: the model never leaves its declared state space.
THEOREM TypeCorrect == Spec => []TypeOK
  BY TypeInit, TypeStep, PTL DEF Spec
-----------------------------------------------------------------------------
\* A step of the system is a step of one request or leaves requests and the
\* row lock alone.
LEMMA StepOrQuiet ==
    ASSUME [Next]_vars
    PROVE  (\E r \in Requests : Step(r)) \/ UNCHANGED <<req, lock>>
<1>1. CASE UNCHANGED vars
  BY <1>1 DEF vars
<1>2. CASE Next
  BY <1>2 DEF Next, AdvanceToAuthed, AdvanceToReviewed, CreateInvoice, XenditPaid,
        BookShipment, MockSellerShipped, CancelShipment, MockDelivered,
        ShipmentEvent, OpenDispute, ReleaseWindowElapses, PayoutEnds,
        PayoutCallback, PayoutCallbackUnmatched, RefundEnds, RefundCallback
<1> QED
  BY <1>1, <1>2

\* What Goto and Finish do to the requests.
LEMMA GotoEffect ==
    ASSUME TypeOK, NEW r \in Requests, NEW pc, Goto(r, pc)
    PROVE  /\ req'[r].pc = pc /\ req'[r].by = req[r].by
           /\ req'[r].seen = req[r].seen /\ req'[r].row = req[r].row
           /\ \A q \in Requests : q # r => req'[q] = req[q]
  BY DEF Goto, TypeOK, Request

LEMMA FinishEffect ==
    ASSUME TypeOK, NEW r \in Requests, Finish(r)
    PROVE  /\ req'[r].pc = "idle" /\ req'[r].by = "none"
           /\ req'[r].seen = "PRE_AUTH" /\ req'[r].row = NoRow
           /\ \A q \in Requests : q # r => req'[q] = req[q]
  BY DEF Finish, TypeOK, Idle

\* What the first commit of release() does.
LEMMA CommitEffect ==
    ASSUME TypeOK, NEW r \in Requests, ReleaseCommit(r)
    PROVE  \E e \in Attempts :
             /\ releases[e].status = "none"
             /\ releases' = [releases EXCEPT ![e] = NewRow]
             /\ req[r].pc = "checked"
             /\ req'[r].pc = "paying" /\ req'[r].row = e
             /\ req'[r].seen \in {req[r].seen, "RECEIVED"}
             /\ req[r].seen # "FULFILLING" => req'[r].seen = req[r].seen
             /\ \A q \in Requests : q # r => req'[q] = req[q]
             /\ lock' = NoReq
             /\ UNCHANGED <<holds, refunds, earned, disb, notice, refundObj>>
<1>1. PICK e \in Attempts :
         /\ releases[e].status = "none"
         /\ releases' = [releases EXCEPT ![e] = NewRow]
         /\ \/ /\ req[r].seen = "FULFILLING"
               /\ req' = [req EXCEPT ![r].pc = "paying", ![r].row = e,
                                     ![r].seen = "RECEIVED"]
            \/ req' = [req EXCEPT ![r].pc = "paying", ![r].row = e]
  BY DEF ReleaseCommit
<1>2. /\ req'[r].pc = "paying" /\ req'[r].row = e
      /\ req'[r].seen \in {req[r].seen, "RECEIVED"}
      /\ req[r].seen # "FULFILLING" => req'[r].seen = req[r].seen
      /\ \A q \in Requests : q # r => req'[q] = req[q]
  BY <1>1 DEF TypeOK, Request
<1> QED
  BY <1>1, <1>2 DEF ReleaseCommit

\* The row lock is held by the request in a locking stage.
LEMMA LockStep == TypeOK /\ LockInv /\ [Next]_vars => LockInv'
<1> SUFFICES ASSUME TypeOK, LockInv, [Next]_vars
             PROVE  LockInv'
  OBVIOUS
<1> USE ConstantsAssumption
<1>1. CASE UNCHANGED <<req, lock>>
  BY <1>1 DEF LockInv
<1>2. ASSUME NEW r \in Requests, Step(r)
      PROVE  LockInv'
  <2> USE GotoEffect, FinishEffect DEF LockInv, Holding
  <2>1. ASSUME NEW p \in PayRefs, ResolvePaid(r, p) PROVE LockInv'
    BY <2>1 DEF ResolvePaid, TypeOK
  <2>2. CASE ApplyPaid(r)
    BY <2>2 DEF ApplyPaid
  <2>3. CASE TrackingLookup(r)
    BY <2>3 DEF TrackingLookup, TypeOK
  <2>4. CASE TrackingWrite(r)
    BY <2>4 DEF TrackingWrite
  <2>5. CASE BecknLookup(r)
    BY <2>5 DEF BecknLookup, TypeOK
  <2>6. CASE BecknRefund(r)
    BY <2>6 DEF BecknRefund
  <2>7. CASE PeekOrder(r)
    BY <2>7 DEF PeekOrder, TypeOK
  <2>8. CASE LockPeeked(r)
    BY <2>8 DEF LockPeeked
  <2>9. CASE ReleaseConflict(r)
    BY <2>9 DEF ReleaseConflict
  <2>10. CASE ReleaseCheck(r)
    BY <2>10 DEF ReleaseCheck
  <2>11. CASE ReleaseCommit(r)
    BY <2>11, CommitEffect
  <2>12. CASE PayoutSkipped(r)
    BY <2>12 DEF PayoutSkipped
  <2>13. CASE PayoutNotTaken(r)
    BY <2>13 DEF PayoutNotTaken
  <2>14. CASE PayoutTaken(r)
    BY <2>14 DEF PayoutTaken
  <2>15. CASE RecordFailure(r)
    BY <2>15 DEF RecordFailure
  <2>16. CASE RecordSuccess(r)
    BY <2>16 DEF RecordSuccess
  <2>17. CASE CloseRelease(r)
    BY <2>17 DEF CloseRelease
  <2>18. CASE RefundCall(r)
    BY <2>18 DEF RefundCall
  <2>19. CASE RefundCommit(r)
    BY <2>19 DEF RefundCommit
  <2>20. CASE Crash(r)
    BY <2>20 DEF Crash
  <2>21. ASSUME NEW h, LockOrder(r, h) PROVE LockInv'
    BY <2>21 DEF LockOrder, TypeOK
  <2> QED
    BY <1>2, <2>1, <2>2, <2>3, <2>4, <2>5, <2>6, <2>7, <2>8, <2>9, <2>10, <2>11, <2>12, <2>13, <2>14, <2>15, <2>16, <2>17, <2>18, <2>19, <2>20, <2>21 DEF Step
<1> QED
  BY <1>1, <1>2, StepOrQuiet

\* RELEASE rows are written by release() and by the provider's callbacks only.
LEMMA WhoWritesRows ==
    ASSUME TypeOK, [Next]_vars
    PROVE  \/ UNCHANGED releases
           \/ \E r \in Requests : ReleaseCommit(r) \/ RecordFailure(r) \/ RecordSuccess(r)
           \/ \E k \in Keys : PayoutCallback(k)
<1>1. CASE UNCHANGED vars
  BY <1>1 DEF vars
<1>2. ASSUME NEW r \in Requests, Step(r),
             ~(ReleaseCommit(r) \/ RecordFailure(r) \/ RecordSuccess(r))
      PROVE  UNCHANGED releases
  BY <1>2 DEF Step, ResolvePaid, ApplyPaid, TrackingLookup, TrackingWrite, BecknLookup,
        BecknRefund, PeekOrder, LockPeeked, LockOrder, ReleaseConflict, ReleaseCheck,
        PayoutSkipped, PayoutNotTaken, PayoutTaken, CloseRelease, RefundCall,
        RefundCommit, Crash
<1>3. CASE Next
  BY <1>2, <1>3 DEF Next, AdvanceToAuthed, AdvanceToReviewed, CreateInvoice, XenditPaid,
        BookShipment, MockSellerShipped, CancelShipment, MockDelivered, ShipmentEvent,
        OpenDispute, ReleaseWindowElapses, PayoutEnds, PayoutCallbackUnmatched,
        RefundEnds, RefundCallback
<1> QED
  BY <1>1, <1>3

\* A row that exists goes on existing.
LEMMA RowsStay ==
    ASSUME TypeOK, [Next]_vars, NEW e \in Attempts, releases[e].status # "none"
    PROVE  releases'[e].status # "none"
<1>1. ASSUME NEW r \in Requests, ReleaseCommit(r) PROVE releases'[e].status # "none"
  BY <1>1 DEF ReleaseCommit, NewRow, TypeOK
<1>2. ASSUME NEW r \in Requests, RecordFailure(r) PROVE releases'[e].status # "none"
  BY <1>2 DEF RecordFailure, TypeOK, Row
<1>3. ASSUME NEW r \in Requests, RecordSuccess(r) PROVE releases'[e].status # "none"
  BY <1>3 DEF RecordSuccess, TypeOK, Row
<1>4. ASSUME NEW k \in Keys, PayoutCallback(k) PROVE releases'[e].status # "none"
  BY <1>4 DEF PayoutCallback, Found, TypeOK, Row
<1> QED
  BY <1>1, <1>2, <1>3, <1>4, WhoWritesRows

\* Disbursements and callbacks change by the provider's own steps, and when a
\* payout request reaches it.
LEMMA WhoWritesProvider ==
    ASSUME TypeOK, [Next]_vars
    PROVE  \/ UNCHANGED <<disb, notice>>
           \/ \E r \in Requests : PayoutTaken(r)
           \/ \E k \in Keys : PayoutEnds(k) \/ PayoutCallback(k) \/ PayoutCallbackUnmatched(k)
<1>1. CASE UNCHANGED vars
  BY <1>1 DEF vars
<1>2. ASSUME NEW r \in Requests, Step(r), ~PayoutTaken(r) PROVE UNCHANGED <<disb, notice>>
  BY <1>2 DEF Step, ResolvePaid, ApplyPaid, TrackingLookup, TrackingWrite, BecknLookup,
        BecknRefund, PeekOrder, LockPeeked, LockOrder, ReleaseConflict, ReleaseCheck,
        ReleaseCommit, PayoutSkipped, PayoutNotTaken, RecordFailure, RecordSuccess,
        CloseRelease, RefundCall, RefundCommit, Crash
<1>3. CASE Next
  BY <1>2, <1>3 DEF Next, AdvanceToAuthed, AdvanceToReviewed, CreateInvoice, XenditPaid,
        BookShipment, MockSellerShipped, CancelShipment, MockDelivered, ShipmentEvent,
        OpenDispute, ReleaseWindowElapses, RefundEnds, RefundCallback
<1> QED
  BY <1>1, <1>3

\* A disbursement that exists goes on existing, and one that ended stays so.
LEMMA DisbStays ==
    ASSUME TypeOK, [Next]_vars, NEW k \in Keys
    PROVE  /\ disb[k] # "none" => disb'[k] # "none"
           /\ disb[k] \in {"settled", "failed"} => disb'[k] = disb[k]
<1>1. ASSUME NEW r \in Requests, PayoutTaken(r)
      PROVE  disb'[k] = disb[k] \/ (disb[k] = "none" /\ disb'[k] = "accepted")
  BY <1>1 DEF PayoutTaken, TypeOK
<1>2. ASSUME NEW j \in Keys, PayoutEnds(j)
      PROVE  disb'[k] = disb[k] \/ (disb[k] = "accepted" /\ disb'[k] # "none")
  BY <1>2 DEF PayoutEnds, TypeOK
<1> QED
  BY <1>1, <1>2, WhoWritesProvider DEF PayoutCallback, PayoutCallbackUnmatched

\* Callbacks are owed only for disbursements that ended.
LEMMA NoticeStep == TypeOK /\ NoticeInv /\ [Next]_vars => NoticeInv'
<1> SUFFICES ASSUME TypeOK, NoticeInv, [Next]_vars, NEW k \in Keys,
                    notice'[k] # "none"
             PROVE  disb'[k] \in {"settled", "failed"}
  BY DEF NoticeInv, Keys
<1>1. ASSUME NEW j \in Keys, PayoutEnds(j)
      PROVE  notice'[k] = notice[k] \/ disb'[k] \in {"settled", "failed"}
  BY <1>1 DEF PayoutEnds, TypeOK
<1>2. ASSUME NEW j \in Keys, PayoutCallback(j) \/ PayoutCallbackUnmatched(j)
      PROVE  notice[k] # "none"
  BY <1>2 DEF PayoutCallback, PayoutCallbackUnmatched, TypeOK
<1>3. ASSUME notice[k] # "none" PROVE disb'[k] \in {"settled", "failed"}
  BY <1>3, DisbStays DEF NoticeInv
<1> QED
  BY <1>1, <1>2, <1>3, WhoWritesProvider DEF PayoutTaken

\* A step of one request leaves the others alone.
LEMMA OthersStay ==
    ASSUME TypeOK, NEW r \in Requests, Step(r), NEW q \in Requests, q # r
    PROVE  req'[q] = req[q]
<1> USE GotoEffect, FinishEffect
<1>1. ASSUME NEW p \in PayRefs, ResolvePaid(r, p) PROVE req'[q] = req[q]
  BY <1>1 DEF ResolvePaid, TypeOK
<1>2. CASE ApplyPaid(r)
  BY <1>2 DEF ApplyPaid
<1>3. CASE TrackingLookup(r)
  BY <1>3 DEF TrackingLookup, TypeOK
<1>4. CASE TrackingWrite(r)
  BY <1>4 DEF TrackingWrite
<1>5. CASE BecknLookup(r)
  BY <1>5 DEF BecknLookup, TypeOK
<1>6. CASE BecknRefund(r)
  BY <1>6 DEF BecknRefund
<1>7. CASE PeekOrder(r)
  BY <1>7 DEF PeekOrder, TypeOK
<1>8. CASE LockPeeked(r)
  BY <1>8 DEF LockPeeked
<1>9. CASE ReleaseConflict(r)
  BY <1>9 DEF ReleaseConflict
<1>10. CASE ReleaseCheck(r)
  BY <1>10 DEF ReleaseCheck
<1>11. CASE PayoutSkipped(r)
  BY <1>11 DEF PayoutSkipped
<1>12. CASE PayoutNotTaken(r)
  BY <1>12 DEF PayoutNotTaken
<1>13. CASE PayoutTaken(r)
  BY <1>13 DEF PayoutTaken
<1>14. CASE RecordFailure(r)
  BY <1>14 DEF RecordFailure
<1>15. CASE RecordSuccess(r)
  BY <1>15 DEF RecordSuccess
<1>16. CASE CloseRelease(r)
  BY <1>16 DEF CloseRelease
<1>17. CASE RefundCall(r)
  BY <1>17 DEF RefundCall
<1>18. CASE RefundCommit(r)
  BY <1>18 DEF RefundCommit
<1>19. CASE Crash(r)
  BY <1>19 DEF Crash
<1>20. ASSUME NEW h, LockOrder(r, h) PROVE req'[q] = req[q]
  BY <1>20 DEF LockOrder, TypeOK
<1>21. CASE ReleaseCommit(r)
  BY <1>21, CommitEffect
<1> QED
  BY <1>1, <1>2, <1>3, <1>4, <1>5, <1>6, <1>7, <1>8, <1>9, <1>10, <1>11, <1>12, <1>13, <1>14, <1>15, <1>16, <1>17, <1>18, <1>19, <1>20, <1>21 DEF Step

\* Where the stage of a request can come from, if the step is not its commit
\* of a new attempt.
Unanswered == {"paying", "refused", "skipped"}

Kept(q) ==
    /\ req'[q].pc \in Owning => req[q].pc \in Owning /\ req'[q].row = req[q].row
    /\ req'[q].pc \in Calling => req[q].pc \in Calling
    /\ req'[q].pc \in Unanswered => req[q].pc \in Unanswered
    /\ req'[q].pc = "paying" => req[q].pc = "paying"
    /\ req'[q].pc \in {"accepted", "closing"} =>
          req[q].pc \in {"accepted", "closing"} \/ PayoutTaken(q) \/ PayoutNotTaken(q)
    /\ req'[q].pc = "checked" => req[q].pc = "checked" \/ ReleaseCheck(q)
    /\ req'[q].pc = "resolved" =>
          req'[q].row \in PayRefs \/ (req[q].pc = "resolved" /\ req'[q].row = req[q].row)
    /\ req'[q].pc = "peeked" =>
          req'[q].by = "get_order" \/ (req[q].pc = "peeked" /\ req'[q].by = req[q].by)
    /\ req'[q].seen \in {req[q].seen, ostate, "PRE_AUTH"}

LEMMA StageFrom ==
    ASSUME TypeOK, [Next]_vars, NEW q \in Requests
    PROVE  ReleaseCommit(q) \/ Kept(q)
<1>1. CASE req'[q] = req[q]
  BY <1>1 DEF Kept
<1>2. CASE Step(q)
  <2> SUFFICES ASSUME ~ReleaseCommit(q) PROVE Kept(q)
    OBVIOUS
  <2> USE GotoEffect, FinishEffect DEF Kept, Owning, Calling, Unanswered
  <2>1. ASSUME NEW p \in PayRefs, ResolvePaid(q, p) PROVE Kept(q)
    BY <2>1 DEF ResolvePaid, TypeOK
  <2>2. CASE ApplyPaid(q)
    BY <2>2 DEF ApplyPaid
  <2>3. CASE TrackingLookup(q)
    BY <2>3 DEF TrackingLookup, TypeOK
  <2>4. CASE TrackingWrite(q)
    BY <2>4 DEF TrackingWrite
  <2>5. CASE BecknLookup(q)
    BY <2>5 DEF BecknLookup, TypeOK
  <2>6. CASE BecknRefund(q)
    BY <2>6 DEF BecknRefund
  <2>7. CASE PeekOrder(q)
    BY <2>7 DEF PeekOrder, TypeOK
  <2>8. CASE LockPeeked(q)
    BY <2>8 DEF LockPeeked
  <2>9. CASE ReleaseConflict(q)
    BY <2>9 DEF ReleaseConflict
  <2>10. CASE ReleaseCheck(q)
    BY <2>10 DEF ReleaseCheck
  <2>11. CASE PayoutSkipped(q)
    BY <2>11 DEF PayoutSkipped
  <2>12. CASE PayoutNotTaken(q)
    BY <2>12 DEF PayoutNotTaken
  <2>13. CASE PayoutTaken(q)
    BY <2>13 DEF PayoutTaken
  <2>14. CASE RecordFailure(q)
    BY <2>14 DEF RecordFailure
  <2>15. CASE RecordSuccess(q)
    BY <2>15 DEF RecordSuccess
  <2>16. CASE CloseRelease(q)
    BY <2>16 DEF CloseRelease
  <2>17. CASE RefundCall(q)
    BY <2>17 DEF RefundCall
  <2>18. CASE RefundCommit(q)
    BY <2>18 DEF RefundCommit
  <2>19. CASE Crash(q)
    BY <2>19 DEF Crash
  <2>20. ASSUME NEW h, LockOrder(q, h) PROVE Kept(q)
    BY <2>20 DEF LockOrder, TypeOK
  <2> QED
    BY <1>2, <2>1, <2>2, <2>3, <2>4, <2>5, <2>6, <2>7, <2>8, <2>9, <2>10, <2>11, <2>12, <2>13, <2>14, <2>15, <2>16, <2>17, <2>18, <2>19, <2>20 DEF Step
<1> QED
  BY <1>1, <1>2, OthersStay, StepOrQuiet

\* A request that committed an attempt owns an existing row, alone.
LEMMA OwnStep == TypeOK /\ OwnInv /\ [Next]_vars => OwnInv'
<1> SUFFICES ASSUME TypeOK, OwnInv, [Next]_vars
             PROVE  OwnInv'
  OBVIOUS
<1>1. ASSUME NEW r \in Requests, req'[r].pc \in Owning
      PROVE  req'[r].row \in Attempts /\ releases'[req'[r].row].status # "none"
  <2>1. CASE ReleaseCommit(r)
    BY <2>1, CommitEffect DEF NewRow, TypeOK
  <2>2. CASE req[r].pc \in Owning /\ req'[r].row = req[r].row
    BY <2>2, RowsStay DEF OwnInv
  <2> QED
    BY <1>1, <2>1, <2>2, StageFrom DEF Kept
<1>2. ASSUME NEW r \in Requests, NEW q \in Requests, r # q, ReleaseCommit(r),
             req'[q].pc \in Owning
      PROVE  req'[r].row # req'[q].row
  <2>1. req'[q] = req[q] /\ releases[req'[r].row].status = "none"
    BY <1>2, CommitEffect
  <2>2. releases[req[q].row].status # "none"
    BY <1>2, <2>1 DEF OwnInv
  <2> QED
    BY <2>1, <2>2
<1>3. ASSUME NEW r \in Requests, NEW q \in Requests,
             req'[r].pc \in Owning, req'[q].pc \in Owning,
             req'[r].row = req'[q].row
      PROVE  r = q
  BY <1>2, <1>3, StageFrom DEF Kept, OwnInv
<1> QED
  BY <1>1, <1>3 DEF OwnInv

\* Xendit: a row whose answer is not stored yet is PENDING and unfindable.
LEMMA XenditStep ==
    TypeOK /\ OwnInv /\ NoticeInv /\ XenditInv /\ [Next]_vars => XenditInv'
<1> SUFFICES ASSUME TypeOK, OwnInv, NoticeInv, XenditInv, [Next]_vars,
                    Provider = "xendit"
             PROVE  XenditInv'
  BY DEF XenditInv
<1> USE DEF Keys, Key
<1>1. ASSUME NEW q \in Requests, req'[q].pc \in Calling
      PROVE  releases'[req'[q].row] = [status |-> "PENDING", ref |-> FALSE]
  <2>1. CASE ReleaseCommit(q)
    <3> PICK e \in Attempts : /\ releases' = [releases EXCEPT ![e] = NewRow]
                              /\ req'[q].row = e
      BY <2>1, CommitEffect
    <3> QED
      BY DEF NewRow, TypeOK
  <2>2. CASE req[q].pc \in Calling /\ req'[q].row = req[q].row
    <3>1. /\ releases[req[q].row] = [status |-> "PENDING", ref |-> FALSE]
          /\ req[q].row \in Attempts /\ req[q].pc \in Owning
      BY <2>2 DEF XenditInv, OwnInv, Owning, Calling
    <3>2. ASSUME NEW r \in Requests, ReleaseCommit(r)
          PROVE  releases'[req[q].row] = releases[req[q].row]
      BY <3>1, <3>2, CommitEffect DEF TypeOK
    <3>3. ASSUME NEW r \in Requests, RecordFailure(r) \/ RecordSuccess(r)
          PROVE  releases'[req[q].row] = releases[req[q].row]
      <4>1. r # q
        BY <1>1, <3>3, GotoEffect, FinishEffect
           DEF RecordFailure, RecordSuccess, Calling
      <4>2. req[r].row # req[q].row
        BY <3>1, <3>3, <4>1 DEF RecordFailure, RecordSuccess, Owning, OwnInv
      <4> QED
        BY <3>1, <3>3, <4>2 DEF RecordFailure, RecordSuccess, TypeOK
    <3>4. ASSUME NEW k \in Keys, PayoutCallback(k)
          PROVE  releases'[req[q].row] = releases[req[q].row]
      BY <3>1, <3>4 DEF PayoutCallback, Found, TypeOK
    <3> QED
      BY <2>2, <3>1, <3>2, <3>3, <3>4, WhoWritesRows
  <2> QED
    BY <1>1, <2>1, <2>2, StageFrom DEF Kept, Owning, Calling
<1>2. ASSUME NEW e \in Attempts, releases'[e].status = "FAILED", releases'[e].ref
      PROVE  disb'[Shared] = "failed"
  <2>1. CASE releases'[e] = releases[e]
    BY <1>2, <2>1, DisbStays DEF XenditInv
  <2>2. ASSUME NEW r \in Requests, ReleaseCommit(r)
        PROVE  releases'[e] = releases[e]
    BY <1>2, <2>2, CommitEffect DEF NewRow, TypeOK
  <2>3. ASSUME NEW r \in Requests, RecordFailure(r)
        PROVE  releases'[e] = releases[e]
    <3>1. releases[req[r].row].ref = FALSE /\ req[r].row \in Attempts
      BY <2>3 DEF RecordFailure, XenditInv, OwnInv, Calling, Owning
    <3> QED
      BY <1>2, <2>3, <3>1 DEF RecordFailure, TypeOK, Row
  <2>4. ASSUME NEW r \in Requests, RecordSuccess(r)
        PROVE  releases'[e] = releases[e]
    <3>1. releases[req[r].row].status = "PENDING" /\ req[r].row \in Attempts
      BY <2>4 DEF RecordSuccess, XenditInv, OwnInv, Calling, Owning
    <3> QED
      BY <1>2, <2>4, <3>1 DEF RecordSuccess, TypeOK, Row
  <2>5. ASSUME NEW k \in Keys, PayoutCallback(k)
        PROVE  releases'[e] = releases[e] \/ disb'[Shared] = "failed"
    <3>1. disb[k] \in {"settled", "failed"} /\ disb' = disb /\ k = Shared
      BY <2>5 DEF PayoutCallback, NoticeInv
    <3> QED
      BY <1>2, <2>5, <3>1 DEF PayoutCallback, TypeOK, Row
  <2> QED
    BY <2>1, <2>2, <2>3, <2>4, <2>5, WhoWritesRows
<1> QED
  BY <1>1, <1>2 DEF XenditInv

\* Dipay without lost answers: a FAILED row has no live disbursement.
LEMMA DipayStep ==
    TypeOK /\ OwnInv /\ NoticeInv /\ DipayInv /\ [Next]_vars => DipayInv'
<1> SUFFICES ASSUME TypeOK, OwnInv, NoticeInv, DipayInv, [Next]_vars,
                    Provider = "dipay", "lost_answer" \notin Faults
             PROVE  DipayInv'
  BY DEF DipayInv
<1> USE DEF Keys, Key
<1>1. ASSUME NEW q \in Requests, req'[q].pc \in Unanswered
      PROVE  disb'[req'[q].row] = "none"
  <2>1. CASE ReleaseCommit(q)
    BY <2>1, CommitEffect DEF DipayInv
  <2>2. CASE req[q].pc \in Unanswered /\ req[q].pc \in Owning /\ req'[q].row = req[q].row
    <3>1. disb[req[q].row] = "none" /\ req[q].row \in Attempts
      BY <2>2 DEF DipayInv, OwnInv, Unanswered
    <3>2. ASSUME NEW r \in Requests, PayoutTaken(r)
          PROVE  disb'[req[q].row] = "none"
      <4>1. r # q
        BY <1>1, <3>2, GotoEffect DEF PayoutTaken, Unanswered
      <4>2. req[r].row # req[q].row
        BY <2>2, <3>2, <4>1 DEF PayoutTaken, OwnInv, Owning
      <4> QED
        BY <3>1, <3>2, <4>2 DEF PayoutTaken, TypeOK
    <3>3. ASSUME NEW k \in Keys, PayoutEnds(k)
          PROVE  disb'[req[q].row] = "none"
      BY <3>1, <3>3 DEF PayoutEnds, TypeOK
    <3> QED
      BY <2>2, <3>1, <3>2, <3>3, WhoWritesProvider
         DEF PayoutCallback, PayoutCallbackUnmatched
  <2> QED
    BY <1>1, <2>1, <2>2, StageFrom DEF Kept, Owning, Unanswered
<1>2. ASSUME NEW q \in Requests, req'[q].pc = "paying"
      PROVE  releases'[req'[q].row].status = "PENDING"
  <2>1. CASE ReleaseCommit(q)
    <3> PICK e \in Attempts : /\ releases' = [releases EXCEPT ![e] = NewRow]
                              /\ req'[q].row = e
      BY <2>1, CommitEffect
    <3> QED
      BY DEF NewRow, TypeOK
  <2>2. CASE req[q].pc = "paying" /\ req'[q].row = req[q].row
    <3>1. /\ releases[req[q].row].status = "PENDING" /\ disb[req[q].row] = "none"
          /\ req[q].row \in Attempts
      BY <2>2 DEF DipayInv, OwnInv, Owning
    <3>2. ASSUME NEW r \in Requests, ReleaseCommit(r)
          PROVE  releases'[req[q].row] = releases[req[q].row]
      BY <3>1, <3>2, CommitEffect DEF TypeOK
    <3>3. ASSUME NEW r \in Requests, RecordFailure(r) \/ RecordSuccess(r)
          PROVE  releases'[req[q].row] = releases[req[q].row]
      <4>1. r # q
        BY <2>2, <3>3 DEF RecordFailure, RecordSuccess
      <4>2. req[r].row # req[q].row
        BY <2>2, <3>3, <4>1 DEF RecordFailure, RecordSuccess, Owning, OwnInv
      <4> QED
        BY <3>1, <3>3, <4>2 DEF RecordFailure, RecordSuccess, TypeOK
    <3>4. ASSUME NEW k \in Keys, PayoutCallback(k)
          PROVE  releases'[req[q].row] = releases[req[q].row]
      <4>1. k # req[q].row
        BY <3>1, <3>4 DEF PayoutCallback, NoticeInv
      <4> QED
        BY <3>1, <3>4, <4>1 DEF PayoutCallback, Found, TypeOK
    <3> QED
      BY <2>2, <3>1, <3>2, <3>3, <3>4, WhoWritesRows
  <2> QED
    BY <1>2, <2>1, <2>2, StageFrom DEF Kept, Owning
<1>3. ASSUME NEW e \in Attempts, releases'[e].status = "none"
      PROVE  disb'[e] = "none"
  <2>1. disb[e] = "none" /\ releases[e].status = "none"
    BY <1>3, RowsStay DEF DipayInv
  <2>2. ASSUME NEW r \in Requests, PayoutTaken(r)
        PROVE  disb'[e] = "none"
    BY <2>1, <2>2 DEF PayoutTaken, OwnInv, Owning, TypeOK
  <2>3. ASSUME NEW k \in Keys, PayoutEnds(k)
        PROVE  disb'[e] = "none"
    BY <2>1, <2>3 DEF PayoutEnds, TypeOK
  <2> QED
    BY <2>1, <2>2, <2>3, WhoWritesProvider
       DEF PayoutCallback, PayoutCallbackUnmatched
<1>4. ASSUME NEW e \in Attempts, releases'[e].status = "FAILED"
      PROVE  disb'[e] \in {"none", "failed"}
  <2>1. CASE releases[e].status = "FAILED"
    <3>1. disb[e] \in {"none", "failed"}
      BY <2>1 DEF DipayInv
    <3>2. ASSUME NEW r \in Requests, PayoutTaken(r)
          PROVE  disb'[e] = disb[e]
      BY <2>1, <3>2 DEF PayoutTaken, DipayInv, TypeOK
    <3>3. ASSUME NEW k \in Keys, PayoutEnds(k)
          PROVE  disb'[e] = disb[e]
      BY <3>1, <3>3 DEF PayoutEnds, TypeOK
    <3> QED
      BY <3>1, <3>2, <3>3, WhoWritesProvider
         DEF PayoutCallback, PayoutCallbackUnmatched
  <2>2. CASE releases[e].status # "FAILED"
    <3>1. ASSUME NEW r \in Requests, ReleaseCommit(r)
          PROVE  FALSE
      BY <1>4, <2>2, <3>1, CommitEffect DEF NewRow, TypeOK
    <3>2. ASSUME NEW r \in Requests, RecordSuccess(r)
          PROVE  FALSE
      BY <1>4, <2>2, <3>2 DEF RecordSuccess, TypeOK, Row
    <3>3. ASSUME NEW r \in Requests, RecordFailure(r)
          PROVE  disb'[e] = "none"
      <4>1. e = req[r].row
        BY <1>4, <2>2, <3>3 DEF RecordFailure, TypeOK, Row
      <4> QED
        BY <3>3, <4>1 DEF RecordFailure, DipayInv
    <3>4. ASSUME NEW k \in Keys, PayoutCallback(k)
          PROVE  disb'[e] = "failed"
      <4>1. e = k /\ disb[k] # "settled"
        BY <1>4, <2>2, <3>4 DEF PayoutCallback, Found, TypeOK
      <4> QED
        BY <3>4, <4>1 DEF PayoutCallback, NoticeInv
    <3> QED
      BY <1>4, <2>2, <3>1, <3>2, <3>3, <3>4, WhoWritesRows
  <2> QED
    BY <2>1, <2>2
<1> QED
  BY <1>1, <1>2, <1>3, <1>4 DEF DipayInv, Unanswered

\* Only the commit of an attempt opens one: callbacks and answers never
\* revive a FAILED row.
LEMMA OnlyCommitOpens ==
    ASSUME TypeOK, OwnInv, NoticeInv, XenditInv, DipayInv, OneActiveHere,
           [Next]_vars, \A r \in Requests : ~ReleaseCommit(r),
           NEW e \in Attempts, Active(e)'
    PROVE  Active(e)
<1> USE ConstantsAssumption DEF Active
<1>1. ASSUME NEW r \in Requests, RecordFailure(r) \/ RecordSuccess(r)
      PROVE  Active(e)
  BY <1>1 DEF RecordFailure, RecordSuccess, TypeOK, Row
<1>2. ASSUME NEW k \in Keys, PayoutCallback(k)
      PROVE  Active(e)
  <2>1. CASE releases'[e] = releases[e]
    BY <2>1
  <2>2. CASE releases'[e] # releases[e]
    <3>1. e \in Found(k) /\ disb[k] = "settled"
      BY <1>2, <2>2 DEF PayoutCallback, TypeOK
    <3>2. CASE Provider = "xendit"
      BY <3>1, <3>2 DEF Found, XenditInv, TypeOK, Row, RowStatus, Keys
    <3>3. CASE Provider = "sento"
      BY <3>1, <3>3 DEF Found
    <3>4. CASE Provider = "dipay"
      BY <3>1, <3>4 DEF Found, DipayInv, OneActiveHere, TypeOK, Row, RowStatus, Key
    <3> QED
      BY <3>2, <3>3, <3>4
  <2> QED
    BY <2>1, <2>2
<1> QED
  BY <1>1, <1>2, WhoWritesRows

\* One open attempt, and none while a request is about to insert one.
LEMMA ActiveStep ==
    ASSUME TypeOK, LockInv, OwnInv, NoticeInv, XenditInv, DipayInv, OneActiveHere,
           CheckedInv, OneActiveRelease, [Next]_vars
    PROVE  CheckedInv' /\ OneActiveRelease'
<1>1. ASSUME NEW r \in Requests, ReleaseCommit(r)
      PROVE  CheckedInv' /\ OneActiveRelease'
  <2>1. PICK e \in Attempts : releases' = [releases EXCEPT ![e] = NewRow]
    BY <1>1, CommitEffect
  <2>2. \A d \in Attempts : ~Active(d)
    BY <1>1, CommitEffect DEF CheckedInv
  <2>3. \A d \in Attempts : Active(d)' => d = e
    BY <2>1, <2>2 DEF Active, TypeOK
  <2>4. \A q \in Requests : req'[q].pc # "checked"
    BY <1>1, CommitEffect DEF LockInv, Holding
  <2> QED
    BY <2>3, <2>4 DEF CheckedInv, OneActiveRelease, AtMostOne
<1>2. CASE \A r \in Requests : ~ReleaseCommit(r)
  <2>1. \A e \in Attempts : Active(e)' => Active(e)
    BY <1>2, OnlyCommitOpens
  <2>2. \A q \in Requests : req'[q].pc = "checked" => \A e \in Attempts : ~Active(e)
    BY <1>2, StageFrom DEF Kept, CheckedInv, ReleaseCheck
  <2> QED
    BY <2>1, <2>2 DEF CheckedInv, OneActiveRelease, AtMostOne
<1> QED
  BY <1>1, <1>2

\* The order's state is written by these steps only.
LEMMA WhoWritesState ==
    ASSUME TypeOK, [Next]_vars
    PROVE  \/ UNCHANGED ostate
           \/ AdvanceToAuthed \/ AdvanceToReviewed \/ BookShipment
           \/ MockSellerShipped \/ CancelShipment \/ MockDelivered
           \/ ShipmentEvent \/ OpenDispute
           \/ \E p \in PayRefs : XenditPaid(p)
           \/ \E r \in Requests : \/ ApplyPaid(r) \/ TrackingWrite(r) \/ BecknRefund(r)
                                  \/ CloseRelease(r) \/ ReleaseCommit(r) \/ RefundCommit(r)
<1>1. CASE UNCHANGED vars
  BY <1>1 DEF vars
<1>2. CASE Next
  BY <1>2 DEF Next, Step, CreateInvoice, ResolvePaid, TrackingLookup,
        ReleaseWindowElapses, BecknLookup, PeekOrder, LockPeeked, LockOrder,
        ReleaseConflict, ReleaseCheck, PayoutSkipped, PayoutNotTaken, PayoutTaken,
        RecordFailure, RecordSuccess, RefundCall, PayoutEnds, PayoutCallback,
        PayoutCallbackUnmatched, RefundEnds, RefundCallback, Crash
<1> QED
  BY <1>1, <1>2

\* The order becomes ESCROW_RELEASED only at the end of a release.
LEMMA ReleasedFrom ==
    ASSUME TypeOK, [Next]_vars, ostate' = "ESCROW_RELEASED"
    PROVE  ostate = "ESCROW_RELEASED" \/ \E r \in Requests : CloseRelease(r)
<1>1. ASSUME NEW r \in Requests, ApplyPaid(r) \/ TrackingWrite(r) \/ BecknRefund(r)
      PROVE  ostate = "ESCROW_RELEASED"
  BY <1>1 DEF ApplyPaid, MarkOrderPaid, TrackingWrite, Delivered, Problem, BecknRefund,
              Transition, TryTransition
<1>2. ASSUME NEW r \in Requests, ReleaseCommit(r) \/ RefundCommit(r)
      PROVE  ostate = "ESCROW_RELEASED"
  BY <1>2 DEF ReleaseCommit, RefundCommit, Transition
<1>3. ASSUME NEW p \in PayRefs, XenditPaid(p)
      PROVE  ostate = "ESCROW_RELEASED"
  BY <1>3 DEF XenditPaid, MarkOrderPaid, Transition
<1> QED
  BY <1>1, <1>2, <1>3, WhoWritesState
     DEF AdvanceToAuthed, AdvanceToReviewed, BookShipment, MockSellerShipped,
         CancelShipment, MockDelivered, ShipmentEvent, Delivered, Problem, OpenDispute,
         Transition, TryTransition

\* Where the provider is known to answer "accepted" only if it accepted, the
\* requests it told so, and the order, can rely on it.
LEMMA TakenStep ==
    ASSUME TypeOK, OwnInv, TakenHere, TakenInv, ReleasedWasTaken, [Next]_vars
    PROVE  TakenInv' /\ ReleasedWasTaken'
<1>1. \A e \in Attempts : Key(e) \in Keys
  BY DEF Key, Keys
<1>2. ASSUME NEW q \in Requests, req'[q].pc \in {"accepted", "closing"}
      PROVE  disb'[Key(req'[q].row)] # "none"
  <2>1. /\ Kept(q) /\ req[q].pc \in Owning
        /\ req'[q].row = req[q].row /\ req[q].row \in Attempts
    BY <1>2, StageFrom, CommitEffect DEF Kept, Owning, OwnInv
  <2>2. CASE req[q].pc \in {"accepted", "closing"}
    BY <1>1, <2>1, <2>2, DisbStays DEF TakenInv, TakenHere
  <2>3. CASE PayoutTaken(q)
    BY <1>1, <2>1, <2>3 DEF PayoutTaken, TypeOK
  <2>4. CASE PayoutNotTaken(q)
    BY <1>2, <2>4, GotoEffect, ConstantsAssumption DEF PayoutNotTaken, TakenHere
  <2> QED
    BY <1>2, <2>1, <2>2, <2>3, <2>4 DEF Kept
<1>3. ASSUME ostate' = "ESCROW_RELEASED"
      PROVE  \E k \in Keys : disb'[k] # "none"
  <2>1. \E k \in Keys : disb[k] # "none"
    <3>1. ASSUME NEW r \in Requests, CloseRelease(r)
          PROVE  \E k \in Keys : disb[k] # "none"
      BY <1>1, <3>1 DEF CloseRelease, TakenInv, TakenHere, OwnInv, Owning
    <3> QED
      BY <1>3, <3>1, ReleasedFrom DEF ReleasedWasTaken
  <2> QED
    BY <2>1, DisbStays
<1> QED
  BY <1>2, <1>3 DEF TakenInv, ReleasedWasTaken

\* HOLD rows are written by mark_order_paid() only, which adds them.
Funded == \E p \in PayRefs : holds[p] > 0

LEMMA WhoWritesHolds ==
    ASSUME TypeOK, [Next]_vars
    PROVE  \/ UNCHANGED holds
           \/ \E p \in PayRefs : XenditPaid(p)
           \/ \E r \in Requests : ApplyPaid(r)
<1>1. CASE UNCHANGED vars
  BY <1>1 DEF vars
<1>2. CASE Next
  BY <1>2 DEF Next, Step, AdvanceToAuthed, AdvanceToReviewed, CreateInvoice,
        ResolvePaid, BookShipment, MockSellerShipped, CancelShipment, MockDelivered,
        ShipmentEvent, TrackingLookup, TrackingWrite, OpenDispute,
        ReleaseWindowElapses, BecknLookup, BecknRefund, PeekOrder, LockPeeked,
        LockOrder, ReleaseConflict, ReleaseCheck, ReleaseCommit, PayoutSkipped,
        PayoutNotTaken, PayoutTaken, RecordFailure, RecordSuccess, CloseRelease,
        RefundCall, RefundCommit, PayoutEnds, PayoutCallback,
        PayoutCallbackUnmatched, RefundEnds, RefundCallback, Crash
<1> QED
  BY <1>1, <1>2

\* A paid order stays paid.
LEMMA FundedStays ==
    ASSUME TypeOK, [Next]_vars, Funded
    PROVE  Funded'
<1>1. PICK p \in PayRefs : holds[p] > 0
  BY DEF Funded
<1>2. ASSUME NEW x \in PayRefs, XenditPaid(x) PROVE holds'[p] > 0
  BY <1>1, <1>2 DEF XenditPaid, MarkOrderPaid, TypeOK
<1>3. ASSUME NEW r \in Requests, ApplyPaid(r) PROVE holds'[p] > 0
  BY <1>1, <1>3 DEF ApplyPaid, MarkOrderPaid, TypeOK
<1> QED
  BY <1>1, <1>2, <1>3, WhoWritesHolds DEF Funded

\* Every way into the states that follow payment starts in one of them.
LEMMA MovesFromFunded ==
    ASSUME NEW from \in OrderState,
           NEW to \in {"FULFILLING", "RECEIVED", "DISPUTED", "ESCROW_RELEASED"},
           Accepts(from, to)
    PROVE  from \in FundedStates
  BY DEF Accepts, Allowed, OrderState, FundedStates

\* A state after payment comes from one, from a copy of one, or with its HOLD.
LEMMA FundedFrom ==
    ASSUME TypeOK, ResolvedInv, [Next]_vars, ostate' \in FundedStates
    PROVE  \/ ostate \in FundedStates
           \/ \E r \in Requests : req[r].seen \in FundedStates
           \/ Funded'
<1> DEFINE Goal == \/ ostate \in FundedStates
                   \/ \E r \in Requests : req[r].seen \in FundedStates
                   \/ Funded'
<1> USE DEF FundedStates
<1>1. CASE AdvanceToAuthed \/ AdvanceToReviewed \/ BookShipment \/ CancelShipment
  BY <1>1 DEF AdvanceToAuthed, AdvanceToReviewed, BookShipment, CancelShipment, Transition
<1>2. CASE MockSellerShipped \/ MockDelivered \/ OpenDispute
  BY <1>2, MovesFromFunded
     DEF MockSellerShipped, MockDelivered, OpenDispute, Transition, TypeOK
<1>3. CASE ShipmentEvent
  BY <1>3, MovesFromFunded
     DEF ShipmentEvent, Delivered, Problem, Transition, TryTransition, Accepts, TypeOK
<1>4. ASSUME NEW p \in PayRefs, XenditPaid(p) PROVE Goal
  BY <1>4 DEF XenditPaid, MarkOrderPaid, Transition, Funded, TypeOK
<1>5. ASSUME NEW r \in Requests, ApplyPaid(r) PROVE Goal
  BY <1>5 DEF ApplyPaid, MarkOrderPaid, Transition, Funded, TypeOK, ResolvedInv
<1>6. ASSUME NEW r \in Requests, TrackingWrite(r) PROVE Goal
  BY <1>6, MovesFromFunded DEF TrackingWrite, Delivered, Problem, Transition,
           TryTransition, Accepts, TypeOK, Request
<1>7. ASSUME NEW r \in Requests, CloseRelease(r) PROVE Goal
  BY <1>7, MovesFromFunded DEF CloseRelease, TryTransition, Accepts, TypeOK, Request
<1>8. ASSUME NEW r \in Requests, BecknRefund(r) \/ ReleaseCommit(r) \/ RefundCommit(r)
      PROVE  Goal
  BY <1>8 DEF BecknRefund, ReleaseCommit, RefundCommit, Transition
<1> QED
  BY <1>1, <1>2, <1>3, <1>4, <1>5, <1>6, <1>7, <1>8, WhoWritesState

\* Payment is on the ledger before any copy or the order shows it.
LEMMA SeenStep ==
    ASSUME TypeOK, ResolvedInv, SeenInv, HeldStatesFunded, [Next]_vars
    PROVE  SeenInv' /\ HeldStatesFunded'
<1>1. ostate' \in FundedStates => Funded'
  BY FundedFrom, FundedStays DEF SeenInv, HeldStatesFunded, Funded
<1>2. ASSUME NEW q \in Requests, req'[q].seen \in FundedStates
      PROVE  Funded'
  <2>1. req[q].seen \in FundedStates \/ ostate \in FundedStates
    BY <1>2, StageFrom, CommitEffect DEF Kept, FundedStates
  <2> QED
    BY <2>1, FundedStays DEF SeenInv, HeldStatesFunded, Funded
<1> QED
  BY <1>1, <1>2 DEF SeenInv, HeldStatesFunded, Funded

\* A payment being resolved keeps its reference.
LEMMA ResolvedStep == TypeOK /\ ResolvedInv /\ [Next]_vars => ResolvedInv'
<1> SUFFICES ASSUME TypeOK, ResolvedInv, [Next]_vars,
                    NEW q \in Requests, req'[q].pc = "resolved"
             PROVE  req'[q].row \in PayRefs
  BY DEF ResolvedInv
<1> QED
  BY StageFrom, CommitEffect DEF Kept, ResolvedInv

\* Where a stage that holds the lock can come from.
LEMMA HoldingFrom ==
    ASSUME TypeOK, [Next]_vars, NEW q \in Requests, req'[q].pc \in Holding
    PROVE  \/ /\ req[q].pc \in Holding
              /\ req'[q].by = req[q].by /\ req'[q].seen = req[q].seen
           \/ \E h : LockOrder(q, h)
           \/ LockPeeked(q)
<1> USE GotoEffect, FinishEffect DEF Holding
<1>1. CASE req'[q] = req[q]
  BY <1>1
<1>2. CASE Step(q)
  <2>1. ~ReleaseCommit(q)
    BY CommitEffect
  <2>2. CASE \E p \in PayRefs : ResolvePaid(q, p)
    BY <2>2 DEF ResolvePaid, TypeOK
  <2>3. CASE TrackingLookup(q) \/ BecknLookup(q) \/ PeekOrder(q)
    BY <2>3 DEF TrackingLookup, BecknLookup, PeekOrder, TypeOK
  <2>4. CASE \/ ApplyPaid(q) \/ TrackingWrite(q) \/ BecknRefund(q) \/ ReleaseConflict(q)
             \/ RecordFailure(q) \/ CloseRelease(q) \/ RefundCommit(q) \/ Crash(q)
    BY <2>4 DEF ApplyPaid, TrackingWrite, BecknRefund, ReleaseConflict, RecordFailure,
                CloseRelease, RefundCommit, Crash
  <2>5. CASE PayoutSkipped(q) \/ PayoutNotTaken(q) \/ PayoutTaken(q) \/ RecordSuccess(q)
    BY <2>5 DEF PayoutSkipped, PayoutNotTaken, PayoutTaken, RecordSuccess
  <2>6. CASE ReleaseCheck(q) \/ RefundCall(q)
    BY <2>6 DEF ReleaseCheck, RefundCall
  <2> QED
    BY <1>2, <2>1, <2>2, <2>3, <2>4, <2>5, <2>6 DEF Step
<1> QED
  BY <1>1, <1>2, OthersStay, StepOrQuiet

\* The row lock protects the order row from every handler but its holder.
LEMMA LockProtects ==
    ASSUME TypeOK, LockInv, [Next]_vars, NEW q \in Requests,
           lock = q, req'[q].pc \in Holding
    PROVE  UNCHANGED ostate
<1> USE ConstantsAssumption
<1>1. ASSUME NEW r \in Requests, ReleaseCommit(r) PROVE FALSE
  BY <1>1, CommitEffect DEF LockInv, Holding
<1>2. ASSUME NEW r \in Requests, RefundCommit(r) PROVE FALSE
  BY <1>2, FinishEffect DEF RefundCommit, LockInv, Holding
<1> QED
  BY <1>1, <1>2, WhoWritesState
     DEF AdvanceToAuthed, AdvanceToReviewed, BookShipment, MockSellerShipped,
         CancelShipment, MockDelivered, ShipmentEvent, OpenDispute, XenditPaid,
         ApplyPaid, TrackingWrite, BecknRefund, CloseRelease

\* A request that locked before it read works on the committed order.
LEMMA FreshStep == TypeOK /\ LockInv /\ FreshInv /\ [Next]_vars => FreshInv'
<1> SUFFICES ASSUME TypeOK, LockInv, FreshInv, [Next]_vars, NEW q \in Requests
             PROVE  /\ req'[q].pc = "peeked" => req'[q].by = "get_order"
                    /\ req'[q].pc \in Holding /\ req'[q].by # "get_order"
                          => req'[q].seen = ostate'
  BY DEF FreshInv
<1>1. req'[q].pc = "peeked" => req'[q].by = "get_order"
  BY StageFrom, CommitEffect DEF Kept, FreshInv
<1>2. ASSUME req'[q].pc \in Holding, req'[q].by # "get_order"
      PROVE  req'[q].seen = ostate'
  <2>1. CASE \E h : LockOrder(q, h)
    BY <2>1 DEF LockOrder, TypeOK
  <2>2. CASE LockPeeked(q)
    BY <1>2, <2>2, GotoEffect DEF LockPeeked, FreshInv
  <2>3. CASE req[q].pc \in Holding /\ req'[q].by = req[q].by /\ req'[q].seen = req[q].seen
    <3>1. lock = q
      BY <2>3 DEF LockInv
    <3> QED
      BY <1>2, <2>3, <3>1, LockProtects DEF FreshInv
  <2> QED
    BY <1>2, <2>1, <2>2, <2>3, HoldingFrom
<1> QED
  BY <1>1, <1>2
-----------------------------------------------------------------------------
(* The inductive invariant.                                                *)

\* Before the first request nothing is owed, open or paid.
LEMMA InvInit == Init => IInv
<1> SUFFICES ASSUME Init PROVE IInv
  OBVIOUS
<1> USE DEF Init, Idle
<1>1. TypeOK
  BY TypeInit
<1>2. LockInv /\ OwnInv /\ CheckedInv /\ FreshInv /\ ResolvedInv /\ TakenInv
  BY ConstantsAssumption DEF LockInv, Holding, OwnInv, Owning, CheckedInv, FreshInv,
                             ResolvedInv, TakenInv
<1>3. NoticeInv /\ XenditInv /\ DipayInv
  BY DEF NoticeInv, XenditInv, DipayInv, Calling, Key, Keys
<1>4. OneActiveRelease /\ ReleasedWasTaken
  BY DEF OneActiveRelease, AtMostOne, Active, ReleasedWasTaken
<1>5. SeenInv /\ HeldStatesFunded
  BY DEF SeenInv, HeldStatesFunded, FundedStates
<1> QED
  BY <1>1, <1>2, <1>3, <1>4, <1>5 DEF IInv

\* Every step of every handler, callback and fault keeps the invariant.
LEMMA InvStep == IInv /\ [Next]_vars => IInv'
<1> SUFFICES ASSUME IInv, [Next]_vars PROVE IInv'
  OBVIOUS
<1>1. /\ TypeOK' /\ LockInv' /\ OwnInv' /\ NoticeInv' /\ XenditInv' /\ DipayInv'
      /\ FreshInv' /\ ResolvedInv'
  BY TypeStep, LockStep, OwnStep, NoticeStep, XenditStep, DipayStep, FreshStep,
     ResolvedStep DEF IInv
<1>2. OneActiveHere => CheckedInv' /\ OneActiveRelease'
  BY ActiveStep DEF IInv
<1>3. TakenHere => TakenInv' /\ ReleasedWasTaken'
  BY TakenStep DEF IInv
<1>4. SeenInv' /\ HeldStatesFunded'
  BY SeenStep DEF IInv
<1>5. OneActiveHere' = OneActiveHere /\ TakenHere' = TakenHere
  BY DEF OneActiveHere, TakenHere
<1>6. TakenInv'
  BY <1>3 DEF TakenInv, TakenHere
<1> QED
  BY <1>1, <1>2, <1>3, <1>4, <1>5, <1>6 DEF IInv

\* The invariant holds for every set of requests, provider and faults.
THEOREM Invariance == Spec => []IInv
  BY InvInit, InvStep, PTL DEF Spec

\* With Xendit, Sento, or Dipay as long as no answer is lost, release() keeps
\* one pending or completed RELEASE row per order, for any number of requests.
THEOREM OneActiveReleaseHolds == OneActiveHere => (Spec => []OneActiveRelease)
<1> SUFFICES ASSUME OneActiveHere PROVE Spec => []OneActiveRelease
  OBVIOUS
<1>1. IInv => OneActiveRelease
  BY DEF IInv
<1> QED
  BY <1>1, Invariance, PTL

\* Where the clients map every answer, an order shown as ESCROW_RELEASED had
\* its payout taken by the provider.
THEOREM ReleasedWasTakenHolds == TakenHere => (Spec => []ReleasedWasTaken)
<1> SUFFICES ASSUME TakenHere PROVE Spec => []ReleasedWasTaken
  OBVIOUS
<1>1. IInv => ReleasedWasTaken
  BY DEF IInv
<1> QED
  BY <1>1, Invariance, PTL

\* An order in a state after payment has its HOLD row, whatever the provider
\* and the faults, and also when a handler wrote the state from a stale copy.
THEOREM HeldStatesFundedHolds == Spec => []HeldStatesFunded
<1>1. IInv => HeldStatesFunded
  BY DEF IInv
<1> QED
  BY <1>1, Invariance, PTL

\* The seller's money is never requested twice: at most one disbursement of an
\* order is live at the provider, under the same assumption.
THEOREM NoDoublePayoutHolds == OneActiveHere => (Spec => []NoDoublePayout)
<1> SUFFICES ASSUME OneActiveHere PROVE Spec => []NoDoublePayout
  OBVIOUS
<1>1. IInv => NoDoublePayout
  <2> SUFFICES ASSUME IInv, NEW j \in Keys, NEW k \in Keys,
                      disb[j] \in {"accepted", "settled"},
                      disb[k] \in {"accepted", "settled"}
               PROVE  j = k
    BY DEF NoDoublePayout, AtMostOne
  <2>1. CASE Provider # "dipay"
    BY <2>1 DEF Keys
  <2>2. CASE Provider = "dipay"
    <3>1. \A e \in Attempts : disb[e] \in {"accepted", "settled"} => Active(e)
      BY <2>2 DEF IInv, DipayInv, OneActiveHere, Active, TypeOK, Row, RowStatus, Keys
    <3> QED
      BY <2>2, <3>1 DEF IInv, OneActiveRelease, AtMostOne, Keys
  <2> QED
    BY <2>1, <2>2
<1> QED
  BY <1>1, Invariance, PTL
-----------------------------------------------------------------------------
(* Money that is written once, and what copies of the order lead to.       *)

\* The handler of a request and the copy it works on are chosen when the request
\* starts, among those that the instance exposes.
Started(q) ==
    /\ req[q].pc = "idle" /\ Exposed(req'[q].by) /\ req'[q].seen = ostate /\ UNCHANGED ostate
    /\ req'[q].pc = "resolved" => Provider # "xendit"
    /\ req'[q].pc = "reading" => req'[q].by = "tracking_callback"
    /\ req'[q].pc = "owned" => req'[q].by = "beckn_refund"
    /\ req'[q].pc \notin {"refunded", "unrefunded"}
    /\ req'[q].by \in ReleaseHandlers \ {"mock_release"} => ostate \in {"RECEIVED", "FULFILLING"}

Continued(q) ==
    /\ req'[q].by = req[q].by
    /\ req'[q].seen = req[q].seen \/ ReleaseCommit(q)
    /\ \A s \in {"resolved", "reading", "owned"} : req'[q].pc = s => req[q].pc = s
    /\ req'[q].pc \in {"peeked", "locked", "checked"} =>
          req[q].pc \in {"peeked", "locked", "checked"}
    /\ req'[q].pc \in {"refunded", "unrefunded"} =>
          req[q].pc \in {"refunded", "unrefunded"} \/ req[q].by = "mock_refund"

Ended(q) == req'[q].pc = "idle" /\ req'[q].by = "none" /\ req'[q].seen = "PRE_AUTH"

LEMMA Origin ==
    ASSUME TypeOK, [Next]_vars, NEW q \in Requests
    PROVE  Started(q) \/ Continued(q) \/ Ended(q)
<1>1. CASE req'[q] = req[q]
  BY <1>1 DEF Continued
<1>2. CASE Step(q)
  <2>1. ASSUME NEW p \in PayRefs, ResolvePaid(q, p) PROVE Started(q)
    BY <2>1 DEF ResolvePaid, Started, TypeOK, ReleaseHandlers
  <2>2. CASE TrackingLookup(q) \/ BecknLookup(q)
    BY <2>2 DEF TrackingLookup, BecknLookup, Started, TypeOK, ReleaseHandlers
  <2>3. CASE PeekOrder(q)
    BY <2>3 DEF PeekOrder, Started, TypeOK
  <2>4. ASSUME NEW h \in {"buyer_confirm_receipt", "mock_elapse_d3", "mock_release",
                          "mock_refund"}, LockOrder(q, h)
        PROVE  Started(q)
    BY <2>4 DEF LockOrder, Started, TypeOK, ReleaseHandlers, Admits
  <2>5. CASE \/ ApplyPaid(q) \/ TrackingWrite(q) \/ BecknRefund(q) \/ ReleaseConflict(q)
             \/ RecordFailure(q) \/ CloseRelease(q) \/ RefundCommit(q) \/ Crash(q)
    BY <2>5, FinishEffect DEF ApplyPaid, TrackingWrite, BecknRefund, ReleaseConflict,
                RecordFailure, CloseRelease, RefundCommit, Crash, Ended
  <2>6. CASE \/ LockPeeked(q) \/ ReleaseCheck(q) \/ PayoutSkipped(q) \/ PayoutNotTaken(q)
             \/ PayoutTaken(q) \/ RecordSuccess(q)
    BY <2>6, GotoEffect DEF LockPeeked, ReleaseCheck, PayoutSkipped, PayoutNotTaken,
                PayoutTaken, RecordSuccess, Continued
  <2>7. CASE RefundCall(q)
    BY <2>7, GotoEffect DEF RefundCall, Continued
  <2>8. CASE ReleaseCommit(q)
    <3>1. req'[q].by = req[q].by
      BY <2>8 DEF ReleaseCommit, TypeOK, Request
    <3> QED
      BY <2>8, <3>1, CommitEffect DEF Continued
  <2> QED
    BY <1>2, <2>1, <2>2, <2>3, <2>4, <2>5, <2>6, <2>7, <2>8 DEF Step
<1> QED
  BY <1>1, <1>2, OthersStay, StepOrQuiet

\* The order is unpaid only if it was.
LEMMA UnpaidFrom ==
    ASSUME TypeOK, [Next]_vars, ostate' \in UnpaidStates
    PROVE  ostate \in UnpaidStates
<1> USE DEF UnpaidStates
<1>1. CASE AdvanceToAuthed \/ AdvanceToReviewed \/ BookShipment \/ CancelShipment
  BY <1>1 DEF AdvanceToAuthed, AdvanceToReviewed, BookShipment, CancelShipment, Transition
<1>2. CASE MockSellerShipped \/ MockDelivered \/ OpenDispute \/ ShipmentEvent
  BY <1>2 DEF MockSellerShipped, MockDelivered, OpenDispute, ShipmentEvent, Delivered,
              Problem, Transition, TryTransition
<1>3. ASSUME NEW p \in PayRefs, XenditPaid(p) PROVE ostate \in UnpaidStates
  BY <1>3 DEF XenditPaid, MarkOrderPaid, Transition
<1>4. ASSUME NEW r \in Requests, ApplyPaid(r) \/ TrackingWrite(r)
      PROVE  ostate \in UnpaidStates
  BY <1>4 DEF ApplyPaid, MarkOrderPaid, TrackingWrite, Delivered, Problem, Transition,
              TryTransition
<1>5. ASSUME NEW r \in Requests,
             BecknRefund(r) \/ CloseRelease(r) \/ ReleaseCommit(r) \/ RefundCommit(r)
      PROVE  ostate \in UnpaidStates
  BY <1>5 DEF BecknRefund, CloseRelease, ReleaseCommit, RefundCommit, Transition,
              TryTransition
<1> QED
  BY <1>1, <1>2, <1>3, <1>4, <1>5, WhoWritesState

\* Xendit's webhook is handled on the locked order, so that the first HOLD row is
\* written once, and later ones only where there is none.
LEMMA HoldStep == TypeOK /\ HoldInv /\ [Next]_vars => HoldInv'
<1> SUFFICES ASSUME TypeOK, HoldInv, [Next]_vars, Provider = "xendit"
             PROVE  HoldInv'
  BY DEF HoldInv
<1>1. \A r \in Requests : req'[r].pc # "resolved"
  BY Origin DEF Started, Continued, Ended, HoldInv
<1>2. CASE UNCHANGED holds
  BY <1>1, <1>2, UnpaidFrom DEF HoldInv, HoldOnce
<1>3. ASSUME NEW p \in PayRefs, XenditPaid(p)
      PROVE  HoldInv'
  <2>1. CASE ostate = "ESCROW_HELD"
    BY <1>1, <1>3, <2>1 DEF XenditPaid, MarkOrderPaid, HoldInv, HoldOnce, UnpaidStates, TypeOK
  <2>2. CASE ostate = "CART_REVIEWED"
    BY <1>1, <1>3, <2>2
       DEF XenditPaid, MarkOrderPaid, Transition, HoldInv, HoldOnce, UnpaidStates, TypeOK
  <2>3. CASE ostate \notin {"ESCROW_HELD", "CART_REVIEWED"}
    BY <1>2, <1>3, <2>3 DEF XenditPaid, MarkOrderPaid
  <2> QED
    BY <2>1, <2>2, <2>3
<1>4. \A r \in Requests : ~ApplyPaid(r)
  BY DEF ApplyPaid, HoldInv
<1> QED
  BY <1>2, <1>3, <1>4, WhoWritesHolds

\* Points are earned at the end of a release only, and only the first time.
LEMMA EarnedStep ==
    TypeOK /\ OwnInv /\ TakenInv /\ EarnedInv /\ [Next]_vars => EarnedInv'
<1> SUFFICES ASSUME TypeOK, OwnInv, TakenInv, LoyaltyOnce, [Next]_vars, TakenHere
             PROVE  LoyaltyOnce'
  BY DEF EarnedInv, TakenHere
<1>1. (\E k \in Keys : disb[k] # "none") => \E k \in Keys : disb'[k] # "none"
  BY DisbStays
<1>2. CASE UNCHANGED earned
  BY <1>1, <1>2 DEF LoyaltyOnce
<1>3. ASSUME NEW r \in Requests, CloseRelease(r)
      PROVE  LoyaltyOnce'
  <2>1. \E k \in Keys : disb[k] # "none"
    BY <1>3 DEF CloseRelease, TakenInv, TakenHere, OwnInv, Owning, Key, Keys
  <2>2. earned' \in {earned, 1}
    BY <1>3 DEF CloseRelease
  <2> QED
    BY <1>1, <2>1, <2>2 DEF LoyaltyOnce, TypeOK
<1>4. (\A r \in Requests : ~CloseRelease(r)) => UNCHANGED earned
  <2>1. CASE UNCHANGED vars
    BY <2>1 DEF vars
  <2>2. ASSUME NEW r \in Requests, Step(r), ~CloseRelease(r) PROVE UNCHANGED earned
    BY <2>2 DEF Step, ResolvePaid, ApplyPaid, TrackingLookup, TrackingWrite, BecknLookup,
        BecknRefund, PeekOrder, LockPeeked, LockOrder, ReleaseConflict, ReleaseCheck,
        ReleaseCommit, PayoutSkipped, PayoutNotTaken, PayoutTaken, RecordFailure,
        RecordSuccess, RefundCall, RefundCommit, Crash
  <2>3. CASE Next
    BY <2>2, <2>3 DEF Next, AdvanceToAuthed, AdvanceToReviewed, CreateInvoice, XenditPaid,
        BookShipment, MockSellerShipped, CancelShipment, MockDelivered, ShipmentEvent,
        OpenDispute, ReleaseWindowElapses, PayoutEnds, PayoutCallback,
        PayoutCallbackUnmatched, RefundEnds, RefundCallback
  <2> QED
    BY <2>1, <2>3
<1> QED
  BY <1>2, <1>3, <1>4

\* Where all attempts share one disbursement, it is live only while one attempt
\* is open, and nobody is about to report its refusal.
LEMMA SharedStep ==
    ASSUME IInv, SharedInv, [Next]_vars
    PROVE  SharedInv'
<1> SUFFICES ASSUME Provider # "dipay", "lost_answer" \notin Faults
             PROVE  SharedInv'
  BY DEF SharedInv
<1> USE DEF Keys, Key, Unanswered
<1>0. TypeOK /\ OwnInv /\ NoticeInv /\ CheckedInv /\ OneActiveRelease /\ OneActiveHere
  BY ConstantsAssumption DEF IInv, OneActiveHere
<1>1. ASSUME disb[Shared] \in {"accepted", "settled"}
      PROVE  /\ \E e \in Attempts : Active(e)'
             /\ \A r \in Requests : req'[r].pc \notin Unanswered
  <2>1. /\ \E e \in Attempts : Active(e)
        /\ \A r \in Requests : req[r].pc \notin Unanswered /\ ~ReleaseCommit(r)
    BY <1>0, <1>1, CommitEffect DEF SharedInv, CheckedInv
  <2>2. \A r \in Requests : req'[r].pc \notin Unanswered
    BY <1>0, <2>1, StageFrom DEF Kept
  <2>3. PICK e \in Attempts : Active(e)
    BY <2>1
  <2>4. ASSUME NEW r \in Requests, RecordFailure(r) \/ RecordSuccess(r)
        PROVE  Active(e)'
    BY <1>0, <2>1, <2>3, <2>4 DEF RecordFailure, RecordSuccess, Active, TypeOK, Row
  <2>5. ASSUME NEW k \in Keys, PayoutCallback(k)
        PROVE  Active(e)'
    BY <1>0, <1>1, <2>3, <2>5 DEF PayoutCallback, Active, NoticeInv, TypeOK, Row
  <2>6. Active(e)'
    BY <1>0, <2>1, <2>3, <2>4, <2>5, WhoWritesRows DEF Active
  <2> QED
    BY <2>2, <2>6
<1>2. ASSUME disb[Shared] = "none", disb'[Shared] # "none"
      PROVE  \E r \in Requests : PayoutTaken(r)
  BY <1>0, <1>2, WhoWritesProvider
     DEF PayoutEnds, PayoutCallback, PayoutCallbackUnmatched, TypeOK
<1>3. ASSUME disb[Shared] = "none", NEW r \in Requests, PayoutTaken(r)
      PROVE  /\ \E e \in Attempts : Active(e)'
             /\ \A q \in Requests : req'[q].pc \notin Unanswered
  <2>1. /\ req[r].pc = "paying" /\ req[r].row \in Attempts
        /\ releases[req[r].row].status = "PENDING" /\ releases' = releases
    BY <1>0, <1>3 DEF PayoutTaken, SharedInv, OwnInv, Owning
  <2>2. req'[r].pc = "accepted" /\ \A q \in Requests : q # r => req'[q] = req[q]
    BY <1>0, <1>3, GotoEffect DEF PayoutTaken
  <2>3. ASSUME NEW q \in Requests, req[q].pc \in Unanswered PROVE q = r
    <3>1. releases[req[q].row].status = "PENDING" /\ req[q].row \in Attempts
      BY <1>0, <1>3, <2>3 DEF SharedInv, OwnInv, Owning
    <3>2. req[q].row = req[r].row
      BY <1>0, <2>1, <3>1 DEF OneActiveRelease, AtMostOne, Active
    <3> QED
      BY <1>0, <2>1, <2>3, <3>2 DEF OwnInv, Owning
  <2> QED
    BY <2>1, <2>2, <2>3 DEF Active
<1>4. ASSUME disb[Shared] = "none", disb'[Shared] = "none",
             NEW q \in Requests, req'[q].pc \in Unanswered
      PROVE  releases'[req'[q].row].status = "PENDING"
  <2>1. CASE ReleaseCommit(q)
    <3> PICK e \in Attempts : /\ releases' = [releases EXCEPT ![e] = NewRow]
                              /\ req'[q].row = e
      BY <1>0, <2>1, CommitEffect
    <3> QED
      BY <1>0 DEF NewRow, TypeOK
  <2>2. CASE req[q].pc \in Unanswered /\ req'[q].row = req[q].row
    <3>1. /\ releases[req[q].row].status = "PENDING"
          /\ req[q].row \in Attempts /\ req[q].pc \in Owning
      BY <1>0, <1>4, <2>2 DEF SharedInv, OwnInv, Owning
    <3>2. ASSUME NEW r \in Requests, ReleaseCommit(r)
          PROVE  releases'[req[q].row] = releases[req[q].row]
      BY <1>0, <3>1, <3>2, CommitEffect DEF TypeOK
    <3>3. ASSUME NEW r \in Requests, RecordFailure(r) \/ RecordSuccess(r)
          PROVE  releases'[req[q].row] = releases[req[q].row]
      <4>1. r # q
        BY <1>0, <1>4, <3>3, GotoEffect, FinishEffect DEF RecordFailure, RecordSuccess
      <4>2. req[r].row # req[q].row
        BY <1>0, <3>1, <3>3, <4>1 DEF RecordFailure, RecordSuccess, Owning, OwnInv
      <4> QED
        BY <1>0, <3>1, <3>3, <4>2 DEF RecordFailure, RecordSuccess, TypeOK
    <3>4. \A k \in Keys : ~PayoutCallback(k)
      BY <1>0, <1>4 DEF PayoutCallback, NoticeInv
    <3> QED
      BY <1>0, <2>2, <3>1, <3>2, <3>3, <3>4, WhoWritesRows
  <2> QED
    BY <1>0, <1>4, <2>1, <2>2, StageFrom DEF Kept, Owning
<1>5. disb[Shared] = "failed" => disb'[Shared] = "failed"
  BY <1>0, DisbStays
<1>6. disb[Shared] \in {"none", "accepted", "settled", "failed"}
  BY <1>0 DEF TypeOK
<1>7. disb[Shared] \in {"accepted", "settled"} => disb'[Shared] # "none"
  BY <1>0, DisbStays
<1>8. ASSUME disb'[Shared] \in {"accepted", "settled"}
      PROVE  /\ \E e \in Attempts : Active(e)'
             /\ \A r \in Requests : req'[r].pc \notin Unanswered
  BY <1>1, <1>2, <1>3, <1>5, <1>6, <1>8
<1>9. ASSUME disb'[Shared] = "none"
      PROVE  \A q \in Requests : req'[q].pc \in Unanswered =>
                releases'[req'[q].row].status = "PENDING"
  BY <1>4, <1>5, <1>6, <1>7, <1>9
<1> QED
  BY <1>8, <1>9 DEF SharedInv

\* REFUND rows are written by the operator's refund and its callback only.
LEMMA NoRefundStep == TypeOK /\ NoRefundInv /\ [Next]_vars => NoRefundInv'
<1> SUFFICES ASSUME TypeOK, NoRefundInv, [Next]_vars, "mock_refund" \notin Surface
             PROVE  NoRefundInv'
  BY DEF NoRefundInv
<1>1. ASSUME NEW r \in Requests
      PROVE  req'[r].by # "mock_refund" /\ req'[r].pc \notin {"refunded", "unrefunded"}
  BY Origin DEF Started, Continued, Ended, NoRefundInv
<1>2. (\A r \in Requests : ~RefundCommit(r)) /\ ~RefundCallback => UNCHANGED refunds
  <2>1. CASE UNCHANGED vars
    BY <2>1 DEF vars
  <2>2. ASSUME NEW r \in Requests, Step(r), ~RefundCommit(r) PROVE UNCHANGED refunds
    BY <2>2 DEF Step, ResolvePaid, ApplyPaid, TrackingLookup, TrackingWrite, BecknLookup,
        BecknRefund, PeekOrder, LockPeeked, LockOrder, ReleaseConflict, ReleaseCheck,
        ReleaseCommit, PayoutSkipped, PayoutNotTaken, PayoutTaken, RecordFailure,
        RecordSuccess, CloseRelease, RefundCall, Crash
  <2>3. CASE Next
    BY <2>2, <2>3 DEF Next, AdvanceToAuthed, AdvanceToReviewed, CreateInvoice, XenditPaid,
        BookShipment, MockSellerShipped, CancelShipment, MockDelivered, ShipmentEvent,
        OpenDispute, ReleaseWindowElapses, PayoutEnds, PayoutCallback,
        PayoutCallbackUnmatched, RefundEnds
  <2> QED
    BY <2>1, <2>3
<1>3. (\A r \in Requests : ~RefundCommit(r)) /\ ~RefundCallback
  BY DEF RefundCommit, RefundCallback, NoRefundInv
<1> QED
  BY <1>1, <1>2, <1>3 DEF NoRefundInv

\* The check of release() is reached by a handler that releases.
LEMMA PayerStep == TypeOK /\ PayerInv /\ [Next]_vars => PayerInv'
<1> SUFFICES ASSUME TypeOK, PayerInv, [Next]_vars, NEW q \in Requests,
                    req'[q].pc \in Owning \cup {"checked"}
             PROVE  req'[q].by \in ReleaseHandlers
  BY DEF PayerInv
<1>1. CASE ReleaseCheck(q)
  BY <1>1, GotoEffect DEF ReleaseCheck
<1>2. CASE req[q].pc \in Owning \cup {"checked"}
  BY <1>2, Origin DEF Started, Continued, Ended, PayerInv, Owning
<1> QED
  BY <1>1, <1>2, StageFrom, CommitEffect DEF Kept, Owning

\* An attempt is committed by a request that saw the order in a paid state.
LEMMA PaidFirstStep ==
    ASSUME IInv, PayerInv, PaidFirstInv, [Next]_vars
    PROVE  PaidFirstInv'
<1> USE DEF IInv
<1>1. ASSUME NEW q \in Requests,
             req'[q].pc \in {"peeked", "locked", "checked"},
             req'[q].by \in ReleaseHandlers \ {"mock_release"}
      PROVE  req'[q].seen \in FundedStates
  <2>1. CASE Started(q)
    BY <1>1, <2>1 DEF Started, FundedStates
  <2>2. CASE Continued(q)
    BY <1>1, <2>2, CommitEffect DEF Continued, PaidFirstInv
  <2>3. CASE Ended(q)
    BY <1>1, <2>3 DEF Ended
  <2> QED
    BY <2>1, <2>2, <2>3, Origin
<1>2. ASSUME "mock_release" \notin Surface, NEW q \in Requests
      PROVE  req'[q].by # "mock_release"
  <2>1. CASE Started(q)
    BY <1>2, <2>1 DEF Started
  <2>2. CASE Continued(q)
    BY <1>2, <2>2, CommitEffect DEF Continued, PaidFirstInv
  <2>3. CASE Ended(q)
    BY <2>3 DEF Ended
  <2> QED
    BY <2>1, <2>2, <2>3, Origin
<1>3. ASSUME "mock_release" \notin Surface, NEW r \in Requests, ReleaseCommit(r)
      PROVE  Funded'
  <2>1. req[r].seen \in FundedStates
    BY <1>3 DEF ReleaseCommit, PayerInv, PaidFirstInv, Owning
  <2> QED
    BY <2>1, FundedStays DEF SeenInv, Funded
<1>4. ASSUME "mock_release" \notin Surface,
             NEW e \in Attempts, releases'[e].status # "none"
      PROVE  Funded'
  <2>1. CASE releases[e].status # "none"
    BY <1>4, <2>1, FundedStays DEF PaidFirstInv, Funded
  <2>2. CASE releases[e].status = "none"
    <3>1. ASSUME NEW r \in Requests, RecordFailure(r) \/ RecordSuccess(r) PROVE FALSE
      BY <1>4, <2>2, <3>1 DEF RecordFailure, RecordSuccess, OwnInv, Owning, TypeOK
    <3>2. ASSUME NEW k \in Keys, PayoutCallback(k) PROVE FALSE
      BY <1>4, <2>2, <3>2 DEF PayoutCallback, Found, TypeOK
    <3> QED
      BY <1>3, <1>4, <2>2, <3>1, <3>2, WhoWritesRows
  <2> QED
    BY <2>1, <2>2
<1> QED
  BY <1>1, <1>2, <1>4 DEF PaidFirstInv, Funded

\* Once received, an order that nobody refunds is received, disputed or released.
LEMMA WindowStays ==
    ASSUME IInv, WindowInv, LocksFirst, [Next]_vars,
           ostate \in {"RECEIVED", "DISPUTED", "ESCROW_RELEASED"}
    PROVE  ostate' \in {"RECEIVED", "DISPUTED", "ESCROW_RELEASED"}
<1> DEFINE Goal == ostate' \in {"RECEIVED", "DISPUTED", "ESCROW_RELEASED"}
<1>1. CASE AdvanceToAuthed \/ AdvanceToReviewed \/ BookShipment \/ CancelShipment
  BY <1>1 DEF AdvanceToAuthed, AdvanceToReviewed, BookShipment, CancelShipment
<1>2. CASE MockSellerShipped
  <2>1. ~Accepts(ostate, "FULFILLING")
    BY DEF Accepts, Allowed, OrderState
  <2> QED
    BY <1>2, <2>1 DEF MockSellerShipped
<1>3. CASE MockDelivered \/ OpenDispute
  BY <1>3 DEF MockDelivered, OpenDispute, Transition
<1>4. CASE ShipmentEvent
  BY <1>4 DEF ShipmentEvent, Delivered, Problem, Transition, TryTransition
<1>5. ASSUME NEW p \in PayRefs, XenditPaid(p) PROVE Goal
  BY <1>5 DEF XenditPaid, MarkOrderPaid
<1>6. ASSUME NEW r \in Requests, CloseRelease(r) \/ ReleaseCommit(r) PROVE Goal
  BY <1>6 DEF CloseRelease, ReleaseCommit, Transition, TryTransition
<1>7. ASSUME NEW r \in Requests,
             ApplyPaid(r) \/ TrackingWrite(r) \/ BecknRefund(r) \/ RefundCommit(r)
      PROVE  FALSE
  <2>1. req[r].pc # "resolved"
    BY DEF WindowInv
  <2> QED
    BY <1>7, <2>1 DEF ApplyPaid, TrackingWrite, BecknRefund, RefundCommit, WindowInv
<1> QED
  BY <1>1, <1>2, <1>3, <1>4, <1>5, <1>6, <1>7, WhoWritesState DEF IInv

\* A release that saw the order received goes on in that window.
LEMMA WindowStep ==
    ASSUME IInv, WindowInv, [Next]_vars
    PROVE  WindowInv'
<1> SUFFICES ASSUME LocksFirst, NEW q \in Requests
             PROVE  /\ req'[q].pc \notin {"resolved", "reading", "owned", "refunded",
                                          "unrefunded"}
                    /\ req'[q].by # "mock_refund"
                    /\ req'[q].by \in ReleaseHandlers
                       /\ req'[q].seen \in {"RECEIVED", "DISPUTED"}
                         => ostate' \in {"RECEIVED", "DISPUTED", "ESCROW_RELEASED"}
  BY DEF WindowInv, LocksFirst
<1>0. TypeOK
  BY DEF IInv
<1>1. /\ req'[q].pc \notin {"resolved", "reading", "owned", "refunded", "unrefunded"}
      /\ req'[q].by # "mock_refund"
  BY <1>0, Origin DEF Started, Continued, Ended, WindowInv, LocksFirst
<1>2. ASSUME req'[q].by \in ReleaseHandlers, req'[q].seen \in {"RECEIVED", "DISPUTED"}
      PROVE  ostate' \in {"RECEIVED", "DISPUTED", "ESCROW_RELEASED"}
  <2>1. CASE Started(q)
    BY <1>2, <2>1 DEF Started
  <2>2. CASE Continued(q) /\ req'[q].seen = req[q].seen
    BY <1>2, <2>2, WindowStays DEF Continued, WindowInv
  <2>3. CASE Continued(q) /\ ReleaseCommit(q)
    <3>1. CASE req[q].seen \in {"RECEIVED", "DISPUTED"}
      BY <1>2, <2>3, <3>1, WindowStays DEF Continued, WindowInv
    <3>2. CASE req[q].by = "buyer_confirm_receipt" /\ req[q].seen = "FULFILLING"
      BY <2>3, <3>2 DEF ReleaseCommit, Transition
    <3>3. CASE /\ req[q].seen \notin {"RECEIVED", "DISPUTED"}
               /\ ~(req[q].by = "buyer_confirm_receipt" /\ req[q].seen = "FULFILLING")
      <4>1. req'[q].seen = req[q].seen
        BY <1>0, <2>3, <3>3 DEF ReleaseCommit, TypeOK, Request
      <4> QED
        BY <1>2, <3>3, <4>1
    <3> QED
      BY <3>1, <3>2, <3>3
  <2> QED
    BY <1>0, <1>2, <2>1, <2>2, <2>3, Origin DEF Continued, Ended
<1> QED
  BY <1>1, <1>2

\* A row is completed by its callback only, and a disbursement that settled is
\* settled for good.
LEMMA CompletedStep ==
    ASSUME IInv, CompletedInv, [Next]_vars
    PROVE  CompletedInv'
<1> SUFFICES ASSUME Provider = "xendit", NEW e \in Attempts,
                    releases'[e].status = "COMPLETED"
             PROVE  disb'[Shared] = "settled"
  BY DEF CompletedInv
<1> USE DEF Keys
<1>0. TypeOK
  BY DEF IInv
<1>1. CASE releases[e].status = "COMPLETED"
  BY <1>0, <1>1, DisbStays DEF CompletedInv
<1>2. CASE releases[e].status # "COMPLETED"
  <2>1. ASSUME NEW r \in Requests, ReleaseCommit(r) PROVE FALSE
    BY <1>0, <1>2, <2>1, CommitEffect DEF NewRow, TypeOK
  <2>2. ASSUME NEW r \in Requests, RecordFailure(r) \/ RecordSuccess(r) PROVE FALSE
    BY <1>0, <1>2, <2>2 DEF RecordFailure, RecordSuccess, TypeOK, Row
  <2>3. ASSUME NEW k \in Keys, PayoutCallback(k) PROVE disb'[Shared] = "settled"
    BY <1>0, <1>2, <2>3 DEF PayoutCallback, TypeOK, Row
  <2> QED
    BY <1>0, <1>2, <2>1, <2>2, <2>3, WhoWritesRows
<1> QED
  BY <1>1, <1>2

\* The second invariant holds initially and is kept wherever the first one is.
LEMMA MoneyInit == Init => MoneyInv
<1> SUFFICES ASSUME Init PROVE MoneyInv
  OBVIOUS
<1> USE DEF Init, Idle
<1>1. HoldInv /\ EarnedInv
  BY DEF HoldInv, HoldOnce, EarnedInv, LoyaltyOnce
<1>2. SharedInv /\ CompletedInv
  BY DEF SharedInv, CompletedInv, Keys
<1>3. PayerInv /\ PaidFirstInv /\ NoRefundInv
  BY DEF PayerInv, Owning, PaidFirstInv, NoRefundInv, ReleaseHandlers
<1>4. WindowInv
  BY DEF WindowInv, ReleaseHandlers
<1> QED
  BY <1>1, <1>2, <1>3, <1>4 DEF MoneyInv

LEMMA MoneyStep == IInv /\ MoneyInv /\ [Next]_vars => MoneyInv'
<1> SUFFICES ASSUME IInv, MoneyInv, [Next]_vars PROVE MoneyInv'
  OBVIOUS
<1>1. HoldInv' /\ EarnedInv'
  BY HoldStep, EarnedStep DEF IInv, MoneyInv
<1>2. SharedInv' /\ CompletedInv'
  BY SharedStep, CompletedStep DEF MoneyInv
<1>3. PayerInv' /\ PaidFirstInv' /\ NoRefundInv'
  BY PayerStep, PaidFirstStep, NoRefundStep DEF IInv, MoneyInv
<1>4. WindowInv'
  BY WindowStep DEF MoneyInv
<1> QED
  BY <1>1, <1>2, <1>3, <1>4 DEF MoneyInv

\* Together they hold of every behaviour.
THEOREM MoneyInvariance == Spec => [](IInv /\ MoneyInv)
  BY InvInit, InvStep, MoneyInit, MoneyStep, PTL DEF Spec

\* Where payments are reported by Xendit's webhook, which is handled on the
\* locked row, payment is on the ledger once per reference and points are earned
\* once per order, for any number of webhooks and requests.
THEOREM WrittenOnceHolds == Provider = "xendit" => (Spec => []WrittenOnce)
<1> SUFFICES ASSUME Provider = "xendit" PROVE Spec => []WrittenOnce
  OBVIOUS
<1>1. MoneyInv => WrittenOnce
  BY DEF MoneyInv, HoldInv, EarnedInv, TakenHere, WrittenOnce
<1> QED
  BY <1>1, MoneyInvariance, PTL

\* With no answer lost, a RELEASE row of any provider is marked FAILED only when
\* the provider holds no live disbursement for it.
THEOREM FailedWasRefusedHolds ==
    "lost_answer" \notin Faults => (Spec => FailedWasRefused)
<1> SUFFICES ASSUME "lost_answer" \notin Faults PROVE Spec => FailedWasRefused
  OBVIOUS
<1>1. ASSUME IInv, MoneyInv, [Next]_vars, NEW e \in Attempts,
             releases[e].status = "PENDING", releases'[e].status = "FAILED"
      PROVE  disb[Key(e)] \notin {"accepted", "settled"}
  <2> USE DEF IInv
  <2>1. ASSUME NEW r \in Requests, ReleaseCommit(r) PROVE FALSE
    BY <1>1, <2>1, CommitEffect DEF NewRow, TypeOK
  <2>2. ASSUME NEW r \in Requests, RecordSuccess(r) PROVE FALSE
    BY <1>1, <2>2 DEF RecordSuccess, TypeOK, Row
  <2>3. ASSUME NEW r \in Requests, RecordFailure(r)
        PROVE  disb[Key(e)] \notin {"accepted", "settled"}
    <3>1. e = req[r].row
      BY <1>1, <2>3 DEF RecordFailure, TypeOK
    <3>2. CASE Provider = "dipay"
      BY <1>1, <2>3, <3>1, <3>2 DEF RecordFailure, DipayInv, Key
    <3>3. CASE Provider # "dipay"
      BY <1>1, <2>3, <3>3 DEF RecordFailure, MoneyInv, SharedInv, Key
    <3> QED
      BY <3>2, <3>3
  <2>4. ASSUME NEW k \in Keys, PayoutCallback(k)
        PROVE  disb[Key(e)] \notin {"accepted", "settled"}
    <3>1. Key(e) = k /\ disb[k] # "settled"
      BY <1>1, <2>4 DEF PayoutCallback, Found, TypeOK
    <3> QED
      BY <1>1, <2>4, <3>1 DEF PayoutCallback, NoticeInv
  <2> QED
    BY <1>1, <2>1, <2>2, <2>3, <2>4, WhoWritesRows
<1>2. IInv /\ MoneyInv /\ [Next]_vars =>
        [\A e \in Attempts :
            releases[e].status = "PENDING" /\ releases'[e].status = "FAILED"
              => disb[Key(e)] \notin {"accepted", "settled"}]_vars
  BY <1>1
<1> QED
  BY <1>2, MoneyInvariance, PTL DEF Spec, FailedWasRefused

\* Where nobody refunds or pays out at the operator's word, the ledger of an
\* order with one payment reference adds up to nothing or to its total.
THEOREM HeldBalanceHolds == BalancedHere => (Spec => []HeldBalance)
<1> SUFFICES ASSUME BalancedHere PROVE Spec => []HeldBalance
  OBVIOUS
<1>1. ASSUME IInv, MoneyInv PROVE HeldBalance
  <2> USE <1>1 DEF IInv, MoneyInv, BalancedHere
  <2>1. PICK p \in PayRefs : PayRefs = {p}
    OBVIOUS
  <2>2. Completed(refunds) = {}
    BY DEF Completed, NoRefundInv, TypeOK
  <2>3. holds[p] \in {0, 1}
    BY <2>1 DEF HoldInv, HoldOnce, TypeOK
  <2>4. CASE Completed(releases) = {}
    BY <2>1, <2>2, <2>3, <2>4, FS_EmptySet DEF HeldBalance
  <2>5. CASE Completed(releases) # {}
    <3>1. PICK e \in Attempts : releases[e].status = "COMPLETED"
      BY <2>5 DEF Completed, TypeOK
    <3>2. Completed(releases) = {e}
      BY <3>1 DEF Completed, OneActiveRelease, OneActiveHere, AtMostOne, Active, TypeOK
    <3>3. holds[p] = 1
      BY <2>1, <2>3, <3>1 DEF PaidFirstInv, TypeOK
    <3>4. Cardinality({e}) = 1 /\ Cardinality({}) = 0
      BY FS_Singleton, FS_EmptySet
    <3> QED
      BY <2>1, <2>2, <3>2, <3>3, <3>4 DEF HeldBalance
  <2> QED
    BY <2>4, <2>5
<1> QED
  BY <1>1, MoneyInvariance, PTL

\* Where handlers lock before they read, every committed change of state is in
\* the table, and a completed payout is not taken back, although a release goes
\* on after its payout with the copy from before it.
THEOREM ChangesAllowedHolds == LocksFirst => (Spec => ChangesAllowed)
<1> SUFFICES ASSUME LocksFirst PROVE Spec => ChangesAllowed
  OBVIOUS
<1> DEFINE Moves == ostate' # ostate => ostate' \in Allowed[ostate]
<1>1. ASSUME IInv, MoneyInv, [Next]_vars PROVE Moves
  <2> USE <1>1 DEF IInv, MoneyInv
  <2>1. CASE AdvanceToAuthed \/ AdvanceToReviewed \/ BookShipment \/ CancelShipment
    BY <2>1 DEF AdvanceToAuthed, AdvanceToReviewed, BookShipment, CancelShipment,
                Transition, Allowed, OrderState
  <2>2. CASE MockSellerShipped \/ MockDelivered \/ OpenDispute
    BY <2>2 DEF MockSellerShipped, MockDelivered, OpenDispute, Transition, Accepts
  <2>3. CASE ShipmentEvent
    BY <2>3 DEF ShipmentEvent, Delivered, Problem, Transition, TryTransition, Allowed,
                OrderState
  <2>4. ASSUME NEW p \in PayRefs, XenditPaid(p) PROVE Moves
    BY <2>4 DEF XenditPaid, MarkOrderPaid, Transition, Allowed, OrderState
  <2>5. ASSUME NEW r \in Requests, ReleaseCommit(r) PROVE Moves
    <3>1. CASE req[r].by = "buyer_confirm_receipt" /\ req[r].seen = "FULFILLING"
      <4>1. ostate = "FULFILLING"
        BY <2>5, <3>1 DEF ReleaseCommit, FreshInv, Holding
      <4> QED
        BY <2>5, <3>1, <4>1 DEF ReleaseCommit, Transition, Allowed, OrderState
    <3> QED
      BY <2>5, <3>1 DEF ReleaseCommit
  <2>6. ASSUME NEW r \in Requests, CloseRelease(r) PROVE Moves
    <3>1. CASE "ESCROW_RELEASED" \notin Allowed[req[r].seen]
      BY <2>6, <3>1 DEF CloseRelease, TryTransition
    <3>2. CASE "ESCROW_RELEASED" \in Allowed[req[r].seen]
      <4>1. req[r].seen \in {"RECEIVED", "DISPUTED"}
        <5>1. req[r].seen \in OrderState
          BY DEF TypeOK, Request
        <5> QED
          BY <3>2, <5>1 DEF Allowed, OrderState
      <4>2. ostate \in {"RECEIVED", "DISPUTED", "ESCROW_RELEASED"}
        <5>1. req[r].by \in ReleaseHandlers
          BY <2>6 DEF CloseRelease, PayerInv, Owning
        <5> QED
          BY <4>1, <5>1 DEF WindowInv
      <4> QED
        BY <2>6, <4>2 DEF CloseRelease, TryTransition, Allowed, OrderState
    <3> QED
      BY <3>1, <3>2
  <2>7. ASSUME NEW r \in Requests,
               ApplyPaid(r) \/ TrackingWrite(r) \/ BecknRefund(r) \/ RefundCommit(r)
        PROVE  FALSE
    BY <2>7 DEF ApplyPaid, TrackingWrite, BecknRefund, RefundCommit, WindowInv
  <2> QED
    BY <2>1, <2>2, <2>3, <2>4, <2>5, <2>6, <2>7, WhoWritesState
<1>2. ASSUME IInv, MoneyInv, [Next]_vars, NEW e \in Attempts,
             releases[e].status = "COMPLETED"
      PROVE  releases'[e].status = "COMPLETED"
  <2> USE <1>2 DEF IInv, MoneyInv, LocksFirst, Keys
  <2>1. ASSUME NEW r \in Requests, ReleaseCommit(r) PROVE releases'[e] = releases[e]
    BY <2>1, CommitEffect DEF TypeOK
  <2>2. ASSUME NEW r \in Requests, RecordFailure(r) \/ RecordSuccess(r)
        PROVE  releases'[e] = releases[e]
    BY <2>2 DEF RecordFailure, RecordSuccess, XenditInv, Calling, TypeOK
  <2>3. ASSUME NEW k \in Keys, PayoutCallback(k)
        PROVE  releases'[e].status = "COMPLETED"
    BY <2>3 DEF PayoutCallback, CompletedInv, TypeOK, Row
  <2> QED
    BY <2>1, <2>2, <2>3, WhoWritesRows
<1>3. IInv /\ MoneyInv /\ [Next]_vars =>
        [/\ ostate' # ostate => ostate' \in Allowed[ostate]
         /\ \A e \in Attempts :
              releases[e].status = "COMPLETED" => releases'[e].status = "COMPLETED"]_vars
  BY <1>1, <1>2
<1> QED
  BY <1>3, MoneyInvariance, PTL DEF Spec, ChangesAllowed

-----------------------------------------------------------------------------
(* The order implements the promise.                                       *)

PromiseStep == Promise!Next \/ UNCHANGED Promise!vars

\* An order that is neither paid nor released starts the promise.
LEMMA PromiseInit == Init => Promise!Init
  BY DEF Init, Promise!Init, Active, Shown, UnpaidStates

\* A step changes what is shown only to "paid" of a paid order, to "released" of
\* an order that is paid and whose payout was taken, or to "refunded".
LEMMA ShownStep ==
    ASSUME IInv, IInv', ReleasedWasTaken', [Next]_vars
    PROVE  \/ Shown(ostate') = Shown(ostate)
           \/ Shown(ostate') = "paid" /\ Funded'
           \/ Shown(ostate') = "released" /\ Funded' /\ (\E k \in Keys : disb[k] # "none")'
           \/ Shown(ostate') = "refunded"
<1>1. /\ TypeOK /\ LockInv /\ FreshInv /\ HeldStatesFunded'
      /\ ostate \in OrderState /\ ostate' \in OrderState
  BY DEF IInv, TypeOK
<1>2. ASSUME ostate' \in UnpaidStates PROVE ostate \in UnpaidStates
  <2>1. ASSUME NEW r \in Requests, ReleaseCommit(r) PROVE ostate' = ostate \/ ostate' = "RECEIVED"
    BY <2>1 DEF ReleaseCommit, Transition
  <2>2. ASSUME NEW r \in Requests, ApplyPaid(r) \/ TrackingWrite(r) \/ BecknRefund(r)
        PROVE  ostate' = ostate \/ ostate' \notin UnpaidStates
    BY <2>2 DEF ApplyPaid, MarkOrderPaid, TrackingWrite, Delivered, Problem, BecknRefund,
                Transition, TryTransition, UnpaidStates
  <2>3. ASSUME NEW r \in Requests, CloseRelease(r) \/ RefundCommit(r)
        PROVE  ostate' = ostate \/ ostate' \notin UnpaidStates
    BY <2>3 DEF CloseRelease, RefundCommit, Transition, TryTransition, UnpaidStates
  <2>4. ASSUME NEW p \in PayRefs, XenditPaid(p)
        PROVE  ostate' = ostate \/ ostate' \notin UnpaidStates
    BY <2>4 DEF XenditPaid, MarkOrderPaid, Transition, UnpaidStates
  <2>5. CASE AdvanceToAuthed \/ AdvanceToReviewed
    BY <2>5 DEF AdvanceToAuthed, AdvanceToReviewed, UnpaidStates
  <2>6. ASSUME \/ BookShipment \/ MockSellerShipped \/ CancelShipment \/ MockDelivered
               \/ ShipmentEvent \/ OpenDispute
        PROVE  ostate' = ostate \/ ostate' \notin UnpaidStates
    BY <2>6 DEF BookShipment, MockSellerShipped, CancelShipment, MockDelivered,
                ShipmentEvent, OpenDispute, Delivered, Problem, Transition,
                TryTransition, UnpaidStates
  <2> QED
    BY <1>1, <1>2, <2>1, <2>2, <2>3, <2>4, <2>5, <2>6, WhoWritesState DEF UnpaidStates
<1>3. CASE ostate' \in UnpaidStates
  BY <1>2, <1>3 DEF Shown, UnpaidStates
<1>4. CASE ostate' = "REFUNDED"
  BY <1>4 DEF Shown, UnpaidStates
<1>5. CASE ostate' \in FundedStates
  <2>1. Funded'
    BY <1>1, <1>5 DEF HeldStatesFunded, Funded
  <2>2. Shown(ostate') = IF ostate' = "ESCROW_RELEASED" THEN "released" ELSE "paid"
    BY <1>5 DEF Shown, UnpaidStates, FundedStates
  <2> QED
    BY <2>1, <2>2 DEF ReleasedWasTaken
<1> QED
  BY <1>1, <1>3, <1>4, <1>5 DEF OrderState, UnpaidStates, FundedStates

\* Every step of an order is a step of the promise, or invisible in it.
LEMMA PromiseNext ==
    ASSUME PromiseHere, IInv, IInv', MoneyInv, [Next]_vars
    PROVE  PromiseStep
<1> DEFINE open     == {e \in Attempts : Active(e)}
           taken    == \E k \in Keys : disb[k] # "none"
           shown    == Shown(ostate)
           operator == \E r \in Requests : req[r].by = "mock_release"
<1>1. /\ TypeOK /\ LockInv /\ OwnInv /\ NoticeInv /\ XenditInv /\ DipayInv /\ OneActiveHere
      /\ CheckedInv /\ OneActiveRelease /\ ReleasedWasTaken' /\ FreshInv /\ SeenInv
      /\ PayerInv /\ PaidFirstInv
  BY DEF IInv, MoneyInv, PromiseHere, OneActiveHere, TakenHere
<1>2. PromiseStep <=>
        \/ Promise!Next
        \/ Funded' = Funded /\ open' = open /\ taken' = taken /\ shown' = shown
  BY DEF PromiseStep, Promise!vars, Funded
<1>3. Promise!Next <=>
        \/ /\ Funded' /\ shown' \in {shown, "paid"}
           /\ open' = open /\ taken' = taken
        \/ /\ Funded /\ shown' = "paid"
           /\ Funded' = Funded /\ open' = open /\ taken' = taken
        \/ /\ Funded \/ operator
           /\ open = {} /\ \E e \in Attempts : open' = {e}
           /\ Funded' = Funded /\ taken' = taken /\ shown' = shown
        \/ /\ open # {} /\ taken'
           /\ Funded' = Funded /\ open' = open /\ shown' = shown
        \/ /\ open # {} /\ open' = {}
           /\ Funded' = Funded /\ taken' = taken /\ shown' = shown
        \/ /\ Funded /\ taken /\ shown' = "released"
           /\ Funded' = Funded /\ open' = open /\ taken' = taken
        \/ /\ shown' = "refunded"
           /\ Funded' = Funded /\ open' = open /\ taken' = taken
  BY DEF Promise!Next, Promise!Fund, Promise!Proceed, Promise!Begin, Promise!Take,
         Promise!GiveUp, Promise!Release, Promise!Refund, Funded
<1>4. \/ shown' = shown
      \/ shown' = "paid" /\ Funded'
      \/ shown' = "released" /\ Funded' /\ taken'
      \/ shown' = "refunded"
  BY <1>1, ShownStep
<1>5. ostate' = ostate => shown' = shown
  OBVIOUS
<1>6. \A s \in {"ESCROW_HELD", "FULFILLING", "RECEIVED"} : Shown(s) = "paid"
  BY DEF Shown, UnpaidStates
<1> HIDE DEF open, taken, shown, operator
<1>7. ASSUME Funded' = Funded, UNCHANGED <<releases, disb>>
      PROVE  PromiseStep
  <2>1. open' = open /\ taken' = taken
    BY <1>7 DEF open, taken, Active
  <2> QED
    BY <1>2, <1>3, <1>4, <1>7, <2>1
<1>8. ASSUME NEW r \in Requests, ReleaseCommit(r)
      PROVE  PromiseStep
  <2>1. PICK e \in Attempts : releases' = [releases EXCEPT ![e] = NewRow]
    BY <1>1, <1>8, CommitEffect
  <2>2. open = {}
    BY <1>1, <1>8, CommitEffect DEF CheckedInv, open
  <2>3. open' = {e}
    BY <1>1, <2>1, <2>2 DEF open, Active, NewRow, TypeOK
  <2>4. Funded' = Funded /\ taken' = taken
    BY <1>1, <1>8, CommitEffect DEF Funded, taken
  <2>5. ostate' = ostate \/ (ostate = "FULFILLING" /\ ostate' = "RECEIVED")
    BY <1>1, <1>8, CommitEffect
       DEF ReleaseCommit, Transition, FreshInv, Holding
  <2>6. shown' = shown
    BY <1>5, <1>6, <2>5 DEF shown
  <2>7. Funded \/ operator
    <3>1. req[r].pc = "checked" /\ req[r].by \in ReleaseHandlers
      BY <1>1, <1>8 DEF ReleaseCommit, PayerInv, Owning
    <3>2. CASE req[r].by = "mock_release"
      BY <3>2 DEF operator
    <3>3. CASE req[r].by # "mock_release"
      BY <1>1, <3>1, <3>3 DEF PaidFirstInv, SeenInv, Funded
    <3> QED
      BY <3>2, <3>3
  <2> QED
    BY <1>2, <1>3, <2>2, <2>3, <2>4, <2>6, <2>7
<1>9. ASSUME \A r \in Requests : ~ReleaseCommit(r), UNCHANGED <<ostate, holds, disb>>
      PROVE  PromiseStep
  <2>1. open' \subseteq open
    BY <1>1, <1>9, OnlyCommitOpens DEF open
  <2>2. \A d, e \in open : d = e
    BY <1>1 DEF OneActiveRelease, AtMostOne, open
  <2>3. open' = open \/ (open # {} /\ open' = {})
    BY <2>1, <2>2
  <2>4. Funded' = Funded /\ taken' = taken /\ shown' = shown
    BY <1>5, <1>9 DEF Funded, taken
  <2> QED
    BY <1>2, <1>3, <2>3, <2>4
<1>10. ASSUME NEW r \in Requests, PayoutTaken(r)
       PROVE  PromiseStep
  <2>1. req[r].row \in Attempts /\ Active(req[r].row)
    BY <1>1, <1>10 DEF PayoutTaken, OwnInv, Owning, XenditInv, DipayInv, Calling, Active,
                       PromiseHere
  <2>2. open # {}
    BY <2>1 DEF open
  <2>3. Key(req[r].row) \in Keys
    BY <2>1 DEF Key, Keys
  <2>4. disb'[Key(req[r].row)] # "none"
    BY <1>1, <1>10, <2>3 DEF PayoutTaken, TypeOK
  <2>5. taken'
    BY <2>3, <2>4 DEF taken, Keys
  <2>6. Funded' = Funded /\ open' = open /\ shown' = shown
    BY <1>5, <1>10 DEF PayoutTaken, Funded, open, Active, order
  <2> QED
    BY <1>2, <1>3, <2>2, <2>5, <2>6
<1>11. ASSUME NEW k \in Keys, PayoutEnds(k)
       PROVE  PromiseStep
  <2>1. taken' /\ taken
    BY <1>1, <1>11 DEF PayoutEnds, TypeOK, taken, Keys
  <2>2. Funded' = Funded /\ open' = open /\ shown' = shown
    BY <1>5, <1>11 DEF PayoutEnds, Funded, open, Active, order
  <2> QED
    BY <1>2, <1>3, <2>1, <2>2 DEF taken
<1>12. ASSUME UNCHANGED <<releases, disb>>,
              \/ \E p \in PayRefs : XenditPaid(p)
              \/ \E r \in Requests : ApplyPaid(r)
       PROVE  PromiseStep
  <2>1. ostate' = ostate \/ ostate' = "ESCROW_HELD"
    BY <1>12 DEF XenditPaid, ApplyPaid, MarkOrderPaid, Transition
  <2>2. shown' \in {shown, "paid"}
    BY <1>5, <1>6, <2>1 DEF shown
  <2>3. open' = open /\ taken' = taken
    BY <1>12 DEF open, taken, Active
  <2>4. CASE Funded'
    BY <1>2, <1>3, <2>2, <2>3, <2>4
  <2>5. CASE ~Funded'
    BY <1>1, <1>7, <1>12, <2>5, FundedStays DEF Funded
  <2> QED
    BY <2>4, <2>5
<1> QED
  <2>1. CASE UNCHANGED <<releases, disb>>
    BY <1>1, <1>7, <1>12, <2>1, WhoWritesHolds DEF Funded
  <2>2. CASE UNCHANGED disb /\ ~UNCHANGED releases
    BY <1>1, <1>8, <1>9, <2>2, WhoWritesRows
       DEF RecordFailure, RecordSuccess, PayoutCallback
  <2>3. CASE ~UNCHANGED disb
    BY <1>1, <1>10, <1>11, <2>3, WhoWritesProvider
       DEF PayoutCallback, PayoutCallbackUnmatched
  <2> QED
    BY <2>1, <2>2, <2>3

\* A Xendit order, and a Dipay order while every answer arrives and is mapped,
\* keeps the promise: money on the ledger before the order is shown as paid and
\* before a payout that is not the operator's, one payout attempt at a time,
\* released only after the provider took a payout, and never unpaid again.
THEOREM KeepsPromiseHolds == PromiseHere => (Spec => KeepsPromise)
<1> SUFFICES ASSUME PromiseHere PROVE Spec => Promise!Spec
  BY DEF KeepsPromise
<1>1. IInv /\ MoneyInv /\ IInv' /\ [Next]_vars => [Promise!Next]_Promise!vars
  BY PromiseNext DEF PromiseStep
<1> QED
  BY <1>1, PromiseInit, MoneyInvariance, PTL DEF Spec, Promise!Spec
=============================================================================
