----------------------- MODULE ShipmentBookingProofs -----------------------
(***************************************************************************)
(* Theorems about ShipmentBooking, for every set of requests and bookings  *)
(* and every choice of faults.                                             *)
(***************************************************************************)
EXTENDS ShipmentBooking, TLAPS

USE BookingConstants DEF order, world, RowFree, Bookings, Awbs
-----------------------------------------------------------------------------
(* Facts about the building blocks.                                        *)

LEMMA IdleType == Idle \in Request
  BY DEF Idle, Request, Stages, OrderState, Reports

\* What TypeOK says of the requests and the lock.
ReqType ==
    /\ req \in [Requests -> Request]
    /\ \A r \in Requests :
         req[r].pc \in {"booked", "matched"} => req[r].booking \in Bookings
    /\ lock \in Requests \cup {NoReq}

\* Taking the lock, ending a request or moving it on keeps its type.
LEMMA TakeType ==
  ASSUME TypeOK, NEW r \in Requests, NEW pc \in Stages,
         NEW b \in Awbs, Take(r, pc, b),
         pc \notin {"booked", "matched"}
  PROVE  ReqType'
  BY DEF ReqType, Take, TypeOK, Idle, Request, Reports, OrderState

LEMMA FinishType ==
  ASSUME TypeOK, NEW r \in Requests, Finish(r)
  PROVE  ReqType'
  BY IdleType DEF ReqType, Finish, TypeOK, Idle

LEMMA MoveType ==
  ASSUME TypeOK, NEW r \in Requests, NEW pc \in {"recalling", "cancelled"},
         req' = [req EXCEPT ![r].pc = pc], UNCHANGED lock
  PROVE  ReqType'
  BY DEF ReqType, TypeOK, Request, Stages

LEMMA EventType ==
  ASSUME TypeOK, NEW s \in OrderState, NEW a \in Awbs,
         NEW b \in Bookings, NEW report \in Reports, ApplyEvent(s, a, b, report)
  PROVE  /\ ostate' \in OrderState /\ awb' \in Awbs
         /\ shipId' \in Bookings \cup {NoBooking} /\ clock' \in BOOLEAN
         /\ byHand' = byHand
  BY DEF ApplyEvent, TypeOK, OrderState

\* An event moves the order to RECEIVED, to DISPUTED or nowhere, and stores
\* an AWB only where its copy of the order shows none.
LEMMA EventWrites ==
  ASSUME NEW s, NEW a, NEW b, NEW report, ApplyEvent(s, a, b, report)
  PROVE  /\ ostate' \in {ostate, "RECEIVED", "DISPUTED"}
         /\ shipId' = shipId /\ byHand' = byHand
         /\ a # NoBooking => awb' = awb
  BY DEF ApplyEvent
-----------------------------------------------------------------------------
\* The initial state is of the declared types.
LEMMA TypeInit == Init => TypeOK
<1> SUFFICES ASSUME Init PROVE TypeOK
  OBVIOUS
<1>1. req \in [Requests -> Request] /\ \A r \in Requests : req[r].pc = "idle"
  BY IdleType DEF Init, Idle
<1> QED
  BY <1>1 DEF Init, TypeOK, OrderState

\* No step leaves the declared types.
LEMMA TypeStep == TypeOK /\ [Next]_vars => TypeOK'
<1> SUFFICES ASSUME TypeOK, [Next]_vars PROVE TypeOK'
  OBVIOUS
<1> USE DEF TypeOK
<1>1. ASSUME NEW r \in Requests, Step(r) PROVE TypeOK'
  <2>1. CASE BookLock(r)
    BY <2>1, TakeType DEF BookLock, Stages, ReqType
  <2>2. CASE CarrierBooks(r)
    <3>1. PICK b \in Bookings :
            /\ parcel' = [parcel EXCEPT ![b] = "live"]
            /\ req' = [req EXCEPT ![r].pc = "booked", ![r].booking = b]
      BY <2>2 DEF CarrierBooks, Offers
    <3>2. UNCHANGED <<order, lock, active, acked, unheard, faults>>
      BY <2>2 DEF CarrierBooks
    <3>3. ReqType'
      <4> DEFINE booked == [req[r] EXCEPT !.pc = "booked", !.booking = b]
      <4>0. req[r] \in Request /\ b \in Awbs /\ "booked" \in Stages
        BY DEF Stages
      <4>1. booked \in Request /\ booked.booking = b
        BY <4>0 DEF Request
      <4>2. req' = [req EXCEPT ![r] = booked]
        BY <3>1
      <4> HIDE DEF booked
      <4> QED
        BY <3>2, <4>1, <4>2 DEF ReqType
    <3>4. parcel' \in [Bookings -> {"none", "live", "delivered", "cancelled"}]
      BY <3>1
    <3> QED
      BY <3>2, <3>3, <3>4 DEF ReqType
  <2>3. CASE BookingUnheard(r)
    <3>1. PICK b \in Bookings : /\ parcel' = [parcel EXCEPT ![b] = "live"]
                                /\ unheard' = unheard \cup {b}
      BY <2>3 DEF BookingUnheard, Offers
    <3>2. ReqType'
      BY <2>3, FinishType, MoveType DEF BookingUnheard
    <3> QED
      BY <2>3, <3>1, <3>2 DEF BookingUnheard, ReqType
  <2>4. CASE BookingRefused(r)
    <3>1. ReqType'
      BY <2>4, FinishType, MoveType DEF BookingRefused
    <3> QED
      BY <2>4, <3>1 DEF BookingRefused, ReqType
  <2>5. CASE BookCommit(r)
    BY <2>5, FinishType DEF BookCommit, OrderState, ReqType
  <2>6. CASE CancelLock(r)
    BY <2>6, TakeType DEF CancelLock, Stages, ReqType
  <2>7. CASE CarrierCancels(r)
    <3>1. ReqType'
      BY <2>7, MoveType DEF CarrierCancels
    <3> QED
      BY <2>7, <3>1 DEF CarrierCancels, ReqType
  <2>8. CASE CancelUnheard(r)
    BY <2>8, FinishType DEF CancelUnheard, ReqType
  <2>9. CASE CancelRefused(r)
    BY <2>9, FinishType DEF CancelRefused, ReqType
  <2>10. CASE CancelCommit(r)
    BY <2>10, FinishType DEF CancelCommit, OrderState, ReqType
  <2>11. ASSUME NEW b \in Bookings, NEW report \in Reports, EventMatched(r, b, report)
         PROVE  TypeOK'
    <3>1. [pc |-> "matched", booking |-> b, report |-> report, state |-> ostate,
           awb |-> awb] \in Request
      BY DEF Request, Stages
    <3>2. ReqType'
      BY <2>11, <3>1 DEF EventMatched, ReqType
    <3> QED
      BY <2>11, <3>2 DEF EventMatched, ReqType
  <2>12. CASE EventWrite(r)
    <3>1. /\ req[r].state \in OrderState /\ req[r].report \in Reports
          /\ req[r].awb \in Awbs
          /\ req[r].booking \in Bookings
      BY <2>12 DEF Request, EventWrite
    <3>2. acked' \subseteq Bookings
      BY <2>12, <3>1 DEF EventWrite, Acknowledge
    <3> QED
      BY <2>12, <3>1, <3>2, FinishType, EventType DEF EventWrite, ReqType
  <2>13. CASE Crash(r)
    BY <2>13, FinishType DEF Crash, ReqType
  <2> QED
    BY <1>1, <2>1, <2>2, <2>3, <2>4, <2>5, <2>6, <2>7, <2>8, <2>9, <2>10, <2>11,
       <2>12, <2>13 DEF Step
<1>2. ASSUME NEW b \in Bookings, NEW report \in Reports, EventByOrderId(b, report)
      PROVE  TypeOK'
  BY <1>2, EventType DEF EventByOrderId, Acknowledge
<1>3. ASSUME NEW report \in Reports, RefreshTracking(report) PROVE TypeOK'
  BY <1>3, EventType DEF RefreshTracking
<1>4. ASSUME NEW to \in OrderState, OtherHandler(to) PROVE TypeOK'
  BY <1>4 DEF OtherHandler
<1>8. CASE (\E told \in Bookings \cup {OwnAwb} : SellerStatus(told))
           \/ SellerShipped \/ AdminDelivered
  BY <1>8 DEF SellerStatus, SellerShipped, AdminDelivered, OrderState
<1>5. CASE SwitchCarrier
  BY <1>5 DEF SwitchCarrier
<1>6. ASSUME NEW b \in Bookings, CourierEnds(b) PROVE TypeOK'
  BY <1>6 DEF CourierEnds
<1>7. CASE UNCHANGED vars
  BY <1>7 DEF vars
<1> QED
  BY <1>1, <1>2, <1>3, <1>4, <1>5, <1>6, <1>7, <1>8 DEF Next

\* The order, the requests and the carriers keep their declared types.
THEOREM TypeCorrect == Spec => []TypeOK
  BY TypeInit, TypeStep, PTL DEF Spec
-----------------------------------------------------------------------------
(* The inductive invariant.                                                *)

\* The invariant holds at first: nothing is booked and nobody is at work.
LEMMA InvInit == Init => LockInv /\ RowInv /\ ParcelInv
<1> SUFFICES ASSUME Init PROVE LockInv /\ RowInv /\ ParcelInv
  OBVIOUS
<1>1. \A r \in Requests : req[r].pc = "idle"
  BY DEF Init, Idle
<1> QED
  BY <1>1 DEF Init, LockInv, RowInv, ParcelInv, Holding, Working, LateAwb

\* While the row is free nobody is at a stage that holds it.
LEMMA FreeRow ==
  ASSUME LockInv, TypeOK, RowFree
  PROVE  \A r \in Requests : req[r].pc \notin Holding
  BY DEF LockInv, TypeOK

\* Only the holder of the lock is at a stage that holds it.
LEMMA OneHolder ==
  ASSUME LockInv, NEW r \in Requests, req[r].pc \in Holding
  PROVE  \A q \in Requests : q # r => req[q].pc \notin Holding
  BY DEF LockInv

\* Requests keep to the lock and find the row as they locked it.
LEMMA LockStep == TypeOK /\ LockInv /\ [Next]_vars => LockInv'
<1> SUFFICES ASSUME TypeOK, LockInv, [Next]_vars PROVE LockInv'
  OBVIOUS
<1> USE DEF Holding
<1>1. ASSUME NEW r \in Requests, Step(r) PROVE LockInv'
  <2>1. CASE BookLock(r)
    BY <2>1, FreeRow DEF BookLock, Take, LockInv, Idle, TypeOK
  <2>2. CASE CarrierBooks(r)
    BY <2>2 DEF CarrierBooks, LockInv, TypeOK
  <2>3. CASE BookingUnheard(r)
    <3>1. CASE Finish(r)
      BY <2>3, <3>1, OneHolder DEF BookingUnheard, Finish, Idle, LockInv, TypeOK
    <3>2. CASE req' = [req EXCEPT ![r].pc = "recalling"] /\ UNCHANGED lock
      BY <2>3, <3>2 DEF BookingUnheard, LockInv, TypeOK
    <3> QED
      BY <2>3, <3>1, <3>2 DEF BookingUnheard
  <2>4. CASE BookingRefused(r)
    <3>1. CASE Finish(r)
      BY <2>4, <3>1, OneHolder DEF BookingRefused, Finish, Idle, LockInv, TypeOK
    <3>2. CASE req' = [req EXCEPT ![r].pc = "recalling"] /\ UNCHANGED lock
      BY <2>4, <3>2 DEF BookingRefused, LockInv, TypeOK
    <3> QED
      BY <2>4, <3>1, <3>2 DEF BookingRefused
  <2>5. CASE BookCommit(r)
    BY <2>5, OneHolder DEF BookCommit, Finish, Idle, LockInv, TypeOK
  <2>6. CASE CancelLock(r)
    BY <2>6, FreeRow DEF CancelLock, Take, LockInv, Idle, TypeOK
  <2>7. CASE CarrierCancels(r)
    BY <2>7 DEF CarrierCancels, LockInv, TypeOK
  <2>8. CASE CancelUnheard(r)
    BY <2>8, OneHolder DEF CancelUnheard, Finish, Idle, LockInv, TypeOK
  <2>9. CASE CancelRefused(r)
    BY <2>9, OneHolder DEF CancelRefused, Finish, Idle, LockInv, TypeOK
  <2>10. CASE CancelCommit(r)
    BY <2>10, OneHolder DEF CancelCommit, Finish, Idle, LockInv, TypeOK
  <2>11. ASSUME NEW b \in Bookings, NEW report \in Reports, EventMatched(r, b, report)
         PROVE  LockInv'
    BY <2>11 DEF EventMatched, LockInv, TypeOK
  <2>12. CASE EventWrite(r)
    BY <2>12, FreeRow DEF EventWrite, Finish, Idle, LockInv, TypeOK
  <2>13. CASE Crash(r)
    BY <2>13, OneHolder DEF Crash, Finish, Idle, LockInv, TypeOK
  <2> QED
    BY <1>1, <2>1, <2>2, <2>3, <2>4, <2>5, <2>6, <2>7, <2>8, <2>9, <2>10, <2>11,
       <2>12, <2>13 DEF Step
<1>2. ASSUME RowFree, UNCHANGED <<req, lock>> PROVE LockInv'
  BY <1>2, FreeRow DEF LockInv
<1>3. CASE SwitchCarrier
  BY <1>3 DEF SwitchCarrier, LockInv
<1>4. ASSUME NEW b \in Bookings, CourierEnds(b) PROVE LockInv'
  BY <1>4 DEF CourierEnds, LockInv
<1>5. CASE UNCHANGED vars
  BY <1>5 DEF vars, LockInv
<1> QED
  BY <1>1, <1>2, <1>3, <1>4, <1>5
     DEF Next, EventByOrderId, RefreshTracking, SellerStatus, SellerShipped,
         AdminDelivered, OtherHandler

\* A booking that came to nothing is tried again or given up.
LEMMA GivenUp ==
  ASSUME TypeOK, NEW r \in Requests, BookingUnheard(r) \/ BookingRefused(r)
  PROVE  /\ \A q \in Requests : q # r => req'[q] = req[q]
         /\ req[r].pc \in {"calling", "recalling"}
         /\ req'[r].pc \in {"idle", "recalling"}
<1>1. Finish(r) \/ req' = [req EXCEPT ![r].pc = "recalling"]
  BY DEF BookingUnheard, BookingRefused
<1>2. CASE Finish(r)
  BY <1>2 DEF Finish, Idle, TypeOK, BookingUnheard, BookingRefused
<1>3. CASE req' = [req EXCEPT ![r].pc = "recalling"]
  BY <1>3 DEF TypeOK, Request, BookingUnheard, BookingRefused
<1> QED
  BY <1>1, <1>2, <1>3

\* The row names one shipment, whatever copies of it are written back.
LEMMA RowStep == TypeOK /\ LockInv /\ RowInv /\ [Next]_vars => RowInv'
<1> SUFFICES ASSUME TypeOK, LockInv, RowInv, [Next]_vars PROVE RowInv'
  OBVIOUS
<1> USE DEF LateAwb, SellerAwb
<1>1. ASSUME NEW r \in Requests, Step(r) PROVE RowInv'
  <2>1. CASE BookLock(r)
    BY <2>1 DEF BookLock, Take, RowInv, Idle, TypeOK
  <2>2. CASE CarrierBooks(r)
    BY <2>2 DEF CarrierBooks, RowInv, TypeOK
  <2>3. CASE BookingUnheard(r)
    BY <2>3, GivenUp DEF BookingUnheard, RowInv
  <2>4. CASE BookingRefused(r)
    BY <2>4, GivenUp DEF BookingRefused, RowInv
  <2>5. CASE BookCommit(r)
    BY <2>5 DEF BookCommit, Finish, Idle, RowInv, TypeOK
  <2>6. CASE CancelLock(r)
    BY <2>6 DEF CancelLock, Take, RowInv, Idle, TypeOK
  <2>7. CASE CarrierCancels(r)
    BY <2>7 DEF CarrierCancels, RowInv, TypeOK
  <2>8. CASE CancelUnheard(r)
    BY <2>8 DEF CancelUnheard, Finish, Idle, RowInv, TypeOK
  <2>9. CASE CancelRefused(r)
    BY <2>9 DEF CancelRefused, Finish, Idle, RowInv, TypeOK
  <2>10. CASE CancelCommit(r)
    BY <2>10 DEF CancelCommit, Finish, Idle, RowInv, TypeOK
  <2>11. ASSUME NEW b \in Bookings, NEW report \in Reports, EventMatched(r, b, report)
         PROVE  RowInv'
    BY <2>11 DEF EventMatched, RowInv, TypeOK
  <2>12. CASE EventWrite(r)
    <3>1. /\ ostate' \in {ostate, "RECEIVED", "DISPUTED"} /\ shipId' = shipId
          /\ ~LateAwb => awb' = awb
          /\ byHand' = byHand
      BY <2>12, EventWrites DEF EventWrite, RowInv
    <3>2. \A q \in Requests : req'[q].pc = "matched" => req'[q] = req[q]
      BY <2>12 DEF EventWrite, Finish, Idle, TypeOK
    <3> QED
      BY <2>12, <3>1, <3>2 DEF EventWrite, RowInv
  <2>13. CASE Crash(r)
    BY <2>13 DEF Crash, Finish, Idle, RowInv, TypeOK
  <2> QED
    BY <1>1, <2>1, <2>2, <2>3, <2>4, <2>5, <2>6, <2>7, <2>8, <2>9, <2>10, <2>11,
       <2>12, <2>13 DEF Step
<1>2. ASSUME NEW b \in Bookings, NEW report \in Reports, ApplyEvent(ostate, awb, b, report),
             UNCHANGED <<req, faults>>
      PROVE  RowInv'
  BY <1>2, EventWrites DEF RowInv
<1>3. ASSUME NEW to \in OrderState, OtherHandler(to) PROVE RowInv'
  BY <1>3 DEF OtherHandler, RowInv
<1>7. ASSUME NEW told \in Bookings \cup {OwnAwb}, SellerStatus(told) PROVE RowInv'
  BY <1>7 DEF SellerStatus, RowInv
<1>8. CASE SellerShipped \/ AdminDelivered
  BY <1>8 DEF SellerShipped, AdminDelivered, RowInv
<1>4. CASE SwitchCarrier
  BY <1>4 DEF SwitchCarrier, RowInv
<1>5. ASSUME NEW b \in Bookings, CourierEnds(b) PROVE RowInv'
  BY <1>5 DEF CourierEnds, RowInv
<1>6. CASE UNCHANGED vars
  BY <1>6 DEF vars, RowInv
<1> QED
  BY <1>1, <1>2, <1>3, <1>4, <1>5, <1>6, <1>7, <1>8 DEF Next, EventByOrderId, RefreshTracking

\* The buyer is shown the AWB of the booking the order is matched by until the
\* seller's app tells another, and an order in fulfilment has a booking unless an
\* admin shipped it, in every instance in which the carriers answer with the AWB.
THEOREM ShipmentIsTrackedHolds == Spec => []ShipmentIsTracked
<1>1. Init => RowInv /\ LockInv
  BY InvInit
<1>2. RowInv => ShipmentIsTracked
  BY DEF RowInv, ShipmentIsTracked, LateAwb
<1> QED
  BY <1>1, <1>2, TypeInit, TypeStep, LockStep, RowStep, PTL DEF Spec
-----------------------------------------------------------------------------
(* One live booking.                                                       *)

\* A step that adds no parcel to Working, takes no request out of "booked" or
\* into "cancelled" and keeps the shipment keeps ParcelInv, if it does not
\* make a shipped order bookable.
LEMMA ParcelFrame ==
  ASSUME TypeOK, ParcelInv, UNCHANGED <<shipId, faults>>,
         Working' \subseteq Working,
         LateAwb \/ SellerAwb => unheard' = {},
         LateAwb /\ ostate # "ESCROW_HELD" => ostate' # "ESCROW_HELD",
         \A q \in Requests, b \in Working' :
             req[q].pc = "booked" /\ req[q].booking = b
               => req'[q].pc = "booked" /\ req'[q].booking = b,
         \A q \in Requests :
             req'[q].pc = "cancelled"
               => /\ req[q].pc = "cancelled" /\ req'[q].booking = req[q].booking
                  /\ shipId # NoBooking => parcel'[shipId] = parcel[shipId]
  PROVE  ParcelInv'
  BY DEF ParcelInv, LateAwb, SellerAwb

\* The faults of the behaviour, when OneLiveHere.
LEMMA LateAlone ==
  ASSUME OneLiveHere, TypeOK, LateAwb
  PROVE  faults \subseteq {"late_awb", "by_hand"}
  BY DEF OneLiveHere, TypeOK, LateAwb

LEMMA SellerHeard ==
  ASSUME OneLiveHere, TypeOK, SellerAwb
  PROVE  "crash" \notin faults /\ "lost_answer" \notin faults
  BY DEF OneLiveHere, TypeOK, SellerAwb

\* The holder of the lock that is about to book, or has booked, finds no
\* shipment under way.
LEMMA BookingAlone ==
  ASSUME TypeOK, LockInv, RowInv, ParcelInv, NEW r \in Requests,
         req[r].pc \in {"calling", "recalling", "booked"}, NEW b \in Working
  PROVE  req[r].pc = "booked" /\ req[r].booking = b
<1>1. ostate = "ESCROW_HELD" /\ awb = NoBooking /\ lock = r
  BY DEF LockInv, Holding
<1>2. shipId # b \/ LateAwb
  BY <1>1 DEF RowInv, Working
<1>3. PICK q \in Requests : req[q].pc = "booked" /\ req[q].booking = b
  BY <1>1, <1>2 DEF ParcelInv
<1>4. q = r
  BY <1>1, <1>3 DEF LockInv, Holding
<1> QED
  BY <1>3, <1>4

\* A parcel of which the BAP was told is under way only for the holder of the
\* lock or as the order's shipment.
LEMMA ParcelStep ==
  OneLiveHere => (TypeOK /\ TypeOK' /\ LockInv /\ RowInv /\ ParcelInv /\ [Next]_vars
                    => ParcelInv')
<1> SUFFICES ASSUME OneLiveHere, TypeOK, TypeOK', LockInv, RowInv, ParcelInv, [Next]_vars
             PROVE  ParcelInv'
  OBVIOUS
<1>1. ASSUME NEW r \in Requests, Step(r) PROVE ParcelInv'
  <2>1. CASE BookLock(r)
    <3>1. /\ Working' = Working
          /\ \A q \in Requests : q # r => req'[q] = req[q]
          /\ req[r].pc = "idle" /\ req'[r].pc = "calling"
      BY <2>1 DEF BookLock, Take, TypeOK, Working, Idle
    <3> QED
      BY <2>1, <3>1, ParcelFrame DEF BookLock, ParcelInv
  <2>2. CASE CarrierBooks(r)
    <3>1. PICK b \in Bookings : /\ parcel' = [parcel EXCEPT ![b] = "live"]
                                /\ req' = [req EXCEPT ![r].pc = "booked", ![r].booking = b]
      BY <2>2 DEF CarrierBooks, Offers
    <3>2. Working = {}
      BY <2>2, BookingAlone DEF CarrierBooks
    <3>3. Working' \subseteq {b}
      BY <2>2, <3>1, <3>2 DEF CarrierBooks, Working, TypeOK
    <3>4. req'[r].pc = "booked" /\ req'[r].booking = b
      BY <3>1 DEF TypeOK, Request
    <3>5. \A q \in Requests : req'[q].pc # "cancelled"
      BY <2>2, <3>1, <3>4 DEF CarrierBooks, LockInv, TypeOK, Holding
    <3> QED
      BY <2>2, <3>3, <3>4, <3>5 DEF CarrierBooks, ParcelInv, LateAwb, SellerAwb
  <2>3. CASE BookingUnheard(r)
    <3>1. ~LateAwb /\ ~SellerAwb
      BY <2>3, LateAlone, SellerHeard DEF BookingUnheard
    <3>2. PICK b \in Bookings : /\ parcel' = [parcel EXCEPT ![b] = "live"]
                                /\ unheard' = unheard \cup {b}
      BY <2>3 DEF BookingUnheard, Offers
    <3>3. Working' \subseteq Working
      BY <2>3, <3>2 DEF Working, TypeOK
    <3>4. /\ \A q \in Requests : q # r => req'[q] = req[q]
          /\ req[r].pc # "booked" /\ req'[r].pc # "cancelled"
      BY <2>3, GivenUp
    <3>5. \A q \in Requests : req'[q].pc # "cancelled"
      BY <2>3, <3>4 DEF BookingUnheard, LockInv, Holding
    <3> QED
      BY <2>3, <3>1, <3>3, <3>4, <3>5, ParcelFrame DEF BookingUnheard
  <2>4. CASE BookingRefused(r)
    <3>1. /\ Working' = Working
          /\ \A q \in Requests : q # r => req'[q] = req[q]
          /\ req[r].pc # "booked" /\ req'[r].pc # "cancelled"
      BY <2>4, GivenUp DEF BookingRefused, Working
    <3> QED
      BY <2>4, <3>1, ParcelFrame DEF BookingRefused, ParcelInv
  <2>5. CASE BookCommit(r)
    <3>1. Working' = Working /\ \A b \in Working : b = req[r].booking
      BY <2>5, BookingAlone DEF BookCommit, Working
    <3>2. \A q \in Requests : req'[q].pc # "cancelled"
      BY <2>5 DEF BookCommit, Finish, Idle, LockInv, Holding, TypeOK
    <3> QED
      BY <2>5, <3>1, <3>2 DEF BookCommit, ParcelInv, LateAwb, SellerAwb
  <2>6. CASE CancelLock(r)
    <3>1. /\ Working' = Working
          /\ \A q \in Requests : q # r => req'[q] = req[q]
          /\ req[r].pc = "idle" /\ req'[r].pc = "cancelling"
      BY <2>6 DEF CancelLock, Take, TypeOK, Working, Idle
    <3> QED
      BY <2>6, <3>1, ParcelFrame DEF CancelLock, ParcelInv
  <2>7. CASE CarrierCancels(r)
    <3> DEFINE a == req[r].booking
    <3>1. /\ a = awb /\ a \in Bookings /\ ostate = "FULFILLING" /\ lock = r
          /\ parcel[a] = "live"
      BY <2>7 DEF CarrierCancels, LockInv, Holding
    <3>2. shipId # NoBooking => a = shipId
      <4>1. CASE ~LateAwb /\ ~SellerAwb
        BY <3>1, <4>1 DEF RowInv
      <4>2. CASE LateAwb \/ SellerAwb
        <5>1. a \in Working
          BY <3>1, <4>2 DEF Working, ParcelInv
        <5>2. \A q \in Requests : req[q].pc # "booked"
          BY <2>7, <3>1 DEF CarrierCancels, LockInv, Holding
        <5> QED
          BY <5>1, <5>2 DEF ParcelInv
      <4> QED
        BY <4>1, <4>2
    <3>3. Working' \subseteq Working
      BY <2>7 DEF CarrierCancels, Working, TypeOK
    <3>4. /\ \A q \in Requests : q # r => req'[q] = req[q] /\ req[q].pc # "cancelled"
          /\ req[r].pc # "booked" /\ req'[r].booking = a
      BY <2>7, <3>1 DEF CarrierCancels, LockInv, Holding, TypeOK, Request
    <3>5. shipId # NoBooking => parcel'[shipId] = "cancelled"
      BY <2>7, <3>1, <3>2 DEF CarrierCancels, TypeOK
    <3> QED
      BY <2>7, <3>2, <3>3, <3>4, <3>5 DEF CarrierCancels, ParcelInv, LateAwb, SellerAwb
  <2>8. CASE CancelUnheard(r)
    <3>1. Working' \subseteq Working
      BY <2>8 DEF CancelUnheard, Working, TypeOK
    <3>2. /\ \A q \in Requests : q # r => req'[q] = req[q] /\ req[q].pc # "cancelled"
          /\ req[r].pc # "booked" /\ req'[r].pc # "cancelled"
      BY <2>8 DEF CancelUnheard, Finish, Idle, LockInv, Holding, TypeOK
    <3> QED
      BY <2>8, <3>1, <3>2, ParcelFrame DEF CancelUnheard, ParcelInv
  <2>9. CASE CancelRefused(r)
    <3>1. /\ Working' = Working
          /\ \A q \in Requests : q # r => req'[q] = req[q]
          /\ req[r].pc # "booked" /\ req'[r].pc # "cancelled"
      BY <2>9 DEF CancelRefused, Finish, Idle, TypeOK, Working
    <3> QED
      BY <2>9, <3>1, ParcelFrame DEF CancelRefused, ParcelInv
  <2>10. CASE CancelCommit(r)
    <3>1. \A q \in Requests : req[q].pc # "booked"
      BY <2>10 DEF CancelCommit, LockInv, Holding
    <3>2. Working = {}
      BY <2>10, <3>1, BookingConstants DEF CancelCommit, ParcelInv, Working
    <3>3. Working' = {}
      BY <2>10, <3>2 DEF CancelCommit, Working
    <3>4. \A q \in Requests : req'[q].pc # "cancelled"
      BY <2>10 DEF CancelCommit, Finish, Idle, LockInv, Holding, TypeOK
    <3> QED
      BY <2>10, <3>3, <3>4 DEF CancelCommit, ParcelInv, LateAwb, SellerAwb
  <2>11. ASSUME NEW b \in Bookings, NEW report \in Reports, EventMatched(r, b, report)
         PROVE  ParcelInv'
    <3>1. /\ Working' = Working
          /\ \A q \in Requests : q # r => req'[q] = req[q]
          /\ req[r].pc # "booked" /\ req'[r].pc # "cancelled"
      BY <2>11 DEF EventMatched, TypeOK, Working
    <3> QED
      BY <2>11, <3>1, ParcelFrame DEF EventMatched, ParcelInv
  <2>12. CASE EventWrite(r)
    <3>1. ostate' \in {ostate, "RECEIVED", "DISPUTED"} /\ shipId' = shipId
      BY <2>12, EventWrites DEF EventWrite
    <3>2. /\ Working' = Working
          /\ \A q \in Requests : q # r => req'[q] = req[q]
          /\ req[r].pc # "booked" /\ req'[r].pc # "cancelled"
      BY <2>12 DEF EventWrite, Finish, Idle, TypeOK, Working
    <3> QED
      BY <2>12, <3>1, <3>2, ParcelFrame DEF EventWrite, ParcelInv
  <2>13. CASE Crash(r)
    <3>1. ~LateAwb /\ ~SellerAwb
      BY <2>13, LateAlone, SellerHeard DEF Crash
    <3>2. Working' \subseteq Working
      BY <2>13 DEF Crash, Working
    <3>3. /\ \A q \in Requests : q # r => req'[q] = req[q]
          /\ req'[r].pc = "idle"
          /\ req[r].pc = "booked" => req[r].booking \notin Working'
      BY <2>13 DEF Crash, Finish, Idle, TypeOK, Working
    <3> QED
      BY <2>13, <3>1, <3>2, <3>3, ParcelFrame DEF Crash
  <2> QED
    BY <1>1, <2>1, <2>2, <2>3, <2>4, <2>5, <2>6, <2>7, <2>8, <2>9, <2>10, <2>11,
       <2>12, <2>13 DEF Step
<1>2. ASSUME NEW b \in Bookings, NEW report \in Reports, ApplyEvent(ostate, awb, b, report),
             UNCHANGED <<req, parcel, unheard, faults>>
      PROVE  ParcelInv'
  BY <1>2, EventWrites, ParcelFrame DEF ParcelInv, Working
<1>3. ASSUME NEW to \in OrderState, OtherHandler(to) PROVE ParcelInv'
  <2>1. LateAwb => to # "ESCROW_HELD"
    BY <1>3, LateAlone DEF OtherHandler
  <2> QED
    BY <1>3, <2>1, ParcelFrame DEF OtherHandler, ParcelInv, Working
<1>7. ASSUME NEW told \in Bookings \cup {OwnAwb}, SellerStatus(told) PROVE ParcelInv'
  BY <1>7, ParcelFrame DEF SellerStatus, ParcelInv, Working
<1>8. CASE SellerShipped \/ AdminDelivered
  <2>1. Working' = Working /\ ostate' # "ESCROW_HELD" /\ UNCHANGED <<req, shipId, parcel, faults, unheard>>
    BY <1>8 DEF SellerShipped, AdminDelivered, Working
  <2> QED
    BY <2>1, ParcelFrame DEF ParcelInv
<1>4. CASE SwitchCarrier
  BY <1>4, ParcelFrame DEF SwitchCarrier, ParcelInv, Working
<1>5. ASSUME NEW b \in Bookings, CourierEnds(b) PROVE ParcelInv'
  <2>1. Working' \subseteq Working
    BY <1>5 DEF CourierEnds, Working, TypeOK
  <2>2. ASSUME NEW q \in Requests, req[q].pc = "cancelled", shipId # NoBooking
        PROVE  parcel'[shipId] = parcel[shipId]
    <3>1. shipId \in Bookings /\ parcel[shipId] = "cancelled"
      BY <2>2 DEF ParcelInv, LockInv, TypeOK
    <3> QED
      BY <1>5, <3>1 DEF CourierEnds, TypeOK
  <2> QED
    BY <1>5, <2>1, <2>2, ParcelFrame DEF CourierEnds, ParcelInv
<1>6. CASE UNCHANGED vars
  BY <1>6, ParcelFrame DEF vars, ParcelInv, Working
<1> QED
  BY <1>1, <1>2, <1>3, <1>4, <1>5, <1>6, <1>7, <1>8 DEF Next, EventByOrderId, RefreshTracking

\* The invariant of the run, for every instance of OneLiveHere.
THEOREM ShipInvariance == OneLiveHere => (Spec => []ShipInv)
<1> SUFFICES ASSUME OneLiveHere PROVE Spec => []ShipInv
  OBVIOUS
<1>1. Init => ShipInv
  BY TypeInit, InvInit DEF ShipInv
<1>2. ShipInv /\ [Next]_vars => ShipInv'
  BY TypeStep, LockStep, RowStep, ParcelStep DEF ShipInv
<1> QED
  BY <1>1, <1>2, PTL DEF Spec

\* An order never has two shipments under way that its carriers told the BAP
\* of: book_shipment() calls a carrier only under the lock and only when
\* the row shows neither a shipment nor an AWB.
THEOREM OneLiveBookingHolds == OneLiveHere => (Spec => []OneLiveBooking)
<1> SUFFICES ASSUME OneLiveHere PROVE Spec => []OneLiveBooking
  OBVIOUS
<1>1. ShipInv => OneLiveBooking
  <2> SUFFICES ASSUME ShipInv, NEW b \in Working, NEW c \in Working PROVE b = c
    BY DEF OneLiveBooking
  <2> USE DEF ShipInv
  <2>1. CASE \E r \in Requests : req[r].pc = "booked"
    BY <2>1, BookingAlone
  <2>2. CASE \A r \in Requests : req[r].pc # "booked"
    BY <2>2 DEF ParcelInv
  <2> QED
    BY <2>1, <2>2
<1> QED
  BY <1>1, ShipInvariance, PTL
-----------------------------------------------------------------------------
(* The release clock.                                                      *)

\* A parcel that was ever delivered is the one the row names, once nobody is
\* about to commit a booking.
LEMMA DeliveredIsOurs ==
  ASSUME TypeOK, LockInv, ClockFacts, RowFree, NEW b \in Bookings, parcel[b] = "delivered"
  PROVE  shipId = b
<1>1. \A r \in Requests : req[r].pc # "booked"
  BY FreeRow DEF Holding
<1> QED
  BY <1>1 DEF ClockFacts

\* A report that finds the row free, of a delivery that took place, starts the
\* clock of the order's own shipment.
LEMMA EventKeepsClock ==
  ASSUME TypeOK, LockInv, ClockFacts, RowFree, NEW b \in Bookings, NEW report \in Reports,
         NEW state, NEW seenAwb, ApplyEvent(state, seenAwb, b, report),
         report = "delivered" => parcel[b] = "delivered"
  PROVE  clock' /\ "delivered" \notin byHand' => shipId # NoBooking /\ parcel[shipId] = "delivered"
<1>1. CASE report = "delivered"
  BY <1>1, DeliveredIsOurs, BookingConstants
<1>2. CASE report # "delivered"
  BY <1>2 DEF ApplyEvent, ClockFacts
<1> QED
  BY <1>1, <1>2

\* The clock goes on running for the order's shipment, whatever webhooks, polls,
\* cancellations and other handlers write.
LEMMA ClockStep ==
  TypeOK /\ TypeOK' /\ LockInv /\ RowInv /\ ClockInv /\ [Next]_vars => ClockInv'
<1> SUFFICES ASSUME TypeOK, TypeOK', LockInv, RowInv, ClockInv, [Next]_vars,
                    ~LateAwb', unheard' = {}
             PROVE  ClockFacts'
  BY DEF ClockInv
<1>0. ClockFacts /\ ~LateAwb /\ unheard = {}
  <2>1. faults' = faults
    BY DEF Next, Step, vars, BookLock, CarrierBooks, BookingUnheard, BookingRefused,
           BookCommit, CancelLock, CarrierCancels, CancelUnheard, CancelRefused,
           CancelCommit, EventMatched, EventWrite, Crash, EventByOrderId,
           RefreshTracking, SellerStatus, SellerShipped, AdminDelivered, OtherHandler,
           SwitchCarrier, CourierEnds, world
  <2>2. unheard \subseteq unheard'
    BY DEF Next, Step, vars, BookLock, CarrierBooks, BookingUnheard, BookingRefused,
           BookCommit, CancelLock, CarrierCancels, CancelUnheard, CancelRefused,
           CancelCommit, EventMatched, EventWrite, Crash, EventByOrderId,
           RefreshTracking, SellerStatus, SellerShipped, AdminDelivered, OtherHandler,
           SwitchCarrier, CourierEnds, world
  <2> QED
    BY <2>1, <2>2 DEF LateAwb, ClockInv
<1> USE <1>0
<1>1. ASSUME NEW r \in Requests, Step(r) PROVE ClockFacts'
  <2>1. CASE BookLock(r)
    BY <2>1 DEF BookLock, Take, Idle, TypeOK, ClockFacts, order, world
  <2>2. CASE CarrierBooks(r)
    <3>1. PICK b \in Bookings : /\ parcel[b] = "none"
                                /\ parcel' = [parcel EXCEPT ![b] = "live"]
                                /\ req' = [req EXCEPT ![r].pc = "booked", ![r].booking = b]
      BY <2>2 DEF CarrierBooks, Offers, Bookings
    <3>2. /\ req'[r].pc = "booked" /\ req'[r].booking = b
          /\ \A q \in Requests : q # r => req'[q] = req[q]
          /\ req[r].pc \in {"calling", "recalling"}
          /\ UNCHANGED <<shipId, clock, byHand>>
      BY <2>2, <3>1 DEF CarrierBooks, TypeOK, Request, order
    <3>3. \A c \in Bookings : c # b => parcel'[c] = parcel[c]
      BY <3>1 DEF TypeOK
    <3>4. parcel'[b] = "live"
      BY <3>1 DEF TypeOK
    <3>5. \A q \in Requests : req[q].pc \in {"cancelling", "cancelled"} => FALSE
      BY <3>2, OneHolder DEF Holding
    <3>6. ASSUME NEW c \in Bookings, parcel'[c] \in {"live", "delivered"}
          PROVE  shipId = c \/ \E q \in Requests : req'[q].pc = "booked" /\ req'[q].booking = c
      BY <3>2, <3>3, <3>6 DEF ClockFacts
    <3>7. ASSUME NEW q \in Requests, req'[q].pc = "matched", req'[q].report = "delivered"
          PROVE  parcel'[req'[q].booking] = "delivered"
      BY <3>1, <3>2, <3>3, <3>7 DEF ClockFacts, TypeOK
    <3>8. clock /\ "delivered" \notin byHand => shipId # NoBooking /\ parcel'[shipId] = "delivered"
      BY <3>1, <3>3 DEF ClockFacts, TypeOK
    <3> QED
      BY <3>2, <3>5, <3>6, <3>7, <3>8 DEF ClockFacts
  <2>3. CASE BookingUnheard(r) \/ BookingRefused(r)
    <3>1. parcel' = parcel
      BY <2>3 DEF BookingUnheard, BookingRefused, world
    <3>2. UNCHANGED <<shipId, clock, byHand>>
      BY <2>3 DEF BookingUnheard, BookingRefused, order
    <3> QED
      BY <2>3, <3>1, <3>2, GivenUp DEF ClockFacts
  <2>4. CASE BookCommit(r)
    <3>1. /\ req[r].pc = "booked" /\ shipId' = req[r].booking /\ parcel' = parcel
          /\ clock' = clock /\ ("delivered" \in byHand' <=> "delivered" \in byHand)
          /\ req'[r].pc = "idle"
          /\ \A q \in Requests : q # r => req'[q] = req[q]
      BY <2>4 DEF BookCommit, Finish, Idle, TypeOK, world
    <3>2. shipId = NoBooking
      BY <3>1, BookingConstants DEF LockInv, RowInv
    <3>3. \A b \in Bookings : parcel[b] \in {"live", "delivered"} => b = req[r].booking
      BY <3>1, <3>2, OneHolder, BookingConstants DEF ClockFacts, Holding
    <3>4. \A q \in Requests : req'[q].pc # "cancelled"
      BY <3>1, OneHolder DEF Holding
    <3>5. ~(clock' /\ "delivered" \notin byHand')
      BY <3>1, <3>2 DEF ClockFacts
    <3> QED
      BY <3>1, <3>3, <3>4, <3>5 DEF ClockFacts
  <2>5. CASE CancelLock(r) \/ CancelRefused(r)
    <3>1. /\ req'[r].pc \in {"cancelling", "idle"} /\ req[r].pc # "booked"
          /\ \A q \in Requests : q # r => req'[q] = req[q]
          /\ UNCHANGED <<shipId, clock, byHand, parcel>>
      <4>1. CASE CancelLock(r)
        BY <4>1 DEF CancelLock, Take, Idle, TypeOK, order, world
      <4>2. CASE CancelRefused(r)
        BY <4>2 DEF CancelRefused, Finish, Idle, TypeOK, order, world
      <4> QED
        BY <2>5, <4>1, <4>2
    <3> QED
      BY <3>1 DEF ClockFacts
  <2>6. CASE CarrierCancels(r) \/ CancelUnheard(r)
    <3>1. /\ parcel' = [parcel EXCEPT ![req[r].booking] = "cancelled"]
          /\ parcel[req[r].booking] = "live" /\ req[r].booking \in Bookings
          /\ \A q \in Requests : q # r => req'[q] = req[q]
          /\ req[r].pc = "cancelling" /\ req'[r].pc \in {"cancelled", "idle"}
          /\ req'[r].pc = "cancelled" => req'[r].booking = req[r].booking
          /\ UNCHANGED <<shipId, clock, byHand>>
          /\ shipId = req[r].booking
      BY <2>6, OneHolder DEF Holding, ClockFacts, CarrierCancels, CancelUnheard, Finish, Idle, TypeOK, Request, order, Bookings
    <3>2. \A c \in Bookings : parcel'[c] # "cancelled" => parcel'[c] = parcel[c]
      BY <3>1 DEF TypeOK
    <3>3. \A c \in Bookings : parcel[c] # "live" => parcel'[c] = parcel[c]
      BY <3>1 DEF TypeOK
    <3>4. parcel'[req[r].booking] = "cancelled"
      BY <3>1 DEF TypeOK
    <3>5. ASSUME NEW q \in Requests
          PROVE  /\ req'[q].pc = "cancelled"
                      => req'[q].booking = shipId /\ parcel'[req'[q].booking] = "cancelled"
                 /\ req'[q].pc = "matched" /\ req'[q].report = "delivered"
                      => parcel'[req'[q].booking] = "delivered"
      <4>1. CASE q = r
        BY <3>1, <3>4, <4>1
      <4>2. CASE q # r
        <5>1. req[q].pc # "cancelled"
          BY <3>1, <4>2, OneHolder DEF Holding
        <5> QED
          BY <3>1, <3>3, <4>2, <5>1 DEF ClockFacts, TypeOK
      <4> QED
        BY <4>1, <4>2
    <3>6. ASSUME NEW c \in Bookings, parcel'[c] \in {"live", "delivered"}
          PROVE  shipId = c \/ \E q \in Requests : req'[q].pc = "booked" /\ req'[q].booking = c
      BY <3>1, <3>2, <3>6 DEF ClockFacts
    <3>7. clock /\ "delivered" \notin byHand => shipId # NoBooking /\ parcel'[shipId] = "delivered"
      BY <3>3 DEF ClockFacts, TypeOK
    <3> QED
      BY <3>1, <3>5, <3>6, <3>7 DEF ClockFacts
  <2>7. CASE CancelCommit(r)
    <3>1. /\ req[r].pc = "cancelled" /\ shipId' = NoBooking /\ parcel' = parcel
          /\ clock' = clock /\ ("delivered" \in byHand' <=> "delivered" \in byHand)
          /\ req'[r].pc = "idle"
          /\ \A q \in Requests : q # r => req'[q] = req[q]
      BY <2>7 DEF CancelCommit, Finish, Idle, TypeOK, world
    <3>2. shipId = req[r].booking /\ parcel[shipId] = "cancelled"
      BY <3>1 DEF ClockFacts
    <3>3. \A q \in Requests : req'[q].pc # "cancelled"
      BY <3>1, OneHolder DEF Holding
    <3> QED
      BY <3>1, <3>2, <3>3 DEF ClockFacts
  <2>8. ASSUME NEW b \in Bookings, NEW report \in Reports, EventMatched(r, b, report)
        PROVE  ClockFacts'
    <3>1. report = "delivered" => parcel[b] = "delivered"
      BY <2>8 DEF EventMatched, Reported
    <3> QED
      BY <2>8, <3>1 DEF EventMatched, TypeOK, ClockFacts, order, world
  <2>9. CASE EventWrite(r)
    <3>1. /\ req[r].pc = "matched" /\ req[r].booking \in Bookings /\ req[r].report \in Reports
          /\ RowFree /\ UNCHANGED <<shipId, parcel>> /\ req'[r].pc = "idle"
          /\ \A q \in Requests : q # r => req'[q] = req[q]
          /\ ApplyEvent(req[r].state, req[r].awb, req[r].booking, req[r].report)
      BY <2>9 DEF EventWrite, ApplyEvent, Finish, Idle, TypeOK, Request
    <3>2. req[r].report = "delivered" => parcel[req[r].booking] = "delivered"
      BY <3>1 DEF ClockFacts
    <3>3. clock' /\ "delivered" \notin byHand' => shipId # NoBooking /\ parcel[shipId] = "delivered"
      BY <3>1, <3>2, EventKeepsClock
    <3> QED
      BY <3>1, <3>3 DEF ClockFacts
  <2>10. CASE Crash(r)
    <3>1. /\ req[r].pc # "booked" /\ req'[r].pc = "idle"
          /\ \A q \in Requests : q # r => req'[q] = req[q]
          /\ UNCHANGED <<shipId, clock, byHand, parcel>>
      BY <2>10 DEF Crash, Finish, Idle, TypeOK, order
    <3> QED
      BY <3>1 DEF ClockFacts
  <2> QED
    BY <1>1, <2>1, <2>2, <2>3, <2>4, <2>5, <2>6, <2>7, <2>8, <2>9, <2>10 DEF Step
<1>2. ASSUME NEW b \in Bookings, NEW report \in Reports, EventByOrderId(b, report)
      PROVE  ClockFacts'
  <2>1. /\ RowFree /\ UNCHANGED <<shipId, parcel, req>> /\ ApplyEvent(ostate, awb, b, report)
        /\ report = "delivered" => parcel[b] = "delivered"
    BY <1>2 DEF EventByOrderId, ApplyEvent, Reported
  <2> QED
    BY <2>1, EventKeepsClock DEF ClockFacts
<1>3. ASSUME NEW report \in Reports, RefreshTracking(report)
      PROVE  ClockFacts'
  <2>1. /\ RowFree /\ UNCHANGED <<shipId, parcel, req>> /\ awb \in Bookings
        /\ ApplyEvent(ostate, awb, awb, report)
        /\ report = "delivered" => parcel[awb] = "delivered"
    BY <1>3 DEF RefreshTracking, ApplyEvent, Reported, world, Bookings
  <2> QED
    BY <2>1, EventKeepsClock DEF ClockFacts
<1>4. ASSUME NEW b \in Bookings, CourierEnds(b)
      PROVE  ClockFacts'
  <2>1. /\ parcel[b] = "live" /\ parcel'[b] \in {"delivered", "cancelled"}
        /\ \A c \in Bookings : c # b => parcel'[c] = parcel[c]
        /\ UNCHANGED <<shipId, clock, byHand, req>>
    BY <1>4 DEF CourierEnds, TypeOK, order
  <2>2. \A c \in Bookings : parcel[c] # "live" => parcel'[c] = parcel[c]
    BY <2>1
  <2>3. ASSUME NEW q \in Requests
        PROVE  /\ req[q].pc = "cancelled"
                    => req[q].booking = shipId /\ parcel'[req[q].booking] = "cancelled"
               /\ req[q].pc = "matched" /\ req[q].report = "delivered"
                    => parcel'[req[q].booking] = "delivered"
    <3>1. req[q].pc = "cancelled" => req[q].booking \in Bookings
      BY BookingConstants DEF LockInv, ClockFacts, TypeOK, Request
    <3> QED
      BY <2>2, <3>1 DEF ClockFacts, TypeOK
  <2>4. clock /\ "delivered" \notin byHand => shipId # NoBooking /\ parcel'[shipId] = "delivered"
    BY <2>2 DEF ClockFacts, TypeOK
  <2>5. ASSUME NEW c \in Bookings, parcel'[c] \in {"live", "delivered"}
        PROVE  shipId = c \/ \E q \in Requests : req[q].pc = "booked" /\ req[q].booking = c
    BY <2>1, <2>5 DEF ClockFacts
  <2> QED
    BY <2>1, <2>3, <2>4, <2>5 DEF ClockFacts
<1>5. ASSUME UNCHANGED <<shipId, clock, byHand, parcel, req>>
      PROVE  ClockFacts'
  BY <1>5 DEF ClockFacts
<1>6. ASSUME UNCHANGED <<shipId, parcel, req>>,
             clock' /\ "delivered" \notin byHand' => clock /\ "delivered" \notin byHand
      PROVE  ClockFacts'
  BY <1>6 DEF ClockFacts
<1> QED
  <2>1. SellerShipped \/ AdminDelivered \/ (\E told \in Bookings \cup {OwnAwb} : SellerStatus(told))
          => ClockFacts'
    BY <1>6 DEF SellerShipped, AdminDelivered, SellerStatus
  <2> QED
    BY <1>1, <1>2, <1>3, <1>4, <1>5, <2>1
       DEF Next, OtherHandler, SwitchCarrier, vars, world, order

\* The release clock starts only when the parcel of the order's booking has been
\* delivered, unless an admin starts it, in every instance in which the carriers'
\* answers arrive with their AWB: neither a late report of a cancelled booking nor
\* a status asked for an AWB that the seller told starts it.
THEOREM ClockStartsHolds == Spec => []ClockStartsOnDelivery
<1>1. Init => TypeOK /\ LockInv /\ RowInv /\ ClockInv
  <2> SUFFICES ASSUME Init PROVE TypeOK /\ LockInv /\ RowInv /\ ClockInv
    OBVIOUS
  <2>1. \A r \in Requests : req[r].pc = "idle"
    BY DEF Init, Idle
  <2> QED
    BY <2>1, TypeInit, InvInit DEF Init, ClockInv, ClockFacts
<1>2. TypeOK /\ RowInv /\ ClockInv => ClockStartsOnDelivery
  BY DEF RowInv, ClockInv, ClockFacts, LateAwb, ClockStartsOnDelivery
<1> QED
  BY <1>1, <1>2, TypeStep, LockStep, RowStep, ClockStep, PTL DEF Spec
=============================================================================
