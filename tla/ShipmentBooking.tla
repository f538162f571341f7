-------------------------- MODULE ShipmentBooking --------------------------
(***************************************************************************)
(* Booking, cancelling and tracking the shipment of one order that is      *)
(* paid: the order row, the requests that write it while they call the     *)
(* carrier, the carrier's parcels and its webhooks, which arrive late,     *)
(* again, or before the booking that caused them is committed.             *)
(*                                                                         *)
(* book_shipment() and cancel_shipment() hold the row lock across the      *)
(* carrier call, so the call and the commit are steps of their own.  A     *)
(* webhook is matched by the carrier's id with a plain SELECT, or by our   *)
(* order id with a locking one.  A booking stands for its AWB and for the  *)
(* carrier's id of it alike; of the two columns for that id at most one is *)
(* set, so shipId is their union.  The seller's Beckn app may tell an AWB  *)
(* that is not the booking's, and an admin may ship and deliver by hand.   *)
(* What else handlers do to the order is EscrowOrder's subject and         *)
(* abstracted here to the states they write.                               *)
(***************************************************************************)
EXTENDS OrderStates, Naturals

CONSTANTS
    Requests,     \* requests that can be in flight together
    Jubelio,      \* bookings Jubelio can be asked to make
    Biteship,     \* bookings Biteship can be asked to make
    FaultSets,    \* the faults of a behaviour are one of these sets
    OwnAwb,       \* an AWB of the seller's own, which neither carrier knows
    NoReq, NoBooking  \* model values

Bookings == Jubelio \cup Biteship

Awbs == Bookings \cup {OwnAwb, NoBooking}

\* The process dies in a request; a carrier books and its answer is lost; a
\* carrier answers a booking before it has allotted the AWB; a Dipay or Sento
\* payment webhook writes ESCROW_HELD from the copy it loaded before; the
\* seller's Beckn app tells a tracking id of its choice; an admin ships or
\* delivers the order by hand.
FaultKinds == {"crash", "lost_answer", "late_awb", "stale_payment", "seller_awb", "by_hand"}

ASSUME BookingConstants ==
    /\ Jubelio \cap Biteship = {}
    /\ NoReq \notin Requests
    /\ NoBooking \notin Bookings /\ OwnAwb \notin Bookings \cup {NoBooking}
    /\ FaultSets \subseteq SUBSET FaultKinds

VARIABLES
    ostate,    \* Order.state, as committed
    awb,       \* Order.fulfillment_awb
    shipId,    \* Order.jubelio_shipment_id, Order.biteship_order_id
    clock,     \* Order.auto_release_at is set: the release clock runs
    byHand,    \* history: what the seller's app and admins wrote by hand
    lock,      \* request holding the FOR UPDATE lock on the order row
    req,       \* requests in flight
    active,    \* active_carrier() of the order's brand
    parcel,    \* at the carriers: what became of each booking
    acked,     \* bookings whose last status was answered with 200
    unheard,   \* bookings whose answer never reached a commit
    faults     \* what may go wrong in this behaviour

order == <<ostate, awb, shipId, clock, byHand>>
world == <<active, parcel, acked, unheard, faults>>
vars  == <<ostate, awb, shipId, clock, byHand, lock, req, active, parcel,
           acked, unheard, faults>>

\* "calling" and "recalling" are the two tries of a Jubelio booking; those
\* two, "booked", "cancelling" and "cancelled" hold the row lock.  "matched"
\* is a webhook that found the order by the carrier's id, without a lock.
Stages  == {"idle", "calling", "recalling", "booked", "cancelling",
            "cancelled", "matched"}
Holding == {"calling", "recalling", "booked", "cancelling", "cancelled"}

Reports == {"transit", "delivered", "cancelled"}

\* A request: its stage, the booking it is about, and for "matched" the
\* carrier's report and the state and AWB its copy of the order shows.
Request == [pc : Stages, booking : Awbs, report : Reports,
            state : OrderState, awb : Awbs]

Idle == [pc |-> "idle", booking |-> NoBooking, report |-> "transit",
         state |-> "ESCROW_HELD", awb |-> NoBooking]

TypeOK ==
    /\ ostate \in OrderState
    /\ awb \in Awbs
    /\ shipId \in Bookings \cup {NoBooking}
    /\ clock \in BOOLEAN
    /\ byHand \subseteq {"awb", "shipped", "delivered"}
    /\ lock \in Requests \cup {NoReq}
    /\ req \in [Requests -> Request]
    /\ \A r \in Requests :
         req[r].pc \in {"booked", "matched"} => req[r].booking \in Bookings
    /\ active \in {"jubelio", "biteship"}
    /\ parcel \in [Bookings -> {"none", "live", "delivered", "cancelled"}]
    /\ acked \subseteq Bookings
    /\ unheard \subseteq Bookings
    /\ faults \in FaultSets

\* A paid order, as mark_order_paid() leaves it.
Init ==
    /\ ostate = "ESCROW_HELD"
    /\ awb = NoBooking /\ shipId = NoBooking /\ clock = FALSE /\ byHand = {}
    /\ lock = NoReq
    /\ req = [r \in Requests |-> Idle]
    /\ active \in {"jubelio", "biteship"}
    /\ parcel = [b \in Bookings |-> "none"]
    /\ acked = {} /\ unheard = {}
    /\ faults \in FaultSets
-----------------------------------------------------------------------------
(* Building blocks.                                                        *)

RowFree == lock = NoReq

\* Lock the order row and go on at stage pc, about booking b.
Take(r, pc, b) ==
    /\ req[r].pc = "idle" /\ RowFree
    /\ lock' = r
    /\ req' = [req EXCEPT ![r] = [Idle EXCEPT !.pc = pc, !.booking = b]]

\* The session commits or rolls back, which drops the lock it holds.
Finish(r) ==
    /\ req' = [req EXCEPT ![r] = Idle]
    /\ lock' = IF lock = r THEN NoReq ELSE lock

\* A carrier the brand uses now, and the bookings it can make.
Offers == IF active = "jubelio" THEN Jubelio ELSE Biteship
-----------------------------------------------------------------------------
(* book_shipment() and carriers.book().                                    *)

BookLock_bug(r) ==  \* the double-booking guard is missing
    /\ Take(r, "calling", NoBooking)
    /\ ostate = "ESCROW_HELD"
    /\ UNCHANGED <<order, world>>

BookLock(r) ==
    /\ Take(r, "calling", NoBooking)
    /\ ostate = "ESCROW_HELD" /\ awb = NoBooking
    /\ UNCHANGED <<order, world>>

\* The carrier books.  Bound: while it has a booking id left.
CarrierBooks(r) ==
    /\ req[r].pc \in {"calling", "recalling"}
    /\ \E b \in Offers :
         /\ parcel[b] = "none"
         /\ parcel' = [parcel EXCEPT ![b] = "live"]
         /\ req' = [req EXCEPT ![r].pc = "booked", ![r].booking = b]
    /\ UNCHANGED <<order, lock, active, acked, unheard, faults>>

\* It books, but answers with a timeout of its own or not at all.
BookingUnheard(r) ==
    /\ "lost_answer" \in faults
    /\ req[r].pc \in {"calling", "recalling"}
    /\ \E b \in Offers :
         /\ parcel[b] = "none"
         /\ parcel' = [parcel EXCEPT ![b] = "live"]
         /\ unheard' = unheard \cup {b}
    /\ \/ /\ req[r].pc = "calling" /\ active = "jubelio"
          /\ req' = [req EXCEPT ![r].pc = "recalling"]
          /\ UNCHANGED lock
       \/ Finish(r)
    /\ UNCHANGED <<order, active, acked, faults>>

\* It refuses: a Jubelio upstream timeout is tried once more, everything else
\* is a 502 and a rollback.
BookingRefused(r) ==
    /\ req[r].pc \in {"calling", "recalling"}
    /\ \/ /\ req[r].pc = "calling" /\ active = "jubelio"
          /\ req' = [req EXCEPT ![r].pc = "recalling"]
          /\ UNCHANGED lock
       \/ Finish(r)
    /\ UNCHANGED <<order, world>>

BookCommit(r) ==
    /\ req[r].pc = "booked"
    /\ shipId' = req[r].booking
    /\ \/ awb' = req[r].booking
       \/ "late_awb" \in faults /\ awb' = NoBooking
    /\ ostate' = "FULFILLING"
    /\ byHand' = byHand \ {"awb", "shipped"}
    /\ Finish(r)
    /\ UNCHANGED <<clock, world>>
-----------------------------------------------------------------------------
(* cancel_shipment() and carriers.cancel().                                *)

CancelLock(r) ==
    /\ Take(r, "cancelling", awb)
    /\ ostate = "FULFILLING" /\ awb # NoBooking
    /\ UNCHANGED <<order, world>>

\* Only Jubelio can cancel, only an AWB of its own that is still under way.
CarrierCancels(r) ==
    /\ req[r].pc = "cancelling" /\ active = "jubelio"
    /\ req[r].booking \in Jubelio /\ parcel[req[r].booking] = "live"
    /\ parcel' = [parcel EXCEPT ![req[r].booking] = "cancelled"]
    /\ req' = [req EXCEPT ![r].pc = "cancelled"]
    /\ UNCHANGED <<order, lock, active, acked, unheard, faults>>

CancelUnheard(r) ==
    /\ "lost_answer" \in faults
    /\ req[r].pc = "cancelling" /\ active = "jubelio"
    /\ req[r].booking \in Jubelio /\ parcel[req[r].booking] = "live"
    /\ parcel' = [parcel EXCEPT ![req[r].booking] = "cancelled"]
    /\ Finish(r)
    /\ UNCHANGED <<order, active, acked, unheard, faults>>

\* 409 courier_refused or pickup_window_closed, 501 for Biteship, 502.
CancelRefused(r) ==
    /\ req[r].pc = "cancelling"
    /\ Finish(r)
    /\ UNCHANGED <<order, world>>

CancelCommit(r) ==
    /\ req[r].pc = "cancelled"
    /\ awb' = NoBooking /\ shipId' = NoBooking
    /\ ostate' = "ESCROW_HELD"
    /\ Finish(r)
    /\ UNCHANGED <<clock, byHand, world>>
-----------------------------------------------------------------------------
(* Webhooks of the carriers and refresh_tracking().                        *)

\* What the carrier can report of b: its status, or late, that it was moving.
Reported(b, report) ==
    parcel[b] # "none" /\ report \in {"transit", parcel[b]} \cap Reports

ApplyEvent_bug(state, seenAwb, b, report) ==  \* the AWB is overwritten
    /\ awb' = IF b \in Jubelio THEN b ELSE awb
    /\ clock' = (clock \/ report = "delivered")
    /\ ostate' = CASE report = "delivered" /\ state = "FULFILLING" -> "RECEIVED"
                   [] report = "cancelled" /\ "DISPUTED" \in Allowed[state] -> "DISPUTED"
                   [] OTHER -> ostate
    /\ UNCHANGED <<shipId, byHand>>

ApplyEvent_bug2(state, seenAwb, b, report) ==  \* "out for delivery" is taken for delivered
    /\ awb' = IF b \in Jubelio /\ seenAwb = NoBooking THEN b ELSE awb
    /\ clock' = (clock \/ report # "cancelled")
    /\ ostate' = CASE report # "cancelled" /\ state = "FULFILLING" -> "RECEIVED"
                   [] report = "cancelled" /\ "DISPUTED" \in Allowed[state] -> "DISPUTED"
                   [] OTHER -> ostate
    /\ UNCHANGED <<shipId, byHand>>

\* apply_shipment_event(), or the Biteship handler, on a copy of the order
\* that shows `state' and `seenAwb'.  Only Jubelio's events carry the AWB.
ApplyEvent(state, seenAwb, b, report) ==
    /\ awb' = IF b \in Jubelio /\ seenAwb = NoBooking THEN b ELSE awb
    /\ clock' = (clock \/ report = "delivered")
    /\ ostate' = CASE report = "delivered" /\ state = "FULFILLING" -> "RECEIVED"
                   [] report = "cancelled" /\ "DISPUTED" \in Allowed[state] -> "DISPUTED"
                   [] OTHER -> ostate
    /\ UNCHANGED <<shipId, byHand>>

\* The last status of a booking is acknowledged and not sent again.
Acknowledge(b, report) ==
    acked' = IF report = parcel[b] THEN acked \cup {b} ELSE acked

EventByOrderId_bug(b, report) ==  \* no fallback to ref_no: answered as unmatched
    /\ Reported(b, report)
    /\ shipId # b
    /\ Acknowledge(b, report)
    /\ UNCHANGED <<order, lock, req, active, parcel, unheard, faults>>

\* No order has the carrier's id, at least not when the handler looked: the
\* order is locked by ref_no or reference_id, and this is its first load.
EventByOrderId(b, report) ==
    /\ Reported(b, report) /\ RowFree
    /\ ApplyEvent(ostate, awb, b, report)
    /\ Acknowledge(b, report)
    /\ UNCHANGED <<lock, req, active, parcel, unheard, faults>>

\* The order is found by the carrier's id: a plain SELECT, then the write,
\* which waits for the row lock but not for a fresh copy.
EventMatched(r, b, report) ==
    /\ req[r].pc = "idle"
    /\ Reported(b, report) /\ shipId = b
    /\ req' = [req EXCEPT ![r] = [pc |-> "matched", booking |-> b, report |-> report,
                                  state |-> ostate, awb |-> awb]]
    /\ UNCHANGED <<order, lock, world>>

EventWrite(r) ==
    /\ req[r].pc = "matched" /\ RowFree
    /\ ApplyEvent(req[r].state, req[r].awb, req[r].booking, req[r].report)
    /\ Acknowledge(req[r].booking, req[r].report)
    /\ Finish(r)
    /\ UNCHANGED <<active, parcel, unheard, faults>>

\* The seller polls: locked first, the AWB's status applied like a webhook.
RefreshTracking(report) ==
    /\ RowFree /\ ostate = "FULFILLING" /\ awb \in Jubelio
    /\ Reported(awb, report)
    /\ ApplyEvent(ostate, awb, awb, report)
    /\ UNCHANGED <<lock, req, world>>
-----------------------------------------------------------------------------
(* The rest of the world.                                                  *)

\* handle_on_status(): the seller's app tells a tracking id, its own or that of
\* a booking, and the order's AWB is overwritten in every state.  The copy is
\* loaded without a lock, but what it shows is not written back.
SellerStatus(told) ==
    /\ "seller_awb" \in faults /\ RowFree
    /\ told \in Bookings => parcel[told] # "none"
    /\ awb' = told
    /\ byHand' = byHand \cup {"awb"}
    /\ UNCHANGED <<ostate, shipId, clock, lock, req, world>>

\* mock_seller_shipped(): an admin has the order shipped without a booking.
SellerShipped ==
    /\ "by_hand" \in faults /\ RowFree /\ ostate = "ESCROW_HELD"
    /\ ostate' = "FULFILLING"
    /\ byHand' = byHand \cup {"shipped"}
    /\ UNCHANGED <<awb, shipId, clock, lock, req, world>>

\* mock_delivered(), and again on an order that is received, or mock_elapse_d3():
\* the clock is set with no word of the carrier.
AdminDelivered ==
    /\ "by_hand" \in faults /\ RowFree /\ ostate \in {"FULFILLING", "RECEIVED"}
    /\ ostate' = "RECEIVED" /\ clock' = TRUE
    /\ byHand' = byHand \cup {"delivered"}
    /\ UNCHANGED <<awb, shipId, lock, req, world>>

\* Payment, dispute, confirm, release and refund handlers: the states they
\* write, from any state, which is more than they do.  A late payment webhook
\* can write ESCROW_HELD over anything.
OtherHandler(to) ==
    /\ RowFree
    /\ to \in {"RECEIVED", "DISPUTED", "ESCROW_RELEASED", "REFUNDED"}
         \cup (IF "stale_payment" \in faults THEN {"ESCROW_HELD"} ELSE {})
    /\ ostate' = to
    /\ UNCHANGED <<awb, shipId, clock, byHand, lock, req, world>>

\* The seller's brand turns jubelio_enabled on or off.
SwitchCarrier ==
    /\ active' = IF active = "jubelio" THEN "biteship" ELSE "jubelio"
    /\ UNCHANGED <<order, lock, req, parcel, acked, unheard, faults>>

\* The courier delivers the parcel, or returns, loses or drops it.
CourierEnds(b) ==
    /\ parcel[b] = "live"
    /\ parcel' = [parcel EXCEPT ![b] = "delivered"]
       \/ parcel' = [parcel EXCEPT ![b] = "cancelled"]
    /\ UNCHANGED <<order, lock, req, active, acked, unheard, faults>>

\* The process or its connection dies: the transaction is rolled back.
Crash(r) ==
    /\ "crash" \in faults /\ req[r].pc # "idle"
    /\ unheard' = IF req[r].pc = "booked" THEN unheard \cup {req[r].booking}
                  ELSE unheard
    /\ Finish(r)
    /\ UNCHANGED <<order, active, parcel, acked, faults>>
-----------------------------------------------------------------------------
Step(r) ==
    \/ BookLock(r) \/ CarrierBooks(r) \/ BookingUnheard(r) \/ BookingRefused(r)
    \/ BookCommit(r)
    \/ CancelLock(r) \/ CarrierCancels(r) \/ CancelUnheard(r) \/ CancelRefused(r)
    \/ CancelCommit(r)
    \/ \E b \in Bookings, report \in Reports : EventMatched(r, b, report)
    \/ EventWrite(r) \/ Crash(r)

Next ==
    \/ \E r \in Requests : Step(r)
    \/ \E b \in Bookings, report \in Reports : EventByOrderId(b, report)
    \/ \E report \in Reports : RefreshTracking(report)
    \/ \E told \in Bookings \cup {OwnAwb} : SellerStatus(told)
    \/ SellerShipped \/ AdminDelivered
    \/ \E to \in OrderState : OtherHandler(to)
    \/ SwitchCarrier
    \/ \E b \in Bookings : CourierEnds(b)

Spec == Init /\ [][Next]_vars

\* A request in flight goes on; PostgreSQL queues who waits for the row.
Progress(r) ==
    \/ CarrierBooks(r) \/ BookingUnheard(r) \/ BookingRefused(r) \/ BookCommit(r)
    \/ CarrierCancels(r) \/ CancelUnheard(r) \/ CancelRefused(r) \/ CancelCommit(r)
    \/ EventWrite(r)

\* The carrier sends the last status of a booking until it is acknowledged.
LastStatus(b) ==
    /\ b \notin acked /\ parcel[b] \in {"delivered", "cancelled"}
    /\ \/ EventByOrderId(b, parcel[b])
       \/ \E r \in Requests : EventMatched(r, b, parcel[b])

Fairness ==
    /\ \A r \in Requests : SF_vars(Progress(r))
    /\ \A b \in Bookings : SF_vars(LastStatus(b))

FairSpec == Spec /\ Fairness
-----------------------------------------------------------------------------
(* What must never happen.                                                 *)

\* Bookings the carrier works on and of which it told the BAP.
Working == {b \in Bookings : parcel[b] = "live"} \ unheard

\* An order never has two shipments under way, unless an answer was lost or a
\* process died with it: "a real production incident created three sandbox
\* shipments for one order by missing this check".
OneLiveBooking == \A b, c \in Working : b = c

\* The buyer is shown the AWB of the booking that the order is matched by,
\* whatever late events, stale copies and repeated bookings write ("the first
\* value is what the buyer was told to track"), until the seller's app tells
\* another; and an order in fulfilment has a booking, unless an admin shipped it.
ShipmentIsTracked ==
    "late_awb" \notin faults =>
        /\ shipId # NoBooking /\ "awb" \notin byHand => awb = shipId
        /\ ostate = "FULFILLING" /\ "shipped" \notin byHand => shipId # NoBooking

\* The release clock starts only when the parcel of the order's booking has been
\* delivered, not when some other booking of the order was, nor by a status
\* asked for an AWB that the seller told, unless an admin starts it.
ClockStartsOnDelivery ==
    clock /\ "delivered" \notin byHand /\ unheard = {} /\ "late_awb" \notin faults
        => shipId # NoBooking /\ parcel[shipId] = "delivered"

\* cancel_shipment() clears the AWB "so re-book finds a clean order": an
\* order waiting to be shipped can be booked.
HeldIsBookable == ostate = "ESCROW_HELD" => awb = NoBooking

\* OneLiveBooking is claimed when an AWB that comes late is all that goes wrong
\* (admins may act), and when the seller tells AWBs while every booking is heard
\* of: with a lost answer on top, the AWB of one booking can be stored for
\* another, and cancelling then cancels the wrong parcel.
OneLiveHere ==
    \A F \in FaultSets :
        /\ "late_awb" \in F => F \subseteq {"late_awb", "by_hand"}
        /\ "seller_awb" \in F => F \cap {"crash", "lost_answer"} = {}

(* The inductive invariant behind OneLiveBooking and ShipmentIsTracked.    *)

LateAwb   == "late_awb" \in faults
SellerAwb == "seller_awb" \in faults

\* Stages that change the order hold its lock, and find the row as they
\* locked it.
LockInv ==
    \A r \in Requests :
        /\ req[r].pc \in Holding => lock = r
        /\ req[r].pc \in {"calling", "recalling", "booked"}
             => ostate = "ESCROW_HELD" /\ awb = NoBooking
        /\ req[r].pc \in {"cancelling", "cancelled"}
             => ostate = "FULFILLING" /\ req[r].booking = awb /\ awb # NoBooking

\* What the row says of its shipment, and what a copy of it can show.
RowInv ==
    /\ ostate = "FULFILLING" => shipId # NoBooking \/ "shipped" \in byHand
    /\ ~LateAwb /\ shipId # NoBooking => awb # NoBooking
    /\ ~LateAwb /\ shipId # NoBooking /\ "awb" \notin byHand => awb = shipId
    /\ "awb" \in byHand => SellerAwb
    /\ \A r \in Requests :
         req[r].pc = "matched" /\ ~LateAwb => req[r].awb # NoBooking

\* A parcel under way is about to be committed, or is the order's shipment; a
\* cancellation about to be committed cancelled the order's shipment, if it has
\* one.
ParcelInv ==
    /\ LateAwb \/ SellerAwb => unheard = {}
    /\ \A b \in Working :
         \/ \E r \in Requests : req[r].pc = "booked" /\ req[r].booking = b
         \/ shipId = b /\ (LateAwb => ostate # "ESCROW_HELD")
    /\ \A r \in Requests :
         req[r].pc = "cancelled" /\ shipId # NoBooking
            => req[r].booking = shipId /\ parcel[shipId] = "cancelled"

\* The invariant of the proofs: what each stage of a request relies on while
\* carriers, webhooks and other handlers go on.
ShipInv == TypeOK /\ LockInv /\ RowInv /\ ParcelInv

\* While every answer arrived, with its AWB: a parcel that was not cancelled is
\* about to be committed or is the order's shipment, a delivery that is reported
\* took place, and the clock runs for the order's shipment.
ClockFacts ==
    /\ \A b \in Bookings :
         parcel[b] \in {"live", "delivered"} =>
            shipId = b \/ \E r \in Requests : req[r].pc = "booked" /\ req[r].booking = b
    /\ \A r \in Requests :
         /\ req[r].pc = "cancelled"
              => req[r].booking = shipId /\ parcel[req[r].booking] = "cancelled"
         /\ req[r].pc = "matched" /\ req[r].report = "delivered"
              => parcel[req[r].booking] = "delivered"
    /\ clock /\ "delivered" \notin byHand
         => shipId # NoBooking /\ parcel[shipId] = "delivered"

ClockInv == ~LateAwb /\ unheard = {} => ClockFacts

(* What must eventually happen.                                            *)

\* An order does not stay in FULFILLING with a parcel that is delivered, also
\* when the webhook comes before the booking is committed, as long as
\* processes live.
DeliveredIsReceived ==
    \A b \in Bookings :
        []<>~(/\ ostate = "FULFILLING" /\ shipId = b /\ parcel[b] = "delivered"
              /\ "crash" \notin faults)
=============================================================================
