------------------------------ MODULE MCLive -------------------------------
(***************************************************************************)
(* Systems with fairness: what the BAP and the network tell each other, an *)
(* order that is paid out through Dipay, and one that is shipped.  In each *)
(* behaviour one part is at work, which the initial states choose, and the *)
(* others stand still.  The parts share names: of requests and handlers,   *)
(* and where a payout is attempted or a parcel booked those of the others. *)
(***************************************************************************)
EXTENDS Naturals

CONSTANTS r1, r2, m1, m2, i1, s1, s2, own, NoReq, NoMsg, NoSeller

Requests == {r1, r2}
Sellers  == {s1, s2}
Slots    == {i1}

VARIABLES
    part,
    order, dispute, rating, outside, orderLock, ratingLock, log, req, sent, acked, heard, effects,
    row, last, admin, answers, caches, lookup,
    catalog, net, store, mirror, lock, handler, puller, session,
    quiet,
    \* EscrowOrder
    ostate, autoRelease, lastEvent, invoiced, shipment, holds, releases, refunds,
    earned, payLock, payReq, disb, notice, refundObj,
    \* ShipmentBooking
    shipState, awb, shipId, clock, byHand, shipLock, shipReq, active, parcel, told,
    unheard, faults

becknVars    == <<order, dispute, rating, outside, orderLock, ratingLock, log, req, sent,
                  acked, heard, effects>>
registryVars == <<row, last, admin, answers, caches, lookup>>
mirrorVars   == <<catalog, net, store, mirror, lock, handler, puller, session>>
networkVars  == <<becknVars, registryVars, mirrorVars, quiet>>
escrowVars   == <<ostate, autoRelease, lastEvent, invoiced, shipment, holds, releases,
                  refunds, earned, payLock, payReq, disb, notice, refundObj>>
shipVars     == <<shipState, awb, shipId, clock, byHand, shipLock, shipReq, active, parcel,
                  told, unheard, faults>>
orderVars    == <<escrowVars, shipVars>>
allVars      == <<part, networkVars, orderVars>>

(* What the seller may say.                                                *)

Says(action, codes) ==
    [action : {action}, ref : {"ours"}, code : codes, awb : {"none"}, about : {0},
     signer : {"seller"}]

From(signer, ref) ==
    [action : {"on_status"}, ref : {ref}, code : {"shipped"}, awb : {"none"}, about : {0},
     signer : {signer}]

Tracks ==
    [action : {"on_status"}, ref : {"ours"}, code : {"none"}, awb : {"theirs"}, about : {0},
     signer : {"seller"}]

About(d, codes) ==
    [action : {"on_issue"}, ref : {"ours"}, code : codes, awb : {"none"}, about : {d},
     signer : {"seller"}]

IssueContents == About(1, {"PROCESSING", "REFUNDED", "REJECTED"})
    \cup Says("on_update", {"refund_settled"})

UpdateContents == Says("on_update", {"refund_denied", "refund_settled"})

SettleContents == Says("on_settle", {"PAID"}) \cup Says("on_confirm", {"accepted"})
    \cup Says("on_update", {"refund_approved"})
    \cup Tracks \cup From("seller", "theirs") \cup From("seller", "ours") \cup From("another", "ours")

RatingContents == Says("on_rating", {"yes", "no"})

Issue == INSTANCE BecknOrdersProofs WITH
    Messages <- {m1}, Contents <- IssueContents, Kinds <- {"dispute", "issue"},
    MaxDispute <- 2, Ratings <- {}, Tries <- 1, PoolSize <- 2, Faults <- {},
    Others <- {"DISPUTED"}

\* Two messages about one dispute, the copies of which are handled together.
Update == INSTANCE BecknOrdersProofs WITH
    Messages <- {m1, m2}, Contents <- UpdateContents, Kinds <- {"dispute"},
    MaxDispute <- 1, Ratings <- {}, Tries <- 1, PoolSize <- 2, Faults <- {},
    Others <- {}

Settle == INSTANCE BecknOrdersProofs WITH
    Messages <- {m1}, Contents <- SettleContents, Kinds <- {"settle"},
    MaxDispute <- 0, Ratings <- {}, Tries <- 1, PoolSize <- 2, Faults <- {"crash", "lost_answer"},
    Others <- {}

Rating == INSTANCE BecknOrdersProofs WITH
    Messages <- {m1}, Contents <- RatingContents, Kinds <- {"rate"},
    MaxDispute <- 0, Ratings <- {"good"}, Tries <- 2, PoolSize <- 2,
    Faults <- {"lost_answer"}, Others <- {"RECEIVED"}

\* The two clients differ in nothing and share nothing: one of them.
Net == INSTANCE Registry WITH
    Clients <- {"inbox"}, Lookups <- {r1}, Admins <- {r1}, MaxVersion <- 2, Static <- 1,
    Faults <- {"registry_down", "redis_down"}

\* Two sellers, and messages handled one at a time.
Pulled == INSTANCE CatalogMirrorProofs WITH
    Default <- s1, MaxVersion <- 2, Handlers <- {r1}, Bot <- FALSE

\* One seller, two of its messages handled at a time and one on its way.
Pushed == INSTANCE CatalogMirrorProofs WITH
    Sellers <- {s1}, Default <- s1, MaxVersion <- 2, Handlers <- Requests, Bot <- FALSE

Searched == INSTANCE CatalogMirrorProofs WITH
    Sellers <- {s1}, Default <- s1, MaxVersion <- 2, Handlers <- {r1},
    Bot <- TRUE

\* Enough to reach a payout twice, with a request that reads before it locks.
PayoutRace == {"mark_order_paid", "mock_seller_shipped", "mock_delivered", "get_order"}

Payout == INSTANCE EscrowOrderProofs WITH
    Attempts <- Requests, Refunds <- {m2}, PayRefs <- {m1}, Provider <- "dipay",
    Surface <- PayoutRace, Faults <- {"lost_answer"}, NoRow <- NoMsg,
    lock <- payLock, req <- payReq

\* Jubelio makes one booking and Biteship another.
Ship == INSTANCE ShipmentBookingProofs WITH
    Jubelio <- {s1}, Biteship <- {s2}, OwnAwb <- own, FaultSets <- {{}},
    NoBooking <- NoSeller, ostate <- shipState, lock <- shipLock, req <- shipReq,
    acked <- told

ASSUME Constants ==
    /\ Issue!BecknConstants /\ Update!BecknConstants /\ Settle!BecknConstants
    /\ Rating!BecknConstants /\ Net!RegistryConstants
    /\ Pulled!MirrorConstants /\ Pushed!MirrorConstants /\ Searched!MirrorConstants

\* Requests, rows and bookings are not what stands for none of them.
ASSUME Names ==
    /\ NoReq \notin Requests /\ NoMsg \notin Requests \cup {m1, m2}
    /\ s1 # s2 /\ NoSeller \notin Sellers /\ own \notin Sellers \cup {NoSeller}
-----------------------------------------------------------------------------
NetworkInit ==
    \/ part = "issue" /\ Issue!Init /\ Net!Init /\ Pushed!Init
    \/ part = "update" /\ Update!Init /\ Net!Init /\ Pushed!Init
    \/ part = "settle" /\ Settle!Init /\ Net!Init /\ Pushed!Init
    \/ part = "rating" /\ Rating!Init /\ Net!Init /\ Pushed!Init
    \/ part \in {"registry", "pushed", "payout", "ship"}
          /\ Rating!Init /\ Net!Init /\ Pushed!Init
    \/ part = "pulled" /\ Rating!Init /\ Net!Init /\ Pulled!Init
    \/ part = "searched" /\ Rating!Init /\ Net!Init /\ Searched!Init

Init == NetworkInit /\ Payout!Init /\ Ship!Init /\ (part # "ship" => active = "jubelio")

Beckn == UNCHANGED <<part, registryVars, mirrorVars, quiet, orderVars>>

Registered == UNCHANGED <<part, becknVars, mirrorVars, orderVars>>

Mirror == UNCHANGED <<part, becknVars, registryVars, orderVars>>

PaidOut == UNCHANGED <<part, networkVars, shipVars>>

Shipped == UNCHANGED <<part, networkVars, escrowVars>>

Next ==
    \/ part = "issue" /\ Issue!Next /\ Beckn
    \/ part = "update" /\ Update!Next /\ Beckn
    \/ part = "settle" /\ Settle!Next /\ Beckn
    \/ part = "rating" /\ Rating!Next /\ Beckn
    \/ part = "registry" /\ Net!Next /\ Registered
    \/ part = "pulled" /\ Pulled!Next /\ Mirror
    \/ part = "pushed" /\ Pushed!Next /\ Mirror
    \/ part = "searched" /\ Searched!Next /\ Mirror
    \/ part = "payout" /\ Payout!Next /\ PaidOut
    \/ part = "ship" /\ Ship!Next /\ Shipped

(* Fairness: the parts' own, with what different parts require of one name *)
(* as one requirement, of which at most one alternative is ever enabled.   *)

GoOn(r) ==
    \/ part = "issue" /\ Issue!GoOn(r) /\ Beckn
    \/ part = "update" /\ Update!GoOn(r) /\ Beckn
    \/ part = "settle" /\ Settle!GoOn(r) /\ Beckn
    \/ part = "rating" /\ Rating!GoOn(r) /\ Beckn
    \/ part = "registry" /\ r = r1 /\ Net!Change(r) /\ Registered
    \/ part = "pulled" /\ r = r1 /\ Pulled!PullStarts /\ Mirror
    \/ part = "pushed" /\ r = r1 /\ Pushed!PullStarts /\ Mirror
    \/ part = "searched" /\ r = r1 /\ Searched!PullStarts /\ Mirror
    \/ part = "payout" /\ (Payout!PayoutEnds(r) \/ Payout!CallbackAnswered(r)) /\ PaidOut

\* In the parts of the mirror s2, or where s2 sells r2, is the message under way.
Served(x) ==
    \/ part = "issue" /\ x \in Requests /\ Issue!Waits(x) /\ Beckn
    \/ part = "update" /\ x \in Requests /\ Update!Waits(x) /\ Beckn
    \/ part = "settle" /\ x \in Requests /\ Settle!Waits(x) /\ Beckn
    \/ part = "rating" /\ x \in Requests /\ Rating!Waits(x) /\ Beckn
    \/ part = "pulled" /\ x = r1 /\ Pulled!Handle(x) /\ Mirror
    \/ part = "pulled" /\ x = r2 /\ Pulled!LookUp(r1, i1) /\ Mirror
    \/ part = "pulled" /\ x \in Sellers /\ Pulled!Pull(x) /\ Mirror
    \/ part = "pushed" /\ x \in Requests /\ Pushed!Handle(x) /\ Mirror
    \/ part = "pushed" /\ x = s1 /\ Pushed!Pull(x) /\ Mirror
    \/ part = "pushed" /\ x = s2 /\ (\E h \in Requests : Pushed!LookUp(h, i1)) /\ Mirror
    \/ part = "searched" /\ x = r1 /\ Searched!Handle(x) /\ Mirror
    \/ part = "searched" /\ x = s1 /\ Searched!Pull(x) /\ Mirror
    \/ part = "searched" /\ x = s2 /\ Searched!LookUp(r1, i1) /\ Mirror
    \/ part = "payout" /\ x \in Requests /\ Payout!Progress(x) /\ PaidOut
    \/ part = "ship" /\ x \in Requests /\ Ship!Progress(x) /\ Shipped
    \/ part = "ship" /\ x \in Sellers /\ Ship!LastStatus(x) /\ Shipped

Ages(k) ==
    part = "registry" /\ Net!Expire(k) /\ Registered

AnswerAges(q) ==
    part = "registry" /\ Net!ExpireAnswer(q) /\ Registered

Steps ==
    part = "registry" /\ Net!Step(r1) /\ Registered

Fairness ==
    /\ \A r \in Requests : WF_allVars(GoOn(r))
    /\ \A x \in Requests \cup Sellers : SF_allVars(Served(x))
    /\ \A k \in Net!Askers : WF_allVars(Ages(k))
    /\ \A q \in Net!Queries : WF_allVars(AnswerAges(q))
    /\ WF_allVars(Steps)

Spec == Init /\ [][Next]_allVars /\ Fairness
-----------------------------------------------------------------------------
(* The parts' properties.                                                  *)

\* The variables hold what rows, requests and messages of the code hold.
TypeOK ==
    /\ part = "issue" => Issue!TypeOK
    /\ part = "update" => Update!TypeOK
    /\ part = "settle" => Settle!TypeOK
    /\ part = "rating" => Rating!TypeOK
    /\ part = "registry" => Net!TypeOK
    /\ part = "pulled" => Pulled!TypeOK
    /\ part = "pushed" => Pushed!TypeOK
    /\ part = "searched" => Searched!TypeOK
    /\ part = "payout" => Payout!TypeOK
    /\ part = "ship" => Ship!TypeOK

\* A message of the seller takes effect at most once, and an ACK means it did.
AppliedOnce ==
    /\ part = "issue" => Issue!AppliedOnce
    /\ part = "update" => Update!AppliedOnce
    /\ part = "settle" => Settle!AppliedOnce
    /\ part = "rating" => Rating!AppliedOnce

\* An order is under dispute only with a row that says what the dispute is, unless
\* a carrier's event disputed it, and an issue the seller was told about has its
\* row, or will have.
DisputedHasRow ==
    /\ part = "issue" => Issue!DisputedHasRow /\ Issue!IssueHasRow
    /\ part = "update" => Update!DisputedHasRow

\* A dispute that ended in a refund belongs to an order that is refunded, unless
\* the rest of the BAP wrote an older copy over the refund.
RefundRecorded ==
    /\ part = "issue" => Issue!RefundRecorded
    /\ part = "update" => Update!RefundRecorded

\* Every request of buyer, seller and operator, and every message handled, ends
\* and drops its locks and its connection (RequestsEnd of the two modules, of
\* whose parts one is at work).
RequestsEnd ==
    \A r \in Requests :
        []<>(req[r].pc = "idle" /\ payReq[r].pc = "idle" /\ shipReq[r].pc = "idle")

\* A PENDING RELEASE row is resolved by Dipay's callback.
PendingResolves == Payout!PendingResolves

\* A parcel's delivery takes its order out of FULFILLING.
DeliveredIsReceived == Ship!DeliveredIsReceived

\* Caches come to agree with the registry once registrations stop.
CachesConverge == Net!CachesConverge

\* The mirror holds one catalogue of a seller, never a mixture.
OneCatalog ==
    /\ part = "pulled" => Pulled!OneCatalog
    /\ part = "pushed" => Pushed!OneCatalog
    /\ part = "searched" => Searched!OneCatalog

\* Once catalogues stop changing the mirror comes to show them (being quiet and
\* having a store are for good).
PullHeals ==
    \A s \in Sellers :
        <>[](quiet /\ s \in store) =>
            <>[](s \in store => \A b \in mirror[s] : b.version = catalog[s])
=============================================================================
