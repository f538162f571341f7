---------------------------- MODULE EscrowOrder ----------------------------
(***************************************************************************)
(* One order of the Beli Aman BAP: its row, its escrow ledger, the         *)
(* provider that holds the money, and every handler that writes them,      *)
(* interleaved as the web server interleaves requests.                     *)
(*                                                                         *)
(* The database is PostgreSQL at READ COMMITTED; a session keeps the first *)
(* copy of a row it loads (identity map, expire_on_commit=False), and      *)
(* lock_order_for_update() does not refresh a copy already loaded.  So a   *)
(* handler acts on `seen', the state its session loaded, which is the      *)
(* committed state only if the locking SELECT was the first load.  A       *)
(* handler that locks, writes and commits without I/O in between is one    *)
(* step, guarded by the lock being free; release(), which commits before   *)
(* it calls the provider, is one step per commit and per answer.           *)
(*                                                                         *)
(* Orders never interact, so the module models one.  Amounts are whole     *)
(* orders (amount_idr is always total_idr), so a row is one unit.          *)
(***************************************************************************)
EXTENDS OrderStates, Naturals, FiniteSets

CONSTANTS
    Requests,    \* requests that can be in flight together
    Attempts,    \* ids for RELEASE rows: how often release() can get past its check
    Refunds,     \* ids for REFUND rows
    PayRefs,     \* provider ids under which payment of the invoice is reported
    Provider,    \* Brand.payment_provider of the order's brand
    Surface,     \* handlers the instance exposes
    Faults,      \* faults the instance may suffer
    NoReq, NoRow \* model values: no request, no row or reference

ReleaseHandlers == {"buyer_confirm_receipt", "get_order", "mock_elapse_d3",
                    "mock_release"}

Handlers == ReleaseHandlers \cup
    {"mark_order_paid", "book_shipment", "cancel_shipment", "mock_seller_shipped",
     "mock_delivered", "shipment_event", "tracking_callback", "open_dispute",
     "mock_refund", "beckn_refund"}

\* The process dies in a request; the provider takes a payout and its answer
\* is lost; the provider answers with a code the client does not know.
FaultKinds == {"crash", "lost_answer", "unmapped_code"}

ASSUME ConstantsAssumption ==
    /\ Provider \in {"xendit", "sento", "dipay"}
    /\ Surface \subseteq Handlers
    /\ Faults \subseteq FaultKinds
    /\ NoReq \notin Requests
    /\ NoRow \notin Attempts \cup Refunds \cup PayRefs

VARIABLES
    ostate,      \* Order.state, as committed
    autoRelease, \* Order.auto_release_at: unset, in the future, in the past
    lastEvent,   \* to_state of the newest OrderEvent row
    invoiced,    \* an invoice exists: payment_method_snapshot["invoice_id"]
    shipment,    \* carrier booking: none, booked, cancelled
    holds,       \* number of HOLD rows per external_ref
    releases,    \* RELEASE rows
    refunds,     \* REFUND rows
    earned,      \* number of "earn" rows in LoyaltyTransaction
    lock,        \* request holding the FOR UPDATE lock on the order row
    req,         \* requests in flight
    disb,        \* at the provider: disbursements by idempotency reference
    notice,      \* at the provider: the disbursement callback of each
    refundObj    \* at the provider: the refund of the invoice

order  == <<ostate, autoRelease, lastEvent, invoiced, shipment>>
ledger == <<holds, releases, refunds>>
psp    == <<disb, notice, refundObj>>
vars   == <<ostate, autoRelease, lastEvent, invoiced, shipment, holds, releases,
            refunds, earned, lock, req, disb, notice, refundObj>>

\* What a plain change of Order.state leaves alone.
rest   == <<invoiced, holds, releases, refunds, earned, lock, disb, notice,
            refundObj>>

RowStatus == {"none", "PENDING", "COMPLETED", "FAILED"}
Row       == [status : RowStatus, ref : BOOLEAN]
NewRow    == [status |-> "PENDING", ref |-> FALSE]

\* Dipay gets snap_ref(row id) as partnerReferenceNo; Xendit and Sento get
\* "order-{id}-release" (the idempotency key), the same for every attempt.
Shared  == "order-release"
Keys    == IF Provider = "dipay" THEN Attempts ELSE {Shared}
Key(e)  == IF Provider = "dipay" THEN e ELSE Shared

\* Stages of a request.  "locked", "checked", "refunded" hold the row lock.
Stages  == {"idle", "peeked", "locked", "checked", "paying", "refused",
            "skipped", "accepted", "closing", "resolved", "reading",
            "owned", "refunded", "unrefunded"}
Holding == {"locked", "checked", "refunded", "unrefunded"}

\* A request: its stage, its handler, the state its session loaded, and the
\* RELEASE row or payment reference it works on.
Request == [pc : Stages, by : Handlers \cup {"none"}, seen : OrderState,
            row : Attempts \cup PayRefs \cup {NoRow}]

Idle == [pc |-> "idle", by |-> "none", seen |-> "PRE_AUTH", row |-> NoRow]

TypeOK ==
    /\ ostate \in OrderState
    /\ autoRelease \in {"unset", "future", "past"}
    /\ lastEvent \in OrderState
    /\ invoiced \in BOOLEAN
    /\ shipment \in {"none", "booked", "cancelled"}
    /\ holds \in [PayRefs -> Nat]
    /\ releases \in [Attempts -> Row]
    /\ refunds \in [Refunds -> Row]
    /\ earned \in Nat
    /\ lock \in Requests \cup {NoReq}
    /\ req \in [Requests -> Request]
    /\ disb \in [Keys -> {"none", "accepted", "settled", "failed"}]
    /\ notice \in [Keys -> {"none", "due", "acked"}]
    /\ refundObj \in {"none", "accepted", "settled", "failed"}

Init ==
    /\ ostate = "PRE_AUTH"
    /\ autoRelease = "unset"
    /\ lastEvent = "PRE_AUTH"
    /\ invoiced = FALSE
    /\ shipment = "none"
    /\ holds = [p \in PayRefs |-> 0]
    /\ releases = [e \in Attempts |-> [status |-> "none", ref |-> FALSE]]
    /\ refunds = [x \in Refunds |-> [status |-> "none", ref |-> FALSE]]
    /\ earned = 0
    /\ lock = NoReq
    /\ req = [r \in Requests |-> Idle]
    /\ disb = [k \in Keys |-> "none"]
    /\ notice = [k \in Keys |-> "none"]
    /\ refundObj = "none"
-----------------------------------------------------------------------------
(* Building blocks.                                                        *)

\* Definitions named ..._bug are slips one could make in the definition that
\* follows; putting them in its place shows that a property can fail.

\* transition() on an order object showing `seen', then the UPDATE: the
\* new state is written over whatever is committed, with an event row.
Transition(seen, to) ==
    IF seen = to THEN UNCHANGED <<ostate, lastEvent>>
    ELSE ostate' = to /\ lastEvent' = to

\* The callers that catch StateTransitionError and carry on.
TryTransition(seen, to) ==
    IF to \in Allowed[seen] THEN ostate' = to /\ lastEvent' = to
    ELSE UNCHANGED <<ostate, lastEvent>>

Exposed(h) == h \in Surface

\* A write to the order row, or a locking SELECT, waits while another
\* transaction holds the row lock.
RowFree == lock = NoReq

Goto(r, pc) == req' = [req EXCEPT ![r].pc = pc]
Finish(r)   == req' = [req EXCEPT ![r] = Idle]

Active(e) == releases[e].status \in {"PENDING", "COMPLETED"}
-----------------------------------------------------------------------------
(* Checkout and payment.                                                   *)

\* advance_to_authed(), advance_to_reviewed().
AdvanceToAuthed ==
    /\ RowFree /\ ostate = "PRE_AUTH"
    /\ Transition(ostate, "AUTHED")
    /\ UNCHANGED <<autoRelease, shipment, req, rest>>

AdvanceToReviewed ==
    /\ RowFree /\ ostate = "AUTHED"
    /\ Transition(ostate, "CART_REVIEWED")
    /\ UNCHANGED <<autoRelease, shipment, req, rest>>

\* create_invoice(): the snapshot is written without touching the state.
CreateInvoice ==
    /\ RowFree /\ ostate = "CART_REVIEWED" /\ ~invoiced
    /\ invoiced' = TRUE
    /\ UNCHANGED <<ostate, autoRelease, lastEvent, shipment, ledger, earned,
                   lock, req, psp>>

MarkOrderPaid_bug(seen, p) ==  \* the HOLD of the first webhook is forgotten
    \/ /\ seen = "ESCROW_HELD"
       /\ holds' = [holds EXCEPT ![p] = IF @ = 0 THEN 1 ELSE @]
       /\ UNCHANGED <<ostate, lastEvent>>
    \/ /\ seen = "CART_REVIEWED"
       /\ Transition(seen, "ESCROW_HELD")
       /\ UNCHANGED holds
    \/ /\ seen \notin {"ESCROW_HELD", "CART_REVIEWED"}
       /\ UNCHANGED <<ostate, lastEvent, holds>>

\* mark_order_paid() for the reference p, on an order showing `seen'.  In
\* any state but the two it logs a warning and leaves everything alone.
MarkOrderPaid(seen, p) ==
    \/ /\ seen = "ESCROW_HELD"
       /\ holds' = [holds EXCEPT ![p] = IF @ = 0 THEN 1 ELSE @]
       /\ UNCHANGED <<ostate, lastEvent>>
    \/ /\ seen = "CART_REVIEWED"
       /\ Transition(seen, "ESCROW_HELD")
       /\ holds' = [holds EXCEPT ![p] = @ + 1]
    \/ /\ seen \notin {"ESCROW_HELD", "CART_REVIEWED"}
       /\ UNCHANGED <<ostate, lastEvent, holds>>

\* Xendit: the locking SELECT of mark_order_paid() is the first load.  The
\* provider reports a payment any number of times.
XenditPaid(p) ==
    /\ Exposed("mark_order_paid") /\ Provider = "xendit"
    /\ RowFree /\ invoiced
    /\ MarkOrderPaid(ostate, p)
    /\ UNCHANGED <<autoRelease, invoiced, shipment, releases, refunds, earned,
                   lock, req, psp>>

\* Sento and Dipay: the handler loads the order without a lock to verify
\* the amount (Dipay also queries the provider) before mark_order_paid().
ResolvePaid(r, p) ==
    /\ Exposed("mark_order_paid") /\ Provider \in {"sento", "dipay"}
    /\ req[r].pc = "idle" /\ invoiced
    /\ req' = [req EXCEPT ![r] = [pc |-> "resolved", by |-> "mark_order_paid",
                                  seen |-> ostate, row |-> p]]
    /\ UNCHANGED <<order, ledger, earned, lock, psp>>

ApplyPaid(r) ==
    /\ req[r].pc = "resolved" /\ RowFree
    /\ MarkOrderPaid(req[r].seen, req[r].row)
    /\ Finish(r)
    /\ UNCHANGED <<autoRelease, invoiced, shipment, releases, refunds, earned,
                   lock, psp>>
-----------------------------------------------------------------------------
(* Fulfilment, as far as it moves the order.                               *)

\* book_shipment(): the carrier is called under the row lock.
BookShipment ==
    /\ Exposed("book_shipment") /\ RowFree
    /\ ostate = "ESCROW_HELD" /\ shipment # "booked"
    /\ Transition(ostate, "FULFILLING")
    /\ shipment' = "booked"
    /\ UNCHANGED <<autoRelease, req, rest>>

MockSellerShipped ==
    /\ Exposed("mock_seller_shipped") /\ RowFree /\ Accepts(ostate, "FULFILLING")
    /\ Transition(ostate, "FULFILLING")
    /\ UNCHANGED <<autoRelease, shipment, req, rest>>

CancelShipment ==
    /\ Exposed("cancel_shipment") /\ RowFree
    /\ ostate = "FULFILLING" /\ shipment = "booked"
    /\ Transition(ostate, "ESCROW_HELD")
    /\ shipment' = "cancelled"
    /\ UNCHANGED <<autoRelease, req, rest>>

MockDelivered ==
    /\ Exposed("mock_delivered") /\ RowFree /\ Accepts(ostate, "RECEIVED")
    /\ Transition(ostate, "RECEIVED")
    /\ autoRelease' = "future"
    /\ UNCHANGED <<shipment, req, rest>>

\* apply_shipment_event() and the Biteship handler, on an order showing
\* `seen'.  A delivery restarts the release clock in every state.
Delivered(seen) ==
    /\ autoRelease' = "future"
    /\ IF seen = "FULFILLING" THEN Transition(seen, "RECEIVED")
       ELSE UNCHANGED <<ostate, lastEvent>>

Problem(seen) ==
    /\ TryTransition(seen, "DISPUTED")
    /\ UNCHANGED autoRelease

\* Found by our order id (also after the booking was cancelled), or polled
\* by refresh_tracking(): locked first.
ShipmentEvent ==
    /\ Exposed("shipment_event") /\ RowFree /\ shipment # "none"
    /\ Delivered(ostate) \/ Problem(ostate)
    /\ UNCHANGED <<shipment, req, rest>>

\* Found by the carrier's id, which cancel_shipment() clears: a plain
\* SELECT, then the write.
TrackingLookup(r) ==
    /\ Exposed("tracking_callback")
    /\ req[r].pc = "idle" /\ shipment = "booked"
    /\ req' = [req EXCEPT ![r] = [pc |-> "reading", by |-> "tracking_callback",
                                  seen |-> ostate, row |-> NoRow]]
    /\ UNCHANGED <<order, ledger, earned, lock, psp>>

TrackingWrite(r) ==
    /\ req[r].pc = "reading" /\ RowFree
    /\ Delivered(req[r].seen) \/ Problem(req[r].seen)
    /\ Finish(r)
    /\ UNCHANGED <<shipment, rest>>

OpenDispute ==
    /\ Exposed("open_dispute") /\ RowFree /\ Accepts(ostate, "DISPUTED")
    /\ Transition(ostate, "DISPUTED")
    /\ UNCHANGED <<autoRelease, shipment, req, rest>>

ReleaseWindowElapses ==
    /\ autoRelease = "future"
    /\ autoRelease' = "past"
    /\ UNCHANGED <<ostate, lastEvent, shipment, req, rest>>

\* authorize_resources(): the seller's BPP, which learns of an order when it
\* is paid, owns it.  The order is loaded without a lock and kept.
BecknLookup(r) ==
    /\ Exposed("beckn_refund")
    /\ req[r].pc = "idle" /\ \E p \in PayRefs : holds[p] > 0
    /\ req' = [req EXCEPT ![r] = [pc |-> "owned", by |-> "beckn_refund",
                                  seen |-> ostate, row |-> NoRow]]
    /\ UNCHANGED <<order, ledger, earned, lock, psp>>

\* handle_on_update(refund_settled), handle_on_issue(RESOLVED with a refund
\* amount): the state is assigned directly, without transition().
BecknRefund(r) ==
    /\ req[r].pc = "owned" /\ RowFree
    /\ ostate' = IF req[r].seen = "REFUNDED" THEN ostate ELSE "REFUNDED"
    /\ Finish(r)
    /\ UNCHANGED <<autoRelease, lastEvent, shipment, rest>>
-----------------------------------------------------------------------------
(* Releasing the escrow: release() and its four callers.                   *)

\* Bound: a request enters release() only while an attempt id is left for it.
AttemptLeft ==
    Cardinality({q \in Requests : req[q].pc # "idle" /\ req[q].by \in ReleaseHandlers})
      < Cardinality({e \in Attempts : releases[e].status = "none"})

\* Bound: likewise for refund().
RefundLeft ==
    \E x \in Refunds : refunds[x].status = "none"

\* get_order() first reads without a lock and keeps the object.
PeekOrder(r) ==
    /\ Exposed("get_order")
    /\ req[r].pc = "idle" /\ AttemptLeft
    /\ ostate = "RECEIVED" /\ autoRelease = "past"
    /\ req' = [req EXCEPT ![r] = [pc |-> "peeked", by |-> "get_order",
                                  seen |-> "RECEIVED", row |-> NoRow]]
    /\ UNCHANGED <<order, ledger, earned, lock, psp>>

\* ... then locks; the locking SELECT returns the same, unrefreshed object.
LockPeeked(r) ==
    /\ req[r].pc = "peeked" /\ RowFree
    /\ lock' = r
    /\ Goto(r, "locked")
    /\ UNCHANGED <<order, ledger, earned, psp>>

Admits_bug(h) ==  \* the buyer's confirm does not look at the state
    CASE h = "buyer_confirm_receipt" -> OrderState
      [] h = "mock_elapse_d3"        -> {"RECEIVED"}
      [] h = "mock_release"          -> OrderState
      [] h = "mock_refund"           -> {s \in OrderState : Accepts(s, "REFUNDED")}

\* States in which a handler goes on after its locking SELECT.
Admits(h) ==
    CASE h = "buyer_confirm_receipt" -> {"RECEIVED", "FULFILLING"}
      [] h = "mock_elapse_d3"        -> {"RECEIVED"}
      [] h = "mock_release"          -> OrderState
      [] h = "mock_refund"           -> {s \in OrderState : Accepts(s, "REFUNDED")}

LockOrder_bug(r, h) ==  \* the order is loaded without FOR UPDATE
    /\ Exposed(h) /\ req[r].pc = "idle"
    /\ ostate \in Admits(h)
    /\ IF h = "mock_refund" THEN RefundLeft ELSE AttemptLeft
    /\ req' = [req EXCEPT ![r] = [pc |-> "locked", by |-> h,
                                  seen |-> ostate, row |-> NoRow]]
    /\ UNCHANGED <<order, ledger, earned, lock, psp>>

LockOrder(r, h) ==
    /\ Exposed(h) /\ req[r].pc = "idle" /\ RowFree
    /\ ostate \in Admits(h)
    /\ IF h = "mock_refund" THEN RefundLeft ELSE AttemptLeft
    /\ lock' = r
    /\ req' = [req EXCEPT ![r] = [pc |-> "locked", by |-> h,
                                  seen |-> ostate, row |-> NoRow]]
    /\ UNCHANGED <<order, ledger, earned, psp>>

\* release(): another attempt is PENDING or COMPLETED, so 409; the request
\* ends and its transaction is rolled back.
ReleaseConflict(r) ==
    /\ req[r].pc = "locked" /\ req[r].by \in ReleaseHandlers
    /\ \E e \in Attempts : Active(e)
    /\ lock' = NoReq
    /\ Finish(r)
    /\ UNCHANGED <<order, ledger, earned, psp>>

ReleaseCheck_bug(r) ==  \* release() without its look at earlier attempts
    /\ req[r].pc = "locked" /\ req[r].by \in ReleaseHandlers
    /\ Goto(r, "checked")
    /\ UNCHANGED <<order, ledger, earned, lock, psp>>

ReleaseCheck(r) ==
    /\ req[r].pc = "locked" /\ req[r].by \in ReleaseHandlers
    /\ \A e \in Attempts : ~Active(e)
    /\ Goto(r, "checked")
    /\ UNCHANGED <<order, ledger, earned, lock, psp>>

\* Insert the PENDING row and commit, with whatever the caller changed
\* before; the commit drops the row lock.
ReleaseCommit(r) ==
    /\ req[r].pc = "checked"
    /\ \E e \in Attempts :
         /\ releases[e].status = "none"
         /\ releases' = [releases EXCEPT ![e] = NewRow]
         /\ IF req[r].by = "buyer_confirm_receipt" /\ req[r].seen = "FULFILLING"
            THEN /\ Transition("FULFILLING", "RECEIVED")
                 /\ req' = [req EXCEPT ![r].pc = "paying", ![r].row = e,
                                       ![r].seen = "RECEIVED"]
            ELSE /\ UNCHANGED <<ostate, lastEvent>>
                 /\ req' = [req EXCEPT ![r].pc = "paying", ![r].row = e]
    /\ autoRelease' = IF req[r].by = "mock_elapse_d3" THEN "past" ELSE autoRelease
    /\ lock' = NoReq
    /\ UNCHANGED <<invoiced, shipment, holds, refunds, earned, psp>>

\* disburse_to_seller(): the brand is not payout-configured.
PayoutSkipped(r) ==
    /\ req[r].pc = "paying"
    /\ Goto(r, "skipped")
    /\ UNCHANGED <<order, ledger, earned, lock, psp>>

\* The provider does not take the disbursement.  A code that the Sento and
\* Dipay clients do not know is not treated as a refusal.
PayoutNotTaken(r) ==
    /\ req[r].pc = "paying" /\ disb[Key(req[r].row)] = "none"
    /\ \/ Goto(r, "refused")
       \/ /\ "unmapped_code" \in Faults /\ Provider \in {"sento", "dipay"}
          /\ Goto(r, "accepted")
    /\ UNCHANGED <<order, ledger, earned, lock, psp>>

PayoutTaken_bug(r) ==  \* an accepted payout whose answer has no id is an error
    /\ req[r].pc = "paying"
    /\ LET k == Key(req[r].row)
       IN  disb' = [disb EXCEPT ![k] = IF @ = "none" THEN "accepted" ELSE @]
    /\ Goto(r, "accepted") \/ Goto(r, "refused")
    /\ UNCHANGED <<order, ledger, earned, lock, notice, refundObj>>

\* The provider takes the disbursement, or recognises the key and answers
\* with the one it has.  A lost answer or a timeout is treated as a refusal.
PayoutTaken(r) ==
    /\ req[r].pc = "paying"
    /\ LET k == Key(req[r].row)
       IN  disb' = [disb EXCEPT ![k] = IF @ = "none" THEN "accepted" ELSE @]
    /\ \/ Goto(r, "accepted")
       \/ "lost_answer" \in Faults /\ Goto(r, "refused")
    /\ UNCHANGED <<order, ledger, earned, lock, notice, refundObj>>

RecordFailure_bug(r) ==  \* the caller goes on after ReleaseFailed
    /\ req[r].pc \in {"refused", "skipped"}
    /\ releases' = [releases EXCEPT ![req[r].row].status = "FAILED"]
    /\ Goto(r, "closing")
    /\ UNCHANGED <<order, holds, refunds, earned, lock, psp>>

\* release() except branches: FAILED whatever the row says by now.
RecordFailure(r) ==
    /\ req[r].pc \in {"refused", "skipped"}
    /\ releases' = [releases EXCEPT ![req[r].row].status = "FAILED"]
    /\ Finish(r)
    /\ UNCHANGED <<order, holds, refunds, earned, lock, psp>>

\* release() success: only external_ref is written.
RecordSuccess(r) ==
    /\ req[r].pc = "accepted"
    /\ releases' = [releases EXCEPT ![req[r].row].ref = TRUE]
    /\ Goto(r, "closing")
    /\ UNCHANGED <<order, holds, refunds, earned, lock, psp>>

CloseRelease_bug(r) ==  \* points are accrued without a look at earlier ones
    /\ req[r].pc = "closing" /\ RowFree
    /\ TryTransition(req[r].seen, "ESCROW_RELEASED")
    /\ earned' = IF req[r].by \in {"buyer_confirm_receipt", "get_order"}
                 THEN earned + 1 ELSE earned
    /\ Finish(r)
    /\ UNCHANGED <<autoRelease, invoiced, shipment, ledger, lock, psp>>

\* The caller's last transaction: transition from the state it saw before
\* the payout, released_at, loyalty.  No lock, no re-read.
CloseRelease(r) ==
    /\ req[r].pc = "closing" /\ RowFree
    /\ TryTransition(req[r].seen, "ESCROW_RELEASED")
    /\ earned' = IF /\ req[r].by \in {"buyer_confirm_receipt", "get_order"}
                    /\ earned = 0
                 THEN 1 ELSE earned
    /\ Finish(r)
    /\ UNCHANGED <<autoRelease, invoiced, shipment, ledger, lock, psp>>
-----------------------------------------------------------------------------
(* Admin refund: the row lock is held over the provider call.              *)

RefundCall(r) ==
    /\ req[r].pc = "locked" /\ req[r].by = "mock_refund"
    /\ \/ /\ Provider = "xendit" /\ invoiced
          /\ refundObj' = IF refundObj = "none" THEN "accepted" ELSE refundObj
          /\ Goto(r, "refunded") \/ ("lost_answer" \in Faults /\ Goto(r, "unrefunded"))
       \/ /\ Goto(r, "unrefunded")
          /\ UNCHANGED refundObj
    /\ UNCHANGED <<order, ledger, earned, lock, disb, notice>>

RefundCommit(r) ==
    /\ req[r].pc \in {"refunded", "unrefunded"}
    /\ Transition(req[r].seen, "REFUNDED")
    /\ \E x \in Refunds :
         /\ refunds[x].status = "none"
         /\ refunds' = [refunds EXCEPT ![x] =
                IF req[r].pc = "refunded" THEN [status |-> "PENDING", ref |-> TRUE]
                ELSE [status |-> "FAILED", ref |-> FALSE]]
    /\ lock' = NoReq
    /\ Finish(r)
    /\ UNCHANGED <<autoRelease, invoiced, shipment, holds, releases, earned, psp>>
-----------------------------------------------------------------------------
(* The provider finishes, and its callbacks.                               *)

PayoutEnds(k) ==
    /\ disb[k] = "accepted"
    /\ \E outcome \in {"settled", "failed"} : disb' = [disb EXCEPT ![k] = outcome]
    /\ notice' = [notice EXCEPT ![k] = "due"]
    /\ UNCHANGED <<order, ledger, earned, lock, req, refundObj>>

\* RELEASE rows a disbursement callback for key k can find: Xendit by
\* external_ref, Sento the order's PENDING row, Dipay by partner_ref, which
\* is committed with the row.
Found(k) ==
    {e \in Attempts :
        /\ releases[e].status # "none" /\ Key(e) = k
        /\ CASE Provider = "xendit" -> releases[e].ref
             [] Provider = "sento"  -> releases[e].status = "PENDING"
             [] Provider = "dipay"  -> TRUE}

PayoutCallback_bug(k) ==  \* a row is settled only once it has its reference
    /\ notice[k] \in {"due", "acked"}
    /\ \E e \in Found(k) :
         releases' = [releases EXCEPT ![e] =
             IF ~@.ref THEN @
             ELSE [@ EXCEPT !.status = IF disb[k] = "settled" THEN "COMPLETED" ELSE "FAILED"]]
    /\ notice' = [notice EXCEPT ![k] = "acked"]
    /\ UNCHANGED <<order, holds, refunds, earned, lock, req, disb, refundObj>>

\* disbursement_callback() / remit_callback() on the first row found: the
\* final status overwrites whatever the row says; Sento and Dipay also stamp
\* the provider's reference on success.
PayoutCallback(k) ==
    /\ notice[k] \in {"due", "acked"}
    /\ \E e \in Found(k) :
         releases' = [releases EXCEPT ![e] =
             IF disb[k] = "settled" THEN [status |-> "COMPLETED", ref |-> TRUE]
             ELSE [@ EXCEPT !.status = "FAILED"]]
    /\ notice' = [notice EXCEPT ![k] = "acked"]
    /\ UNCHANGED <<order, holds, refunds, earned, lock, req, disb, refundObj>>

\* No row found: Xendit and Sento answer 200, which ends the delivery;
\* Dipay answers 404, and the provider will try again.
PayoutCallbackUnmatched(k) ==
    /\ notice[k] = "due" /\ Found(k) = {}
    /\ Provider \in {"xendit", "sento"}
    /\ notice' = [notice EXCEPT ![k] = "acked"]
    /\ UNCHANGED <<order, ledger, earned, lock, req, disb, refundObj>>

RefundEnds ==
    /\ refundObj = "accepted"
    /\ refundObj' \in {"settled", "failed"}
    /\ UNCHANGED <<order, ledger, earned, lock, req, disb, notice>>

RefundCallback ==
    /\ refundObj \in {"settled", "failed"}
    /\ \E x \in Refunds :
         /\ refunds[x].ref
         /\ refunds' = [refunds EXCEPT ![x].status =
                IF refundObj = "settled" THEN "COMPLETED" ELSE "FAILED"]
    /\ UNCHANGED <<order, holds, releases, earned, lock, req, psp>>

\* The process dies or the connection drops: uncommitted work is rolled
\* back, the lock goes, nobody resumes the request.
Crash(r) ==
    /\ "crash" \in Faults
    /\ req[r].pc # "idle"
    /\ Finish(r)
    /\ lock' = IF lock = r THEN NoReq ELSE lock
    /\ UNCHANGED <<order, ledger, earned, psp>>
-----------------------------------------------------------------------------
Step(r) ==
    \/ \E p \in PayRefs : ResolvePaid(r, p)
    \/ ApplyPaid(r)
    \/ TrackingLookup(r) \/ TrackingWrite(r)
    \/ BecknLookup(r) \/ BecknRefund(r)
    \/ PeekOrder(r) \/ LockPeeked(r)
    \/ \E h \in {"buyer_confirm_receipt", "mock_elapse_d3", "mock_release",
                 "mock_refund"} : LockOrder(r, h)
    \/ ReleaseConflict(r) \/ ReleaseCheck(r) \/ ReleaseCommit(r)
    \/ PayoutSkipped(r) \/ PayoutNotTaken(r) \/ PayoutTaken(r)
    \/ RecordFailure(r) \/ RecordSuccess(r) \/ CloseRelease(r)
    \/ RefundCall(r) \/ RefundCommit(r)
    \/ Crash(r)

Next ==
    \/ AdvanceToAuthed \/ AdvanceToReviewed \/ CreateInvoice
    \/ \E p \in PayRefs : XenditPaid(p)
    \/ BookShipment \/ MockSellerShipped \/ CancelShipment \/ MockDelivered
    \/ ShipmentEvent \/ OpenDispute \/ ReleaseWindowElapses
    \/ \E r \in Requests : Step(r)
    \/ \E k \in Keys : PayoutEnds(k) \/ PayoutCallback(k) \/ PayoutCallbackUnmatched(k)
    \/ RefundEnds \/ RefundCallback

Spec == Init /\ [][Next]_vars

\* A request in flight goes on: the event loop runs its coroutine, and
\* PostgreSQL queues whoever waits for a row lock, hence strong fairness.
Progress(r) ==
    \/ ApplyPaid(r) \/ TrackingWrite(r) \/ BecknRefund(r) \/ LockPeeked(r)
    \/ ReleaseConflict(r) \/ ReleaseCheck(r) \/ ReleaseCommit(r)
    \/ PayoutSkipped(r) \/ PayoutNotTaken(r) \/ PayoutTaken(r)
    \/ RecordFailure(r) \/ RecordSuccess(r) \/ CloseRelease(r)
    \/ RefundCall(r) \/ RefundCommit(r)

\* The provider finishes what it took and delivers each callback until it is
\* answered with 200, after which it owes nothing more.
CallbackAnswered(k) ==
    notice[k] = "due" /\ (PayoutCallback(k) \/ PayoutCallbackUnmatched(k))

Fairness ==
    /\ \A r \in Requests : SF_vars(Progress(r))
    /\ \A k \in Keys : WF_vars(PayoutEnds(k)) /\ WF_vars(CallbackAnswered(k))

FairSpec == Spec /\ Fairness
-----------------------------------------------------------------------------
(* What must never happen.                                                 *)

\* Cardinality is avoided so that the statements can be proved as they are.
AtMostOne(S) == \A x, y \in S : x = y

\* release() refuses a second attempt while one is pending or completed, so
\* there is never more than one such RELEASE row, whatever four handlers,
\* callbacks and retries do in between.
OneActiveRelease == AtMostOne({e \in Attempts : Active(e)})

\* The provider never holds two live disbursements of the same order, so
\* that the seller is not paid twice.
NoDoublePayout == AtMostOne({k \in Keys : disb[k] \in {"accepted", "settled"}})

\* An order shown as ESCROW_RELEASED had a disbursement taken by the provider
\* ("the order must not be marked released" if initiation failed).
ReleasedWasTaken ==
    ostate = "ESCROW_RELEASED" => \E k \in Keys : disb[k] # "none"

\* An order in any state after payment has its HOLD row, also when the state
\* was written by a handler from an old copy of the order.
HeldStatesFunded ==
    ostate \in FundedStates => \E p \in PayRefs : holds[p] > 0

\* Duplicate payment webhooks write one HOLD row per provider reference.
HoldOnce == \A p \in PayRefs : holds[p] <= 1

\* Points are earned at most once per order, and only for an order whose
\* payout the provider took.
LoyaltyOnce == earned <= 1 /\ (earned = 1 => \E k \in Keys : disb[k] # "none")

\* A payment and a payout are written once, however often their webhooks and
\* requests are repeated.
WrittenOnce == HoldOnce /\ LoyaltyOnce

Completed(rows) == {x \in DOMAIN rows : rows[x].status = "COMPLETED"}

\* held_balance(): the sum of HOLD - RELEASE - REFUND over COMPLETED rows is
\* 0 or the total, here with one payment reference.
HeldBalance ==
    \A p \in PayRefs :
        holds[p] - Cardinality(Completed(releases)) - Cardinality(Completed(refunds))
            \in {0, 1}

\* A payout attempt starts only on an order that is RECEIVED when the attempt
\* commits, in particular not on one under dispute or before delivery.
PayoutFromReceived ==
    [][\A e \in Attempts :
          releases[e].status = "none" /\ releases'[e].status = "PENDING"
            => ostate' = "RECEIVED"]_vars

\* A RELEASE row fails only if the provider holds no live disbursement for it,
\* since a failed row lets the next request pay (release(), "except Exception").
FailedWasRefused ==
    [][\A e \in Attempts :
          releases[e].status = "PENDING" /\ releases'[e].status = "FAILED"
            => disb[Key(e)] \notin {"accepted", "settled"}]_vars

(* What must eventually happen.                                            *)

\* Every request ends: nobody waits for the row lock for ever.
RequestsEnd == \A r \in Requests : []<>(req[r].pc = "idle")

\* No RELEASE row stays PENDING for ever: the provider's callback resolves it.
PendingResolves == \A e \in Attempts : []<>(releases[e].status # "PENDING")
=============================================================================
