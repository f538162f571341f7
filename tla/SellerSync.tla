----------------------------- MODULE SellerSync -----------------------------
(***************************************************************************)
(* What others hear of an order once it is paid, and again when it ends:   *)
(* the tasks that services/order_paid.py and the closings of an order      *)
(* start with asyncio.create_task() before their request commits, and the  *)
(* messages the tasks send: the Beckn /confirm of services/order_flow.py   *)
(* or services/beckn_orders.py, the calls of services/seller_bridge.py and *)
(* Meta's Purchase event (services/fb_capi.py).  Nothing sends them again: *)
(* one that does not arrive is lost.  A closing reads the order under its  *)
(* lock, which release() drops to pay the seller; GET /orders, which reads *)
(* it without, is in EscrowOrder.                                          *)
(***************************************************************************)
EXTENDS Naturals, OrderStates

CONSTANTS
    Requests,     \* concurrent webhooks about the payment, and closings
    LocksFirst,   \* Xendit, OY: the first read of the order locks it
    Faults

SellerSyncConstants ==
    /\ LocksFirst \in BOOLEAN
    /\ Faults \subseteq {"unreachable", "rollback", "crash"}

VARIABLES
    flow,       \* BECKN_ORDER_FLOW
    state,      \* Order.state
    req,        \* Requests -> a running request
    task,       \* Requests -> the dispatch or the patch the request started
    purchase,   \* Requests -> the Purchase event it started is not sent yet
    seller,     \* what reached the seller
    meta        \* the Purchase event reached Meta

vars == <<flow, state, req, task, purchase, seller, meta>>

EndStates == {"ESCROW_RELEASED", "REFUNDED"}

Idle == [pc |-> "idle", copy |-> "CART_REVIEWED", to |-> "none"]

Asked == [pc : {"idle", "loaded", "paying", "committing"}, copy : OrderState,
          to : {"none", "ESCROW_HELD"} \cup EndStates]

SellerHas == [confirms : 0..2, posts : 0..2, badge : {"none", "ESCROW_HELD"} \cup EndStates]

TypeOK ==
    /\ flow \in {"off", "shadow", "on"}
    /\ state \in OrderState
    /\ req \in [Requests -> Asked]
    /\ task \in [Requests -> {"none", "starting", "confirming", "posting"} \cup EndStates]
    /\ purchase \in [Requests -> BOOLEAN]
    /\ seller \in SellerHas
    /\ meta \in BOOLEAN

Init ==
    /\ flow \in {"off", "shadow", "on"}
    /\ state = "CART_REVIEWED"
    /\ req = [r \in Requests |-> Idle]
    /\ task = [r \in Requests |-> "none"]
    /\ purchase = [r \in Requests |-> FALSE]
    /\ seller = [confirms |-> 0, posts |-> 0, badge |-> "none"]
    /\ meta = FALSE

\* Nobody has written the order and not committed yet.
RowFree == \A r \in Requests : req[r].pc # "committing"

Free(r) == req[r].pc = "idle" /\ task[r] = "none" /\ ~purchase[r]

\* Up to two of a kind are told apart.
Count(n) == IF n = 2 THEN 2 ELSE n + 1

-----------------------------------------------------------------------------
(* The requests.                                                           *)

\* Sento's and Dipay's webhooks load the order first.
Load(r) ==
    /\ ~LocksFirst /\ Free(r)
    /\ req' = [req EXCEPT ![r] = [Idle EXCEPT !.pc = "loaded", !.copy = state]]
    /\ UNCHANGED <<flow, state, task, purchase, seller, meta>>

Reaches(r) == IF LocksFirst THEN Free(r) ELSE req[r].pc = "loaded"
Seen(r)    == IF LocksFirst THEN state ELSE req[r].copy

Mark_bug(r) ==  \* the order is read without its lock
    /\ Reaches(r)
    /\ Seen(r) = "CART_REVIEWED"
    /\ req' = [req EXCEPT ![r] = [Idle EXCEPT !.pc = "committing", !.to = "ESCROW_HELD"]]
    /\ task' = [task EXCEPT ![r] = "starting"]
    /\ purchase' = [purchase EXCEPT ![r] = TRUE]
    /\ UNCHANGED <<flow, state, seller, meta>>

\* mark_order_paid() moves the order and starts both tasks ...
Mark(r) ==
    /\ Reaches(r) /\ RowFree
    /\ Seen(r) = "CART_REVIEWED"
    /\ req' = [req EXCEPT ![r] = [Idle EXCEPT !.pc = "committing", !.to = "ESCROW_HELD"]]
    /\ task' = [task EXCEPT ![r] = "starting"]
    /\ purchase' = [purchase EXCEPT ![r] = TRUE]
    /\ UNCHANGED <<flow, state, seller, meta>>

\* ... or leaves an order alone that has moved already.
MarkAgain(r) ==
    /\ ~LocksFirst /\ Reaches(r) /\ RowFree
    /\ Seen(r) # "CART_REVIEWED"
    /\ req' = [req EXCEPT ![r] = Idle]
    /\ UNCHANGED <<flow, state, task, purchase, seller, meta>>

\* A closing that pays the seller: release() commits, and the lock is gone ...
Pay(r) ==
    /\ Free(r) /\ RowFree
    /\ "ESCROW_RELEASED" \in Allowed[state]
    /\ req' = [req EXCEPT ![r] = [Idle EXCEPT !.pc = "paying", !.copy = state]]
    /\ UNCHANGED <<flow, state, task, purchase, seller, meta>>

NotPaid(r) ==
    /\ req[r].pc = "paying"
    /\ req' = [req EXCEPT ![r] = Idle]
    /\ UNCHANGED <<flow, state, task, purchase, seller, meta>>

\* ... before the order ends, by the copy; a refund ends it under its lock.  A
\* task tells the seller.
Close(r, to) ==
    /\ RowFree
    /\ IF to = "ESCROW_RELEASED" THEN req[r].pc = "paying"
       ELSE Free(r) /\ to \in Allowed[state]
    /\ req' = [req EXCEPT ![r] = [Idle EXCEPT !.pc = "committing", !.to = to]]
    /\ task' = [task EXCEPT ![r] = to]
    /\ UNCHANGED <<flow, state, purchase, seller, meta>>

\* get_db(), or the closing itself, commits.
Commit(r) ==
    /\ req[r].pc = "committing"
    /\ state' = req[r].to
    /\ req' = [req EXCEPT ![r] = Idle]
    /\ UNCHANGED <<flow, task, purchase, seller, meta>>

\* The commit fails.  The rollback expires the order object: a dispatch that
\* has not read it yet fails, one that has goes on.
Rollback(r) ==
    /\ "rollback" \in Faults /\ req[r].pc = "committing"
    /\ req' = [req EXCEPT ![r] = Idle]
    /\ task' = [task EXCEPT ![r] = IF @ = "starting" THEN "none" ELSE @]
    /\ UNCHANGED <<flow, state, purchase, seller, meta>>

\* The process ends, and its tasks with it.
Crash ==
    /\ "crash" \in Faults
    /\ req' = [r \in Requests |-> Idle]
    /\ task' = [r \in Requests |-> "none"]
    /\ purchase' = [r \in Requests |-> FALSE]
    /\ UNCHANGED <<flow, state, seller, meta>>

\* The order goes on, or is refunded by a handler that tells nobody.
OtherTransition ==
    /\ RowFree
    /\ state' \in Allowed[state] \ ({"ESCROW_RELEASED"} \cup {"ESCROW_HELD"})
    /\ UNCHANGED <<flow, req, task, purchase, seller, meta>>

-----------------------------------------------------------------------------
(* The tasks.                                                              *)

\* _dispatch_to_seller() reads the order object and, in a session of its own,
\* the buyer's profile; without one it goes on all the same.
Dispatch(r) ==
    /\ task[r] = "starting"
    /\ task' = [task EXCEPT ![r] = "confirming"]
    /\ UNCHANGED <<flow, state, req, purchase, seller, meta>>

\* A call reaches the other side, or is logged and forgotten.
Heard(after, before) ==
    {after} \cup (IF "unreachable" \in Faults THEN {before} ELSE {})

\* confirm_order(): the Beckn /confirm, whose transaction is the order's id.
ConfirmOrder == Heard([seller EXCEPT !.confirms = Count(@)], seller)

\* By one of two modules; the bridge is told as well unless the flow is "on".
Confirm(r) ==
    /\ task[r] = "confirming"
    /\ seller' \in ConfirmOrder
    /\ task' = [task EXCEPT ![r] = IF flow = "on" THEN "none" ELSE "posting"]
    /\ UNCHANGED <<flow, state, req, purchase, meta>>

\* post_order() of the seller bridge; the seller's dashboard shows "held".
Post(r) ==
    /\ task[r] = "posting"
    /\ seller' \in Heard([seller EXCEPT !.posts = Count(@),
                                        !.badge = IF @ = "none" THEN "ESCROW_HELD" ELSE @],
                         seller)
    /\ task' = [task EXCEPT ![r] = "none"]
    /\ UNCHANGED <<flow, state, req, purchase, meta>>

\* patch_escrow_status(); the seller answers 404 to an order it does not have.
Patch(r) ==
    /\ task[r] \in EndStates
    /\ seller' \in Heard([seller EXCEPT !.badge = IF @ = "none" THEN @ ELSE task[r]], seller)
    /\ task' = [task EXCEPT ![r] = "none"]
    /\ UNCHANGED <<flow, state, req, purchase, meta>>

\* send_purchase(): the event's id is the order's, so that Meta keeps one.
SendPurchase == Heard(TRUE, meta)

\* _fire_capi_purchase_bg(): the order is read again, in whatever state it is.
Purchase(r) ==
    /\ purchase[r]
    /\ meta' \in SendPurchase
    /\ purchase' = [purchase EXCEPT ![r] = FALSE]
    /\ UNCHANGED <<flow, state, req, task, seller>>

Next ==
    \/ \E r \in Requests :
          \/ Load(r) \/ Mark(r) \/ MarkAgain(r) \/ Pay(r) \/ NotPaid(r)
          \/ Commit(r) \/ Rollback(r)
          \/ \E to \in EndStates : Close(r, to)
          \/ Dispatch(r) \/ Confirm(r) \/ Post(r) \/ Patch(r) \/ Purchase(r)
    \/ Crash
    \/ OtherTransition

Spec == Init /\ [][Next]_vars

-----------------------------------------------------------------------------
\* SellerAgrees: while no commit fails and no process ends, overlapping webhooks
\* that lock the order first make one dispatch; the seller and Meta hear of a
\* payment that is committed or about to be; and the seller's dashboard shows an
\* end of the order only if the order has ended, or is about to: a refund may come
\* before the end that a payout under way gives it.
SellerAgrees ==
    /\ seller.confirms <= 1 /\ seller.posts <= 1
    /\ seller.confirms + seller.posts > 0 \/ meta =>
          state # "CART_REVIEWED" \/ \E r \in Requests : req[r].to = "ESCROW_HELD"
    /\ seller.badge \in EndStates =>
          state \in EndStates \/ \E r \in Requests : req[r].to = seller.badge
-----------------------------------------------------------------------------
(* The inductive invariant behind SellerAgrees, where the order is locked  *)
(* first and no commit fails.                                              *)

\* Who has written the order is about to commit, alone; a payment is marked on
\* an order that nobody moves meanwhile.
Writing(r) == req[r].pc = "committing"

OneWrites ==
    \A r \in Requests :
        /\ Writing(r) <=> req[r].to # "none"
        /\ req[r].to = "ESCROW_HELD" => state = "CART_REVIEWED"
        /\ \A q \in Requests : Writing(r) /\ Writing(q) => r = q

\* The payment is committed, or is about to be.
Paid == state # "CART_REVIEWED" \/ \E r \in Requests : req[r].to = "ESCROW_HELD"

\* One dispatch runs, of a payment; what it has still to send was not sent.
Dispatching(r) == task[r] \in {"starting", "confirming", "posting"}

OneDispatch ==
    /\ \A r, q \in Requests : Dispatching(r) /\ Dispatching(q) => r = q
    /\ \A r \in Requests :
          /\ Dispatching(r) \/ purchase[r] => Paid
          /\ Dispatching(r) => seller.posts = 0
          /\ task[r] \in {"starting", "confirming"} => seller.confirms = 0
    /\ seller.confirms + seller.posts > 0 \/ meta => Paid
    /\ seller.confirms <= 1 /\ seller.posts <= 1

\* What a patch shows, or will show, is an end that is committed or about to be.
EndsAgree ==
    /\ \A r \in Requests :
          task[r] \in EndStates => state \in EndStates \/ req[r].to = task[r]
    /\ seller.badge \in EndStates =>
          state \in EndStates \/ \E r \in Requests : req[r].to = seller.badge

\* Wherever the order is locked, a writing request knows where it goes.
GoesSomewhere == \A r \in Requests : Writing(r) => req[r].to # "none"

AgreeInv ==
    TypeOK /\ state \notin {"PRE_AUTH", "AUTHED"} /\ OneWrites /\ OneDispatch /\ EndsAgree
=============================================================================
