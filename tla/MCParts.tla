------------------------------- MODULE MCParts -------------------------------
(***************************************************************************)
(* Fourteen small systems for TLC that share no state, one of them in each *)
(* behaviour: an order in escrow, an order before its invoice, an order    *)
(* while it is invoiced and paid under three choices of providers, what    *)
(* the seller hears of a paid order with and without faults, a cart with   *)
(* two requests at once and one with one, a sign-in, a store's members,    *)
(* a brand's bank accounts, what a buyer keeps, and the tokens.  The       *)
(* initial state chooses; the others stand still.                          *)
(***************************************************************************)
EXTENDS Naturals

CONSTANTS
    Requests, Notices,       \* what may be under way together
    r1, n1, NoReq,           \* one of each, where a part has only one
    Attempts, Refunds, p1, NoRow,
    Zips, People, Supers, Mails, NoOne, Calls, Merchants,
    m1, m2                   \* a brand's bank accounts

\* The bounds of the parts.
CONSTANTS MaxChanges, MaxUnits, MaxConfirms, MaxAttempts, MaxCodes, MaxInvites,
          MaxMembers, MaxAccounts, MaxKept, MaxTokens

VARIABLES
    part,
    \* EscrowOrder
    ostate, autoRelease, lastEvent, invoiced, shipment, holds, releases,
    refunds, earned, lock, req, disb, notice, refundObj,
    \* Checkout
    free, world, quoted, order, rowLock, asked,
    \* Invoices
    brand, state, snap, ask, note, inv, acked, held, returned,
    \* SellerSync
    flow, paidState, paying, task, purchase, seller, meta,
    \* Carts
    mock, cart, passed, bot, hook, heard, page, settled,
    \* Login
    row, issued, known, visit, profile, invites, accepted,
    \* Stores
    mail, rows, last, begun,
    \* PayoutAccounts
    accounts, lastAccount, provider, put, script,
    \* BuyerRows
    kept, lastKept, offered, phone,
    \* AccessTokens
    client, cache, tokenLock, call, minted, owner, age, revoked

escrowVars   == <<ostate, autoRelease, lastEvent, invoiced, shipment, holds, releases,
                  refunds, earned, lock, req, disb, notice, refundObj>>
checkoutVars == <<free, world, quoted, order, rowLock, asked>>
invoiceVars  == <<brand, state, snap, ask, note, inv, acked, held, returned>>
syncVars     == <<flow, paidState, paying, task, purchase, seller, meta>>
cartVars     == <<mock, cart, passed, bot, hook, heard, page, settled>>
loginVars    == <<row, issued, known, visit, profile, invites, accepted>>
storeVars    == <<mail, rows, last, begun>>
payoutVars   == <<accounts, lastAccount, provider, put, script>>
keptVars     == <<kept, lastKept, offered, phone>>
tokenVars    == <<client, cache, tokenLock, call, minted, owner, age, revoked>>

allVars == <<part, escrowVars, checkoutVars, invoiceVars, syncVars, cartVars, loginVars,
             storeVars, payoutVars, keptVars, tokenVars>>
-----------------------------------------------------------------------------
\* No admin, no Beckn refund, no carrier callback found by the carrier's id.
BuyerSurface ==
    {"mark_order_paid", "book_shipment", "cancel_shipment", "mock_seller_shipped",
     "mock_delivered", "shipment_event", "open_dispute", "buyer_confirm_receipt",
     "get_order", "mock_elapse_d3"}

Buyer == INSTANCE EscrowOrderProofs WITH
    PayRefs <- {p1}, Provider <- "xendit", Surface <- BuyerSurface, Faults <- {"crash", "lost_answer"}

Checkout == INSTANCE Checkout WITH
    Faults <- {"crash"}, lock <- rowLock, req <- asked

\* A paid order is shipped, and its shipment is cancelled.
GoesOn == {"ESCROW_HELD", "FULFILLING"}

Qris == INSTANCE InvoicesProofs WITH
    Providers <- {"dipay"}, MaxMints <- 1,
    Later <- {"ESCROW_HELD", "REFUNDED"},
    Faults <- {"crash", "lost_answer", "refusal"}

Switched == INSTANCE InvoicesProofs WITH
    Notices <- {n1}, Providers <- {"dipay", "xendit"}, MaxMints <- 1,
    Later <- GoesOn,
    Faults <- {"crash", "lost_answer"}

Hosted == INSTANCE InvoicesProofs WITH
    Notices <- {n1}, Providers <- {"sento", "oy"}, MaxMints <- 2,
    Later <- GoesOn,
    Faults <- {"crash", "switch_midway"}

Told == INSTANCE SellerSync WITH
    LocksFirst <- TRUE, Faults <- {"unreachable"},
    state <- paidState, req <- paying

ToldLate == INSTANCE SellerSync WITH
    Requests <- {r1}, LocksFirst <- FALSE, Faults <- {"unreachable", "rollback", "crash"},
    state <- paidState, req <- paying

\* A cart with the bot's requests R and the webhook handlers N at work on it.
CartOf(R, N) == INSTANCE Carts WITH
    Requests <- R, Notices <- N, Faults <- {"lost_answer", "crash"}

Login == INSTANCE Login WITH
    Faults <- {"undelivered", "crash"}, req <- visit

Members == INSTANCE Stores WITH
    Requests <- {r1}, MaxRows <- MaxMembers, Faults <- {}

\* What dashboards ask for: the script's account again, another one by the side
\* of it, by an edit of it, or in its place.
Asks ==
    LET put0 == [delete |-> 0, edit |-> 0, account |-> NoOne, activate |-> 0,
                 provider |-> "same"]
    IN {[put0 EXCEPT !.activate = 1],
        [put0 EXCEPT !.account = m2, !.activate = MaxAccounts + 1, !.provider = "dipay"],
        [put0 EXCEPT !.edit = 1, !.account = m2, !.activate = 2],
        [put0 EXCEPT !.delete = 1, !.activate = 2]}

Payouts == INSTANCE PayoutAccounts WITH
    Accounts <- {m1, m2}, Bodies <- Asks, MaxRows <- MaxAccounts,
    Legacy <- [p \in {"xendit", "sento", "dipay"} |-> IF p = "dipay" THEN NoOne ELSE m1],
    NoAccount <- NoOne, last <- lastAccount, req <- put

Kept == INSTANCE BuyerRows WITH
    MaxRows <- MaxKept, rows <- kept, last <- lastKept, req <- phone

Tokens == INSTANCE AccessTokens WITH
    NoCall <- NoReq,
    Faults <- {"refusal", "restart", "revoked", "signature"}, lock <- tokenLock

ASSUME Constants ==
    /\ Qris!InvoiceConstants /\ Switched!InvoiceConstants /\ Hosted!InvoiceConstants
    /\ Told!SellerSyncConstants /\ ToldLate!SellerSyncConstants
    /\ CartOf(Requests, {n1})!CartConstants /\ CartOf({r1}, Notices)!CartConstants
    /\ Checkout!CheckoutConstants /\ Login!LoginConstants /\ Members!StoresConstants
    /\ Payouts!PayoutConstants /\ Kept!BuyerRowsConstants /\ Tokens!AccessTokensConstants

\* Requests and rows are not what stands for none of them.
ASSUME Names ==
    NoReq \notin Requests /\ NoRow \notin Attempts \cup Refunds \cup {p1}
-----------------------------------------------------------------------------
InvoiceParts == {"qris", "switched", "hosted"}
CartParts    == {"two_at_once", "one_by_one"}
SyncParts    == {"told", "told_late"}
Parts == InvoiceParts \cup SyncParts \cup CartParts
           \cup {"buyer", "checkout", "login", "members", "payouts", "kept", "tokens"}

\* A part that stands still has one initial state.
Init ==
    /\ part \in Parts
    /\ Buyer!Init
    /\ Checkout!Init /\ (part # "checkout" => ~free)
    /\ IF part = "switched" THEN Switched!Init
       ELSE IF part = "hosted" THEN Hosted!Init ELSE Qris!Init
    /\ IF part = "one_by_one" THEN CartOf({r1}, Notices)!Init
       ELSE CartOf(Requests, {n1})!Init
    /\ part \notin CartParts => mock
    /\ IF part = "told_late" THEN ToldLate!Init ELSE Told!Init
    /\ part \notin SyncParts => flow = "off"
    /\ Login!Init
    /\ Members!Init
    /\ Payouts!Init /\ provider = "sento"
    /\ Kept!Init /\ (part # "kept" => ~offered /\ lastKept = 0)
    /\ Tokens!Init /\ (part # "tokens" => client = "dipay")

EscrowNext ==
    /\ part = "buyer" /\ Buyer!Next
    /\ UNCHANGED <<checkoutVars, invoiceVars, syncVars, cartVars, loginVars, storeVars,
                   payoutVars, keptVars, tokenVars>>

CheckoutNext ==
    /\ part = "checkout" /\ Checkout!Next
    /\ UNCHANGED <<escrowVars, invoiceVars, syncVars, cartVars, loginVars, storeVars,
                   payoutVars, keptVars, tokenVars>>

InvoiceNext ==
    /\ \/ part = "qris" /\ Qris!Next
       \/ part = "switched" /\ Switched!Next
       \/ part = "hosted" /\ Hosted!Next
    /\ UNCHANGED <<escrowVars, checkoutVars, syncVars, cartVars, loginVars, storeVars,
                   payoutVars, keptVars, tokenVars>>

SyncNext ==
    /\ \/ part = "told" /\ Told!Next
       \/ part = "told_late" /\ ToldLate!Next
    /\ UNCHANGED <<escrowVars, checkoutVars, invoiceVars, cartVars, loginVars, storeVars,
                   payoutVars, keptVars, tokenVars>>

CartNext ==
    /\ \/ part = "two_at_once" /\ CartOf(Requests, {n1})!Next
       \/ part = "one_by_one" /\ CartOf({r1}, Notices)!Next
    /\ UNCHANGED <<escrowVars, checkoutVars, invoiceVars, syncVars, loginVars, storeVars,
                   payoutVars, keptVars, tokenVars>>

LoginNext ==
    /\ part = "login" /\ Login!Next
    /\ UNCHANGED <<escrowVars, checkoutVars, invoiceVars, syncVars, cartVars, storeVars,
                   payoutVars, keptVars, tokenVars>>

StoresNext ==
    /\ part = "members" /\ Members!Next
    /\ UNCHANGED <<escrowVars, checkoutVars, invoiceVars, syncVars, cartVars, loginVars,
                   payoutVars, keptVars, tokenVars>>

PayoutsNext ==
    /\ part = "payouts" /\ Payouts!Next
    /\ UNCHANGED <<escrowVars, checkoutVars, invoiceVars, syncVars, cartVars, loginVars,
                   storeVars, keptVars, tokenVars>>

KeptNext ==
    /\ part = "kept" /\ Kept!Next
    /\ UNCHANGED <<escrowVars, checkoutVars, invoiceVars, syncVars, cartVars, loginVars,
                   storeVars, payoutVars, tokenVars>>

TokensNext ==
    /\ part = "tokens" /\ Tokens!Next
    /\ UNCHANGED <<escrowVars, checkoutVars, invoiceVars, syncVars, cartVars, loginVars,
                   storeVars, payoutVars, keptVars>>

Next ==
    /\ \/ EscrowNext \/ CheckoutNext \/ InvoiceNext \/ SyncNext \/ CartNext
       \/ LoginNext \/ StoresNext \/ PayoutsNext \/ KeptNext \/ TokensNext
    /\ UNCHANGED part

Spec == Init /\ [][Next]_allVars
-----------------------------------------------------------------------------
\* Every variable of the part that runs has its type.
TypeOK ==
    /\ part = "buyer" => Buyer!TypeOK
    /\ part = "checkout" => Checkout!TypeOK
    /\ part = "qris" => Qris!TypeOK
    /\ part = "switched" => Switched!TypeOK
    /\ part = "hosted" => Hosted!TypeOK
    /\ part = "two_at_once" => CartOf(Requests, {n1})!TypeOK
    /\ part = "one_by_one" => CartOf({r1}, Notices)!TypeOK
    /\ part = "told" => Told!TypeOK
    /\ part = "told_late" => ToldLate!TypeOK
    /\ part = "login" => Login!TypeOK
    /\ part = "members" => Members!TypeOK
    /\ part = "payouts" => Payouts!TypeOK
    /\ part = "kept" => Kept!TypeOK
    /\ part = "tokens" => Tokens!TypeOK

\* The completed rows of the ledger add up to nothing or to the order's total
\* (EscrowOrder, services/escrow.py).
HeldBalance == part = "buyer" => Buyer!HeldBalance

\* A committed change of state is one that ALLOWED lists, but for the
\* operator's release, although handlers decide on copies read before the lock
\* (services/state_machine.py), and a payout that completed is not taken back by
\* a late answer (services/escrow.py, "except Exception").
ChangesAllowed ==
    [][part = "buyer" =>
          /\ ostate' # ostate => ostate' \in Buyer!Allowed[ostate]
          /\ \A e \in Attempts :
                releases[e].status = "COMPLETED" => releases'[e].status = "COMPLETED"]_allVars

\* An order is authorised only with what was in force while the request ran
\* (Checkout, orders.advance_to_authed).
AuthedIsCurrent == Checkout!AuthedIsCurrent

\* A webhook finds the order of the invoice it is about (Invoices,
\* orders.create_invoice and the three references).
PaidFindsOrder ==
    /\ part = "qris" => Qris!PaidFindsOrder
    /\ part = "switched" => Switched!PaidFindsOrder
    /\ part = "hosted" => Hosted!PaidFindsOrder

\* An acknowledged payment has its HOLD row, unless its handler read the order
\* before a shipment was cancelled (Invoices, order_paid.py).
AckedIsHeld ==
    [][/\ part = "qris" => Qris!AckHeld
       /\ part = "switched" => Switched!AckHeld
       /\ part = "hosted" => Hosted!AckHeld]_allVars

\* A cart's order id, its page and what webhooks see of it fit (Carts,
\* checkout.confirm_cart).
ConfirmedIsWhole ==
    /\ part = "two_at_once" => CartOf(Requests, {n1})!ConfirmedIsWhole
    /\ part = "one_by_one" => CartOf({r1}, Notices)!ConfirmedIsWhole

\* A confirmed cart of a bot that waits for each answer stays confirmed while
\* its page is open (Carts, checkout.cart_payment_status).
ConfirmedStays ==
    [][part = "one_by_one" /\ cart.status = "confirmed" =>
          /\ cart'.order = cart.order
          /\ cart'.status # "confirmed" => page[cart.order] = "expired"]_allVars

\* One payment is dispatched once, and the seller's dashboard never shows an end
\* that the order does not come to (SellerSync, order_paid._dispatch_to_seller).
SellerAgrees == part = "told" => Told!SellerAgrees

\* Every check of a permission finds one row at most (Stores, routers/identity.py).
AccessAnswers == part = "members" => Members!AccessAnswers

\* A brand keeps one active bank account, whoever chooses and whenever the
\* script runs (PayoutAccounts, brands.put_payouts).
StaysPayable == [][part = "payouts" => Payouts!ChoiceStands]_allVars

\* A buyer has a coupon and a saved product once, so that every look-up finds one
\* row at most (BuyerRows, routers/coupons.py and wishlist.py).
RowsAnswer == part = "kept" => Kept!RowsAnswer

\* A one-time code signs nobody in twice (Login, otp_store.verify).
CodeOnce == part = "login" => Login!CodeOnce

\* A call is refused as unauthorised only with its own merchant's token, and
\* Dipay's second one, which ended unless a signature was rejected
\* (AccessTokens, dipay_client._request).
RefusedWithNew == part = "tokens" => Tokens!RefusedWithNew
=============================================================================
