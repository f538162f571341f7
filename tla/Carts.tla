------------------------------- MODULE Carts -------------------------------
(***************************************************************************)
(* A bot's cart: routers/cart.py, routers/checkout.py, the seller's view   *)
(* of it by services/order_flow.py, and the invoice webhooks about it.     *)
(*                                                                         *)
(* No handler locks the row.  Each reads it, tells the seller, and commits *)
(* the columns that differ from what it read.  Nothing writes quote_json,  *)
(* so that a cart's total is 0: only mock mode mints an invoice, any other *)
(* refuses and rolls back, after the seller was told.                      *)
(***************************************************************************)
EXTENDS Naturals

CONSTANTS
    Requests,      \* the bot's concurrent requests
    Notices,       \* concurrent webhook handlers
    MaxUnits,      \* units the bot puts in the cart
    MaxConfirms,   \* order ids the confirms may mint
    Faults

CartConstants ==
    /\ MaxUnits \in Nat \ {0} /\ MaxConfirms \in Nat \ {0}
    /\ Faults \subseteq {"crash", "lost_answer"}

Confirms == 1..MaxConfirms

VARIABLES
    mock,      \* invoice_mock_mode()
    cart,      \* the committed row
    passed,    \* Cart.expires_at lies in the past
    bot,       \* Requests -> a running request
    hook,      \* Notices -> a running webhook handler
    heard,     \* what the seller heard: the last list, the orders confirmed
    page,      \* Confirms -> the payment page of that order id
    settled    \* pages whose webhook was answered with success

vars == <<mock, cart, passed, bot, hook, heard, page, settled>>

CartStatus == {"none", "open", "drafted", "confirmed", "expired"}

Cart == [status : CartStatus, units : 0..MaxUnits, order : 0..MaxConfirms,
         invoice : 0..MaxConfirms, pay : {"pending", "expired"}]

NoCart == [status |-> "none", units |-> 0, order |-> 0, invoice |-> 0, pay |-> "pending"]

Nothing == [pc |-> "idle", kind |-> "none", copy |-> NoCart, id |-> 0]

Asking == [pc : {"idle", "telling", "writing"}, copy : Cart, id : 0..MaxConfirms,
           kind : {"none", "select", "add", "init", "confirm", "view", "status"}]

Hooked == [pc : {"idle", "writing"}, copy : Cart, id : 0..MaxConfirms,
           kind : {"none", "paid", "expired"}]

TypeOK ==
    /\ mock \in BOOLEAN /\ passed \in BOOLEAN
    /\ cart \in Cart
    /\ bot \in [Requests -> Asking]
    /\ hook \in [Notices -> Hooked]
    /\ heard \in [list : 0..MaxUnits, orders : SUBSET Confirms]
    /\ page \in [Confirms -> {"none", "open", "paid", "expired"}]
    /\ settled \subseteq Confirms

Init ==
    /\ mock \in BOOLEAN
    /\ cart = NoCart /\ passed = FALSE
    /\ bot = [r \in Requests |-> Nothing]
    /\ hook = [n \in Notices |-> Nothing]
    /\ heard = [list |-> 0, orders |-> {}]
    /\ page = [k \in Confirms |-> "none"]
    /\ settled = {}

-----------------------------------------------------------------------------
(* The bot's requests.                                                     *)

Starts(r, kind, pc, id) ==
    /\ bot[r].pc = "idle"
    /\ bot' = [bot EXCEPT ![r] = [pc |-> pc, kind |-> kind, copy |-> cart, id |-> id]]
    /\ UNCHANGED <<mock, cart, passed, hook, heard, page, settled>>

\* cart_select() makes the row, which nobody else knows until it is committed.
Select(r) ==
    /\ cart.status = "none" /\ \A q \in Requests : bot[q].pc = "idle"
    /\ Starts(r, "select", "telling", 0)

\* _load_cart(): the row is in time, or a confirmed one.  An expired cart
\* answers 410, and the status it was given is rolled back with the request.
Usable == ~passed /\ cart.status # "expired"

Add(r) == Usable /\ cart.status = "open" /\ cart.units < MaxUnits /\ Starts(r, "add", "telling", 0)

Draft(r) == Usable /\ cart.status \in {"open", "drafted"} /\ Starts(r, "init", "telling", 0)

\* confirm_cart(), with an order id of its own for every attempt, does not look
\* at expires_at.
Confirm(r) ==
    /\ cart.status \in {"open", "drafted"}
    /\ \E k \in Confirms :
          /\ k \notin heard.orders \cup {cart.order} \cup {bot[q].id : q \in Requests}
          /\ page[k] = "none"
          /\ Starts(r, "confirm", "telling", k)

\* The two read paths write the expiry they notice: a cart that is looked at ...
View(r) ==
    /\ passed /\ cart.status \in {"open", "drafted"}
    /\ Starts(r, "view", "writing", 0)

Status_bug(r) ==  \* a confirmed cart expires, too
    passed /\ cart.status # "none" /\ Starts(r, "status", "writing", 0)

\* ... and one whose payment is asked for.
Status(r) ==
    /\ passed /\ cart.status \notin {"none", "confirmed"}
    /\ Starts(r, "status", "writing", 0)

\* order_flow sends the whole list under the cart's transaction, or the order;
\* whether it arrived is not asked.
Tell(r, what) ==
    /\ bot[r].pc = "telling"
    /\ bot' = [bot EXCEPT ![r].pc = "writing"]
    /\ heard' = what
    /\ UNCHANGED <<mock, cart, passed, hook, page, settled>>

SelectMessage(r)  == [heard EXCEPT !.list = bot[r].copy.units + 1]
InitMessage(r)    == [heard EXCEPT !.list = bot[r].copy.units]
ConfirmMessage(r) == [heard EXCEPT !.orders = @ \cup {bot[r].id}]

TellSelect(r)  == bot[r].kind \in {"select", "add"} /\ Tell(r, SelectMessage(r))
TellInit(r)    == bot[r].kind = "init" /\ Tell(r, InitMessage(r))
TellConfirm(r) == bot[r].kind = "confirm" /\ Tell(r, ConfirmMessage(r))

\* The message fails, or BECKN_ORDER_FLOW is off.
TellFails(r) ==
    /\ "lost_answer" \in Faults /\ bot[r].pc = "telling"
    /\ bot' = [bot EXCEPT ![r].pc = "writing"]
    /\ UNCHANGED <<mock, cart, passed, hook, heard, page, settled>>

Confirmed_bug(r) ==  \* a second confirm keeps the first one's order id
    [cart EXCEPT !.status = "confirmed", !.order = IF @ = 0 THEN bot[r].id ELSE @,
                 !.invoice = bot[r].id]

\* confirm_cart() and create_invoice_for_cart(): the status, the id and its page.
Confirmed(r) ==
    [cart EXCEPT !.status = "confirmed", !.order = bot[r].id, !.invoice = bot[r].id,
                 !.pay = IF bot[r].copy.pay = "pending" THEN @ ELSE "pending"]

\* The row after the commit: what differs from the copy is written.
Written(r) ==
    LET c == bot[r].copy IN
    CASE bot[r].kind = "select"  -> [NoCart EXCEPT !.status = "open", !.units = 1]
      [] bot[r].kind = "add"     -> [cart EXCEPT !.units = c.units + 1]
      [] bot[r].kind = "init"    ->
            [cart EXCEPT !.status = IF c.status = "drafted" THEN @ ELSE "drafted"]
      [] bot[r].kind = "confirm" -> Confirmed(r)
      [] bot[r].kind = "view"    -> [cart EXCEPT !.status = "expired"]
      [] bot[r].kind = "status"  ->
            [cart EXCEPT !.status = IF c.status = "expired" THEN @ ELSE "expired",
                         !.pay = IF c.pay = "pending" THEN "expired" ELSE @]

Write(r) ==
    /\ bot[r].pc = "writing" /\ (bot[r].kind = "confirm" => mock)
    /\ cart' = Written(r)
    /\ page' = IF bot[r].kind = "confirm" THEN [page EXCEPT ![bot[r].id] = "open"] ELSE page
    /\ bot' = [bot EXCEPT ![r] = Nothing]
    /\ UNCHANGED <<mock, passed, hook, heard, settled>>

\* No invoice without a total, and no cart without its process.
Rollback(r) ==
    /\ \/ bot[r].pc = "writing" /\ bot[r].kind = "confirm" /\ ~mock
       \/ bot[r].pc # "idle" /\ "crash" \in Faults
    /\ bot' = [bot EXCEPT ![r] = Nothing]
    /\ UNCHANGED <<mock, cart, passed, hook, heard, page, settled>>

-----------------------------------------------------------------------------
(* Payment.                                                                *)

\* The buyer pays a page that was shown, or lets it expire.
Resolve(k) ==
    /\ page[k] = "open"
    /\ \E s \in {"paid", "expired"} : page' = [page EXCEPT ![k] = s]
    /\ UNCHANGED <<mock, cart, passed, bot, hook, heard, settled>>

\* The webhook finds the cart by the id the invoice carries.
Notify(n, k) ==
    /\ hook[n].pc = "idle" /\ page[k] \in {"paid", "expired"} /\ k \notin settled
    /\ hook' = [hook EXCEPT ![n] = [pc |-> "writing", kind |-> page[k], copy |-> cart, id |-> k]]
    /\ UNCHANGED <<mock, cart, passed, bot, heard, page, settled>>

\* _handle_expired() of a cart.
SettleExpired(n) ==
    /\ hook[n].pc = "writing" /\ hook[n].kind = "expired"
    /\ cart' = IF hook[n].copy.pay = "pending"
               THEN [cart EXCEPT !.pay = "expired", !.status = "expired"] ELSE cart
    /\ \/ settled' = settled \cup {hook[n].id}
       \/ "lost_answer" \in Faults /\ UNCHANGED settled
    /\ hook' = [hook EXCEPT ![n] = Nothing]
    /\ UNCHANGED <<mock, passed, bot, heard, page>>

\* _handle_paid() of a cart adds a HOLD row for the cart's order id.  The column
\* refers to orders, which has no row of a cart, so that the commit fails: the
\* webhook is refused and the cart stays as it was.
RefusePaid(n) ==
    /\ hook[n].pc = "writing" /\ hook[n].kind = "paid"
    /\ hook[n].copy.order # 0
    /\ hook' = [hook EXCEPT ![n] = Nothing]
    /\ UNCHANGED <<mock, cart, passed, bot, heard, page, settled>>

\* Seven days go by.
Pass ==
    /\ ~passed /\ cart.status # "none" /\ passed' = TRUE
    /\ UNCHANGED <<mock, cart, bot, hook, heard, page, settled>>

Next ==
    \/ \E r \in Requests :
          Select(r) \/ Add(r) \/ Draft(r) \/ Confirm(r) \/ View(r) \/ Status(r)
            \/ TellSelect(r) \/ TellInit(r) \/ TellConfirm(r) \/ TellFails(r)
            \/ Write(r) \/ Rollback(r)
    \/ \E n \in Notices : SettleExpired(n) \/ RefusePaid(n) \/ \E k \in Confirms : Notify(n, k)
    \/ \E k \in Confirms : Resolve(k)
    \/ Pass

Spec == Init /\ [][Next]_vars

-----------------------------------------------------------------------------
\* ConfirmedIsWhole: also after two confirms at once, the order id of a cart is
\* the one its payment page was made for, a confirmed cart has one, and so has
\* every copy a webhook works on.
ConfirmedIsWhole ==
    /\ cart.order = cart.invoice
    /\ cart.status = "confirmed" => cart.order # 0
    /\ \A n \in Notices : hook[n].pc = "writing" => hook[n].copy.order # 0

\* ConfirmedStays: while the bot waits for one answer before it asks again, a
\* confirmed cart keeps its order, and expires only because its page did; the
\* cart's own expiry, noticed by whatever reads it, does not touch it.
ConfirmedStays ==
    [][cart.status = "confirmed" =>
          /\ cart'.order = cart.order
          /\ cart'.status # "confirmed" => page[cart.order] = "expired"]_vars
-----------------------------------------------------------------------------
(* The inductive invariants behind them.                                   *)

\* Before the first commit there is no cart, and one request that makes it.
FirstIsAlone ==
    /\ cart.status = "none" => cart = NoCart
    /\ \A r \in Requests : bot[r].kind = "select" =>
          cart.status = "none" /\ \A q \in Requests \ {r} : bot[q] = Nothing
    /\ \A r \in Requests : bot[r].kind \notin {"none", "select"} => cart.status # "none"

\* What a request may write: a unit there is room for, an order id.
Writable(r) ==
    /\ bot[r].pc = "idle" => bot[r] = Nothing
    /\ bot[r].pc # "idle" => bot[r].kind # "none"
    /\ bot[r].kind \in {"select", "add"} => bot[r].copy.units < MaxUnits
    /\ bot[r].kind = "confirm" => bot[r].id # 0

\* A page is of an order of a cart; who is told of one finds an order.
OrderIsKept ==
    /\ \A k \in Confirms : page[k] # "none" => cart.order # 0 /\ cart.status # "none"
    /\ \A n \in Notices : hook[n].pc = "writing" =>
          hook[n].copy.order # 0 /\ hook[n].id # 0 /\ page[hook[n].id] # "none"

WholeInv ==
    /\ TypeOK /\ FirstIsAlone /\ OrderIsKept
    /\ cart.order = cart.invoice /\ (cart.status = "confirmed" => cart.order # 0)
    /\ \A r \in Requests : Writable(r)

\* Of a bot that waits: the cart is confirmed once, and its page is the only one.
StaysInv ==
    /\ WholeInv
    /\ cart.order # 0 => cart.status \in {"confirmed", "expired"}
    /\ \A k \in Confirms : page[k] # "none" => cart.order = k
    /\ \A r \in Requests :
          /\ bot[r].kind # "none" => cart.status # "confirmed"
          /\ bot[r].kind \notin {"none", "status"} => cart.order = 0
    /\ \A n \in Notices : hook[n].pc = "writing" => page[hook[n].id] = hook[n].kind
=============================================================================
