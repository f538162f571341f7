--------------------------- MODULE PartnerOrders ---------------------------
(***************************************************************************)
(* Payments that external merchants register through /api/v1/partner: the  *)
(* partner_orders rows of one brand, the requests that insert them and the *)
(* webhooks that settle them, the invoices at the payment provider, and    *)
(* the background tasks that tell the partner it was paid.                 *)
(*                                                                         *)
(* Nothing here takes a row lock.  Registering inserts a row, keeps the    *)
(* transaction open while the provider mints the invoice, and commits.  A  *)
(* webhook loads the row, with Dipay asks the provider what is true, and   *)
(* writes what follows from the copy it loaded.                            *)
(***************************************************************************)
EXTENDS Naturals

CONSTANTS
    Requests,     \* requests that can be in flight together
    Orders,       \* ids the rows can be given
    ExternalIds,  \* ids the partner registers its orders under
    Chains,       \* notifications that can be under way together
    UniqueIndex,  \* the index on (brand_id, external_order_id) exists
    FaultSets,    \* the faults of a behaviour are one of these sets
    NoOrder, NoId \* model values

\* The process dies in a request or a background task; an answer of the
\* provider or to the partner is lost; the partner's endpoint stays down; an
\* invoice is paid after it expired.
FaultKinds == {"crash", "lost_answer", "partner_down", "late_payment"}

ASSUME PartnerConstants ==
    /\ UniqueIndex \in BOOLEAN
    /\ NoOrder \notin Orders
    /\ NoId \notin ExternalIds
    /\ FaultSets \subseteq SUBSET FaultKinds

VARIABLES
    status,  \* PartnerOrder.status, "none" while no row is committed
    ext,     \* PartnerOrder.external_order_id, also of an uncommitted row
    req,     \* requests in flight
    chain,   \* background tasks: the order and the attempts left
    invoice, \* at the provider: what became of each invoice
    rail,    \* the provider that minted it
    url,     \* orders whose pay page the partner was given
    told,    \* orders the partner was told are paid
    acked,   \* invoice events answered with success
    faults   \* what may go wrong in this behaviour

rows  == <<status, ext>>
money == <<invoice, rail, url>>
vars  == <<status, ext, req, chain, invoice, rail, url, told, acked, faults>>

PartnerOrderStatus == {"pending", "paid", "expired"}
Rails  == {"xendit", "dipay"}
Events == {"paid", "expired"}

\* send_payment_callback() tries this often.
Retries == 3

\* "checked" found no row of its id, "inserted" and "minted" hold an
\* uncommitted one; "resolved" is a Dipay webhook that has loaded the order
\* and is about to query Dipay, "loaded" one that is about to write.
Stages == {"idle", "checked", "inserted", "minted", "resolved", "loaded"}

\* A request: its stage, the external id and order it is about, and for a
\* webhook the event and the status its copy of the order shows.
Request == [pc : Stages, id : ExternalIds \cup {NoId}, order : Orders \cup {NoOrder},
            event : Events, seen : PartnerOrderStatus]

Idle == [pc |-> "idle", id |-> NoId, order |-> NoOrder,
         event |-> "expired", seen |-> "pending"]

NoTask == [order |-> NoOrder, left |-> 0]

TypeOK ==
    /\ status \in [Orders -> PartnerOrderStatus \cup {"none"}]
    /\ ext \in [Orders -> ExternalIds \cup {NoId}]
    /\ req \in [Requests -> Request]
    /\ \A r \in Requests :
         /\ req[r].pc = "checked" => req[r].id \in ExternalIds
         /\ req[r].pc \in {"inserted", "minted", "resolved", "loaded"}
              => req[r].order \in Orders
    /\ chain \in [Chains -> [order : Orders \cup {NoOrder}, left : 0..Retries]]
    /\ \A c \in Chains : chain[c].left > 0 => chain[c].order \in Orders
    /\ invoice \in [Orders -> {"none", "open", "paid", "expired", "paid_late"}]
    /\ rail \in [Orders -> Rails]
    /\ url \subseteq Orders
    /\ told \subseteq Orders
    /\ acked \subseteq Orders \X Events
    /\ faults \in FaultSets

Init ==
    /\ status = [o \in Orders |-> "none"]
    /\ ext = [o \in Orders |-> NoId]
    /\ req = [r \in Requests |-> Idle]
    /\ chain = [c \in Chains |-> NoTask]
    /\ invoice = [o \in Orders |-> "none"]
    /\ rail = [o \in Orders |-> "xendit"]
    /\ url = {} /\ told = {} /\ acked = {}
    /\ faults \in FaultSets
-----------------------------------------------------------------------------
(* register_order().                                                       *)

Finish(r) == req' = [req EXCEPT ![r] = Idle]

Committed(id) == \E o \in Orders : ext[o] = id /\ status[o] # "none"

\* The lookup found no row of this id; with one it is a 409.  The ids of the
\* model are those of one brand.
RegisterCheck(r, id) ==
    /\ req[r].pc = "idle"
    /\ ~Committed(id)
    /\ req' = [req EXCEPT ![r] = [Idle EXCEPT !.pc = "checked", !.id = id]]
    /\ UNCHANGED <<rows, chain, money, told, acked, faults>>

IndexEntry_bug(id) ==  \* a partial index, on pending orders only
    {o \in Orders : ext[o] = id /\ status[o] \in {"none", "pending"}}

\* What the unique index holds for an id: rows committed or being inserted.
IndexEntry(id) == {o \in Orders : ext[o] = id}

\* INSERT: with the index it waits while another transaction has the id.
\* Bound: while an order id is left.
RegisterInsert(r) ==
    /\ req[r].pc = "checked"
    /\ UniqueIndex => IndexEntry(req[r].id) = {}
    /\ \E o \in Orders :
         /\ ext[o] = NoId /\ invoice[o] = "none"
         /\ ext' = [ext EXCEPT ![o] = req[r].id]
         /\ req' = [req EXCEPT ![r].pc = "inserted", ![r].order = o]
    /\ UNCHANGED <<status, chain, money, told, acked, faults>>

\* ... and fails when that transaction commits: IntegrityError, 500.
RegisterConflict(r) ==
    /\ req[r].pc = "checked" /\ UniqueIndex /\ Committed(req[r].id)
    /\ Finish(r)
    /\ UNCHANGED <<rows, chain, money, told, acked, faults>>

\* The brand's provider mints an invoice; a seller can switch providers.  An
\* invoice stands for its id and, with Dipay, for the reference we chose.
Mint(r) ==
    /\ req[r].pc = "inserted"
    /\ invoice' = [invoice EXCEPT ![req[r].order] = "open"]
    /\ \E p \in Rails : rail' = [rail EXCEPT ![req[r].order] = p]
    /\ req' = [req EXCEPT ![r].pc = "minted"]
    /\ UNCHANGED <<rows, chain, url, told, acked, faults>>

\* A rollback takes the uncommitted row away.
Rollback(r) ==
    /\ ext' = [ext EXCEPT ![req[r].order] = NoId]
    /\ Finish(r)

MintUnheard(r) ==
    /\ "lost_answer" \in faults
    /\ req[r].pc = "inserted"
    /\ invoice' = [invoice EXCEPT ![req[r].order] = "open"]
    /\ Rollback(r)
    /\ UNCHANGED <<status, chain, rail, url, told, acked, faults>>

\* The provider refuses, or the invoice of an order with items cannot be
\* built for Xendit: 502 or 500, and no row.
MintRefused(r) ==
    /\ req[r].pc = "inserted"
    /\ Rollback(r)
    /\ UNCHANGED <<status, chain, money, told, acked, faults>>

RegisterCommit(r) ==
    /\ req[r].pc = "minted"
    /\ status' = [status EXCEPT ![req[r].order] = "pending"]
    /\ \/ url' = url \cup {req[r].order}
       \/ "lost_answer" \in faults /\ UNCHANGED url
    /\ Finish(r)
    /\ UNCHANGED <<ext, chain, invoice, rail, told, acked, faults>>
-----------------------------------------------------------------------------
(* The webhooks.                                                           *)

\* The provider has the money.
Paid(o) == invoice[o] \in {"paid", "paid_late"}

\* Load the order for a webhook of it and go on at stage pc.
Load(r, o, pc, event) ==
    /\ req[r].pc = "idle" /\ status[o] # "none"
    /\ req' = [req EXCEPT ![r] = [pc |-> pc, id |-> NoId, order |-> o,
                                  event |-> event, seen |-> status[o]]]
    /\ UNCHANGED <<rows, chain, money, told, acked, faults>>

\* What Xendit can report of an invoice: also later, that it had expired.
Reported(o, event) ==
    invoice[o] \in IF event = "paid" THEN {"paid", "paid_late"}
                   ELSE {"expired", "paid_late"}

\* Xendit names our order id and its event is believed.
XenditCallback(r, o, event) ==
    /\ rail[o] = "xendit" /\ Reported(o, event)
    /\ Load(r, o, "loaded", event)

\* The expiry of an invoice whose row was rolled back is acknowledged too.
XenditExpiryUnmatched(o) ==
    /\ rail[o] = "xendit" /\ invoice[o] = "expired" /\ status[o] = "none"
    /\ acked' = acked \cup {<<o, "expired">>}
    /\ UNCHANGED <<rows, req, chain, money, told, faults>>

\* Dipay names the reference it was given.  Its callback only starts a query.
DipayCallback(r, o) ==
    /\ rail[o] = "dipay" /\ invoice[o] # "none"
    /\ Load(r, o, "resolved", "expired")

DipayQuery_bug(r) ==  \* the callback is believed
    /\ req[r].pc = "resolved"
    /\ \E event \in Events : req' = [req EXCEPT ![r].pc = "loaded", ![r].event = event]
    /\ UNCHANGED <<rows, chain, money, told, acked, faults>>

\* The query says how the invoice ended; otherwise nothing is done.
DipayQuery(r) ==
    /\ req[r].pc = "resolved"
    /\ CASE Paid(req[r].order) ->
              req' = [req EXCEPT ![r].pc = "loaded", ![r].event = "paid"]
         [] invoice[req[r].order] = "expired" ->
              req' = [req EXCEPT ![r].pc = "loaded", ![r].event = "expired"]
         [] OTHER -> Finish(r)
    /\ UNCHANGED <<rows, chain, money, told, acked, faults>>

DipayQueryFails_bug(r) ==  \* answered with success
    /\ req[r].pc = "resolved"
    /\ acked' = acked \cup {<<req[r].order, "paid">>, <<req[r].order, "expired">>}
    /\ Finish(r)
    /\ UNCHANGED <<rows, chain, money, told, faults>>

\* It fails or times out: 502, which Dipay repeats.
DipayQueryFails(r) ==
    /\ req[r].pc = "resolved"
    /\ Finish(r)
    /\ UNCHANGED <<rows, chain, money, told, acked, faults>>

Acknowledge(r) == acked' = acked \cup {<<req[r].order, req[r].event>>}

\* mark_partner_order_paid() and mark_partner_order_expired(): only a copy
\* that shows "pending" makes them write.
Mark(r) ==
    status' = IF req[r].seen = "pending"
              THEN [status EXCEPT ![req[r].order] = req[r].event] ELSE status

\* notify_partner_paid_bg(), whatever the order's status was, for a brand
\* with a callback URL.  Bound: while a task is left.
Notify(o) ==
    \E c \in Chains :
        /\ chain[c].left = 0
        /\ chain' = [chain EXCEPT ![c] = [order |-> o, left |-> Retries]]

PaidWrite(r) ==
    /\ req[r].pc = "loaded" /\ req[r].event = "paid"
    /\ Mark(r)
    /\ Notify(req[r].order)
    /\ Acknowledge(r)
    /\ Finish(r)
    /\ UNCHANGED <<ext, money, told, faults>>

PaidWriteDies_bug(r) ==  \* the task is started before the commit
    /\ "crash" \in faults
    /\ req[r].pc = "loaded" /\ req[r].event = "paid"
    /\ Notify(req[r].order)
    /\ Finish(r)
    /\ UNCHANGED <<rows, money, told, acked, faults>>

\* The process dies after the commit, before the task and the answer.
PaidWriteDies(r) ==
    /\ "crash" \in faults
    /\ req[r].pc = "loaded" /\ req[r].event = "paid"
    /\ Mark(r)
    /\ Finish(r)
    /\ UNCHANGED <<ext, chain, money, told, acked, faults>>

ExpiredWrite(r) ==
    /\ req[r].pc = "loaded" /\ req[r].event = "expired"
    /\ Mark(r)
    /\ Acknowledge(r)
    /\ Finish(r)
    /\ UNCHANGED <<ext, chain, money, told, faults>>
-----------------------------------------------------------------------------
(* send_payment_callback().                                                *)

\* A task one attempt later.
Failed(task) ==
    IF task.left = 1 THEN NoTask ELSE [order |-> task.order, left |-> task.left - 1]

ChainAttempt_bug(c) ==  \* given up at the first failure
    /\ chain[c].left > 0
    /\ \/ /\ told' = told \cup {chain[c].order}
          /\ chain' = [chain EXCEPT ![c] = NoTask]
       \/ /\ chain[c].left > 1
          /\ chain' = [chain EXCEPT ![c] = NoTask]
          /\ UNCHANGED told
    /\ UNCHANGED <<rows, req, money, acked, faults>>

\* One POST: answered with 2xx; heard, but answered otherwise or not at all;
\* or not heard.  Unless the partner stays down, one of three is heard.
ChainAttempt(c) ==
    /\ chain[c].left > 0
    /\ \/ /\ told' = told \cup {chain[c].order}
          /\ chain' = [chain EXCEPT ![c] = NoTask]
       \/ /\ chain' = [chain EXCEPT ![c] = Failed(chain[c])]
          /\ \/ told' = told \cup {chain[c].order}
             \/ /\ chain[c].left > 1 \/ "partner_down" \in faults
                /\ UNCHANGED told
    /\ UNCHANGED <<rows, req, money, acked, faults>>

\* The task is not persisted: it dies with the process.
ChainDies(c) ==
    /\ "crash" \in faults /\ chain[c].left > 0
    /\ chain' = [chain EXCEPT ![c] = NoTask]
    /\ UNCHANGED <<rows, req, money, told, acked, faults>>
-----------------------------------------------------------------------------
(* The rest of the world.                                                  *)

Crash(r) ==
    /\ "crash" \in faults /\ req[r].pc # "idle"
    /\ IF req[r].pc \in {"inserted", "minted"} THEN Rollback(r)
       ELSE Finish(r) /\ UNCHANGED ext
    /\ UNCHANGED <<status, chain, money, told, acked, faults>>

\* The buyer pays on the page the partner redirected to.
Pay(o) ==
    /\ o \in url
    /\ \/ invoice[o] = "open" /\ invoice' = [invoice EXCEPT ![o] = "paid"]
       \/ /\ invoice[o] = "expired" /\ "late_payment" \in faults
          /\ invoice' = [invoice EXCEPT ![o] = "paid_late"]
    /\ UNCHANGED <<rows, req, chain, rail, url, told, acked, faults>>

InvoiceExpires(o) ==
    /\ invoice[o] = "open"
    /\ invoice' = [invoice EXCEPT ![o] = "expired"]
    /\ UNCHANGED <<rows, req, chain, rail, url, told, acked, faults>>
-----------------------------------------------------------------------------
Step(r) ==
    \/ \E id \in ExternalIds : RegisterCheck(r, id)
    \/ RegisterInsert(r) \/ RegisterConflict(r)
    \/ Mint(r) \/ MintUnheard(r) \/ MintRefused(r) \/ RegisterCommit(r)
    \/ \E o \in Orders, event \in Events : XenditCallback(r, o, event)
    \/ \E o \in Orders : DipayCallback(r, o)
    \/ DipayQuery(r) \/ DipayQueryFails(r)
    \/ PaidWrite(r) \/ PaidWriteDies(r) \/ ExpiredWrite(r)
    \/ Crash(r)

Next ==
    \/ \E r \in Requests : Step(r)
    \/ \E c \in Chains : ChainAttempt(c) \/ ChainDies(c)
    \/ \E o \in Orders : XenditExpiryUnmatched(o) \/ Pay(o) \/ InvoiceExpires(o)

Spec == Init /\ [][Next]_vars

\* The event loop resumes every request.
Progress(r) ==
    \/ RegisterInsert(r) \/ RegisterConflict(r)
    \/ Mint(r) \/ MintUnheard(r) \/ MintRefused(r) \/ RegisterCommit(r)
    \/ DipayQuery(r) \/ DipayQueryFails(r) \/ PaidWrite(r) \/ ExpiredWrite(r)

\* The provider repeats the news of a payment until it is answered.
Redeliver(o) ==
    /\ <<o, "paid">> \notin acked /\ Paid(o)
    /\ \E r \in Requests : XenditCallback(r, o, "paid") \/ DipayCallback(r, o)

\* Neither crashes nor failing queries strike the same payment every time.
Fairness ==
    /\ \A r \in Requests : SF_vars(Progress(r))
    /\ \A o \in Orders :
         /\ SF_vars(Redeliver(o))
         /\ SF_vars(\E r \in Requests : req[r].order = o /\ DipayQuery(r))
         /\ SF_vars(\E r \in Requests : req[r].order = o /\ PaidWrite(r))
    /\ \A c \in Chains : WF_vars(ChainAttempt(c))

FairSpec == Spec /\ Fairness
-----------------------------------------------------------------------------
(* What must never happen.                                                 *)

\* The partner's id is "Unique per brand - the idempotency key for order
\* registration", also for registrations that overlap.
OneOrderPerId ==
    \A o, p \in Orders :
        status[o] # "none" /\ status[p] # "none" /\ ext[o] = ext[p] => o = p

\* The partner hands out its goods only for money the provider has.
ToldWasPaid == \A o \in told : Paid(o)

\* What the partner was told is what it reads back, as long as no invoice is
\* paid after it expired: late events, copies and crashes do not matter.
ToldIsPaid == "late_payment" \notin faults => \A o \in told : status[o] = "paid"

(* The inductive invariant behind them.                                    *)

\* A row that is committed has an external id, and so has one that is being
\* inserted; nobody else works on that one, and its invoice is yet to be
\* minted.  A webhook that has loaded a row has seen it committed.
InsertInv ==
    /\ \A o \in Orders : status[o] # "none" => ext[o] # NoId
    /\ \A r \in Requests : req[r].pc \in {"inserted", "minted"} =>
         /\ status[req[r].order] = "none" /\ ext[req[r].order] # NoId
         /\ req[r].pc = "inserted" => invoice[req[r].order] = "none"
         /\ \A q \in Requests \ {r} :
              req[q].pc \in {"inserted", "minted"} => req[q].order # req[r].order
    /\ \A r \in Requests : req[r].pc \in {"resolved", "loaded"} =>
         status[req[r].order] # "none"

\* The unique index at work.
IndexInv ==
    UniqueIndex => \A o, p \in Orders : ext[o] = ext[p] /\ ext[o] # NoId => o = p

\* Every step towards telling the partner knows that the money is there.
MoneyInv ==
    /\ \A r \in Requests :
         req[r].pc = "loaded" /\ req[r].event = "paid" => Paid(req[r].order)
    /\ \A c \in Chains : chain[c].left > 0 => Paid(chain[c].order)
    /\ ToldWasPaid

\* Unless invoices are paid late, rows, copies of rows and events agree with
\* the provider, and a task runs only for an order that is marked paid.
AgreeInv == "late_payment" \notin faults =>
    /\ \A o \in Orders :
         /\ status[o] \in Events => invoice[o] = status[o]
         /\ invoice[o] # "paid_late"
    /\ \A r \in Requests :
         /\ req[r].pc \in {"resolved", "loaded"} /\ req[r].seen \in Events =>
              status[req[r].order] = req[r].seen
         /\ req[r].pc = "loaded" => invoice[req[r].order] = req[r].event
    /\ \A c \in Chains : chain[c].left > 0 => status[chain[c].order] = "paid"
    /\ ToldIsPaid

\* The invariant of the proofs: what rows, requests, tasks and the provider
\* owe each other between any two steps.
PartnerInv == TypeOK /\ InsertInv /\ IndexInv /\ MoneyInv /\ AgreeInv

(* What must eventually happen.                                            *)

\* A payment is recorded, however many processes die and queries fail.
PaidIsRecorded ==
    \A o \in Orders :
        invoice[o] = "paid" /\ "late_payment" \notin faults ~> status[o] = "paid"

\* The partner hears of it, unless it stays down or the process dies with
\* the notification.
PaidIsTold ==
    \A o \in Orders :
        Paid(o) /\ faults \cap {"crash", "partner_down"} = {} ~> o \in told
=============================================================================
