# Verification of the Beli Aman BAP

TLA+ modules, model-checking configurations and machine-checked proofs about
`apps/beli-aman-bap`, the buyer-protection service of the Jaringan Dagang
network, with the network's registry and gateway. The service holds a buyer's
payment in escrow, has the seller ship the goods, follows the parcel, and pays
the seller out when the buyer confirms or a window has passed. It talks to four
payment providers, two carriers, Beckn participants and partner merchants, all
of them by requests whose answers can get lost and by webhooks that come late,
twice or too early. That is where its difficulty lies, and what the modules are
about.

Paths below are relative to `apps/beli-aman-bap/` unless they start with `apps/`.

Contents: 1 the system, 2 how the code becomes a model, 3 the modules, 4 the
runs, 5 the proofs, 6 disagreements between code and documentation, 7 what is
not modelled, 8 the plan.

## 1. The system

### 1.1 Components

| Component | State it keeps | Operations | What makes it correct |
|---|---|---|---|
| Order state machine (`services/state_machine.py`, `models/order.py`) | `Order.state`, `OrderEvent` rows | `transition`, `lock_order_for_update` | changes follow the table `ALLOWED`, one event per change |
| Escrow (`services/escrow.py`, `routers/escrow.py`, `routers/internal_mock.py`) | `EscrowLedger` rows | `release`, `refund` | one payout per order, none before delivery or under dispute, released only if a provider took it |
| Disbursements (`services/*_disbursements.py`, `routers/webhooks_*.py`) | status and reference of a RELEASE row | payout, callback | a row's status follows what the provider did |
| Provider and carrier clients (`services/dipay_client.py`, `services/jubelio.py`) | access tokens | renew, retry after 401 | a call does not fail for a token that a renewal would have replaced |
| Order before payment (`routers/orders.py`, `services/shipping_quotes.py`, `services/pricing.py`) | the `Order` row | quote, create, authorise, review | an order is authorised only with what was in force |
| Payment (`services/*_invoices.py`, `services/order_paid.py`, webhooks) | invoice snapshot, HOLD rows | create invoice, mark paid, expire | a paid invoice finds its order, one HOLD per payment |
| Telling the seller (`services/order_paid.py`, `services/seller_bridge.py`, `services/beckn_orders.py`, `services/fb_capi.py`) | none; tasks in memory | dispatch, patch, purchase event | the seller hears of one payment once, and of the end the order has |
| Shipments (`routers/orders.py`, `services/shipment_events.py`, carriers, webhooks) | AWB, carrier ids, delivery time | book, cancel, event, poll | one parcel per order, the buyer tracks that one, its delivery starts the clock |
| Partner orders (`routers/partner.py`, `services/partner_*.py`) | `PartnerOrder` rows, a background task | register, settle, notify | one order per external id, the partner is told what is true, and is told |
| Disputes and issues (`routers/disputes.py`, `services/igm.py`) | `Dispute` rows | open, `on_issue`, resolve | a disputed order has a dispute one can read about, a refunded dispute a refunded order |
| Rating and settlement (`services/rating.py`, `services/settlement.py`) | `OrderRating`, columns of `Order` | submit, ask, `on_rating`, `on_settle` | one rating per order, the request ends |
| Beckn inbox (`routers/beckn*.py`) | handled message ids | `on_*` messages | each message takes effect once and only for its owner |
| Beckn outbound (`beckn/outbound.py`, `workers/catalog_puller.py`) | none (a log) | signed send with retries, periodic search | a request ends although the pool is small |
| Mirror (`routers/beckn_handlers.py`, `models/mirror.py`, `routers/search.py`) | stores, products, SKUs, search sessions | `on_search`, search, poll | one catalogue of a seller at a time, in the end the seller's own |
| Carts (`routers/cart.py`, `routers/checkout.py`) | `Cart` rows | edit, confirm, pay, expire | the order id, its page and its webhooks fit together |
| Login (`services/otp_store.py`, `routers/auth.py`, `deps.py`) | one-time codes, profiles | issue, verify, sign in | a code works once |
| Store members (`routers/identity.py`, `deps.py`) | `StoreMembership` rows | invite, revoke, seed, link | every permission check has an answer, a store keeps an owner |
| What a buyer keeps (`routers/coupons.py`, `routers/wishlist.py`, `routers/profiles.py`) | claims, wishes, addresses, methods | claim, save, delete, add | one row where look-ups expect one |
| Brands (`routers/brands.py`, `scripts/add-payout-bank-accounts.py`) | provider, carrier, bank accounts | `put_payouts`, migration | one active account, which concurrent PUTs do not lose |
| Registry (`apps/registry`, `beckn_protocol/registry.py`) | subscribers, Redis answers, client caches | subscribe, delete, look up | caches come to agree with the table |
| Gateway (`apps/gateway`) | a look-up cache | multicast of a search | one slow seller keeps no other from it |

### 1.2 How they interact

Everything runs in one asyncio process per instance, with PostgreSQL at READ
COMMITTED behind it. A request owns a database session, which is committed when
the request ends (`database.py:23-30`). Four habits of that set-up decide what
can go wrong:

- A session keeps the first copy of a row it loads and does not refresh it
  (`expire_on_commit=False`, and `lock_order_for_update` has no
  `populate_existing`). A handler that reads before it locks acts on the state
  it read first, and writes only the columns in which its copy changed.
- `release()` commits, and so drops the row lock, before it calls the provider
  (`services/escrow.py:143`). Disputes, refunds, callbacks and other releases run
  during the call.
- Webhooks are matched by a reference that another request commits only after its
  own call to the same provider. A webhook can be faster than that.
- Tasks made with `asyncio.create_task` start at the next `await`, before their
  request commits, and die with the process.

The order row is the point where handlers meet: payment webhooks, shipping,
disputes, Beckn messages, admin endpoints and releases all write `Order.state`,
some under the row lock and some not. Providers and carriers are reached by calls
and reach back by webhooks; sellers by Beckn messages and the bridge; partners are
called by a task that lives in memory. The registry says who may sign for whom.

### 1.3 The hard behaviours

`PROJECT.json` lists them at their lines under "hazards", with the properties that
would catch them going wrong: stale copies, commits in the middle of an operation,
lost answers taken for refusals, callbacks before the row they need, repeated and
overlapping webhooks, crashes between a provider's action and our commit, checks
followed by inserts, requests that hold a connection while they wait for another,
tasks that outlive a rollback, caches of caches, and catalogues that overtake each
other.

## 2. How the code becomes a model

**Steps.** A coroutine is interrupted only where it awaits I/O, and what it wrote is
seen by others only when it commits. A handler that locks, writes and commits
without I/O to a provider is one action, whose guard includes that the row lock is
free. A handler that calls a provider in the middle is one action per commit and per
answer, and a record in `req` remembers its stage, its copy of the row and the row or
booking it works on. A handler that reads without a lock is two actions, so that
anything can happen in between.

**Copies.** A request's `seen` or `copy` is what its session loaded. A write compares
with that copy and goes over what is committed, column by column, as SQLAlchemy's
UPDATE does (`Written` in BecknOrders and Carts, `Commit` in PayoutAccounts).

**Locks.** A row that is updated or inserted is locked until the commit; a unique
index makes a second insert wait and then fail. Modules without such waits say why
in their heads.

**The other side.** Providers, carriers, sellers and partners are modelled by what the
code relies on: a payout taken under a key is not taken twice, an end is reported
until the report is answered with success, a report can be repeated later. What they
did is a variable (`disb`, `parcel`, `inv`, `heard`, `seller`) that no handler can read
except through an answer or a message, and the properties compare the rows with it.

**Faults.** `crash`, `lost_answer` and others are members of a constant set. In
ShipmentBooking and PartnerOrders the set is chosen in the initial state from
`FaultSets`, so that one run covers several combinations and a theorem holds for each
of them; elsewhere it is fixed per instance.

**Data.** An amount is always the whole order (`amount_idr` is `total_idr` at each
call), so a ledger row is one unit. A booking stands for its AWB and its
carrier id, an invoice for its id and reference, a price or an address for the
version of it. Time is what has happened: the release window is unset, running or
over, an invoice, code, cart or token is fresh or expired.

**Definitions named `..._bug`** are slips one could make in the definition after
them; putting one in its place makes the property it is paired with in
`PROJECT.json` ("mutants") fail.

## 3. The modules

| Module | About | Rests on |
|---|---|---|
| OrderStates | the states and the table `ALLOWED` | - |
| EscrowOrder | one order: state, ledger, payouts, refunds, payment, every handler | OrderStates |
| EscrowPromise | what the escrow of an order promises, in seven actions | - |
| EscrowOrderInv | inductive invariant and refinement mapping | EscrowOrder, EscrowPromise |
| EscrowOrderProofs | theorems | EscrowOrderInv |
| ShipmentBooking, ShipmentBookingProofs | one paid order: bookings, cancellations, carrier webhooks | OrderStates |
| PartnerOrders, PartnerOrdersProofs | the orders of one partner: registering, settling, notifying | - |
| Checkout | an order from its quote to its review | - |
| Invoices, InvoicesProofs | the invoice of one order under four providers, and its webhooks | OrderStates |
| SellerSync | what seller and Meta hear of a paid order | OrderStates |
| BecknOrders, BecknOrdersProofs | inbox, disputes, issues, rating and settlement of one order | OrderStates |
| Registry | a seller's registration and four caches of it | - |
| CatalogMirror, CatalogMirrorProofs | the sellers' catalogues, pushed, pulled and searched | - |
| Carts | a bot's cart up to its payment page | - |
| Login | one-time codes, profiles and pending invitations of one address | - |
| Stores | the members of one store | - |
| PayoutAccounts | a brand's bank accounts, its provider, and the migration | - |
| BuyerRows | a buyer's coupons, wishes, addresses and methods | - |
| AccessTokens | the tokens of Dipay and Jubelio | - |
| MCEscrowOrder, MCShipmentBooking, MCPartnerOrders | instances for TLC | the above |
| MCParts, PartsProofs | fourteen instances without fairness, side by side, and the theorems about them | EscrowOrderProofs, InvoicesProofs and eight others |
| MCLive, LiveProofs | ten instances with fairness, side by side, and the theorems about them | BecknOrdersProofs, Registry, CatalogMirrorProofs, EscrowOrderProofs, ShipmentBookingProofs |

EscrowOrder, Invoices, SellerSync, Checkout and BecknOrders look at one order from
five sides. Each has as its environment what the others do to the row it shares with
them, as an action `OtherTransition` (or `OtherHandler`, `Switch`) that changes the
shared column at any time, from any state and without regard for `ALLOWED`, because
some of those handlers write from old copies. The states it gives the order are a
constant bound in BecknOrders (`Others`) and Invoices (`Later`). What the properties tell
apart in such a writer is a history variable (`byHand`, `outside`, `returned`) that no
action reads.

### 3.1 EscrowOrder

| Variable | Code |
|---|---|
| `ostate`, `autoRelease`, `invoiced`, `shipment` | columns of `Order`, an invoice in `payment_method_snapshot`, a carrier booking |
| `lastEvent` | `to_state` of the newest `OrderEvent` |
| `holds`, `releases`, `refunds` | `EscrowLedger` rows by `entry_type` |
| `earned` | `LoyaltyTransaction` rows of type "earn" |
| `lock`, `req` | the `FOR UPDATE` lock on the order, the requests in flight |
| `disb`, `notice`, `refundObj` | at the provider: payouts by key, their callbacks, the refund |

`release()` is `LockOrder` (or `PeekOrder` and `LockPeeked` for the lazy release of
`GET /orders/{id}`), `ReleaseCheck` or `ReleaseConflict`, `ReleaseCommit`, one of
`PayoutTaken`, `PayoutNotTaken`, `PayoutSkipped`, then `RecordSuccess` or
`RecordFailure`, then `CloseRelease` in the caller. What differs between
providers is the key: Xendit and Sento get `order-{id}-release`, the same for every
attempt, Dipay the id of the ledger row. `Found(k)` says which row a callback
matches.

Payment is one step for Xendit (`XenditPaid`, which locks first) and two for Sento
and Dipay (`ResolvePaid`, `ApplyPaid`), which load the order, query the provider and
lock afterwards. `MarkOrderPaid` writes a HOLD whenever its copy may go to
`ESCROW_HELD`, also when it is there already. `TrackingLookup`/`TrackingWrite` and
`BecknLookup`/`BecknRefund` are the handlers that never lock.

### 3.2 EscrowPromise

The buyer's payment is on the ledger (`funded`), what the order's state says of the
money (`shown`: unpaid, paid, released or refunded), the payout attempts that are open,
a payout was taken; and as an input, the operator who is having the order paid out. No
step shows the order as paid or released, and none starts a payout, before it is funded;
the operator's payout (`mock_release`, which looks at no HOLD) is the one exception. One
attempt is open at a time, an order is shown as released only after a provider took one,
and it is never shown as unpaid again. EscrowOrderInv maps EscrowOrder onto it, with
`funded` read from the HOLD rows and `shown` from the state, and `KeepsPromise` is
`Promise!Spec`. A buyer's confirmation that does not look at the order's state breaks it
(`Admits_bug`).

### 3.3 ShipmentBooking

`book_shipment` holds the row lock while it calls the carrier: `BookLock`,
`CarrierBooks` or `BookingUnheard` (the parcel exists and the answer is lost; with
Jubelio the client then sends the request again) or `BookingRefused`, `BookCommit`.
`cancel_shipment` likewise. A webhook finds its order by our order id with a lock
(`EventByOrderId`) or by the carrier's id without one (`EventMatched`,
`EventWrite`); both end in `ApplyEvent`.

Three more handlers write what the properties are about. `SellerStatus` is Beckn's
`handle_on_status`, which loads the order without a lock and overwrites its AWB in every
state, by a booking's or by one no carrier knows (`OwnAwb`). `SellerShipped` is
`mock_seller_shipped`, FULFILLING without a booking, and `AdminDelivered` is
`mock_delivered` and `mock_elapse_d3`, which set the release clock (`clock`, which is
`auto_release_at`) with no word of a carrier. `byHand` keeps which of the three
happened, and the properties name them as exceptions: the AWB is the booking's until the
seller's app tells another, an order in fulfilment has a booking unless an admin
shipped it, the clock runs for a delivery unless an admin set it. All other handlers are
`OtherHandler`: they write RECEIVED, DISPUTED, ESCROW_RELEASED and REFUNDED, from any
state, and with the fault `stale_payment` the `ESCROW_HELD` that a late payment webhook
writes from its old copy.

### 3.4 PartnerOrders

`register_order` checks the id (`RegisterCheck`), inserts (`RegisterInsert`, which
with the unique index waits for other transactions of that id, or
`RegisterConflict`), has the invoice minted (`Mint`, `MintUnheard`, `MintRefused`) and
commits. Xendit's webhook is believed (`XenditCallback`); Dipay's only starts a
query (`DipayCallback`, `DipayQuery`, `DipayQueryFails`). `PaidWrite` commits,
starts the notification and answers; `PaidWriteDies` is the process that dies after
the commit. `ChainAttempt` is one POST to the partner, three per task. The constant
`UniqueIndex` says whether the schema has the index (section 6).

### 3.5 Checkout

What an order is made of, and what can change under it (`Terms`): seller, origin,
prices and the carrier's rate, each as the number of its version. `create_order` reads
them one after the other (`PriceCart`, `RateCart`, `AddOrder`), and so does
`advance_to_authed` (`Authorise`, `RepriceCart`, `RerateCart`), which then refuses with
"Shipping quote changed" (`Requoted`) or authorises.

### 3.6 Invoices

`snap` is `payment_method_snapshot`, the only link from a Dipay, Sento or OY invoice to
its order. Dipay's handler commits a reservation in a session of its own before it
calls (`Reserve`), and its answer in another (`Succeed`, `Fail`); at its own end the
request merges what it has (`Store`). Xendit's invoice carries the order's id; Sento
and OY are called before anything is stored. A webhook resolves its order (`Found`),
Dipay's and Sento's query the provider (`QueryDipay`, `QuerySento`), and `Settle` calls
`MarkPaid`, on the locked row or on a copy. `Switch` is the operator who changes the
brand's provider, also in the middle of a request with the fault `switch_midway`.
`OtherTransition` gives a paid order any state of `Later`, also ESCROW_HELD again, which
is what `cancel_shipment` does and `returned` remembers.

### 3.7 SellerSync

A payment or a closing makes its tasks before its commit (`Mark`, `Close`, `Commit`,
`Rollback`); `Dispatch`, `Patch` and `Purchase` are those tasks, which read what is
committed when they run. Nothing sends again what did not arrive. `LocksFirst` is the
order of Xendit's and OY's webhooks, as against Dipay's and Sento's.

### 3.8 BecknOrders

A message of the seller is received (`Receive`: signature, then the order by our
reference or the seller's), checked against the handled messages (`Repeated`),
handled on copies (`Load`, with `OnStatus`, `OnUpdate`, `OnSettle`, `OnRating`,
`OnIssue`) and committed with its log row, or refused by the unique `message_id`
(`Conflict`). The four outgoing requests keep their transaction open over the send
(`Post`), which logs every attempt over a second connection (`LogAttempt`); with all
connections taken it fails after a timeout (`LogTimeout`). `OtherTransition` is the rest
of the service: it gives the order any state of `Others`, DISPUTED without a Dispute
row (carriers' problem events) among them, over whatever the state is by then (the
release after its commit, the lazy GET and Biteship's webhook write from old copies).
`outside` remembers whether the order is disputed by it and whether it wrote over
REFUNDED.

### 3.9 Registry

The table, the Redis answers by subscriber and by area, the cache of each client of
the BAP and that of the gateway. A look-up is `Ask`, then `CacheHit` or `ReadTable` and
`KeepAnswer`, then `ClientAnswer` or `GatewayAnswer`; between reading and keeping the
row may change and be invalidated. The static file is the clients' fall-back, also for
"nobody".

### 3.10 CatalogMirror

An `on_search` message replaces the seller's products: `LookUp`, `WriteStore` (which
locks the store's row), `Replace` (which deletes the rows its statement sees) and
`Commit`. Messages come from pushes, from the puller's rounds and from searches; they
are lost and overtaken. A batch of products and its SKUs is named by handler and
version, so that a mixture of two shows.

### 3.11 Carts, Login, Stores, PayoutAccounts, BuyerRows, AccessTokens

*Carts.* No handler locks; each reads, tells the seller (`Tell`, `TellFails`), and writes
the columns it changed (`Written`). In mock mode a confirm mints a page; in any other it
ends in `Rollback` after the seller was told, as nothing writes `quote_json`.

*Login.* `Issue`, `StoreCode`, `Verify`, `Compare`, `Gone` and `Admit` are the requests for
a code and with one, on copies of one row; `SignIn` and `SignedIn` those with a Google
token, which make or link the profile; `Claimed` links what `AddInvite` left.

*Stores.* `Invite`, `Seed` and `Revoke` read; `AddRow`, `ChangeRow` and `RemoveRow` commit;
`SignIn` links in between.

*PayoutAccounts.* A PUT reads once (`Begin`), then flushes in the code's order:
`DeleteRow`, `EditRow` or `AddRow`, `ClearOthers`, `Activate`, `ChooseProvider`, `Commit`.
What it has flushed locks rows and index entries (`Free`, `IndexLets`). `Fetch` and
`Backfill` are the migration, which may run again: it inserts the accounts that no row
has (`Filled`) and then deactivates every active row but one (`KeepOne`), the UPDATE that
ends `_backfill_sql`. The transaction that does so begins with `CREATE [UNIQUE] INDEX IF
NOT EXISTS`, which takes a SHARE lock on the table before it looks whether the index is
there and keeps it to the end of the transaction. SHARE excludes the ROW EXCLUSIVE lock
that each INSERT, UPDATE or DELETE of a PUT holds until its commit: the script waits for
every PUT that has written a row, and no PUT writes one until the script has committed.
The UPDATE therefore waits for no row and is re-checked against none; `Backfill` is one
step, whose guard is that no row is locked.

*BuyerRows.* Four handlers that look for a row and then insert one, two of them with a
unique constraint (`MayInsert`).

*AccessTokens.* One cache per merchant with a lock (`TakeCached`, `Renew`, `Fetched`);
Dipay's client renews after a 401 (`Forced`), Jubelio's does not. A 401 (`Unauthorised`)
comes for a token that has ended and, with the fault `signature`, for a valid token and
a signature the provider does not take, as the client's comments report of Dipay
(`services/dipay_client.py:26-28`, `572-577`); `_request` treats both alike.

### 3.12 MCParts and MCLive

Runs are few and components many, so most of the latter share two runs. `part` is set
in the initial state and names the instance that is at work; the others stand still
in one state. Every property says of which part it speaks. Nothing is checked about
two parts together: they are put side by side, not composed.

The sets and bounds of MCParts are CONSTANTS that `Parts.cfg` gives values, so that the
theorems about it hold for all values. A cart has two parts from one parameterised
instance, `CartOf(R, N)`, for the bot's requests R and the webhook handlers N. Where a
component has theorems, MCParts and MCLive instantiate the module of its proofs:
`Qris!PaidFindsOrderHolds` is then the theorem about that part.

## 4. The runs

Every run has the deadlock check off: an order that is released or refunded, a
shipment that is delivered, a settled payment and a used-up bound have no next step.

| Run | Instance | Question |
|---|---|---|
| xendit_all | Xendit, nearly all handlers, all faults | do the safety properties survive admin overrides, Beckn refunds and unlocked callbacks, and is EscrowPromise kept? |
| dipay_payout | Dipay without Beckn refunds and unlocked callbacks, with crashes and unmapped codes | does each attempt's own reference keep the provider at one live disbursement? |
| shipment | two Jubelio bookings and one of Biteship, two requests; four sets of faults: admins who act by hand with crashes, lost answers and stale payments; with AWBs that come late; with AWBs of the seller's; and the latter with stale payments | is there one parcel, is it the tracked one, does it start the clock? |
| partner | two requests, two orders, one external id, one task, fair | is there one order per id, and is what the partner hears true, recorded and heard? |
| parts | MCParts | fourteen parts, the questions of the table below |
| live | MCLive, fair | does everything that waits get on, do caches and mirrors heal, and what of the seller's messages takes effect? |
| lazy_stale, xendit_early_callback, dipay_lost_answer, dipay_double_hold, shipment_late_event, last_owner | small | the disagreements of section 6 |

| Part of `parts` | Instance |
|---|---|
| buyer | two requests and two attempts; Xendit without admin and Beckn overrides, with crashes and lost answers |
| checkout | two requests, two postal codes, one change of each term, crashes |
| qris, switched, hosted | two invoice requests, with Dipay alone and two webhooks; with Dipay and Xendit; with Sento and OY, two mints and a switch midway |
| told, told_late | two webhooks that lock first; one that does not, with rollbacks and crashes |
| two_at_once, one_by_one | two requests of a bot and one webhook; one request and two webhooks, with crashes |
| login | two requests, two codes, two wrong tries, two invitations |
| members | two people, one a super admin, three rows |
| payouts | two PUTs out of four, two rows, the migration at any time |
| kept | two requests, three rows |
| tokens | two calls, two merchants, three tokens, rejected signatures among the faults |

| Part of `live` | Instance |
|---|---|
| issue, update, settle, rating | BecknOrders with two requests and a pool of two; one message against disputes and issues; two messages about one dispute; settlement with crashes and lost answers; a rating with two tries |
| registry | two registrations, one look-up, registry and Redis failing |
| pulled, pushed, searched | two sellers; two messages handled together; a bot's session |
| payout | Dipay with lost answers, two requests and attempts, with the lazy release |
| ship | one booking of each carrier, two requests |

### 4.1 The properties

- **OneActiveRelease, NoDoublePayout.** There is one open payout attempt in the
  ledger, and one live disbursement at the provider. The check of `release()` is
  made under the lock, but the attempt lives on after it.
- **ReleasedWasTaken.** `ESCROW_RELEASED` is shown only if a provider took a payout.
  An attempt may fail after a callback has completed another.
- **HeldStatesFunded, WrittenOnce, HeldBalance.** States after payment have their HOLD
  row even if written from an old copy; HOLD and points are written once (for Xendit;
  section 6 for Dipay); the balance is zero or the total. The balance is checked
  without the overrides, which can refund an order that is not paid for yet.
- **ChangesAllowed.** Counted from the committed state, not from the handler's copy. It
  holds without the handlers that do not lock. A payout that completed stays completed.
- **FailedWasRefused** relates ledger, provider and caller over a payout and its
  repetition.
- **KeepsPromise.** Payment, payout and what the order shows come in the order that
  EscrowPromise says: the payment is held before the order moves on.
- **ShipInv, OneLiveBooking, ShipmentIsTracked, ClockStartsOnDelivery** relate the row
  to the carrier's parcels, and say what the seller's app and an admin can change of it.
- **OneOrderPerId, ToldWasPaid, ToldIsPaid, PaidIsRecorded, PaidIsTold** relate rows,
  provider and partner.
- **AuthedIsCurrent.** What an order is made of was in force while the authorising
  request ran, though it is read piece by piece.
- **PaidFindsOrder, AckedIsHeld.** Whatever crashed or raced, the webhook of a Xendit
  or Dipay invoice finds its order; one of Sento or OY does for the invoice the order
  shows (an older one is lost: section 6). An acknowledged payment has its HOLD, but for
  a further one whose handler read the order before a cancelled shipment put it back.
  Section 5 names the settings of a brand in which they do not hold, and section 6 says
  what happens there.
- **SellerAgrees.** One dispatch per payment, none without a payment, and no end on the seller's dashboard that
  the order does not come to, with webhooks that lock first.
- **ConfirmedIsWhole, ConfirmedStays.** The cart's order id is the one its page was made
  for; a confirmed cart stays so while its page is open, for a bot that waits for
  answers.
- **CodeOnce.** A code signs nobody in twice.
- **AccessAnswers, RowsAnswer.** Look-ups that expect one row find no two.
- **StaysPayable.** Neither two PUTs nor the migration leave two active accounts, nor
  take the active one away without its row.
- **RefusedWithNew.** A call is refused only with its own merchant's token, with Dipay
  with a second one that is younger than the first; and unless it is its signature that
  was rejected, each of these tokens had ended.
- **AppliedOnce.** A message has its effects once, its log row with them, and the ACK
  only then.
- **DisputedHasRow** (with `IssueHasRow`), **RefundRecorded.** A disputed order has a
  dispute, unless a carrier's event disputed it; a refunded dispute is of a refunded
  order, unless a writer outside the Beckn handlers undid the refund; an issue the
  seller heard of has its row.
- **OneCatalog, PullHeals.** A seller's rows are those of one message, and in the end
  of its current catalogue.
- **CachesConverge.** Once nobody registers, no cache says anything else than the table.
- **RequestsEnd, PendingResolves, DeliveredIsReceived.** Requests and handlers end though
  they wait for rows and connections; PENDING payouts are resolved and deliveries
  received.

### 4.2 Bounds

| Bound | Value | Why it is enough |
|---|---|---|
| `Requests` | 2 | every race in the code is between two requests on one row, the others being steps of their own. The proofs have no bound. |
| `Attempts` | 2 | the second is the retry; a third repeats the second's start |
| `Refunds`, `PayRefs` | 1 | a refund repeated in state REFUNDED sends the same idempotency key, so that the provider's refund stays the one the model has, and adds a second row the bound leaves out (section 6); the proofs take any number of rows. HOLD rows are counted, so that a repeated webhook shows |
| bookings | 3 | one cancelled, one lost, one live, with both carriers |
| `Orders`, `ExternalIds` | 2, 1 | two rows for one id is the violation; ids do not interact |
| `Chains` | 1 | `PaidWrite` waits while a task is running; a task per webhook does not change what the partner hears |
| `MaxMints`, `Notices` | 1 or 2 | a second invoice is one minted by a retry; one webhook for each |
| `MaxChanges` | 1 | values are compared for equality only, and one change makes two differ |
| `Tries`, `PoolSize` | 1 or 2, 2 | four tries and three connections in the code; each try is the same step, and two requests that hold a connection use up a pool of two |
| `Messages`, `MaxDispute` | 1 or 2 | copies of one message are handled by two requests; two messages end one dispute in two ways |
| `Later` (Invoices) | ESCROW_HELD and FULFILLING, in qris ESCROW_HELD and REFUNDED | the handlers ask only whether the order can be paid, can be paid again or has moved on; the proofs take any states from payment on |
| `Others` (BecknOrders) | DISPUTED in issue, RECEIVED in rating, none elsewhere | a state that disputes, one over which requests are made, and both written over a refund; the proofs take any set of states |
| `MaxVersion` (Registry, CatalogMirror) | 2 | an old and a new one |
| `Slots`, `Handlers` | 1, 1 or 2 | a handler takes its message off the slot, so that two handlers have an old and a new one at a time in either order |
| `MaxAttempts`, `MaxCodes` (Login) | 2 | five in the code; the last try and one before it; a code and its successor |
| `MaxRows` | 2 or 3 | two rows where one is expected, and one to begin with |
| `MaxTokens` | 3 | one refused, its successor, and another merchant's; one of them is revoked before its time |

Symmetry is used for requests, attempts and Jubelio bookings, only in xendit_all,
dipay_payout and shipment, which have no liveness property; it is sound there as the modules compare
these ids only for equality. shipment also has a VIEW that leaves out `acked`, which only
the fairness of `FairSpec` reads: no guard of `Next`, no other variable's new value and no
property of the run depends on it.

### 4.3 Fairness

- A request in flight goes on: the event loop resumes every coroutine, the HTTP
  clients and the wait for a connection have timeouts, and PostgreSQL queues lock
  waiters, so that a lock which is free again and again is obtained (strong fairness
  for steps that wait for a row, weak for the others).
- A provider ends what it took, and a webhook is repeated until it is answered with
  success; after that nothing is owed, which is what `xendit_early_callback` is
  about. The carriers' last status likewise.
- In PartnerOrders a query to Dipay and a write each succeed for an order if they
  are tried for ever: neither an outage nor crashes strike at every repetition.
- In CatalogMirror the puller makes its rounds, a seller that is asked again and again
  answers, and a message that is not lost is taken; losses end when the network is
  `quiet`, from when on catalogues do not change either, and `PullHeals` is about what
  comes after. In Registry cached entries reach their age.
- Nothing makes a buyer pay or confirm, a seller ship, an operator act, or a crashed
  task start again.

MCLive states the fairness of all its parts in a few conditions. An action of one part
can never be enabled in the behaviours of another, and under one name it has at most
one part's requirement, so that each condition is, in every behaviour, that of the
part at work: `GoOn` and `Served` name the requests and, where a part has no second
request, its sellers and messages. In the part payout the end of a disbursement and
its callback share one condition; the second becomes enabled only by the first.

## 5. The proofs

Every safety property of the passing runs is a theorem: the invariants, the action
properties and the refinement.
The `...Proofs` modules hold for every number of requests, attempts, bookings, orders,
messages, rows, tokens and changes and, where they do not say otherwise, all faults.
Each is built the same way: lemmas about the building blocks (what a lock, a stage
change, a write from a copy does), types with one step per action, an inductive
invariant that TLC has checked before, with one lemma per part or per group of
actions, and the temporal theorems from these by PTL. The invariants stand at the end
of the component's module (of EscrowOrder in EscrowOrderInv), so that they are read
with the properties they are for.

A theorem about a component with assumptions on its constants has the form
`InvoiceConstants => (Spec => []P)`. PartsProofs and LiveProofs take it to the
instances of the two shared runs: while `part` names a part, MCParts makes that part's
steps, and while it does not, that part's property says nothing.

**EscrowOrder.** `IInv` is needed because the properties are about rows and the code's
checks are about stages. `LockInv` ties the lock to the stages that hold it. `OwnInv`:
a request past its commit owns a row, alone. `CheckedInv`: between check and insert
nothing is open, because inserts need the lock. `XenditInv`: a row cannot be found by
a callback before its reference is stored. `DipayInv`: a FAILED row has nothing at
the provider. `FreshInv`: a copy loaded by the locking SELECT is the committed row.
`SeenInv`: a copy that shows a state after payment was loaded after it. On it rest
`OneActiveReleaseHolds`, `NoDoublePayoutHolds`, `ReleasedWasTakenHolds`,
`HeldStatesFundedHolds` and `KeepsPromiseHolds` (initial states and steps of the
refinement).

`MoneyInv` is the second invariant, about the ledger as a whole. `HoldInv`: an unpaid
Xendit order has no HOLD, and payment is never marked from an old copy. `SharedInv`: while
the disbursement that Xendit's and Sento's attempts share is live, some attempt is open.
`PaidFirstInv`, `NoRefundInv`: without the operator's overrides a payout follows a
payment and there is no refund, so that the sum of rows has three values only, each
shown with the cardinalities of sets of one element. `WindowInv`: a release that goes
on after its payout with the copy from before it finds the order where its own
transition is in the table. On it rest `WrittenOnceHolds`, `FailedWasRefusedHolds`,
`HeldBalanceHolds` and `ChangesAllowedHolds`.

Hypotheses, named in EscrowOrderInv:

- `OneActiveHere`: Xendit or Sento, or no lost answers. With Dipay and lost answers
  the property is false (`dipay_lost_answer`).
- `TakenHere`: Xendit, or every answer's code is mapped.
- `PromiseHere`: Xendit, or Dipay with neither of the two.
- `Provider = "xendit"` for WrittenOnce: false with Dipay (`dipay_double_hold`).
- `"lost_answer" \notin Faults` for FailedWasRefused: false without.
- `BalancedHere`: Xendit, no overrides that refund or pay out, one payment reference; a
  second reference is a second HOLD.
- `LocksFirst`: Xendit, and no handler that decides on a copy from before its lock.

**ShipmentBooking.** `ShipInv`: who calls a carrier holds the lock and finds the row as
it locked it (`LockInv`), the row's AWB and carrier id agree (`RowInv`), a live parcel
is either about to be committed or the row's (`ParcelInv`). Proved: `TypeCorrect`,
`ShipmentIsTrackedHolds` for any faults, `ShipInvariance` and `OneLiveBookingHolds`
under `OneLiveHere`: beside an AWB that comes late, admins may act by hand but nothing
goes wrong; and where the seller's app tells AWBs, no answer is lost and no process
dies. A late AWB, or one the seller tells, together with a booking that was not heard
of can store one parcel's AWB for another, after which cancelling cancels the wrong one.
While every booking is heard of, a cancellation cancels the row's parcel or fails.
`ClockStartsHolds` needs less: while no answer got lost, a parcel under way is the row's
or about to be (`ClockInv`), so that the report of delivery that starts the clock is
about the row's parcel, whatever AWB is asked for.

**PartnerOrders.** `PartnerInv`: a row being inserted belongs to one request and a
loaded one is committed (`InsertInv`), one row per id with the index (`IndexInv`),
every request, task and message about a payment rests on money at the provider
(`MoneyInv`), rows and copies agree with the provider (`AgreeInv`). The last part is
what makes writing from a stale copy harmless: a copy that is not pending is what the
row shows, and one that is pending leads to the event the provider has. Proved:
`TypeCorrect`, `PartnerInvariance`, `OneOrderPerIdHolds` (assuming `UniqueIndex`),
`ToldWasPaidHolds`, `ToldIsPaidHolds` (a statement about behaviours without late
payments).

**BecknOrders.** `BecknInv`: a handler has a message that was sent, by a reference that
matched, about a dispute that is committed (`InboxInv`); who is about to open a dispute
has an id that is nobody else's (`OpensInv`) and, for a dispute of the buyer's, the
order's lock (`OperateInv`); until the rest of the service writes over a refund, a copy
that shows one is right (`RefundInv`): a refund handler that finds REFUNDED in its copy
leaves the column out of its UPDATE, and the row needs no more. The handlers modelled
here, which write from old copies too, never write over it; that those outside do is
what `outside` records. Proved, under
`BecknConstants` only: `BecknInvariance`, `AppliedOnceHolds`, `DisputedHasRowHolds`,
`RefundRecordedHolds`, `IssueHasRowHolds`, `TypeOKHolds`.

**Invoices.** `InvoicesInv`: a request has an invoice of the provider it chose
(`AskInv`); a snapshot that shows Sento's or Dipay's invoice has its reference, in the
row and in copies (`SnapInv`); Dipay's reference is, once reserved, in every copy that
will be written over the snapshot (`ReservedInv`); a webhook handler knows the
invoice's end (`NoteInv`), and one whose copy was no longer payable, of an order that
is and was never put back, is about a payment that is held (`StaleInv`); an order that was
put back has a payment that is (`ReturnedInv`). `PaidFindsOrderHolds` assumes
`KeepsReference`: no Dipay, or no change of provider while a request runs.
`AckedIsHeldHolds` assumes `OneKeyed`: not both Sento and Dipay. TLC finds
counterexamples without them (section 6).

**CatalogMirror.** `MirrorInv`: from its flush to its commit a handler has the seller's
store row locked (`RowIsLocked`), so that what it read to delete is all there is
(`GoneIsAll`), and what it inserts is the only batch (`OneBatch`). `OneCatalogHolds` is
its last part as a cardinality. A seller's first two messages need the unique index of
stores instead of the lock, which `ProductsHaveStore` is for.

**The parts without a proof module of their own** are proved about in PartsProofs,
section by section, each from an invariant of its module:

| Theorem | Invariant | Its point |
|---|---|---|
| RowsAnswerHolds | `RowsInv` | a flushed insert is the only one of its coupon or product, since the index lets no second one through |
| RefusedWithNewHolds | `TokensInv` | the token a retry has is younger than the one that was refused, and its merchant's, whatever the 401 was about |
| CodeOnceHolds | `LoginInv` | who admits has deleted the row it compared, alone; copies of it delete nothing any more |
| AccessAnswersHolds | `AccessInv` | of one request at a time: rows are linked by address, and what a request has read stands |
| SellerAgreesHolds | `AgreeInv` | under the lock one request writes at a time, and a task's news is of a state that is committed or about to be |
| ConfirmedIsWholeHolds | `WholeInv` | writes go over order and page together, and a page is of a cart with an order |
| ConfirmedStaysHolds | `StaysInv` | for a bot that waits, no request but a poll is under way when the cart is confirmed, and a handler's page is the cart's |
| AuthedIsCurrentHolds | `CurrentInv` | who authorises holds the row and compares with versions between the request's beginning and now |
| StaysPayableHolds | `PayableInv` | of all PUTs one at most has chosen rows to activate, and the entry of the index that was there is among those it clears or deletes; the migration finds no such PUT and keeps one of the active rows |

`TypeOKHolds`, `HeldBalanceHolds`, `ChangesAllowedHolds`, `PaidFindsOrderHolds` and
`AckedIsHeldHolds` are instances of the theorems above. What the proofs assume of a
part is what MCParts fixes for it: one request at a time for the members, a surface
without overrides for the buyer, `{"dipay", "xendit"}` without and `{"sento", "oy"}` with
a switch midway. The rest are the assumptions `Constants` and `Names`, which TLC
evaluates: positive bounds, and that what stands for nobody is nobody.

**Only model-checked.** What must happen in the end, which TLAPS cannot prove under
fairness: RequestsEnd, PendingResolves, DeliveredIsReceived, PaidIsRecorded, PaidIsTold,
CachesConverge, PullHeals. Of the components, Registry has no safety property and so
no theorem but its types in `LiveProofs!TypeOKHolds`. The violation runs show what does
not hold and have nothing to prove.

## 6. Where code and documentation disagree

Shown by a run (`PROJECT.json`, "findings"):

1. **lazy_stale**: `GET /orders/{id}` loads the order, locks it, and re-checks the old
   copy (`routers/orders.py:276`): a payout starts for an order disputed meanwhile.
2. **xendit_early_callback**: a disbursement callback that is faster than the commit of
   its reference is answered with 200 and lost; the row stays PENDING and blocks
   every retry.
3. **dipay_lost_answer**: a payout whose answer timed out is recorded FAILED
   (`services/escrow.py:175`), a retry starts another under another reference, and
   the first one's callback makes both COMPLETED.
4. **dipay_double_hold**: two overlapping webhooks of one Dipay payment load the order
   before either locks it, and write a HOLD each (`routers/webhooks_dipay.py:507`).
5. **shipment_late_event**: a late webhook of a cancelled booking stores its AWB again
   (`services/shipment_events.py:70`): the order can be neither booked nor
   cancelled.
6. **last_owner**: the last owner of a store who is invited to it as staff leaves it
   without one (`routers/identity.py:197`).

Met while reading or modelling, not shown by a run. Payment and payout:

- The tasks that tell the seller and Meta are started before the payment is committed
  (`services/order_paid.py:146`), against the comment at its lines 211-213: they can tell
  of a payment that a failing commit takes back (part told_late models it).
- A second invoice paid while the order is ESCROW_HELD adds a second HOLD; one paid
  after the order has moved on is acknowledged without any
  (`services/order_paid.py:93-132`).
- Sento and OY are called before their reference is stored: after a crash, or OY's
  second invoice, a payable invoice is left whose webhook is refused for ever. A
  request whose brand changes its provider midway can drop Dipay's reference.
- A brand that was with Sento and with Dipay can have two invoices paid whose handlers
  read the order before they lock it: one writes ESCROW_HELD over a later state from its
  copy, after which one that had read the later state acknowledges its payment without a
  HOLD.
- One of the two is enough where a shipment is cancelled: a brand changes from Xendit to
  Dipay, the handler of the second payment reads the order that the first one had
  shipped, `cancel_shipment` puts it back to ESCROW_HELD (`routers/orders.py:531`), and
  the payment is acknowledged without a HOLD although the order can be paid again by then
  (the exception in AckedIsHeld).
- Dipay answers 401 also to a signature it does not take; the client renews a valid
  token, sends the same signature rule again and gives up (`services/dipay_client.py:453`).
- `create_invoice` returns a stored invoice also when it has expired, against the
  comment at `routers/webhooks_xendit.py:164`.
- The provider of a payout is the brand's at the time of the release, not of the
  payment (`services/escrow.py:137`).
- `transition` takes REFUNDED to REFUNDED as a no-op (`services/state_machine.py:60`),
  so that a repeated admin refund writes a second REFUND row for the same refund of
  the provider; the callback settles only one of them (`routers/webhooks_xendit.py:255`).
- A refund before the payment webhook makes `held_balance` negative
  (`services/escrow.py:283`).
- A Dipay payout with a code the client does not know stays PENDING, and nothing asks
  again (`services/dipay_disbursements.py:228`).
- `services/escrow.py:87-90` and `services/xendit_disbursements.py:29` disagree on
  whether a skipped payout is FAILED or PENDING; the code says FAILED.
- A Biteship webhook can write over ESCROW_RELEASED from an old copy
  (`routers/webhooks_biteship.py:99`), against the terminal states of `models/order.py`;
  so it can over REFUNDED, and so can a release after its commit and the lazy release of
  a GET. A refunded dispute is then one of an order that is not refunded.
- A carrier's problem event disputes an order without a Dispute row
  (`services/shipment_events.py:98`), and nobody is asked to resolve it.
- The seller's `on_status` writes an AWB of its choice over the one that was booked
  (`routers/beckn_handlers.py:262`): the buyer tracks another parcel, and cancelling
  cancels by the wrong AWB.

Partners, brands, buyers:

- The unique index on a partner's order id is made by a script only
  (`scripts/add-partner-integration.py:53`); on a schema made by `docker_schema.py` two
  overlapping registrations both commit, and later ones of that id fail.
- `services/partner_orders.py:5-7` says a duplicate webhook never starts the callback
  again; both receivers start it each time, which the model includes.
- `services/partner_webhook.py:169-175` expects a cron to repeat failed
  notifications; there is none, and `PaidIsTold` is stated without crashes. A
  registration whose answer is lost gets 409 on its retry.
- `routers/partner.py:233` reads attributes of items that are stored as dicts, so that
  every Xendit registration with items ends in 500 (`MintRefused`).
- The migration of bank accounts does not skip brands that have rows
  (`scripts/add-payout-bank-accounts.py:145`, against lines 18-19): a re-run brings back
  accounts that were removed, or fails on the index. Its last UPDATE would take a
  brand's account from a PUT that is choosing it, but for the lock that its `CREATE INDEX`
  holds on the table (section 3.11); moved to a transaction of its own it would not be safe.
- A PUT that changes a brand to Dipay looks for an active account without a lock
  (`routers/brands.py:512`), and one that deletes the account does not look at the
  provider.
- Two default addresses sent together are both the default (`routers/profiles.py:81`,
  against "Demote prior defaults").
- Whoever changes his address at Google can get a second row in a store, after which
  permission checks fail (`deps.py:37-51`, `routers/identity.py:59-75`).

Carts and login:

- No code writes `quote_json`: outside mock mode a confirm tells the seller and then
  ends in 409 (`routers/checkout.py:144`). The HOLD of a paid cart violates its foreign
  key (`models/escrow_ledger.py:54`), so that the webhook fails at every repetition;
  the test has a fake session (`test_webhooks_sento.py:154`).
- Two requests of a bot lose each other's lines; an init that began earlier writes over
  CONFIRMED; two confirms send two orders to the seller; confirm does not look at
  `expires_at`; `_load_cart` rolls back the EXPIRED that it sets.
- Wrong tries of concurrent verifications are counted on copies and get lost; a code
  that was replaced is accepted in a race and deletes its successor
  (`services/otp_store.py:145`).

Beckn:

- The seller's `on_settle` that comes while the request is being sent is overwritten
  (`services/settlement.py:104-150`); `on_status`, `on_rating` and `on_issue` apply
  messages in the order they arrive.
- `/issue` is sent before the dispute is committed (`services/igm.py:203`).
- A Beckn refund changes the state without an event and without `transition`
  (`routers/beckn_handlers.py:341`, against `services/state_machine.py:3-5`).
- A client of the registry falls back on its static file also when the registry
  answers that there is nobody (`beckn_protocol/registry.py:142-175`).
- A seller whose first push is lost has no row in the mirror, and the puller asks only
  those that have one.
- `results_json` of a search session is never written (`models/bot_rest.py:102`).

## 7. What is not modelled

- **Paid carts**: out of the program's reach (section 6), so that Carts ends with the
  page and the refusal of its payment.
- **Amounts, prices, fees, points, weights** and the length of the release window:
  pure arithmetic on versions that the models compare for equality.
- **Partner URLs, partner, bot and Firebase authentication**: checks of one request
  against settings, with nothing kept between requests.
- **Signatures, wire formats, normal forms of contacts, bank codes, pages and images,
  message types of the protocol packages**: pure functions.
- **Webhook audit, analytics, storefront integrations**: rows that nothing decides on.
- **Onboarding portal and network extension**: a web site and data files.
- **`hold()`**: nothing calls it.
- **`on_track`, `on_cancel`**: acknowledged only.
- **Stock**: the code does not check it.

## 8. Plan

The program's state is modelled and the safety properties of the runs are proved. What
is left:

1. Registry: an abstract specification of a cached table (an answer is one the table
   gave, not older than the age of an entry) and the refinement, step by step.
2. CatalogMirror: that it implements a mirror which takes one whole catalogue at a
   time, with the statements between as stuttering.
3. Carts, BecknOrders: what the theorems assume about overlapping requests, stated as
   weaker properties of bots that do not wait.
4. Theorems for settings that no run has: Sento's payments, and orders whose handlers
   do not lock first, for which the table of changes holds of what the copy shows.
