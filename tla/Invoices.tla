------------------------------ MODULE Invoices ------------------------------
(***************************************************************************)
(* The invoice of one order: POST /orders/{id}/invoice of                  *)
(* routers/orders.py with the four services/*_invoices.py, the providers   *)
(* that mint and collect, and their invoice webhooks up to                 *)
(* order_paid.mark_order_paid().                                           *)
(*                                                                         *)
(* The snapshot of the order (payment_method_snapshot) is the only place   *)
(* that ties a Dipay, Sento or OY invoice to its order.  Dipay's handler   *)
(* reserves its reference there, in a session of its own, before it calls; *)
(* the other three call first and leave the write to the request's commit. *)
(* Sections under the row lock that wait for nobody are single steps.      *)
(***************************************************************************)
EXTENDS Naturals, OrderStates

CONSTANTS
    Requests,     \* concurrent POST /invoice of the buyer
    Notices,      \* concurrent webhook handlers
    Providers,    \* what brand.payment_provider may become
    MaxMints,     \* invoices a provider mints that takes every call for a new one
    Later,        \* bound: the states the rest of the BAP may give the order
    Faults

FaultKinds == {"crash", "lost_answer", "refusal", "switch_midway"}

\* Sento and Dipay know an invoice by the order's own reference, so that a
\* second call cannot mint a second one.
Keyed(p) == p \in {"sento", "dipay"}

Invoice == {i \in Providers \X (1..MaxMints) : Keyed(i[1]) => i[2] = 1}
NoInvoice == <<"none", 0>>

InvoiceConstants ==
    /\ Providers # {} /\ Providers \subseteq {"xendit", "oy", "sento", "dipay"}
    /\ MaxMints \in Nat \ {0}
    /\ Later \subseteq OrderState \ {"PRE_AUTH", "AUTHED", "CART_REVIEWED"}
    /\ Faults \subseteq FaultKinds

VARIABLES
    brand,     \* brand.payment_provider
    state,     \* Order.state
    snap,      \* Order.payment_method_snapshot
    ask,       \* Requests -> a running POST /invoice
    note,      \* Notices -> a running webhook handler
    inv,       \* Invoice -> what the provider has
    acked,     \* invoices whose webhook was answered with success
    held,      \* invoices with a HOLD row
    returned   \* history: the order was put back to ESCROW_HELD, as cancel_shipment() does

vars == <<brand, state, snap, ask, note, inv, acked, held, returned>>

Snapshot == [by : Providers \cup {"none"}, keys : SUBSET {"sento", "dipay"},
             id : Invoice \cup {NoInvoice}, url : BOOLEAN, qr : BOOLEAN,
             status : {"none", "creating", "ready", "failed"}]

NoSnapshot == [by |-> "none", keys |-> {}, id |-> NoInvoice, url |-> FALSE,
               qr |-> FALSE, status |-> "none"]

NotAsked == [pc |-> "idle", by |-> "none", copy |-> NoSnapshot, minted |-> NoInvoice,
             shown |-> NoInvoice]

NotNoted == [pc |-> "idle", about |-> NoInvoice, copy |-> "none", status |-> "none"]

Asking == [pc : {"idle", "loaded", "reserving", "minting", "answered", "storing"},
           by : Providers \cup {"none"}, copy : Snapshot,
           minted : Invoice \cup {NoInvoice}, shown : Invoice \cup {NoInvoice}]

Noting == [pc : {"idle", "querying", "settling"}, about : Invoice \cup {NoInvoice},
           copy : OrderState \cup {"none"}, status : {"none", "paid", "expired"}]

TypeOK ==
    /\ brand \in Providers
    /\ state \in OrderState
    /\ snap \in Snapshot
    /\ ask \in [Requests -> Asking]
    /\ note \in [Notices -> Noting]
    /\ inv \in [Invoice -> {"none", "open", "paid", "expired"}]
    /\ acked \subseteq Invoice
    /\ held \subseteq Invoice
    /\ returned \in BOOLEAN

Init ==
    /\ brand \in Providers
    /\ state = "CART_REVIEWED"
    /\ snap = NoSnapshot
    /\ ask = [r \in Requests |-> NotAsked]
    /\ note = [n \in Notices |-> NotNoted]
    /\ inv = [i \in Invoice |-> "none"]
    /\ acked = {} /\ held = {} /\ returned = FALSE

Quiet == UNCHANGED <<brand, state, note, inv, acked, held, returned>>

-----------------------------------------------------------------------------
(* The buyer asks for the invoice.                                         *)

\* _is_invoice_ready(): there is something to show, and for Dipay it is not
\* marked as failed.
Ready(s) == s.url /\ (s.by = "dipay" => s.qr /\ s.status # "failed")

Ends(r, shown) == ask' = [ask EXCEPT ![r] = [NotAsked EXCEPT !.shown = shown]]

\* create_invoice(): an invoice that is ready is returned in any state of the
\* order, and whatever the provider has done with it since.
ReturnStored(r) ==
    /\ ask[r].pc = "idle" /\ Ready(snap)
    /\ Ends(r, snap.id)
    /\ UNCHANGED snap /\ Quiet

\* The order is read, without a lock.
Load(r) ==
    /\ ask[r].pc = "idle" /\ ~Ready(snap) /\ state = "CART_REVIEWED"
    /\ ask' = [ask EXCEPT ![r] = [NotAsked EXCEPT !.pc = "loaded", !.copy = snap]]
    /\ UNCHANGED snap /\ Quiet

\* Then the brand, which says whom to call.
Choose(r) ==
    /\ ask[r].pc = "loaded"
    /\ ask' = [ask EXCEPT ![r].by = brand,
                          ![r].pc = IF brand = "dipay" THEN "reserving" ELSE "minting"]
    /\ UNCHANGED snap /\ Quiet

\* The snapshot a Dipay request reserves with: the stored one, the reference,
\* and nothing to show.
Reserved(s) == [s EXCEPT !.by = "dipay", !.keys = @ \cup {"dipay"},
                         !.id = <<"dipay", 1>>, !.status = "creating",
                         !.url = FALSE, !.qr = FALSE]

Reserve_bug(r) ==  \* the reservation is written with the answer only
    /\ ask[r].pc = "reserving"
    /\ ask' = [ask EXCEPT ![r].copy = Reserved(snap), ![r].pc = "minting"]
    /\ UNCHANGED snap /\ Quiet

\* The reservation: read, checked, written and committed under the row lock in
\* a session of its own.  An order that shows another invoice is refused, one
\* that is ready by now is returned.
Reserve(r) ==
    /\ ask[r].pc = "reserving"
    /\ \/ /\ snap.id \notin {NoInvoice, <<"dipay", 1>>}
          /\ Ends(r, NoInvoice)
          /\ UNCHANGED snap
       \/ /\ snap.id \in {NoInvoice, <<"dipay", 1>>}
          /\ snap.status = "ready" /\ snap.qr /\ snap.url
          /\ ask' = [ask EXCEPT ![r].copy = snap, ![r].minted = snap.id, ![r].pc = "storing"]
          /\ UNCHANGED snap
       \/ /\ snap.id \in {NoInvoice, <<"dipay", 1>>}
          /\ ~(snap.status = "ready" /\ snap.qr /\ snap.url)
          /\ snap' = Reserved(snap)
          /\ ask' = [ask EXCEPT ![r].copy = Reserved(snap), ![r].pc = "minting"]
    /\ Quiet

\* The provider has the invoice; the handler may not hear of it.
Minted(r, i, known) ==
    /\ inv' = [inv EXCEPT ![i] = IF @ = "none" THEN "open" ELSE @]
    /\ \/ ask' = [ask EXCEPT ![r].pc = "answered", ![r].minted = i]
       \/ /\ known \/ "lost_answer" \in Faults
          /\ ask' = [ask EXCEPT ![r].pc = "answered"]
    /\ UNCHANGED <<brand, state, snap, note, acked, held, returned>>

\* Xendit and OY make an invoice of every call.
MintAnother(r) ==
    /\ ask[r].pc = "minting" /\ ~Keyed(ask[r].by)
    /\ \E k \in 1..MaxMints :
          inv[<<ask[r].by, k>>] = "none" /\ Minted(r, <<ask[r].by, k>>, FALSE)

\* Sento and Dipay may know the order's invoice already, and refuse the call or
\* return what they have.
MintOnce(r, i) == ask[r].pc = "minting" /\ ask[r].by = i[1] /\ Minted(r, i, inv[i] # "none")

MintSento(r) == MintOnce(r, <<"sento", 1>>)
MintDipay(r) == MintOnce(r, <<"dipay", 1>>)

\* The provider refuses, or cannot be reached.
Refuse(r) ==
    /\ ask[r].pc = "minting" /\ "refusal" \in Faults
    /\ ask' = [ask EXCEPT ![r].pc = "answered"]
    /\ UNCHANGED snap /\ Quiet

\* No invoice: the request is rolled back.  Dipay's handler first records the
\* failure.  The session that reserved still holds the row as it wrote it, so
\* that the merge with "the row" puts its own copy back.
Fail(r) ==
    /\ ask[r].pc = "answered" /\ ask[r].minted = NoInvoice
    /\ snap' = IF ask[r].by = "dipay" THEN [ask[r].copy EXCEPT !.status = "failed"] ELSE snap
    /\ Ends(r, NoInvoice)
    /\ Quiet

Shown(s, by) == [s EXCEPT !.by = by, !.url = TRUE]

\* What an answer adds to the copy: Xendit's and OY's its id, Sento's the
\* reference of the order as well, and Dipay's content for a reference that is
\* there.
XenditAnswered(s, i) == [Shown(s, "xendit") EXCEPT !.id = i]

OyAnswered(s, i) == [Shown(s, "oy") EXCEPT !.id = i]

SentoAnswered(s, i) == [Shown(s, "sento") EXCEPT !.id = i, !.keys = @ \cup {"sento"}]

DipayAnswered(s) == [Shown(s, "dipay") EXCEPT !.qr = TRUE, !.status = "ready"]

Answered(r) ==
    LET s == ask[r].copy  i == ask[r].minted IN
    CASE ask[r].by = "dipay"  -> DipayAnswered(s)
      [] ask[r].by = "sento"  -> SentoAnswered(s, i)
      [] ask[r].by = "oy"     -> OyAnswered(s, i)
      [] ask[r].by = "xendit" -> XenditAnswered(s, i)

\* Dipay's handler commits the answer in its own session, the others leave it
\* to the request's.
Succeed(r) ==
    /\ ask[r].pc = "answered" /\ ask[r].minted # NoInvoice
    /\ ask' = [ask EXCEPT ![r].copy = Answered(r), ![r].pc = "storing"]
    /\ snap' = IF ask[r].by = "dipay" THEN Answered(r) ELSE snap
    /\ Quiet

\* get_db() commits the request's own copy, over whatever the row has now.
Store(r) ==
    /\ ask[r].pc = "storing"
    /\ snap' = ask[r].copy
    /\ Ends(r, ask[r].minted)
    /\ Quiet

Crash(r) ==
    /\ "crash" \in Faults /\ ask[r].pc # "idle"
    /\ Ends(r, NoInvoice)
    /\ UNCHANGED snap /\ Quiet

-----------------------------------------------------------------------------
(* The webhooks.                                                           *)

\* How a handler gets from the invoice to the order.  OY's signature is checked
\* with the secret of the brand whose order shows the invoice, Sento's and
\* Dipay's references are looked up, and Xendit sends the order's id back.
FoundByOy(i)    == snap.id = i
FoundBySento(i) == "sento" \in snap.keys
FoundByDipay(i) == "dipay" \in snap.keys \/ snap.id = i

Found(i) ==
    CASE i[1] = "xendit" -> TRUE
      [] i[1] = "oy"     -> FoundByOy(i)
      [] i[1] = "sento"  -> FoundBySento(i)
      [] i[1] = "dipay"  -> FoundByDipay(i)

\* The provider reports what became of an invoice until it is acknowledged.
\* Dipay's handler keeps the order it found, the others do not.
Notify(n, i) ==
    /\ note[n].pc = "idle" /\ inv[i] \in {"paid", "expired"} /\ i \notin acked
    /\ Found(i)
    /\ note' = [note EXCEPT ![n] =
                  [pc     |-> IF Keyed(i[1]) THEN "querying" ELSE "settling",
                   about  |-> i,
                   copy   |-> IF i[1] = "dipay" THEN state ELSE "none",
                   status |-> inv[i]]]
    /\ UNCHANGED <<brand, state, snap, ask, inv, acked, held, returned>>

\* What the two providers say of an invoice when they are asked.
query_qris(i) == inv[i]
get_status(i) == inv[i]

\* Dipay is asked for the status.
QueryDipay(n) ==
    /\ note[n].pc = "querying" /\ note[n].about[1] = "dipay"
    /\ note' = [note EXCEPT ![n].pc = "settling", ![n].status = query_qris(note[n].about)]
    /\ UNCHANGED <<brand, state, snap, ask, inv, acked, held, returned>>

\* So is Sento.  If its answer names an amount, the order is loaded to compare.
QuerySento(n) ==
    /\ note[n].pc = "querying" /\ note[n].about[1] = "sento"
    /\ \E copy \in {"none", state} :
          note' = [note EXCEPT ![n].pc = "settling", ![n].status = get_status(note[n].about),
                               ![n].copy = copy]
    /\ UNCHANGED <<brand, state, snap, ask, inv, acked, held, returned>>

\* No answer, or one about something else: the webhook is refused.
Unverified(n) ==
    /\ note[n].pc = "querying" /\ "lost_answer" \in Faults
    /\ note' = [note EXCEPT ![n] = NotNoted]
    /\ UNCHANGED <<brand, state, snap, ask, inv, acked, held, returned>>

MarkPaid_bug(i, seen) ==  \* no row for a second invoice
    /\ state' = IF seen = "CART_REVIEWED" THEN "ESCROW_HELD" ELSE state
    /\ held' = IF seen = "CART_REVIEWED" THEN held \cup {i} ELSE held

\* mark_order_paid() on an order that shows the state `seen', then the commit.
MarkPaid(i, seen) ==
    /\ state' = IF seen = "CART_REVIEWED" THEN "ESCROW_HELD" ELSE state
    /\ held' = IF seen \in {"CART_REVIEWED", "ESCROW_HELD"} THEN held \cup {i} ELSE held

Acknowledge(n) ==
    /\ \/ acked' = acked \cup {note[n].about}
       \/ "lost_answer" \in Faults /\ UNCHANGED acked
    /\ note' = [note EXCEPT ![n] = NotNoted]
    /\ UNCHANGED <<brand, snap, ask, inv, returned>>

\* The order is locked; what was loaded before is not loaded again.
Settle(n) ==
    /\ note[n].pc = "settling" /\ note[n].status = "paid"
    /\ MarkPaid(note[n].about, IF note[n].copy = "none" THEN state ELSE note[n].copy)
    /\ Acknowledge(n)

\* An expired invoice leaves the order alone.  A status that is no end is not
\* told: nobody asks before there is one.
SettleExpired(n) ==
    /\ note[n].pc = "settling" /\ note[n].status = "expired"
    /\ UNCHANGED <<state, held>>
    /\ Acknowledge(n)

-----------------------------------------------------------------------------
(* Buyer, provider, operator and the order's other handlers.               *)

\* An invoice is paid, or its time is up.
Resolve(i) ==
    /\ inv[i] = "open"
    /\ \E s \in {"paid", "expired"} : inv' = [inv EXCEPT ![i] = s]
    /\ UNCHANGED <<brand, state, snap, ask, note, acked, held, returned>>

\* put_payouts() changes the brand's provider; between requests, unless a fault.
Switch ==
    /\ \A r \in Requests : ask[r].pc = "idle" \/ "switch_midway" \in Faults
    /\ \E p \in Providers \ {brand} : brand' = p
    /\ UNCHANGED <<state, snap, ask, note, inv, acked, held, returned>>

\* The order is refunded before it was paid, or goes on once it was: to any state,
\* since handlers that decided on a copy write over what others wrote.
\* cancel_shipment() puts it back.
OtherTransition ==
    /\ \E s \in Later \ {state} :
          /\ held # {} \/ (state = "CART_REVIEWED" /\ s = "REFUNDED")
          /\ state' = s
          /\ returned' = (returned \/ s = "ESCROW_HELD")
    /\ UNCHANGED <<brand, snap, ask, note, inv, acked, held>>

Next ==
    \/ \E r \in Requests :
          ReturnStored(r) \/ Load(r) \/ Choose(r) \/ Reserve(r) \/ MintAnother(r)
            \/ MintSento(r) \/ MintDipay(r) \/ Refuse(r) \/ Fail(r) \/ Succeed(r) \/ Store(r) \/ Crash(r)
    \/ \E n \in Notices : QueryDipay(n) \/ QuerySento(n) \/ Unverified(n) \/ Settle(n) \/ SettleExpired(n)
                              \/ \E i \in Invoice : Notify(n, i)
    \/ \E i \in Invoice : Resolve(i)
    \/ Switch
    \/ OtherTransition

Spec == Init /\ [][Next]_vars

-----------------------------------------------------------------------------
\* PaidFindsOrder: whatever crashes, races and switches of the brand's provider
\* there were, a webhook about a Xendit or Dipay invoice finds the order.  One of
\* the other two does if it is about the invoice the order shows: their requests
\* write nothing before they call.
PaidFindsOrder ==
    \A i \in Invoice :
        inv[i] # "none" /\ (i[1] \in {"xendit", "dipay"} \/ snap.id = i) => Found(i)

Payable == {"CART_REVIEWED", "ESCROW_HELD"}

\* A handler of invoice i that read the order when it could not be paid any more,
\* before it was put back.
ReadBefore(i) ==
    /\ returned /\ held # {}
    /\ \E n \in Notices :
          note[n].about = i /\ note[n].copy # "none" /\ note[n].copy \notin Payable

AckHeld ==
    \A i \in acked' \ acked :
        inv[i] = "paid" => i \in held' \/ state \notin Payable \/ ReadBefore(i)

\* AckedIsHeld: a payment acknowledged while the order could still be paid has
\* its HOLD row, also as the second payment of the order.  The exception is a
\* handler that read a shipped order whose shipment was cancelled since; another
\* payment of that order is held.
AckedIsHeld == [][AckHeld]_vars
-----------------------------------------------------------------------------
(* The inductive invariant behind the two.                                 *)

Calling == {"minting", "answered", "storing"}

\* A request knows whom it calls once it has chosen, and has an invoice of that
\* provider's.
AskOf(a) ==
    /\ a.pc \in {"idle", "loaded"} <=> a.by = "none"
    /\ a.pc = "reserving" => a.by = "dipay"
    /\ a.pc \in {"loaded", "reserving", "minting"} => a.minted = NoInvoice
    /\ a.pc = "answered" =>
          \/ a.minted = NoInvoice
          \/ a.minted \in Invoice /\ a.minted[1] = a.by

AskInv == \A r \in Requests : AskOf(ask[r])

\* A snapshot with Sento's invoice has Sento's reference, one with Dipay's
\* content has Dipay's.
Sound(s) ==
    /\ s.id[1] = "sento" => "sento" \in s.keys
    /\ s.qr => "dipay" \in s.keys

CopyOf(a) ==
    /\ Sound(a.copy)
    /\ a.by = "dipay" /\ a.pc \in Calling => "dipay" \in a.copy.keys

SnapInv == Sound(snap) /\ \A r \in Requests : CopyOf(ask[r])

\* While no request runs into a switch of providers, all that run call the
\* brand's.
SwitchInv ==
    "switch_midway" \notin Faults =>
        \A r \in Requests : ask[r].by \in {"none", brand}

KeepsReference == "dipay" \notin Providers \/ "switch_midway" \notin Faults

\* Then Dipay's reference, once reserved, is in every copy that is written over
\* the order's.
ReservedInv ==
    KeepsReference =>
        /\ \A r \in Requests :
              ask[r].by = "dipay" /\ ask[r].pc \in Calling => "dipay" \in snap.keys
        /\ \A i \in Invoice : i[1] = "dipay" /\ inv[i] # "none" => "dipay" \in snap.keys
        /\ brand # "dipay" =>
              \A r \in Requests : ask[r].pc # "idle" =>
                  ("dipay" \in ask[r].copy.keys <=> "dipay" \in snap.keys)

\* A handler is told what became of an invoice for good.  Only the handlers of
\* keyed invoices have read the order before they lock it.
NoteOf(m) ==
    /\ m.pc # "idle" =>
          /\ m.about \in Invoice
          /\ inv[m.about] \in {"paid", "expired"}
          /\ m.status = inv[m.about]
    /\ m.copy # "none" => m.pc # "idle" /\ Keyed(m.about[1])

NoteInv == \A n \in Notices : NoteOf(note[n])

OneKeyed == ~({"sento", "dipay"} \subseteq Providers)

\* If only one provider's handlers do, who read the order when it could not be
\* paid any more, although it can, is about a payment that is held, unless a
\* cancelled shipment put the order back.
StaleOf(m) ==
    m.copy \notin Payable \cup {"none"} /\ state \in Payable => m.about \in held \/ returned

\* What is put back was paid.
ReturnedInv == returned => held # {}

StaleInv == OneKeyed => \A n \in Notices : StaleOf(note[n])

InvoicesInv ==
    /\ TypeOK /\ AskInv /\ SnapInv /\ SwitchInv /\ ReservedInv /\ NoteInv /\ StaleInv /\ ReturnedInv
=============================================================================
