------------------------------ MODULE Checkout ------------------------------
(***************************************************************************)
(* An order before its invoice: the courier's rates (routers/shipping.py), *)
(* POST /orders, PATCH /orders/{id}/auth and /review, with                 *)
(* services/shipping_quotes.py and services/pricing.py.                    *)
(*                                                                         *)
(* Everything an order is made of can change meanwhile: the brand's        *)
(* settings, its catalogue and the carrier's rates.  A value is the number *)
(* of its version; the handlers compare values for equality only.          *)
(***************************************************************************)
EXTENDS Naturals

CONSTANTS
    Requests,       \* concurrent requests of the buyer
    Zips,           \* postal codes
    MaxChanges,     \* versions of each term after the first
    NoReq,
    Faults

CheckoutConstants ==
    /\ NoReq \notin Requests /\ MaxChanges \in Nat /\ Zips # {}
    /\ Faults \subseteq {"crash"}

Terms    == {"bpp", "origin", "price", "rate"}
Settings == {"bpp", "origin"}   \* columns of the brand
Version  == 0..MaxChanges

VARIABLES
    free,       \* whether the operator ships this brand's orders for nothing
    world,      \* Terms -> the version in force
    quoted,     \* rates POST /shipping/rates has shown
    order,      \* the order's row
    lock,       \* who holds the row
    req         \* Requests -> a running request

checkoutVars == <<free, world, quoted, order, lock, req>>

World == [Terms -> Version]

First == [t \in Terms |-> 0]
NoZip == CHOOSE z \in Zips : TRUE

NoOrder == [state |-> "none", bound |-> First, zip |-> NoZip, address |-> NoZip,
            shipping |-> 0]

Idle == [pc |-> "idle", copy |-> First, zip |-> NoZip, choice |-> 0, began |-> First]

Order == [state : {"none", "PRE_AUTH", "AUTHED", "CART_REVIEWED"}, bound : World,
          zip : Zips, address : Zips, shipping : Version]

Pricing == [pc : {"idle", "pricing", "rating", "creating", "repricing", "rerating",
                  "authorising"},
            copy : World, zip : Zips, choice : Version, began : World]

TypeOK ==
    /\ free \in BOOLEAN
    /\ world \in World
    /\ quoted \subseteq Version
    /\ order \in Order
    /\ lock \in Requests \cup {NoReq}
    /\ req \in [Requests -> Pricing]

Init ==
    /\ free \in BOOLEAN
    /\ world = First /\ quoted = {}
    /\ order = NoOrder /\ lock = NoReq
    /\ req = [r \in Requests |-> Idle]

\* A request reads the brand's columns when it begins, and the rest later.
Begins(r, pc, zip, choice) ==
    /\ req[r].pc = "idle"
    /\ req' = [req EXCEPT ![r] =
                 [pc |-> pc, zip |-> zip, choice |-> choice, began |-> world,
                  copy |-> [t \in Terms |-> IF t \in Settings THEN world[t] ELSE 0]]]

Reads(r, t, pc) == req' = [req EXCEPT ![r].copy[t] = world[t], ![r].pc = pc]
Goes(r, pc)     == req' = [req EXCEPT ![r].pc = pc]
Ends(r)         == req' = [req EXCEPT ![r] = Idle]

-----------------------------------------------------------------------------
\* The carrier's answer, here the price of one service.
CarrierRate == world["rate"]

\* POST /shipping/rates.
Quote ==
    /\ quoted' = quoted \cup {CarrierRate}
    /\ UNCHANGED <<free, world, order, lock, req>>

\* POST /orders, with a courier at a price that the buyer was shown.
Create(r) ==
    /\ order.state = "none"
    /\ \E zip \in Zips, choice \in quoted \cup (IF free THEN {0} ELSE {}) :
           Begins(r, "pricing", zip, choice)
    /\ UNCHANGED <<free, world, quoted, order, lock>>

\* list_products() and resolve_cart().
PriceCart(r) ==
    /\ req[r].pc = "pricing"
    /\ Reads(r, "price", IF free THEN "creating" ELSE "rating")
    /\ UNCHANGED <<free, world, quoted, order, lock>>

\* select_shipping(): the carrier's price must be the one that was chosen.
RateCart(r) ==
    /\ req[r].pc = "rating"
    /\ IF CarrierRate = req[r].choice THEN Reads(r, "rate", "creating") ELSE Ends(r)
    /\ UNCHANGED <<free, world, quoted, order, lock>>

\* compute_breakdown(), binding() and the commit; the brand's fee is part of the
\* total from here on.
AddOrder(r) ==
    /\ req[r].pc = "creating"
    /\ order' = IF order.state = "none"
                THEN [NoOrder EXCEPT !.state = "PRE_AUTH", !.bound = req[r].copy,
                                     !.zip = req[r].zip, !.shipping = req[r].copy["rate"]]
                ELSE order      \* the buyer's second order
    /\ Ends(r)
    /\ UNCHANGED <<free, world, quoted, lock>>

-----------------------------------------------------------------------------
\* The binding still names the brand's seller and origin and this destination.
Bound(zip) ==
    /\ order.bound["bpp"] = world["bpp"] /\ order.bound["origin"] = world["origin"]
    /\ order.zip = zip

\* PATCH /orders/{id}/auth: a locked order, an address and the brand.
Authorise(r) ==
    /\ order.state = "PRE_AUTH" /\ lock = NoReq
    /\ \E zip \in Zips :
          /\ Bound(zip)
          /\ Begins(r, "repricing", zip, order.bound["rate"])
    /\ lock' = r
    /\ UNCHANGED <<free, world, quoted, order>>

\* A request that ends without a commit drops its lock.
Drops(r) == lock' = IF lock = r THEN NoReq ELSE lock

RepriceCart(r) ==
    /\ req[r].pc = "repricing"
    /\ Reads(r, "price", IF free THEN "authorising" ELSE "rerating")
    /\ UNCHANGED <<free, world, quoted, order, lock>>

RerateCart(r) ==
    /\ req[r].pc = "rerating"
    /\ \/ /\ CarrierRate = req[r].choice
          /\ Reads(r, "rate", "authorising") /\ UNCHANGED lock
       \/ /\ CarrierRate # req[r].choice
          /\ Ends(r) /\ Drops(r)
    /\ UNCHANGED <<free, world, quoted, order>>

Requoted_bug(r) == req[r].copy["rate"] = order.shipping  \* the items' prices are not compared

\* "snapshots != stored["items"] or refreshed != courier or amount != ..."
Requoted(r) ==
    /\ req[r].copy["price"] = order.bound["price"]
    /\ req[r].copy["rate"] = order.bound["rate"]
    /\ req[r].copy["rate"] = order.shipping

\* The address joins the binding and the courier, and the state moves.
Authorised(r) ==
    /\ req[r].pc = "authorising"
    /\ order' = IF Requoted(r)
                THEN [order EXCEPT !.state = "AUTHED", !.address = req[r].zip]
                ELSE order
    /\ Ends(r) /\ Drops(r)
    /\ UNCHANGED <<free, world, quoted>>

\* PATCH /orders/{id}/review.
Review ==
    /\ order.state = "AUTHED" /\ lock = NoReq
    /\ order' = [order EXCEPT !.state = "CART_REVIEWED"]
    /\ UNCHANGED <<free, world, quoted, lock, req>>

-----------------------------------------------------------------------------
\* The operator, the catalogue's seller or the carrier.
Change(t) ==
    /\ world[t] < MaxChanges
    /\ free => t # "rate"
    /\ world' = [world EXCEPT ![t] = @ + 1]
    /\ UNCHANGED <<free, quoted, order, lock, req>>

Crash(r) ==
    /\ "crash" \in Faults /\ req[r].pc # "idle"
    /\ Ends(r) /\ Drops(r)
    /\ UNCHANGED <<free, world, quoted, order>>

Next ==
    \/ Quote \/ Review
    \/ \E r \in Requests :
          Create(r) \/ PriceCart(r) \/ RateCart(r) \/ AddOrder(r) \/ Authorise(r)
            \/ RepriceCart(r) \/ RerateCart(r) \/ Authorised(r) \/ Crash(r)
    \/ \E t \in Terms : Change(t)

Spec == Init /\ [][Next]_checkoutVars

-----------------------------------------------------------------------------
\* AuthedIsCurrent: an order is authorised only if its seller, origin, prices
\* and rate were all in force while the authorising request ran, if it goes
\* where its shipping was quoted to, and if the rate is one the buyer was shown;
\* no later request changes what it is made of (orders.advance_to_authed,
\* "Shipping quote changed; create a new order").
AuthedIsCurrent ==
    [][/\ order'.state = "AUTHED" /\ order.state # "AUTHED" =>
             /\ order'.address = order.zip
             /\ free \/ order.bound["rate"] \in quoted
             /\ \E r \in Requests :
                   /\ req[r].pc = "authorising"
                   /\ \A t \in Terms :
                         order.bound[t] \in req[r].began[t] .. world[t]
       /\ order.state # "none" => order'.bound = order.bound]_checkoutVars
-----------------------------------------------------------------------------
(* The inductive invariant behind it.                                      *)

\* The rate an order is bound to, or will be, was shown to the buyer.
Shown ==
    /\ order.state # "none" => free \/ order.bound["rate"] \in quoted
    /\ \A r \in Requests :
          /\ req[r].pc \in {"pricing", "rating"} => free \/ req[r].choice \in quoted
          /\ req[r].pc = "creating" => free \/ req[r].copy["rate"] \in quoted

\* What a request has read of a term was in force after the request began.
Read(r, t) == req[r].copy[t] \in req[r].began[t] .. world[t]

\* Who authorises holds the row, and the order is bound to the destination and
\* to the settings that were in force when the request began.
Authorises(r) == req[r].pc \in {"repricing", "rerating", "authorising"}

Holds(r) ==
    Authorises(r) =>
        /\ lock = r /\ order.state = "PRE_AUTH" /\ req[r].zip = order.zip
        /\ \A t \in Terms : req[r].began[t] <= world[t]
        /\ \A t \in Settings : order.bound[t] = req[r].began[t]
        /\ free => req[r].copy["rate"] = 0 /\ req[r].began["rate"] = 0
        /\ req[r].pc \in {"rerating", "authorising"} => Read(r, "price")
        /\ req[r].pc = "authorising" => Read(r, "rate")

CurrentInv ==
    /\ TypeOK /\ Shown
    /\ free => world["rate"] = 0
    /\ \A r \in Requests : Holds(r)
=============================================================================
