--------------------------- MODULE EscrowPromise ---------------------------
(***************************************************************************)
(* What the escrow of one order promises, without requests, row locks or   *)
(* webhooks: the buyer's money is held before the order is shown as paid   *)
(* and before a payout of it starts, unless the operator has it paid out;  *)
(* one payout attempt is open at a time; the order is shown as released    *)
(* only once a provider has taken a payout; and what was shown as paid is  *)
(* never shown as unpaid again.                                            *)
(***************************************************************************)
CONSTANT Attempts

VARIABLES
    operator, \* input: the operator is having the order paid out
    funded,   \* the buyer's payment is on the ledger
    shown,    \* what the order's state says of the money
    open,     \* payout attempts that are pending or completed
    taken     \* a provider has taken a payout

vars == <<funded, shown, open, taken>>

Init ==
    /\ funded = FALSE
    /\ shown = "unpaid"
    /\ open = {}
    /\ taken = FALSE

\* The buyer's payment is recorded, and shown at once or later.
Fund ==
    /\ funded' = TRUE
    /\ shown' \in {shown, "paid"}
    /\ UNCHANGED <<open, taken>>

\* The order is shown as paid, shipped, received or under dispute: also one
\* that was released or refunded, by a handler that works on an old copy.
Proceed ==
    /\ funded /\ shown' = "paid"
    /\ UNCHANGED <<funded, open, taken>>

\* A payout attempt starts when none is open ...
Begin ==
    /\ funded \/ operator
    /\ open = {}
    /\ \E e \in Attempts : open' = {e}
    /\ UNCHANGED <<funded, shown, taken>>

\* ... is taken by the provider while it is open ...
Take ==
    /\ open # {} /\ taken' = TRUE
    /\ UNCHANGED <<funded, shown, open>>

\* ... or is given up, after which another may start.
GiveUp ==
    /\ open # {} /\ open' = {}
    /\ UNCHANGED <<funded, shown, taken>>

\* The order is shown as released.
Release ==
    /\ funded /\ taken /\ shown' = "released"
    /\ UNCHANGED <<funded, open, taken>>

\* The order is shown as refunded, which may happen to it at any time.
Refund ==
    /\ shown' = "refunded"
    /\ UNCHANGED <<funded, open, taken>>

Next == Fund \/ Proceed \/ Begin \/ Take \/ GiveUp \/ Release \/ Refund

Spec == Init /\ [][Next]_vars
=============================================================================
