--------------------------- MODULE MCEscrowOrder ---------------------------
(***************************************************************************)
(* Instances of EscrowOrder for TLC.  Each .cfg chooses the provider, the  *)
(* handlers exposed and the faults; the sets of handlers are named here.   *)
(***************************************************************************)
EXTENDS EscrowOrderInv, TLC

\* Everything a Xendit order can meet, less two admin shortcuts of the same
\* effect as the buyer's confirm and the seller's booking.
WithOverrides == Handlers \ {"mock_elapse_d3", "mock_seller_shipped"}

\* What buyer, seller, carrier and scheduler do: no admin, no Beckn refund, no
\* carrier callback found by the carrier's own id.
NoOverride ==
    Handlers \ {"beckn_refund", "mock_refund", "mock_release", "tracking_callback"}

\* The same with the operator's payout and refund.
OperatorPays == NoOverride \cup {"mock_release", "mock_refund"}

\* Enough to reach a payout twice, with a request that reads before it locks.
PayoutRace == {"mark_order_paid", "mock_seller_shipped", "mock_delivered",
               "buyer_confirm_receipt", "get_order"}

Symmetry == Permutations(Requests) \cup Permutations(Attempts)
=============================================================================
