---------------------------- MODULE OrderStates ----------------------------
(***************************************************************************)
(* The order life cycle of the Beli Aman BAP: the states of               *)
(* models/order.py and the table of moves that                             *)
(* services/state_machine.py transition() accepts.                         *)
(***************************************************************************)

OrderState == {"PRE_AUTH", "AUTHED", "CART_REVIEWED", "ESCROW_HELD",
               "FULFILLING", "RECEIVED", "ESCROW_RELEASED", "DISPUTED",
               "REFUNDED"}

\* ALLOWED, one entry per state.
Allowed ==
    [s \in OrderState |->
        CASE s = "PRE_AUTH"        -> {"AUTHED", "REFUNDED"}
          [] s = "AUTHED"          -> {"CART_REVIEWED", "REFUNDED"}
          [] s = "CART_REVIEWED"   -> {"ESCROW_HELD", "REFUNDED"}
          [] s = "ESCROW_HELD"     -> {"FULFILLING", "DISPUTED", "REFUNDED"}
          [] s = "FULFILLING"      -> {"RECEIVED", "DISPUTED", "ESCROW_HELD"}
          [] s = "RECEIVED"        -> {"ESCROW_RELEASED", "DISPUTED"}
          [] s = "DISPUTED"        -> {"ESCROW_RELEASED", "REFUNDED"}
          [] s = "ESCROW_RELEASED" -> {}
          [] s = "REFUNDED"        -> {}]

\* transition() accepts the move: it is in the table, or it is the
\* idempotent no-op to the state the order object already shows.
Accepts(seen, to) == seen = to \/ to \in Allowed[seen]

\* States in which the buyer's money is, or has been, in escrow.
FundedStates == {"ESCROW_HELD", "FULFILLING", "RECEIVED", "DISPUTED",
                 "ESCROW_RELEASED"}
=============================================================================
