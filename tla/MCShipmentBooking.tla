------------------------- MODULE MCShipmentBooking -------------------------
(***************************************************************************)
(* Instances of ShipmentBooking for TLC.                                   *)
(***************************************************************************)
EXTENDS ShipmentBooking, TLC

\* Admins act by hand, and answers are lost, payments repeat and processes die, or
\* the AWB of a booking comes late; or the seller tells AWBs and either payments
\* repeat or admins act by hand.
EveryFault == {{"by_hand", "crash", "lost_answer", "stale_payment"},
               {"by_hand", "late_awb"},
               {"stale_payment", "seller_awb"}, {"by_hand", "seller_awb"}}

NoFault == {{}}

\* acked is read by the fairness of FairSpec alone, which this run does not use:
\* states that differ in nothing else are explored once.
ButAcks == <<ostate, awb, shipId, clock, byHand, lock, req, active, parcel,
             unheard, faults>>

Symmetry == Permutations(Requests) \cup Permutations(Jubelio)
=============================================================================
