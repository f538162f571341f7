-------------------------- MODULE MCPartnerOrders --------------------------
(***************************************************************************)
(* Instances of PartnerOrders for TLC.                                     *)
(***************************************************************************)
EXTENDS PartnerOrders

\* Everything but late payments; or those, while processes and the partner's
\* endpoint live.
EveryFault == {{"crash", "lost_answer", "partner_down"},
               {"lost_answer", "late_payment"}}
=============================================================================
