-------------------------- MODULE EscrowOrderInv --------------------------
(***************************************************************************)
(* The inductive invariant behind the safety properties of EscrowOrder and *)
(* its refinement of EscrowPromise.  TLC checks it on the instances of     *)
(* MCEscrowOrder, EscrowOrderProofs proves it.                             *)
(***************************************************************************)
EXTENDS EscrowOrder

\* A request holds the row lock exactly while it is in a locking stage.
LockInv == \A r \in Requests : (req[r].pc \in Holding) <=> (lock = r)

\* Stages in which a request owns a RELEASE row, and those before the answer
\* of the provider is on it.
Owning  == {"paying", "refused", "skipped", "accepted", "closing"}
Calling == {"paying", "refused", "skipped", "accepted"}

\* A request that got past ReleaseCommit owns an existing row of its own.
OwnInv ==
    /\ \A r \in Requests :
         req[r].pc \in Owning =>
            /\ req[r].row \in Attempts
            /\ releases[req[r].row].status # "none"
    /\ \A r, s \in Requests :
         /\ req[r].pc \in Owning /\ req[s].pc \in Owning
         /\ req[r].row = req[s].row
         => r = s

\* Nothing is open while a request is between the check and the insert.
CheckedInv ==
    \A r \in Requests : req[r].pc = "checked" => \A e \in Attempts : ~Active(e)

\* A callback is only owed for a disbursement that has ended.
NoticeInv ==
    \A k \in Keys : notice[k] # "none" => disb[k] \in {"settled", "failed"}

\* Xendit: until its reference is stored a row cannot be found by a callback,
\* and a row that was found and failed shares a key that failed for good.
XenditInv ==
    Provider = "xendit" =>
        /\ \A r \in Requests :
             req[r].pc \in Calling =>
                releases[req[r].row] = [status |-> "PENDING", ref |-> FALSE]
        /\ \A e \in Attempts :
             releases[e].status = "FAILED" /\ releases[e].ref
                => disb[Shared] = "failed"

\* Dipay, with no answer lost: a row is FAILED only when its own disbursement
\* does not exist, nor will, or has failed.
DipayInv ==
    Provider = "dipay" /\ "lost_answer" \notin Faults =>
        /\ \A r \in Requests :
             /\ req[r].pc \in {"paying", "refused", "skipped"} =>
                    disb[req[r].row] = "none"
             /\ req[r].pc = "paying" => releases[req[r].row].status = "PENDING"
        /\ \A e \in Attempts :
             /\ releases[e].status = "none" => disb[e] = "none"
             /\ releases[e].status = "FAILED" => disb[e] \in {"none", "failed"}

\* The answer "accepted" means that the provider has the disbursement.
TakenInv ==
    Provider = "xendit" \/ "unmapped_code" \notin Faults =>
        \A r \in Requests :
            req[r].pc \in {"accepted", "closing"} => disb[Key(req[r].row)] # "none"

\* The copy of the order is the committed order while its request holds the
\* lock, if locking was the first thing the request did.
FreshInv ==
    \A r \in Requests :
        /\ req[r].pc = "peeked" => req[r].by = "get_order"
        /\ req[r].pc \in Holding /\ req[r].by # "get_order" => req[r].seen = ostate

\* A request that resolved a payment works on that payment.
ResolvedInv ==
    \A r \in Requests : req[r].pc = "resolved" => req[r].row \in PayRefs

\* A copy of the order showing a state after payment was loaded after it.
SeenInv ==
    \A r \in Requests :
        req[r].seen \in FundedStates => \E p \in PayRefs : holds[p] > 0

\* Who may be assumed to keep OneActiveRelease, and ReleasedWasTaken.
OneActiveHere == Provider \in {"xendit", "sento"} \/ "lost_answer" \notin Faults
TakenHere     == Provider = "xendit" \/ "unmapped_code" \notin Faults

\* Who keeps the whole promise.
PromiseHere ==
    \/ Provider = "xendit"
    \/ Provider = "dipay" /\ Faults \cap {"lost_answer", "unmapped_code"} = {}

IInv ==
    /\ TypeOK
    /\ LockInv
    /\ OwnInv
    /\ NoticeInv
    /\ XenditInv
    /\ DipayInv
    /\ OneActiveHere => CheckedInv /\ OneActiveRelease
    /\ TakenInv
    /\ TakenHere => ReleasedWasTaken
    /\ FreshInv
    /\ ResolvedInv
    /\ SeenInv
    /\ HeldStatesFunded

(* What else the invariant gives, for some surfaces and faults.            *)

\* Xendit: an order that is not paid has no HOLD row, and mark_order_paid()
\* never works from an old copy of the order.
UnpaidStates == {"PRE_AUTH", "AUTHED", "CART_REVIEWED"}

HoldInv ==
    Provider = "xendit" =>
        /\ \A r \in Requests : req[r].pc # "resolved"
        /\ ostate \in UnpaidStates => \A p \in PayRefs : holds[p] = 0
        /\ HoldOnce

\* Points are earned by a request whose payout the provider took.
EarnedInv == TakenHere => LoyaltyOnce

\* Xendit and Sento, with no answer lost: while no attempt is open the shared
\* disbursement is not live, and one that is not asked for has open attempts.
SharedInv ==
    Provider # "dipay" /\ "lost_answer" \notin Faults =>
        /\ disb[Shared] \in {"accepted", "settled"} =>
              /\ \E e \in Attempts : Active(e)
              /\ \A r \in Requests : req[r].pc \notin {"paying", "refused", "skipped"}
        /\ disb[Shared] = "none" =>
              \A r \in Requests : req[r].pc \in {"paying", "refused", "skipped"} =>
                  releases[req[r].row].status = "PENDING"

\* Only a handler that releases gets to the check of release() and past it.
PayerInv ==
    \A r \in Requests :
        req[r].pc \in Owning \cup {"checked"} => req[r].by \in ReleaseHandlers

\* A request on its way to a payout saw a paid order, unless it is the
\* operator's, without which money leaves only an order that was paid.
PaidFirstInv ==
    /\ \A r \in Requests :
         /\ req[r].pc \in {"peeked", "locked", "checked"}
         /\ req[r].by \in ReleaseHandlers \ {"mock_release"}
         => req[r].seen \in FundedStates
    /\ "mock_release" \notin Surface =>
         /\ \A r \in Requests : req[r].by # "mock_release"
         /\ (\E e \in Attempts : releases[e].status # "none")
               => \E p \in PayRefs : holds[p] > 0

\* Without the operator's refund there is no REFUND row.
NoRefundInv ==
    "mock_refund" \notin Surface =>
        /\ \A r \in Requests :
             /\ req[r].by # "mock_refund"
             /\ req[r].pc \notin {"refunded", "unrefunded"}
        /\ \A x \in Refunds : refunds[x] = [status |-> "none", ref |-> FALSE]

\* Who locks the order before reading it, or reads a state that only leads on.
LocksFirst ==
    /\ Provider = "xendit"
    /\ Surface \cap {"mock_refund", "beckn_refund", "tracking_callback"} = {}

\* A release under way that saw the parcel received finds the order received,
\* disputed or released.
WindowInv ==
    LocksFirst =>
        \A r \in Requests :
            /\ req[r].pc \notin {"resolved", "reading", "owned", "refunded", "unrefunded"}
            /\ req[r].by # "mock_refund"
            /\ req[r].by \in ReleaseHandlers /\ req[r].seen \in {"RECEIVED", "DISPUTED"}
                  => ostate \in {"RECEIVED", "DISPUTED", "ESCROW_RELEASED"}

\* Xendit: a row is COMPLETED by the callback of the disbursement that settled.
CompletedInv ==
    Provider = "xendit" =>
        \A e \in Attempts : releases[e].status = "COMPLETED" => disb[Shared] = "settled"

MoneyInv ==
    /\ HoldInv
    /\ EarnedInv
    /\ SharedInv
    /\ PayerInv
    /\ PaidFirstInv
    /\ NoRefundInv
    /\ WindowInv
    /\ CompletedInv

\* held_balance() of an order with one payment reference, for surfaces that
\* neither refund nor pay out at the operator's word.
BalancedHere ==
    /\ Provider = "xendit"
    /\ Surface \cap {"mock_release", "mock_refund"} = {}
    /\ \E p \in PayRefs : PayRefs = {p}

\* A committed change of state is one that ALLOWED lists, although handlers
\* decide on copies, and a payout that completed is not taken back.
ChangesAllowed ==
    [][/\ ostate' # ostate => ostate' \in Allowed[ostate]
       /\ \A e \in Attempts :
            releases[e].status = "COMPLETED" => releases'[e].status = "COMPLETED"]_vars
-----------------------------------------------------------------------------
\* What a state says of the money.
Shown(s) ==
    CASE s \in UnpaidStates        -> "unpaid"
      [] s = "ESCROW_RELEASED"     -> "released"
      [] s = "REFUNDED"            -> "refunded"
      [] OTHER                     -> "paid"

Promise == INSTANCE EscrowPromise WITH
    operator <- \E r \in Requests : req[r].by = "mock_release",
    funded   <- \E p \in PayRefs : holds[p] > 0,
    shown    <- Shown(ostate),
    open     <- {e \in Attempts : Active(e)},
    taken    <- \E k \in Keys : disb[k] # "none"

\* The order's life as the code runs it is a life the promise allows: money is
\* held before handlers, webhooks and old copies show the order as paid or pay it
\* out, one payout is open at a time, and what was paid is not unpaid again.
KeepsPromise == Promise!Spec
=============================================================================
