------------------------- MODULE BecknOrdersProofs -------------------------
(***************************************************************************)
(* Theorems about BecknOrders, for every set of requests, messages and     *)
(* contents that BecknConstants admits, every pool and every set of faults.*)
(***************************************************************************)
EXTENDS BecknOrders, WellFoundedInduction, TLAPS

USE DEF rows, locks, seller
-----------------------------------------------------------------------------
(* What a flush writes, and what the handlers make of their copies.        *)

\* A column is written if it differs from the copy; the row keeps the others.
LEMMA WrittenOrder ==
    ASSUME NEW row \in OrderRow, NEW seen \in OrderRow, NEW new \in OrderRow
    PROVE  /\ Written(row, seen, new) \in OrderRow
           /\ Written(row, seen, new).state = IF new.state = seen.state THEN row.state
                                              ELSE new.state
           /\ seen = new => Written(row, seen, new) = row
<1>1. DOMAIN row = {"state", "ref", "status", "awb", "settlement"}
  BY DEF OrderRow
<1>2. Written(row, seen, new) =
        [state |-> IF new.state = seen.state THEN row.state ELSE new.state,
         ref |-> IF new.ref = seen.ref THEN row.ref ELSE new.ref,
         status |-> IF new.status = seen.status THEN row.status ELSE new.status,
         awb |-> IF new.awb = seen.awb THEN row.awb ELSE new.awb,
         settlement |-> IF new.settlement = seen.settlement THEN row.settlement
                        ELSE new.settlement]
  BY <1>1 DEF Written
<1> QED
  BY <1>2 DEF OrderRow

LEMMA WrittenDispute ==
    ASSUME NEW row \in DisputeRow, NEW seen \in DisputeRow, NEW new \in DisputeRow
    PROVE  /\ Written(row, seen, new) \in DisputeRow
           /\ Written(row, seen, new).status = IF new.status = seen.status THEN row.status
                                               ELSE new.status
           /\ Written(row, seen, new).issue = IF new.issue = seen.issue THEN row.issue
                                              ELSE new.issue
           /\ Written(row, seen, new).resolution =
                IF new.resolution = seen.resolution THEN row.resolution ELSE new.resolution
           /\ seen = new => Written(row, seen, new) = row
<1>1. DOMAIN row = {"status", "resolution", "issue"}
  BY DEF DisputeRow
<1>2. Written(row, seen, new) =
        [status |-> IF new.status = seen.status THEN row.status ELSE new.status,
         resolution |-> IF new.resolution = seen.resolution THEN row.resolution
                        ELSE new.resolution,
         issue |-> IF new.issue = seen.issue THEN row.issue ELSE new.issue]
  BY <1>1 DEF Written
<1> QED
  BY <1>2 DEF DisputeRow

LEMMA WrittenRating ==
    ASSUME NEW row \in RatingRow, NEW seen \in RatingRow, NEW new \in RatingRow
    PROVE  Written(row, seen, new) \in RatingRow
<1>1. DOMAIN row = {"value", "acked"}
  BY DEF RatingRow
<1>2. Written(row, seen, new) =
        [value |-> IF new.value = seen.value THEN row.value ELSE new.value,
         acked |-> IF new.acked = seen.acked THEN row.acked ELSE new.acked]
  BY <1>1 DEF Written
<1> QED
  BY <1>2 DEF RatingRow

\* A handler changes its copies as their types allow.  It resolves a dispute
\* with a refund only together with the order's, moves the order nowhere else,
\* and only the two messages about disputes change one, never what it is.
LEMMA HandledCopy ==
    ASSUME NEW m \in Contents, NEW d, NEW c \in Copy, m.action \in Actions,
           m.action = "on_confirm" => m.ref \in {"none", "ours"}
    PROVE  /\ Handled(m, d, c) \in Copy
           /\ Handled(m, d, c).order.state \in {c.order.state, "REFUNDED"}
           /\ Handled(m, d, c).dispute.issue = c.dispute.issue
           /\ Handled(m, d, c).dispute.status \in
                {c.dispute.status, "brand_responding", "resolved"}
           /\ Handled(m, d, c).dispute # c.dispute =>
                 m.action = "on_issue" \/ (m.action = "on_update" /\ d # 0)
           /\ Handled(m, d, c).dispute.resolution = "refunded" =>
                 c.dispute.resolution = "refunded"
                   \/ Handled(m, d, c).order.state = "REFUNDED"
<1> DEFINE new == Handled(m, d, c)
<1>0. /\ m.code \in Codes /\ m.awb \in Awbs
      /\ c.order \in OrderRow /\ c.dispute \in DisputeRow /\ c.rating \in RatingRow
  BY DEF Codes, Awbs, Copy
<1> USE <1>0
<1>1. CASE m.action = "on_confirm"
  BY <1>1 DEF Handled, OnConfirm, Copy, OrderRow
<1>2. CASE m.action = "on_status"
  BY <1>2 DEF Handled, OnStatus, Copy, OrderRow
<1>3. CASE m.action = "on_settle"
  BY <1>3 DEF Handled, OnSettle, Copy, OrderRow
<1>4. CASE m.action = "on_rating"
  BY <1>4 DEF Handled, OnRating, Copy, RatingRow
<1>5. \A x \in Copy, s \in {"denied", "refunded", "resolved"} :
        /\ Resolve(x, s) \in Copy
        /\ Resolve(x, s).order = x.order
        /\ Resolve(x, s).dispute.status = "resolved"
        /\ Resolve(x, s).dispute.resolution = s
        /\ Resolve(x, s).dispute.issue = x.dispute.issue
  BY DEF Resolve, Copy, DisputeRow, DisputeStatus, Resolutions
<1>6. \A x \in Copy :
        /\ Refund(x) \in Copy
        /\ Refund(x).order.state = "REFUNDED" /\ Refund(x).dispute = x.dispute
  BY DEF Refund, Copy, OrderRow, OrderState
<1>7. /\ [c EXCEPT !.dispute.status = "brand_responding"] \in Copy
      /\ [c EXCEPT !.dispute.status = "brand_responding"].order = c.order
      /\ [c EXCEPT !.dispute.status = "brand_responding"].dispute =
           [c.dispute EXCEPT !.status = "brand_responding"]
      /\ [c.dispute EXCEPT !.status = "brand_responding"].issue = c.dispute.issue
      /\ [c.dispute EXCEPT !.status = "brand_responding"].status = "brand_responding"
      /\ [c.dispute EXCEPT !.status = "brand_responding"].resolution = c.dispute.resolution
  BY DEF Copy, DisputeRow, DisputeStatus
<1>8. CASE m.action = "on_update"
  <2>0. new = OnUpdate(m, d, c)
    BY <1>8 DEF Handled
  <2>1. CASE m.code = "refund_settled" /\ d = 0
    BY <1>6, <1>8, <2>0, <2>1 DEF OnUpdate
  <2>2. CASE m.code = "refund_settled" /\ d # 0
    BY <1>5, <1>6, <1>8, <2>0, <2>2 DEF OnUpdate
  <2>3. CASE m.code = "refund_approved" /\ d # 0
    BY <1>7, <1>8, <2>0, <2>3 DEF OnUpdate
  <2>4. CASE m.code = "refund_denied" /\ d # 0
    BY <1>5, <1>8, <2>0, <2>4 DEF OnUpdate
  <2>5. CASE m.code # "refund_settled" /\ (d = 0 \/ m.code \notin {"refund_approved", "refund_denied"})
    BY <2>0, <2>5 DEF OnUpdate
  <2> QED
    BY <2>1, <2>2, <2>3, <2>4, <2>5
<1>9. CASE m.action = "on_issue"
  <2>0. new = OnIssue(m, c)
    BY <1>9 DEF Handled
  <2>1. CASE m.code = "PROCESSING"
    BY <1>7, <1>9, <2>0, <2>1 DEF OnIssue
  <2>2. CASE m.code = "RESOLVED"
    BY <1>5, <1>9, <2>0, <2>2 DEF OnIssue
  <2>3. CASE m.code = "REFUNDED"
    BY <1>5, <1>6, <1>9, <2>0, <2>3 DEF OnIssue
  <2>4. CASE m.code = "REJECTED"
    BY <1>5, <1>9, <2>0, <2>4 DEF OnIssue
  <2>5. CASE m.code \notin {"PROCESSING", "RESOLVED", "REFUNDED", "REJECTED"}
    BY <2>0, <2>5 DEF OnIssue
  <2> QED
    BY <2>1, <2>2, <2>3, <2>4, <2>5
<1> QED
  BY <1>1, <1>2, <1>3, <1>4, <1>8, <1>9 DEF Actions

\* What the effects of a message are on the rows, from copies however old.
LEMMA EffectsDo ==
    ASSUME BecknConstants, TypeInv, InboxInv, RefundInv, NEW r \in Requests,
           req[r].pc = "handling", Effects(r)
    PROVE  /\ order' \in OrderRow /\ dispute' \in [DisputeIds -> DisputeRow]
           /\ rating' \in RatingRow
           /\ order'.state \in {order.state, "REFUNDED"}
           /\ order' # order => orderLock = NoReq
           /\ \A e \in DisputeIds :
                /\ dispute'[e].issue = dispute[e].issue
                /\ dispute'[e] # dispute[e] => e \in Committed /\ dispute'[e].status # "none"
                /\ dispute'[e].resolution = "refunded" =>
                      \/ dispute[e].resolution = "refunded"
                      \/ order'.state = "REFUNDED" \/ "undone" \in outside
           /\ UNCHANGED outside
           /\ req[r].msg \in Messages
           /\ effects' = [effects EXCEPT ![req[r].msg] = @ + 1]
<1> DEFINE m == sent[req[r].msg]
           c == req[r].seen
           d == req[r].d
           new == Handled(m, d, c)
<1>1. /\ req[r].msg \in Messages /\ m \in Contents /\ m.action \in Actions
      /\ c \in Copy /\ d \in 0..MaxDispute
      /\ m.action = "on_confirm" => m.ref \in {"none", "ours"}
      /\ m.action = "on_issue" => d \in Committed
      /\ m.action = "on_update" /\ d # 0 => d \in Committed
  <2>1. req[r] \in Request /\ req[r].msg # NoMsg
    BY DEF TypeInv, InboxInv
  <2>2. req[r].msg \in Messages /\ c \in Copy /\ d \in 0..MaxDispute
    BY <2>1 DEF Request
  <2>3. m \in Contents
    BY <2>1, <2>2 DEF TypeInv, InboxInv
  <2>4. c.order.ref \in {"none", "ours"}
    BY <2>2 DEF Copy, OrderRow
  <2> QED
    BY <2>1, <2>2, <2>3, <2>4 DEF InboxInv, BecknConstants
<1>2. /\ new \in Copy /\ new.order.state \in {c.order.state, "REFUNDED"}
      /\ new.dispute.issue = c.dispute.issue
      /\ new.dispute.status \in {c.dispute.status, "brand_responding", "resolved"}
      /\ new.dispute # c.dispute => m.action = "on_issue" \/ (m.action = "on_update" /\ d # 0)
      /\ new.dispute.resolution = "refunded" =>
            c.dispute.resolution = "refunded" \/ new.order.state = "REFUNDED"
  BY <1>1, HandledCopy
<1> HIDE DEF new, m
<1>3. /\ CanWrite(m, c, new) /\ UNCHANGED outside
      /\ order' = Written(order, c.order, new.order)
      /\ dispute' = IF d = 0 THEN dispute
                    ELSE [dispute EXCEPT ![d] = Written(@, c.dispute, new.dispute)]
      /\ rating' = Written(rating, c.rating, new.rating)
      /\ effects' = [effects EXCEPT ![req[r].msg] = @ + 1]
  BY DEF Effects, m, new
<1>4. /\ c.order \in OrderRow /\ new.order \in OrderRow /\ order \in OrderRow
      /\ c.dispute \in DisputeRow /\ new.dispute \in DisputeRow
      /\ c.rating \in RatingRow /\ new.rating \in RatingRow /\ rating \in RatingRow
  BY <1>1, <1>2 DEF Copy, TypeInv
<1>5. /\ order' \in OrderRow
      /\ order'.state = IF new.order.state = c.order.state THEN order.state ELSE new.order.state
      /\ c.order = new.order => order' = order
  BY <1>3, <1>4, WrittenOrder
<1>6. rating' \in RatingRow
  BY <1>3, <1>4, WrittenRating
<1>7. new.order.state = "REFUNDED" => order'.state = "REFUNDED" \/ "undone" \in outside
  BY <1>5 DEF RefundInv
<1>8. ASSUME d # 0
      PROVE  /\ d \in DisputeIds
             /\ dispute' = [dispute EXCEPT ![d] = Written(dispute[d], c.dispute, new.dispute)]
             /\ Written(dispute[d], c.dispute, new.dispute) \in DisputeRow
             /\ dispute'[d] = Written(dispute[d], c.dispute, new.dispute)
             /\ \A e \in DisputeIds : e # d => dispute'[e] = dispute[e]
  <2>1. d \in DisputeIds /\ dispute[d] \in DisputeRow
    BY <1>1, <1>8 DEF DisputeIds, TypeInv, BecknConstants
  <2>2. Written(dispute[d], c.dispute, new.dispute) \in DisputeRow
    BY <1>4, <2>1, WrittenDispute
  <2> QED
    BY <1>3, <1>8, <2>1, <2>2 DEF TypeInv
<1>9. dispute' \in [DisputeIds -> DisputeRow]
  BY <1>3, <1>8 DEF TypeInv
<1>10. ASSUME NEW e \in DisputeIds
       PROVE  /\ dispute'[e].issue = dispute[e].issue
              /\ dispute'[e] # dispute[e] => e \in Committed /\ dispute'[e].status # "none"
              /\ dispute'[e].resolution = "refunded" =>
                    \/ dispute[e].resolution = "refunded"
                    \/ order'.state = "REFUNDED" \/ "undone" \in outside
  <2>1. CASE d = 0 \/ e # d
    BY <1>3, <1>8, <2>1
  <2>2. CASE d # 0 /\ e = d
    <3>1. dispute[d] \in DisputeRow
      BY <1>8, <2>2 DEF TypeInv
    <3>2. dispute'[d].issue = dispute[d].issue
      BY <1>2, <1>4, <1>8, <2>2, <3>1, WrittenDispute
    <3>3. new.dispute = c.dispute => dispute'[d] = dispute[d]
      BY <1>4, <1>8, <2>2, <3>1, WrittenDispute
    <3>4. dispute'[d].status \in {dispute[d].status, "brand_responding", "resolved"}
      BY <1>2, <1>4, <1>8, <2>2, <3>1, WrittenDispute
    <3>5. dispute'[d] # dispute[d] => d \in Committed
      BY <1>1, <1>2, <2>2, <3>3
    <3>6. dispute'[d].resolution = "refunded" =>
             \/ dispute[d].resolution = "refunded"
             \/ order'.state = "REFUNDED" \/ "undone" \in outside
      BY <1>2, <1>4, <1>7, <1>8, <2>2, <3>1, WrittenDispute
    <3> QED
      BY <2>2, <3>2, <3>4, <3>5, <3>6 DEF Committed
  <2> QED
    BY <2>1, <2>2
<1>11. order'.state \in {order.state, "REFUNDED"} /\ (order' # order => orderLock = NoReq)
  BY <1>2, <1>3, <1>5 DEF CanWrite
<1> QED
  BY <1>1, <1>3, <1>5, <1>6, <1>9, <1>10, <1>11
-----------------------------------------------------------------------------
(* Requests.                                                               *)

\* An idle request is a request.
LEMMA IdleType ==
    ASSUME BecknConstants
    PROVE  /\ Idle \in Request /\ Idle.pc = "idle" /\ Idle.kind = "none"
           /\ Idle.msg = NoMsg /\ Idle.d = 0 /\ Idle.seen.order.state = "PRE_AUTH"
  BY DEF BecknConstants, Idle, Request, Steps, Copy, OrderRow, OrderState, DisputeRow,
         NoDispute, Resolutions, RatingRow, NoRating, Codes, Awbs

\* The other requests stay as they are.
Only(r) == req' \in [Requests -> Request] /\ \A q \in Requests : q # r => req'[q] = req[q]

Acts(r) == Inbox(r) \/ Operate(r) \/ Tell(r) \/ Crash(r)

\* A request that only begins to work on a rating or the settlement.
Loads(r) ==
    /\ Only(r)
    /\ req[r].pc = "idle" /\ req'[r].pc = "loaded"
    /\ req'[r].kind \in {"rate", "settle"} /\ req'[r].msg = NoMsg
    /\ req'[r].seen.order.state \in {"PRE_AUTH", order.state}
    /\ UNCHANGED <<rows, locks, log, seller, effects>>

\* A request that goes on towards its answer.
GoesOn(r) ==
    /\ Only(r)
    /\ req[r].pc \in {"loaded", "sending", "logging"}
    /\ req'[r].pc \in {"sending", "logging", "told"}
    /\ req'[r].kind = req[r].kind /\ req'[r].msg = req[r].msg
    /\ req'[r].d = req[r].d /\ req'[r].seen = req[r].seen
    /\ req'[r].pc = "sending" => req'[r].left > 0
    /\ req[r].pc = "loaded" => req[r].kind \in {"rate", "settle"}
    /\ orderLock' \in {orderLock, r} /\ ratingLock' \in {ratingLock, r, NoReq}
    /\ orderLock' # orderLock => orderLock = NoReq
    /\ ratingLock' # ratingLock => ratingLock = NoReq
    /\ UNCHANGED <<rows, log, sent, acked, effects>>
    /\ heard' \in {heard, heard \cup {Said(r)}}

LEMMA FinishDo ==
    ASSUME BecknConstants, TypeInv, NEW r \in Requests, Finish(r)
    PROVE  /\ Only(r) /\ req'[r] = Idle
           /\ orderLock' = (IF orderLock = r THEN NoReq ELSE orderLock)
           /\ ratingLock' = (IF ratingLock = r THEN NoReq ELSE ratingLock)
           /\ orderLock' \in Requests \cup {NoReq} /\ ratingLock' \in Requests \cup {NoReq}
  BY IdleType DEF Finish, Release, TypeInv, Only

\* A new request is one of the types.
LEMMA BeginType ==
    ASSUME BecknConstants, TypeInv, NEW r \in Requests, NEW x \in Request, Begin(r, x)
    PROVE  Only(r) /\ req'[r] = x /\ req[r].pc = "idle"
  BY DEF Begin, TypeInv, Only

\* The dispute that a row of the inbox is about.
LEMMA RowType ==
    ASSUME TypeInv, BecknConstants, NEW d \in 0..MaxDispute
    PROVE  Row(d) \in DisputeRow
  BY DEF Row, NoDispute, DisputeRow, Resolutions, TypeInv, DisputeIds, BecknConstants

\* Every nonempty set of numbers has a least one.
LEMMA LeastNatural ==
    ASSUME NEW T, T \subseteq Nat, T # {}
    PROVE  \E n \in T : \A k \in T : n <= k
<1> DEFINE R == OpToRel(<, Nat)
<1>1. IsWellFoundedOn(R, Nat)
  BY NatLessThanWellFounded
<1> HIDE DEF R
<1>2. PICK n \in T : \A k \in T : ~(<<k, n>> \in R)
  BY <1>1, WFMin
<1>3. ASSUME NEW k \in T
      PROVE  n <= k
  <2>1. k < n => <<k, n>> \in R
    BY DEF R, OpToRel
  <2> QED
    BY <1>2, <2>1
<1> QED
  BY <1>3

\* Disputes are numbered, so the newest one is defined: the least number that
\* none of them exceeds is one of them, or 0.
LEMMA NewestType ==
    ASSUME TypeInv, BecknConstants
    PROVE  Newest \in Committed \cup {0} /\ Newest \in 0..MaxDispute
<1>1. Committed \subseteq DisputeIds /\ DisputeIds \subseteq Nat /\ MaxDispute \in Nat
  BY DEF Committed, DisputeIds, BecknConstants
<1>2. PICK n \in Nat : /\ \A e \in Committed : e <= n
                       /\ \A k \in Nat : (\A e \in Committed : e <= k) => n <= k
  <2> DEFINE Above == {n \in Nat : \A e \in Committed : e <= n}
  <2>1. Above \subseteq Nat /\ MaxDispute \in Above
    BY <1>1 DEF DisputeIds
  <2>2. \E n \in Above : \A k \in Above : n <= k
    <3> HIDE DEF Above
    <3> QED
      BY <2>1, LeastNatural
  <2> QED
    BY <2>2
<1>3. n \in Committed \cup {0}
  <2> SUFFICES ASSUME n \notin Committed, n # 0
               PROVE  FALSE
    OBVIOUS
  <2>1. n - 1 \in Nat /\ \A e \in Committed : e <= n - 1
    BY <1>1, <1>2
  <2> QED
    BY <1>2, <2>1
<1>4. \E d \in Committed \cup {0} : \A e \in Committed : e <= d
  BY <1>2, <1>3
<1>5. Newest \in Committed \cup {0}
  BY <1>4 DEF Newest
<1> QED
  BY <1>1, <1>5 DEF DisputeIds

\* The next dispute gets an id that no dispute and no request has.
LEMMA NextDisputeIs ==
    ASSUME BecknConstants, TypeInv, DisputeLeft, NEW r \in Requests
    PROVE  /\ NextDispute \in DisputeIds \ Committed /\ NextDispute \in 0..MaxDispute
           /\ \A q \in Requests : req[q].d # NextDispute
<1> DEFINE Used == Committed \cup {req[q].d : q \in Requests}
                     \cup {h[2] : h \in {k \in heard : k[1] = "issue"}}
<1>1. MaxDispute \in Nat /\ req[r].d \in 0..MaxDispute /\ req[r].d < MaxDispute
  BY DEF DisputeLeft, BecknConstants, TypeInv, Request
<1>2. MaxDispute \in DisputeIds /\ DisputeIds \subseteq 1..MaxDispute
  BY <1>1 DEF DisputeIds
<1>3. \A e \in Used : MaxDispute > e
  BY DEF DisputeLeft
<1>4. NextDispute = CHOOSE d \in DisputeIds : \A e \in Used : d > e
  BY DEF NextDispute
<1>5. NextDispute \in DisputeIds /\ \A e \in Used : NextDispute > e
  <2> HIDE DEF Used
  <2> QED
    BY <1>2, <1>3, <1>4
<1>6. NextDispute \notin Used
  BY <1>1, <1>2, <1>5
<1> QED
  BY <1>1, <1>2, <1>5, <1>6

\* A dispute that is opened has its row from then on.
LEMMA OpenDisputeDo ==
    ASSUME BecknConstants, TypeInv, RefundInv, NEW d \in DisputeIds \ Committed,
           NEW issue \in BOOLEAN, OpenDispute(d, issue)
    PROVE  /\ dispute' \in [DisputeIds -> DisputeRow]
           /\ Committed' = Committed \cup {d}
           /\ dispute'[d].issue = issue /\ dispute'[d].resolution = "none"
           /\ \A e \in DisputeIds : e # d => dispute'[e] = dispute[e]
           /\ ~dispute[d].issue
<1> DEFINE row == [NoDispute EXCEPT !.status = "open", !.issue = issue]
<1>1. /\ row \in DisputeRow /\ row.status # "none"
      /\ row.issue = issue /\ row.resolution = "none"
  BY DEF NoDispute, DisputeRow, DisputeStatus, Resolutions
<1>2. dispute' = [dispute EXCEPT ![d] = row]
  BY DEF OpenDispute
<1> HIDE DEF row
<1>3. /\ dispute' \in [DisputeIds -> DisputeRow] /\ dispute'[d] = row
      /\ \A e \in DisputeIds : e # d => dispute'[e] = dispute[e]
  BY <1>1, <1>2 DEF TypeInv
<1>4. Committed' = Committed \cup {d}
  BY <1>1, <1>3 DEF Committed
<1>5. ~dispute[d].issue
  BY DEF RefundInv, TypeInv, DisputeRow
<1> QED
  BY <1>1, <1>3, <1>4, <1>5

\* The disputes there are stay when a message takes effect.
LEMMA CommittedStays ==
    ASSUME BecknConstants, TypeInv, InboxInv, RefundInv, NEW r \in Requests,
           req[r].pc = "handling", Effects(r)
    PROVE  Committed' = Committed
<1>1. \A e \in DisputeIds :
        dispute'[e] # dispute[e] => e \in Committed /\ dispute'[e].status # "none"
  BY EffectsDo
<1>2. \A e \in DisputeIds : e \in Committed' <=> e \in Committed
  BY <1>1 DEF Committed
<1> QED
  BY <1>2 DEF Committed

\* The request ends and leaves the disputes as they are: only a crash ends one
\* that is to insert an issue.
Ends(r) ==
    /\ Finish(r)
    /\ req[r].pc # "idle"
    /\ UNCHANGED <<dispute, outside, log, sent, heard, effects>>
    /\ order' \in OrderRow /\ order'.state = order.state
    /\ rating' \in RatingRow
    /\ acked' \subseteq acked \cup (log \cap {req[r].msg})
    /\ req[r].kind = "issue" => "crash" \in Faults

\* What a request does is one of these.
Sorts(r) ==
    \/ Ends(r) \/ Loads(r) \/ GoesOn(r)
    \/ \E m \in Messages : Receive(r, m)
    \/ Load(r) \/ Commit(r) \/ LockForDispute(r) \/ CommitDispute(r)
    \/ OpenIssue(r) \/ CommitIssue(r)

LEMMA Ending ==
    ASSUME BecknConstants, TypeInv, OperateInv, NEW r \in Requests,
           \/ Repeated(r) \/ RatingNotFound(r) \/ Conflict(r) \/ EndDispute(r)
           \/ RatingExists(r) \/ CommitRating(r) \/ CommitSettlement(r) \/ Crash(r)
    PROVE  Ends(r)
<1>0. /\ order \in OrderRow /\ rating \in RatingRow
      /\ req[r].kind = "issue" => req[r].pc \in {"sending", "logging", "told"}
  BY DEF TypeInv, OperateInv
<1>1. CASE Repeated(r)
  BY <1>0, <1>1 DEF Repeated, Ends, Answer
<1>2. CASE RatingNotFound(r) \/ Conflict(r)
  BY <1>0, <1>2 DEF RatingNotFound, Conflict, Ends
<1>3. CASE EndDispute(r) \/ RatingExists(r)
  BY <1>0, <1>3 DEF EndDispute, RatingExists, Ends
<1>4. CASE Crash(r)
  BY <1>0, <1>4 DEF Crash, Ends
<1>5. /\ req[r].seen.order \in OrderRow /\ req[r].seen.rating \in RatingRow
      /\ req[r].new \in RatingRow
  BY DEF TypeInv, Request, Copy
<1>6. CASE CommitRating(r)
  BY <1>0, <1>5, <1>6, WrittenRating DEF CommitRating, Ends
<1>7. CASE CommitSettlement(r)
  <2> DEFINE new == [req[r].seen.order EXCEPT !.settlement = "NOT_PAID"]
  <2>1. new \in OrderRow
    BY <1>5 DEF OrderRow, Codes
  <2>2. new.state = req[r].seen.order.state
    BY <1>5 DEF OrderRow
  <2>0. order' = Written(order, req[r].seen.order, new)
    BY <1>7 DEF CommitSettlement
  <2>3. order' \in OrderRow /\ order'.state = order.state
    <3> HIDE DEF new
    <3> QED
      BY <1>0, <1>5, <2>0, <2>1, <2>2, WrittenOrder
  <2> QED
    BY <1>0, <1>7, <2>3 DEF CommitSettlement, Ends
<1> QED
  BY <1>1, <1>2, <1>3, <1>4, <1>6, <1>7

LEMMA Loading ==
    ASSUME BecknConstants, TypeInv, NEW r \in Requests,
           (\E v \in Ratings : LoadRating(r, v)) \/ LoadSettlement(r)
    PROVE  Loads(r)
<1>0. order \in OrderRow /\ rating \in RatingRow
  BY DEF TypeInv
<1>1. ASSUME NEW v \in Ratings, LoadRating(r, v)
      PROVE  Loads(r)
  <2> DEFINE x == [Idle EXCEPT !.pc = "loaded", !.kind = "rate", !.seen.rating = rating,
                               !.new.value = v]
  <2>1. x \in Request /\ x.pc = "loaded" /\ x.kind = "rate" /\ x.msg = NoMsg
    BY <1>0, IdleType DEF Request, Steps, Copy, RatingRow
  <2>2. x.seen.order.state = "PRE_AUTH"
    BY DEF Idle
  <2>3. Begin(r, x) /\ UNCHANGED <<rows, locks, log, seller, effects>>
    BY <1>1 DEF LoadRating
  <2> HIDE DEF x
  <2>4. Only(r) /\ req'[r] = x /\ req[r].pc = "idle"
    BY <2>1, <2>3, BeginType
  <2> QED
    BY <2>1, <2>2, <2>3, <2>4 DEF Loads
<1>2. ASSUME LoadSettlement(r)
      PROVE  Loads(r)
  <2> DEFINE x == [Idle EXCEPT !.pc = "loaded", !.kind = "settle", !.seen.order = order]
  <2>1. x \in Request /\ x.pc = "loaded" /\ x.kind = "settle" /\ x.msg = NoMsg
    BY <1>0, IdleType DEF Request, Steps, Copy
  <2>2. x.seen.order.state = order.state
    BY DEF Idle
  <2>3. Begin(r, x) /\ UNCHANGED <<rows, locks, log, seller, effects>>
    BY <1>2 DEF LoadSettlement
  <2> HIDE DEF x
  <2>4. Only(r) /\ req'[r] = x /\ req[r].pc = "idle"
    BY <2>1, <2>3, BeginType
  <2> QED
    BY <2>1, <2>2, <2>3, <2>4 DEF Loads
<1> QED
  BY <1>1, <1>2

LEMMA Going ==
    ASSUME BecknConstants, TypeInv, OperateInv, NEW r \in Requests,
           FlushRating(r) \/ FlushSettlement(r) \/ Tell(r)
    PROVE  GoesOn(r)
<1>0. /\ req[r] \in Request /\ req \in [Requests -> Request] /\ Tries \in Nat \ {0}
      /\ req[r].left \in 0..Tries
  BY DEF TypeInv, Request, BecknConstants
<1>1. CASE FlushRating(r) \/ FlushSettlement(r)
  <2>1. req' = [req EXCEPT ![r].pc = "sending", ![r].left = Tries]
    BY <1>1 DEF FlushRating, FlushSettlement
  <2> DEFINE x == [req[r] EXCEPT !.pc = "sending", !.left = Tries]
  <2>0. x \in Request
    <3>1. Tries \in 0..Tries
      BY <1>0
    <3> QED
      BY <1>0, <3>1 DEF Request, Steps
  <2>2. req' \in [Requests -> Request]
    <3>1. req' = [req EXCEPT ![r] = x]
      BY <1>0, <2>1
    <3> HIDE DEF x
    <3> QED
      BY <1>0, <2>0, <3>1
  <2>3. /\ req'[r].pc = "sending" /\ req'[r].left = Tries
        /\ req'[r].kind = req[r].kind /\ req'[r].msg = req[r].msg
        /\ req'[r].d = req[r].d /\ req'[r].seen = req[r].seen
        /\ \A q \in Requests : q # r => req'[q] = req[q]
    BY <1>0, <2>1 DEF Request
  <2>4. /\ req[r].pc = "loaded" /\ req[r].kind \in {"rate", "settle"}
        /\ orderLock' \in {orderLock, r} /\ ratingLock' \in {ratingLock, r, NoReq}
        /\ orderLock' # orderLock => orderLock = NoReq
        /\ ratingLock' # ratingLock => ratingLock = NoReq
        /\ UNCHANGED <<rows, log, seller, effects>>
    BY <1>1 DEF FlushRating, FlushSettlement
  <2> QED
    BY <1>0, <2>2, <2>3, <2>4 DEF GoesOn, Only
<1>2. CASE Post(r)
  <2>0. req[r].left \in 1..Tries
    BY <1>0, <1>2 DEF Post, OperateInv
  <2>1. PICK a \in {"accepted", "refused", "failed"} :
           req' = [req EXCEPT ![r].pc = "logging", ![r].left = @ - 1, ![r].answer = a]
    BY <1>2 DEF Post
  <2>2. /\ req[r].pc = "sending" /\ heard' \in {heard, heard \cup {Said(r)}}
        /\ UNCHANGED <<rows, locks, log, sent, acked, effects>>
    BY <1>2 DEF Post
  <2>3. req[r].left - 1 \in 0..Tries
    BY <1>0, <2>0
  <2>4. req' \in [Requests -> Request]
    BY <1>0, <2>1, <2>3 DEF Request, Steps
  <2>5. /\ req'[r].pc = "logging"
        /\ req'[r].kind = req[r].kind /\ req'[r].msg = req[r].msg
        /\ req'[r].d = req[r].d /\ req'[r].seen = req[r].seen
        /\ \A q \in Requests : q # r => req'[q] = req[q]
    BY <1>0, <2>1 DEF Request
  <2> QED
    BY <2>2, <2>4, <2>5 DEF GoesOn, Only
<1>3. CASE LogAttempt(r) \/ LogTimeout(r)
  <2>1. PICK p \in {"sending", "told"} :
           /\ req' = [req EXCEPT ![r].pc = p, ![r].answer = "none"]
           /\ p = "sending" => req[r].left > 0
    <3>1. CASE LogTimeout(r)
      BY <3>1 DEF LogTimeout
    <3>2. CASE LogAttempt(r)
      <4> DEFINE p == IF req[r].answer = "failed" /\ req[r].left > 0 THEN "sending"
                      ELSE "told"
      <4>1. req' = [req EXCEPT ![r].answer = "none", ![r].pc = p]
        BY <3>2 DEF LogAttempt
      <4>2. p \in {"sending", "told"} /\ (p = "sending" => req[r].left > 0)
        OBVIOUS
      <4> HIDE DEF p
      <4>3. req' = [req EXCEPT ![r].pc = p, ![r].answer = "none"]
        BY <1>0, <4>1
      <4> QED
        BY <4>2, <4>3
    <3> QED
      BY <1>3, <3>1, <3>2
  <2>2. req[r].pc = "logging" /\ UNCHANGED <<rows, locks, log, seller, effects>>
    BY <1>3 DEF LogAttempt, LogTimeout
  <2>3. req' \in [Requests -> Request]
    BY <1>0, <2>1 DEF Request, Steps
  <2>4. /\ req'[r].pc = p /\ req'[r].left = req[r].left
        /\ req'[r].kind = req[r].kind /\ req'[r].msg = req[r].msg
        /\ req'[r].d = req[r].d /\ req'[r].seen = req[r].seen
        /\ \A q \in Requests : q # r => req'[q] = req[q]
    BY <1>0, <2>1 DEF Request
  <2> QED
    BY <2>1, <2>2, <2>3, <2>4 DEF GoesOn, Only
<1> QED
  BY <1>1, <1>2, <1>3 DEF Tell

LEMMA Sorted ==
    ASSUME BecknConstants, TypeInv, OperateInv, NEW r \in Requests, Acts(r)
    PROVE  Sorts(r)
<1>1. CASE Inbox(r)
  BY <1>1, Ending DEF Inbox, Sorts
<1>2. CASE Operate(r)
  BY <1>2, Ending, Loading, Going DEF Operate, Sorts
<1>3. CASE Tell(r)
  BY <1>3, Going DEF Sorts
<1>4. CASE Crash(r)
  BY <1>4, Ending DEF Sorts
<1> QED
  BY <1>1, <1>2, <1>3, <1>4 DEF Acts

\* A message is taken on, with the order as it is, if its reference matches and
\* an issue it is about has its row.
LEMMA ReceiveDo ==
    ASSUME BecknConstants, TypeInv, NEW r \in Requests, NEW m \in Messages, Receive(r, m)
    PROVE  /\ Only(r) /\ req[r].pc = "idle"
           /\ req'[r].pc = "authorized" /\ req'[r].kind = "inbox" /\ req'[r].msg = m
           /\ m # NoMsg /\ sent[m] # NoMsg /\ req'[r].seen.order = order
           /\ sent[m].action = "on_confirm" => sent[m].ref \in {"ours", order.ref}
           /\ sent[m].action = "on_issue" => req'[r].d \in Committed
           /\ UNCHANGED <<rows, locks, log, seller, effects>>
<1> DEFINE c == sent[m]
           x == [Idle EXCEPT !.pc = "authorized", !.kind = "inbox", !.msg = m, !.d = c.about,
                             !.seen.order = order, !.seen.dispute = Row(c.about)]
<1>1. /\ c # NoMsg /\ c \in Contents /\ c.about \in 0..MaxDispute /\ m # NoMsg
      /\ c.action \in Actions
  BY DEF Receive, TypeInv, BecknConstants
<1>2. Begin(r, x) /\ UNCHANGED <<rows, locks, log, seller, effects>> /\ Authorized(c)
  BY DEF Receive
<1>3. Row(c.about) \in DisputeRow /\ order \in OrderRow
  BY <1>1, RowType DEF TypeInv
<1>4. /\ x \in Request /\ x.pc = "authorized" /\ x.kind = "inbox" /\ x.msg = m
      /\ x.d = c.about
  BY <1>1, <1>3, IdleType DEF Request, Steps, Copy
<1>5. x.seen.order = order
  BY DEF Idle
<1> HIDE DEF x
<1>6. Only(r) /\ req'[r] = x /\ req[r].pc = "idle"
  BY <1>2, <1>4, BeginType
<1>7. c.action = "on_confirm" => c.ref \in {"ours", order.ref}
  BY <1>2 DEF Authorized, MatchesReference
<1>8. c.action = "on_issue" => c.about \in Committed
  BY <1>2 DEF Authorized
<1> QED
  BY <1>1, <1>2, <1>4, <1>5, <1>6, <1>7, <1>8

LEMMA LoadDo ==
    ASSUME BecknConstants, TypeInv, NEW r \in Requests, Load(r)
    PROVE  /\ Only(r) /\ req[r].pc = "authorized" /\ req'[r].pc = "handling"
           /\ req'[r].kind = req[r].kind /\ req'[r].msg = req[r].msg
           /\ req'[r].seen.order = req[r].seen.order
           /\ sent[req[r].msg].action # "on_update" => req'[r].d = req[r].d
           /\ sent[req[r].msg].action = "on_update" => req'[r].d \in Committed \cup {0}
           /\ UNCHANGED <<rows, locks, log, seller, effects>>
<1> DEFINE up == sent[req[r].msg].action = "on_update"
           d == IF up THEN Newest ELSE req[r].d
           row == IF up THEN Row(d) ELSE req[r].seen.dispute
           x == [req[r] EXCEPT !.pc = "handling", !.d = d, !.seen.dispute = row,
                               !.seen.rating = rating]
<1>1. /\ req[r] \in Request /\ req[r].d \in 0..MaxDispute /\ req[r].seen \in Copy
      /\ req[r].seen.dispute \in DisputeRow /\ rating \in RatingRow
  BY DEF TypeInv, Request, Copy
<1>2. d \in 0..MaxDispute /\ row \in DisputeRow /\ (up => d \in Committed \cup {0})
  BY <1>1, NewestType, RowType
<1>3. /\ req' = [req EXCEPT ![r] = x] /\ req[r].pc = "authorized"
      /\ UNCHANGED <<rows, locks, log, seller, effects>>
  BY <1>1 DEF Load, TypeInv, Request, Copy
<1> HIDE DEF d, row
<1>4. x \in Request
  BY <1>1, <1>2 DEF Request, Steps, Copy
<1>5. /\ x.pc = "handling" /\ x.kind = req[r].kind /\ x.msg = req[r].msg /\ x.d = d
      /\ x.seen.order = req[r].seen.order
  BY <1>1 DEF Request, Copy
<1> HIDE DEF x
<1>6. Only(r) /\ req'[r] = x
  BY <1>3, <1>4 DEF Only, TypeInv
<1>7. ~up => d = req[r].d
  BY DEF d
<1> QED
  BY <1>2, <1>3, <1>5, <1>6, <1>7

\* A request that opens a dispute numbers it anew.
LEMMA OpeningDo ==
    ASSUME BecknConstants, TypeInv, NEW r \in Requests, LockForDispute(r) \/ OpenIssue(r)
    PROVE  /\ Only(r) /\ req[r].pc = "idle"
           /\ req'[r].msg = NoMsg /\ req'[r].seen.order.state = "PRE_AUTH"
           /\ req'[r].d \in DisputeIds \ Committed
           /\ \A q \in Requests : req[q].d # req'[r].d
           /\ LockForDispute(r) => /\ req'[r].pc = "locked" /\ req'[r].kind = "dispute"
                                   /\ orderLock' = r /\ orderLock = NoReq
                                   /\ UNCHANGED ratingLock
                                   /\ Accepts(order.state, "DISPUTED")
           /\ OpenIssue(r) => /\ req'[r].pc = "sending" /\ req'[r].kind = "issue"
                              /\ req'[r].left > 0
                              /\ UNCHANGED locks
           /\ UNCHANGED <<rows, log, seller, effects>>
<1> DEFINE d == NextDispute
           x == [Idle EXCEPT !.pc = "locked", !.kind = "dispute", !.d = d]
           y == [Idle EXCEPT !.pc = "sending", !.kind = "issue", !.d = d, !.left = Tries]
<1>1. DisputeLeft
  BY DEF LockForDispute, OpenIssue
<1>2. /\ d \in DisputeIds \ Committed /\ d \in 0..MaxDispute
      /\ \A q \in Requests : req[q].d # d
  BY <1>1, NextDisputeIs
<1>3. LockForDispute(r) =>
        /\ Begin(r, x) /\ orderLock' = r /\ orderLock = NoReq
        /\ UNCHANGED <<rows, ratingLock, log, seller, effects>>
        /\ Accepts(order.state, "DISPUTED")
  BY DEF LockForDispute
<1>4. OpenIssue(r) => Begin(r, y) /\ UNCHANGED <<rows, locks, log, seller, effects>>
  BY DEF OpenIssue
<1> HIDE DEF d
<1>5. Tries \in 0..Tries /\ Tries > 0
  BY DEF BecknConstants
<1>6. /\ x \in Request /\ x.pc = "locked" /\ x.kind = "dispute" /\ x.d = d /\ x.msg = NoMsg
      /\ y \in Request /\ y.pc = "sending" /\ y.kind = "issue" /\ y.d = d /\ y.msg = NoMsg
      /\ y.left = Tries
  BY <1>2, <1>5, IdleType DEF Request, Steps
<1>7. x.seen.order.state = "PRE_AUTH" /\ y.seen.order.state = "PRE_AUTH"
  BY DEF Idle
<1> HIDE DEF x, y
<1>8. CASE LockForDispute(r)
  <2>1. Only(r) /\ req'[r] = x /\ req[r].pc = "idle"
    BY <1>3, <1>6, <1>8, BeginType
  <2>2. ~OpenIssue(r)
    <3> SUFFICES ASSUME OpenIssue(r) PROVE FALSE
      OBVIOUS
    <3>1. req'[r] = y
      BY <1>4, <1>6, BeginType
    <3> QED
      BY <1>6, <2>1, <3>1
  <2> QED
    BY <1>2, <1>3, <1>6, <1>7, <1>8, <2>1, <2>2
<1>9. CASE OpenIssue(r)
  <2>1. Only(r) /\ req'[r] = y /\ req[r].pc = "idle"
    BY <1>4, <1>6, <1>9, BeginType
  <2>2. ~LockForDispute(r)
    <3> SUFFICES ASSUME LockForDispute(r) PROVE FALSE
      OBVIOUS
    <3>1. req'[r] = x
      BY <1>3, <1>6, BeginType
    <3> QED
      BY <1>6, <2>1, <3>1
  <2> QED
    BY <1>2, <1>4, <1>5, <1>6, <1>7, <1>9, <2>1, <2>2
<1> QED
  BY <1>8, <1>9

\* A dispute is committed with its row and the order's state.
LEMMA CommitDisputeDo ==
    ASSUME BecknConstants, TypeInv, OpensInv, RefundInv, NEW r \in Requests, CommitDispute(r)
    PROVE  /\ Only(r) /\ req[r].pc = "locked" /\ req'[r].pc = "sending" /\ req'[r].left > 0
           /\ req'[r].kind = req[r].kind /\ req'[r].msg = req[r].msg
           /\ req'[r].d = req[r].d /\ req'[r].seen = req[r].seen
           /\ order' \in OrderRow /\ order'.state = "DISPUTED"
           /\ req[r].d \in DisputeIds \ Committed /\ OpenDispute(req[r].d, FALSE)
           /\ orderLock' = (IF orderLock = r THEN NoReq ELSE orderLock)
           /\ ratingLock' = (IF ratingLock = r THEN NoReq ELSE ratingLock)
           /\ UNCHANGED <<rating, outside, log, seller, effects>>
<1> DEFINE x == [req[r] EXCEPT !.pc = "sending", !.left = Tries]
<1>1. /\ req[r] \in Request /\ Tries \in 0..Tries /\ Tries > 0 /\ order \in OrderRow
  BY DEF TypeInv, BecknConstants
<1>2. /\ x \in Request /\ x.pc = "sending" /\ x.left = Tries
      /\ x.kind = req[r].kind /\ x.msg = req[r].msg /\ x.d = req[r].d /\ x.seen = req[r].seen
  BY <1>1 DEF Request, Steps
<1>3. req' = [req EXCEPT ![r] = x]
  BY <1>1 DEF CommitDispute, TypeInv, Request
<1>4. Only(r) /\ req'[r] = x
  <2> HIDE DEF x
  <2> QED
    BY <1>2, <1>3 DEF Only, TypeInv
<1>5. order' \in OrderRow /\ order'.state = "DISPUTED"
  BY <1>1 DEF CommitDispute, OrderRow, OrderState
<1>6. req[r].d \in DisputeIds \ Committed
  BY DEF OpensInv, Opens, CommitDispute
<1> HIDE DEF x
<1> QED
  BY <1>1, <1>2, <1>4, <1>5, <1>6 DEF CommitDispute, Release

-----------------------------------------------------------------------------
(* The invariant is inductive.                                             *)

LEMMA StepSorted ==
    ASSUME BecknConstants, BecknInv, [Next]_vars
    PROVE  \/ \E r \in Requests : Sorts(r)
           \/ \E m \in Messages : SellerSends(m)
           \/ OtherTransition
           \/ UNCHANGED vars
<1>1. ASSUME NEW r \in Requests, Inbox(r) \/ Operate(r) \/ Tell(r) \/ Crash(r)
      PROVE  Sorts(r)
  BY <1>1, Sorted DEF Acts, BecknInv
<1> QED
  BY <1>1 DEF Next

LEMMA OtherDo ==
    ASSUME BecknConstants, TypeInv, OtherTransition
    PROVE  /\ order' \in OrderRow /\ order'.state \in Others \ {order.state}
           /\ orderLock = NoReq
           /\ outside' \subseteq {"disputed", "undone"}
           /\ order'.state = "DISPUTED" => "disputed" \in outside'
           /\ order.state = "REFUNDED" \/ "undone" \in outside => "undone" \in outside'
           /\ UNCHANGED <<dispute, rating, locks, log, req, seller, effects>>
<1>1. order \in OrderRow
  BY DEF TypeInv
<1>2. PICK s \in Others \ {order.state} :
         /\ order' = [order EXCEPT !.state = s]
         /\ outside' = (outside \ {"disputed"})
               \cup {x \in {"disputed"} : s = "DISPUTED"}
               \cup {x \in {"undone"} : order.state = "REFUNDED"}
  BY DEF OtherTransition
<1>3. s \in OrderState
  BY <1>2 DEF BecknConstants
<1>4. order' \in OrderRow /\ order'.state = s
  BY <1>1, <1>2, <1>3 DEF OrderRow
<1>5. /\ outside' \subseteq {"disputed", "undone"}
      /\ order'.state = "DISPUTED" => "disputed" \in outside'
      /\ order.state = "REFUNDED" \/ "undone" \in outside => "undone" \in outside'
  BY <1>2, <1>4 DEF TypeInv
<1> QED
  BY <1>2, <1>4, <1>5 DEF OtherTransition

LEMMA SendsDo ==
    ASSUME BecknConstants, TypeInv, InboxInv, NEW m \in Messages, SellerSends(m)
    PROVE  /\ sent' \in [Messages -> Contents \cup {NoMsg}]
           /\ \A k \in Messages : sent[k] # NoMsg => sent'[k] = sent[k]
           /\ UNCHANGED <<rows, locks, log, req, acked, heard, effects>>
  BY DEF SellerSends, TypeInv

LEMMA TypeStep ==
    ASSUME BecknConstants, BecknInv, [Next]_vars
    PROVE  TypeInv'
<1> USE DEF BecknInv
<1>0. TypeInv
  OBVIOUS
<1>1. ASSUME NEW r \in Requests, Ends(r)
      PROVE  TypeInv'
  <2>1. /\ req' \in [Requests -> Request]
        /\ orderLock' \in Requests \cup {NoReq} /\ ratingLock' \in Requests \cup {NoReq}
    BY <1>1, FinishDo DEF Ends, Only
  <2> QED
    BY <1>0, <1>1, <2>1 DEF TypeInv, Ends
<1>2. ASSUME NEW r \in Requests, Loads(r)
      PROVE  TypeInv'
  BY <1>0, <1>2 DEF TypeInv, Loads, Only
<1>3. ASSUME NEW r \in Requests, GoesOn(r)
      PROVE  TypeInv'
  BY <1>0, <1>3 DEF TypeInv, GoesOn, Only
<1>4. ASSUME NEW r \in Requests, NEW m \in Messages, Receive(r, m)
      PROVE  TypeInv'
  BY <1>0, <1>4, ReceiveDo DEF TypeInv, Only
<1>5. ASSUME NEW r \in Requests, Load(r)
      PROVE  TypeInv'
  BY <1>0, <1>5, LoadDo DEF TypeInv, Only
<1>6. ASSUME NEW r \in Requests, Commit(r)
      PROVE  TypeInv'
  <2>1. /\ req' \in [Requests -> Request]
        /\ orderLock' \in Requests \cup {NoReq} /\ ratingLock' \in Requests \cup {NoReq}
    BY <1>6, FinishDo DEF Commit, Only
  <2>2. /\ order' \in OrderRow /\ dispute' \in [DisputeIds -> DisputeRow]
        /\ rating' \in RatingRow /\ req[r].msg \in Messages
        /\ effects' = [effects EXCEPT ![req[r].msg] = @ + 1]
    BY <1>6, EffectsDo DEF Commit
  <2>5. outside' \subseteq {"disputed", "undone"}
    BY <1>0, <1>6, EffectsDo DEF Commit, TypeInv
  <2>3. effects' \in [Messages -> Nat]
    BY <1>0, <2>2 DEF TypeInv
  <2>4. log' \subseteq Messages /\ acked' \subseteq log' /\ UNCHANGED <<sent, heard>>
    BY <1>0, <1>6, <2>2 DEF Commit, Answer, TypeInv
  <2> QED
    BY <1>0, <2>1, <2>2, <2>3, <2>4, <2>5 DEF TypeInv
<1>7. ASSUME NEW r \in Requests, LockForDispute(r) \/ OpenIssue(r)
      PROVE  TypeInv'
  BY <1>0, <1>7, OpeningDo DEF TypeInv, Only
<1>8. ASSUME NEW r \in Requests, CommitDispute(r)
      PROVE  TypeInv'
  <2>1. dispute' \in [DisputeIds -> DisputeRow]
    BY <1>8, CommitDisputeDo, OpenDisputeDo
  <2> QED
    BY <1>0, <1>8, <2>1, CommitDisputeDo DEF TypeInv, Only
<1>9. ASSUME NEW r \in Requests, CommitIssue(r)
      PROVE  TypeInv'
  <2>1. req[r].d \in DisputeIds \ Committed
    BY <1>9 DEF CommitIssue, OpensInv, Opens
  <2>2. dispute' \in [DisputeIds -> DisputeRow]
    BY <1>9, <2>1, OpenDisputeDo DEF CommitIssue
  <2>3. /\ req' \in [Requests -> Request]
        /\ orderLock' \in Requests \cup {NoReq} /\ ratingLock' \in Requests \cup {NoReq}
    BY <1>9, FinishDo DEF CommitIssue, Only
  <2> QED
    BY <1>0, <1>9, <2>2, <2>3 DEF TypeInv, CommitIssue
<1>10. ASSUME NEW m \in Messages, SellerSends(m)
       PROVE  TypeInv'
  BY <1>0, <1>10, SendsDo DEF TypeInv
<1>11. ASSUME OtherTransition
       PROVE  TypeInv'
  BY <1>0, <1>11, OtherDo DEF TypeInv
<1>12. ASSUME UNCHANGED vars
       PROVE  TypeInv'
  BY <1>0, <1>12 DEF TypeInv, vars
<1> QED
  BY <1>1, <1>2, <1>3, <1>4, <1>5, <1>6, <1>7, <1>8, <1>9, <1>10, <1>11, <1>12,
     StepSorted DEF Sorts

LEMMA LocksStep ==
    ASSUME BecknConstants, BecknInv, [Next]_vars
    PROVE  LocksInv'
<1> USE DEF BecknInv
<1>0. /\ TypeInv /\ LocksInv /\ NoReq \notin Requests
      /\ orderLock \in Requests \cup {NoReq} /\ ratingLock \in Requests \cup {NoReq}
  BY DEF TypeInv, BecknConstants
<1>1. ASSUME NEW r \in Requests, Finish(r)
      PROVE  LocksInv'
  BY <1>0, <1>1, FinishDo DEF LocksInv, Only
<1>2. ASSUME NEW r \in Requests, Loads(r)
      PROVE  LocksInv'
  BY <1>0, <1>2 DEF LocksInv, Loads, Only
<1>3. ASSUME NEW r \in Requests, GoesOn(r)
      PROVE  LocksInv'
  BY <1>0, <1>3 DEF LocksInv, GoesOn, Only
<1>4. ASSUME NEW r \in Requests, NEW m \in Messages, Receive(r, m)
      PROVE  LocksInv'
  BY <1>0, <1>4, ReceiveDo DEF LocksInv, Only
<1>5. ASSUME NEW r \in Requests, Load(r)
      PROVE  LocksInv'
  BY <1>0, <1>5, LoadDo DEF LocksInv, Only
<1>6. ASSUME NEW r \in Requests, LockForDispute(r) \/ OpenIssue(r)
      PROVE  LocksInv'
  <2>1. /\ Only(r) /\ req'[r].pc # "idle" /\ ratingLock' = ratingLock
        /\ orderLock' \in {orderLock, r}
    BY <1>6, OpeningDo
  <2> QED
    BY <1>0, <2>1 DEF LocksInv, Only
<1>7. ASSUME NEW r \in Requests, CommitDispute(r)
      PROVE  LocksInv'
  <2>1. /\ Only(r) /\ ratingLock' \in {ratingLock, NoReq} /\ orderLock' \in {orderLock, NoReq}
        /\ req'[r].pc # "idle"
    BY <1>7, CommitDisputeDo
  <2> QED
    BY <1>0, <2>1 DEF LocksInv, Only
<1>8. ASSUME \/ \E m \in Messages : SellerSends(m)
             \/ OtherTransition \/ UNCHANGED vars
      PROVE  LocksInv'
  BY <1>0, <1>8 DEF LocksInv, SellerSends, OtherTransition, vars
<1> QED
  BY <1>1, <1>2, <1>3, <1>4, <1>5, <1>6, <1>7, <1>8, StepSorted
     DEF Sorts, Ends, Commit, CommitIssue

\* No dispute is deleted.
LEMMA CommittedGrows ==
    ASSUME BecknConstants, BecknInv, [Next]_vars
    PROVE  Committed \subseteq Committed'
<1> USE DEF BecknInv
<1>1. ASSUME UNCHANGED dispute
      PROVE  Committed \subseteq Committed'
  BY <1>1 DEF Committed
<1>2. ASSUME NEW r \in Requests, Commit(r)
      PROVE  Committed \subseteq Committed'
  BY <1>2, CommittedStays DEF Commit
<1>3. ASSUME NEW r \in Requests, CommitDispute(r)
      PROVE  Committed \subseteq Committed'
  BY <1>3, CommitDisputeDo, OpenDisputeDo
<1>4. ASSUME NEW r \in Requests, CommitIssue(r)
      PROVE  Committed \subseteq Committed'
  <2>1. req[r].d \in DisputeIds \ Committed
    BY <1>4 DEF CommitIssue, OpensInv, Opens
  <2> QED
    BY <1>4, <2>1, OpenDisputeDo DEF CommitIssue
<1>5. ASSUME NEW r \in Requests, Sorts(r), ~Commit(r), ~CommitDispute(r), ~CommitIssue(r)
      PROVE  UNCHANGED dispute
  BY <1>5 DEF Sorts, Ends, Loads, GoesOn, Receive, Load, LockForDispute, OpenIssue
<1>6. ASSUME \/ \E m \in Messages : SellerSends(m)
             \/ OtherTransition \/ UNCHANGED vars
      PROVE  UNCHANGED dispute
  BY <1>6 DEF SellerSends, OtherTransition, vars
<1> QED
  BY <1>1, <1>2, <1>3, <1>4, <1>5, <1>6, StepSorted

\* The part of InboxInv about one request.
InboxOf(r) ==
    /\ req[r].pc \in {"authorized", "handling"} <=> req[r].msg # NoMsg
    /\ req[r].msg # NoMsg =>
          /\ sent[req[r].msg] # NoMsg
          /\ sent[req[r].msg].action = "on_confirm" =>
                sent[req[r].msg].ref \in {"ours", req[r].seen.order.ref}
          /\ sent[req[r].msg].action = "on_issue" => req[r].d \in Committed
          /\ sent[req[r].msg].action = "on_update" /\ req[r].pc = "handling" =>
                req[r].d \in Committed \cup {0}

LEMMA InboxStep ==
    ASSUME BecknConstants, BecknInv, [Next]_vars
    PROVE  InboxInv'
<1> SUFFICES ASSUME NEW q \in Requests
             PROVE  InboxOf(q)'
  BY DEF InboxInv, InboxOf
<1> USE DEF BecknInv
<1>0. InboxOf(q) /\ Committed \subseteq Committed' /\ req[q].msg \in Messages \cup {NoMsg}
  BY CommittedGrows DEF InboxInv, InboxOf, TypeInv, Request
\* Who neither takes on nor loads stays as it is, or has no message any more.
<1>1. ASSUME UNCHANGED <<req, sent>>
      PROVE  InboxOf(q)'
  BY <1>0, <1>1 DEF InboxOf
<1>2. ASSUME NEW r \in Requests, Only(r), UNCHANGED sent,
             req'[r].msg = NoMsg, req'[r].pc \notin {"authorized", "handling"}
      PROVE  InboxOf(q)'
  BY <1>0, <1>2 DEF InboxOf, Only
<1>3. ASSUME NEW r \in Requests, Finish(r), UNCHANGED sent
      PROVE  InboxOf(q)'
  BY <1>2, <1>3, FinishDo, IdleType
<1>4. ASSUME NEW r \in Requests, Ends(r) \/ Commit(r) \/ CommitIssue(r)
      PROVE  InboxOf(q)'
  BY <1>3, <1>4 DEF Ends, Commit, CommitIssue, Answer
<1>5. ASSUME NEW r \in Requests, Loads(r)
      PROVE  InboxOf(q)'
  BY <1>2, <1>5 DEF Loads
<1>6. ASSUME NEW r \in Requests, GoesOn(r)
      PROVE  InboxOf(q)'
  <2>1. req[r].msg = NoMsg
    BY <1>6 DEF GoesOn, InboxInv
  <2> QED
    BY <1>2, <1>6, <2>1 DEF GoesOn
<1>7. ASSUME NEW r \in Requests, NEW m \in Messages, Receive(r, m)
      PROVE  InboxOf(q)'
  <2>1. CASE q = r
    BY <1>0, <1>7, <2>1, ReceiveDo DEF InboxOf
  <2>2. CASE q # r
    BY <1>0, <1>7, <2>2, ReceiveDo DEF InboxOf, Only
  <2> QED
    BY <2>1, <2>2
<1>8. ASSUME NEW r \in Requests, Load(r)
      PROVE  InboxOf(q)'
  <2>1. CASE q = r
    BY <1>0, <1>8, <2>1, LoadDo DEF InboxOf
  <2>2. CASE q # r
    BY <1>0, <1>8, <2>2, LoadDo DEF InboxOf, Only
  <2> QED
    BY <2>1, <2>2
<1>9. ASSUME NEW r \in Requests, LockForDispute(r) \/ OpenIssue(r)
      PROVE  InboxOf(q)'
  BY <1>2, <1>9, OpeningDo
<1>10. ASSUME NEW r \in Requests, CommitDispute(r)
       PROVE  InboxOf(q)'
  <2>1. req[r].msg = NoMsg
    BY <1>10 DEF CommitDispute, InboxInv
  <2> QED
    BY <1>2, <1>10, <2>1, CommitDisputeDo
<1>11. ASSUME NEW m \in Messages, SellerSends(m)
       PROVE  InboxOf(q)'
  BY <1>0, <1>11, SendsDo DEF InboxOf
<1>12. ASSUME OtherTransition \/ UNCHANGED vars
       PROVE  InboxOf(q)'
  BY <1>1, <1>12 DEF OtherTransition, vars
<1> QED
  BY <1>4, <1>5, <1>6, <1>7, <1>8, <1>9, <1>10, <1>11, <1>12, StepSorted DEF Sorts

\* The part of OperateInv about one request.
OperateOf(r) ==
    /\ req[r].pc = "locked" =>
          req[r].kind = "dispute" /\ orderLock = r /\ Accepts(order.state, "DISPUTED")
    /\ req[r].pc = "sending" => req[r].left > 0
    /\ req[r].kind = "issue" => req[r].pc \in {"sending", "logging", "told"}

LEMMA OperateStep ==
    ASSUME BecknConstants, BecknInv, [Next]_vars
    PROVE  OperateInv'
<1> SUFFICES ASSUME NEW q \in Requests
             PROVE  OperateOf(q)'
  BY DEF OperateInv, OperateOf
<1> USE DEF BecknInv
<1>0. OperateOf(q) /\ NoReq \notin Requests
  BY DEF OperateInv, OperateOf, BecknConstants
\* The order's row stays locked for another request, and in its state.
<1>1. ASSUME NEW r \in Requests, Only(r), OperateOf(r)',
             orderLock' = orderLock \/ orderLock \in {r, NoReq},
             order'.state = order.state \/ orderLock \in {r, NoReq}
      PROVE  OperateOf(q)'
  BY <1>0, <1>1 DEF OperateOf, Only
<1>2. ASSUME NEW r \in Requests, Finish(r)
      PROVE  Only(r) /\ OperateOf(r)' /\ (orderLock' = orderLock \/ orderLock \in {r, NoReq})
  BY <1>2, FinishDo, IdleType DEF OperateOf
<1>3. ASSUME NEW r \in Requests, Ends(r) \/ CommitIssue(r)
      PROVE  OperateOf(q)'
  BY <1>1, <1>2, <1>3 DEF Ends, CommitIssue
<1>4. ASSUME NEW r \in Requests, Commit(r)
      PROVE  OperateOf(q)'
  <2>1. order' # order => orderLock = NoReq
    BY <1>4, EffectsDo DEF Commit
  <2> QED
    BY <1>1, <1>2, <1>4, <2>1 DEF Commit
<1>5. ASSUME NEW r \in Requests, Loads(r)
      PROVE  OperateOf(q)'
  BY <1>1, <1>5 DEF Loads, OperateOf
<1>6. ASSUME NEW r \in Requests, GoesOn(r)
      PROVE  OperateOf(q)'
  <2>1. OperateOf(r)
    BY DEF OperateInv, OperateOf
  <2>2. OperateOf(r)'
    BY <1>6, <2>1 DEF GoesOn, OperateOf
  <2> QED
    BY <1>1, <1>6, <2>2 DEF GoesOn
<1>7. ASSUME NEW r \in Requests, NEW m \in Messages, Receive(r, m)
      PROVE  OperateOf(q)'
  BY <1>1, <1>7, ReceiveDo DEF OperateOf
<1>8. ASSUME NEW r \in Requests, Load(r)
      PROVE  OperateOf(q)'
  <2>1. req[r].kind # "issue"
    BY <1>8, LoadDo DEF OperateInv
  <2> QED
    BY <1>1, <1>8, <2>1, LoadDo DEF OperateOf
<1>9. ASSUME NEW r \in Requests, LockForDispute(r)
      PROVE  OperateOf(q)'
  <2>1. OperateOf(r)' /\ Only(r) /\ orderLock = NoReq
    BY <1>9, OpeningDo DEF OperateOf
  <2> QED
    BY <1>1, <2>1
<1>10. ASSUME NEW r \in Requests, OpenIssue(r)
       PROVE  OperateOf(q)'
  <2>1. OperateOf(r)' /\ Only(r) /\ orderLock' = orderLock /\ order' = order
    BY <1>10, OpeningDo DEF OperateOf
  <2> QED
    BY <1>1, <2>1
<1>11. ASSUME NEW r \in Requests, CommitDispute(r)
       PROVE  OperateOf(q)'
  <2>1. orderLock = r /\ req[r].kind = "dispute"
    BY <1>11, CommitDisputeDo DEF OperateInv
  <2> QED
    BY <1>1, <1>11, <2>1, CommitDisputeDo DEF OperateOf
<1>12. ASSUME \/ \E m \in Messages : SellerSends(m)
              \/ OtherTransition \/ UNCHANGED vars
       PROVE  OperateOf(q)'
  BY <1>0, <1>12 DEF OperateOf, SellerSends, OtherTransition, vars
<1> QED
  BY <1>3, <1>4, <1>5, <1>6, <1>7, <1>8, <1>9, <1>10, <1>11, <1>12, StepSorted DEF Sorts

LEMMA OpensStep ==
    ASSUME BecknConstants, BecknInv, [Next]_vars
    PROVE  OpensInv'
<1> USE DEF BecknInv
<1>0. OpensInv
  OBVIOUS
\* Nobody opens a dispute but those who already did.
<1>1. ASSUME NEW r \in Requests, Only(r), Opens(r)' => Opens(r) /\ req'[r].d = req[r].d,
             Committed' = Committed
      PROVE  OpensInv'
  BY <1>0, <1>1 DEF OpensInv, Opens, Only
\* The row is inserted, and the request opens it no more.
<1>2. ASSUME NEW r \in Requests, Only(r), Opens(r), ~Opens(r)',
             Committed' = Committed \cup {req[r].d}
      PROVE  OpensInv'
  BY <1>0, <1>2 DEF OpensInv, Opens, Only
\* A number that nobody has is taken.
<1>3. ASSUME NEW r \in Requests, Only(r), req'[r].d \in DisputeIds \ Committed,
             \A q \in Requests : req[q].d # req'[r].d, Committed' = Committed
      PROVE  OpensInv'
  BY <1>0, <1>3 DEF OpensInv, Opens, Only
<1>4. UNCHANGED dispute => Committed' = Committed
  BY DEF Committed
<1>5. ASSUME NEW r \in Requests, Finish(r)
      PROVE  Only(r) /\ ~Opens(r)'
  BY <1>5, FinishDo, IdleType DEF Opens
<1>6. ASSUME NEW r \in Requests, Ends(r)
      PROVE  OpensInv'
  BY <1>1, <1>4, <1>5, <1>6 DEF Ends
<1>7. ASSUME NEW r \in Requests, Commit(r)
      PROVE  OpensInv'
  BY <1>1, <1>5, <1>7, CommittedStays DEF Commit
<1>8. ASSUME NEW r \in Requests, Loads(r) \/ GoesOn(r)
      PROVE  OpensInv'
  <2>1. Only(r) /\ (Opens(r)' => Opens(r) /\ req'[r].d = req[r].d)
    BY <1>8 DEF Opens, Loads, GoesOn
  <2> QED
    BY <1>1, <1>4, <1>8, <2>1 DEF Loads, GoesOn
<1>9. ASSUME NEW r \in Requests, NEW m \in Messages, Receive(r, m)
      PROVE  OpensInv'
  BY <1>1, <1>4, <1>9, ReceiveDo DEF Opens
<1>10. ASSUME NEW r \in Requests, Load(r)
       PROVE  OpensInv'
  <2>1. req[r].kind # "issue"
    BY <1>10, LoadDo DEF OperateInv
  <2>2. ~Opens(r)' /\ Only(r) /\ UNCHANGED dispute
    BY <1>10, <2>1, LoadDo DEF Opens
  <2> QED
    BY <1>1, <1>4, <2>2
<1>11. ASSUME NEW r \in Requests, LockForDispute(r) \/ OpenIssue(r)
       PROVE  OpensInv'
  BY <1>3, <1>4, <1>11, OpeningDo
<1>12. ASSUME NEW r \in Requests, CommitDispute(r)
       PROVE  OpensInv'
  <2>1. Committed' = Committed \cup {req[r].d}
    BY <1>12, CommitDisputeDo, OpenDisputeDo
  <2>2. Only(r) /\ Opens(r) /\ ~Opens(r)'
    BY <1>12, CommitDisputeDo DEF Opens, OperateInv
  <2> QED
    BY <1>2, <2>1, <2>2
<1>13. ASSUME NEW r \in Requests, CommitIssue(r)
       PROVE  OpensInv'
  <2>1. Opens(r) /\ req[r].d \in DisputeIds \ Committed
    BY <1>13 DEF CommitIssue, OpensInv, Opens
  <2>2. Committed' = Committed \cup {req[r].d}
    BY <1>13, <2>1, OpenDisputeDo DEF CommitIssue
  <2> QED
    BY <1>2, <1>5, <1>13, <2>1, <2>2 DEF CommitIssue
<1>14. ASSUME \/ \E m \in Messages : SellerSends(m)
              \/ OtherTransition \/ UNCHANGED vars
       PROVE  OpensInv'
  BY <1>0, <1>14 DEF OpensInv, Opens, Committed, SellerSends, OtherTransition, vars
<1> QED
  BY <1>6, <1>7, <1>8, <1>9, <1>10, <1>11, <1>12, <1>13, <1>14, StepSorted DEF Sorts

\* What was undone from outside stays recorded.
LEMMA UndoneStays ==
    ASSUME BecknConstants, BecknInv, [Next]_vars, "undone" \in outside
    PROVE  "undone" \in outside'
<1> USE DEF BecknInv
<1>1. ASSUME NEW r \in Requests, Commit(r)
      PROVE  UNCHANGED outside
  BY <1>1, EffectsDo DEF Commit
<1>2. ASSUME OtherTransition
      PROVE  "undone" \in outside'
  BY <1>2, OtherDo
<1>3. ASSUME NEW r \in Requests, Sorts(r), ~Commit(r)
      PROVE  UNCHANGED outside
  BY <1>3 DEF Sorts, Ends, Loads, GoesOn, Receive, Load, LockForDispute, OpenIssue,
              CommitDispute, CommitIssue
<1>4. ASSUME (\E m \in Messages : SellerSends(m)) \/ UNCHANGED vars
      PROVE  UNCHANGED outside
  BY <1>4 DEF SellerSends, vars
<1> QED
  BY <1>1, <1>2, <1>3, <1>4, StepSorted

\* Nothing leads out of a refund, neither a message nor a dispute, but the rest
\* of the BAP, and then it is recorded.
LEMMA RefundStays ==
    ASSUME BecknConstants, BecknInv, [Next]_vars, order.state = "REFUNDED"
    PROVE  order'.state = "REFUNDED" \/ "undone" \in outside'
<1> USE DEF BecknInv
<1>1. ~Accepts("REFUNDED", "DISPUTED")
  BY DEF Allowed, Accepts, OrderState
<1>2. ASSUME NEW r \in Requests, Commit(r)
      PROVE  order'.state = "REFUNDED"
  BY <1>2, EffectsDo DEF Commit
<1>3. ASSUME NEW r \in Requests, CommitDispute(r)
      PROVE  FALSE
  BY <1>1, <1>3 DEF CommitDispute, OperateInv
<1>4. ASSUME OtherTransition
      PROVE  "undone" \in outside'
  BY <1>4, OtherDo
<1>5. ASSUME NEW r \in Requests, Sorts(r), ~Commit(r), ~CommitDispute(r)
      PROVE  order'.state = order.state
  BY <1>5 DEF Sorts, Ends, Loads, GoesOn, Receive, Load, LockForDispute, OpenIssue,
              CommitIssue
<1>6. ASSUME (\E m \in Messages : SellerSends(m)) \/ UNCHANGED vars
      PROVE  UNCHANGED order
  BY <1>6 DEF SellerSends, vars
<1> QED
  BY <1>2, <1>3, <1>4, <1>5, <1>6, StepSorted

\* What a dispute is never changes, and a refund is recorded with the order's.
LEMMA DisputesDo ==
    ASSUME BecknConstants, BecknInv, [Next]_vars, NEW e \in DisputeIds
    PROVE  /\ e \in Committed => dispute'[e].issue = dispute[e].issue
           /\ dispute'[e].issue # dispute[e].issue =>
                 /\ dispute'[e].issue
                 /\ \E r \in Requests : req[r].kind = "issue" /\ req[r].d = e
                 /\ e \in Committed'
           /\ dispute'[e].resolution = "refunded" =>
                 \/ dispute[e].resolution = "refunded"
                 \/ order'.state = "REFUNDED" \/ "undone" \in outside
<1> USE DEF BecknInv
<1> DEFINE Goal == /\ e \in Committed => dispute'[e].issue = dispute[e].issue
                   /\ dispute'[e].issue # dispute[e].issue =>
                         /\ dispute'[e].issue
                         /\ \E r \in Requests : req[r].kind = "issue" /\ req[r].d = e
                         /\ e \in Committed'
                   /\ dispute'[e].resolution = "refunded" =>
                         \/ dispute[e].resolution = "refunded"
                         \/ order'.state = "REFUNDED" \/ "undone" \in outside
<1>1. ASSUME UNCHANGED dispute
      PROVE  Goal
  BY <1>1
<1>2. ASSUME NEW r \in Requests, Commit(r)
      PROVE  Goal
  BY <1>2, EffectsDo DEF Commit
<1>3. ASSUME NEW r \in Requests, NEW issue \in BOOLEAN, OpenDispute(req[r].d, issue),
             req[r].d \in DisputeIds \ Committed, issue => req[r].kind = "issue"
      PROVE  Goal
  <2>1. CASE e = req[r].d
    <3>1. /\ dispute'[e].issue = issue /\ dispute'[e].resolution = "none"
          /\ ~dispute[e].issue /\ e \notin Committed /\ e \in Committed'
      BY <1>3, <2>1, OpenDisputeDo
    <3>2. dispute[e].issue = FALSE
      BY <3>1 DEF TypeInv, DisputeRow
    <3>3. CASE issue = TRUE
      BY <1>3, <2>1, <3>1, <3>3
    <3>4. CASE issue = FALSE
      BY <3>1, <3>2, <3>4
    <3> QED
      BY <3>3, <3>4
  <2>2. CASE e # req[r].d
    BY <1>3, <2>2, OpenDisputeDo
  <2> QED
    BY <2>1, <2>2
<1>4. ASSUME NEW r \in Requests, CommitDispute(r)
      PROVE  Goal
  BY <1>3, <1>4, CommitDisputeDo
<1>5. ASSUME NEW r \in Requests, CommitIssue(r)
      PROVE  Goal
  BY <1>3, <1>5 DEF CommitIssue, OpensInv, Opens
<1>6. ASSUME NEW r \in Requests, Sorts(r), ~Commit(r), ~CommitDispute(r), ~CommitIssue(r)
      PROVE  UNCHANGED dispute
  BY <1>6 DEF Sorts, Ends, Loads, GoesOn, Receive, Load, LockForDispute, OpenIssue
<1>7. ASSUME \/ \E m \in Messages : SellerSends(m)
             \/ OtherTransition \/ UNCHANGED vars
      PROVE  UNCHANGED dispute
  BY <1>7 DEF SellerSends, OtherTransition, vars
<1>8. Goal
  <2> HIDE DEF Goal
  <2> QED
    BY <1>1, <1>2, <1>4, <1>5, <1>6, <1>7, StepSorted
<1> QED
  BY <1>8

LEMMA RefundStep ==
    ASSUME BecknConstants, BecknInv, [Next]_vars
    PROVE  RefundInv'
<1> USE DEF BecknInv
<1>1. ASSUME NEW e \in DisputeIds, dispute'[e].issue
      PROVE  e \in Committed'
  <2>1. CASE dispute[e].issue
    BY <2>1, CommittedGrows DEF RefundInv
  <2>2. CASE ~dispute[e].issue
    BY <1>1, <2>2, DisputesDo
  <2> QED
    BY <2>1, <2>2
<1>2. ASSUME NEW q \in Requests, req'[q].seen.order.state = "REFUNDED"
      PROVE  order'.state = "REFUNDED" \/ "undone" \in outside'
  <2>1. req'[q].seen.order.state \in {"PRE_AUTH", order.state, req[q].seen.order.state}
    <3>1. ASSUME NEW r \in Requests, Finish(r)
          PROVE  req'[q].seen.order.state \in {"PRE_AUTH", req[q].seen.order.state}
      BY <3>1, FinishDo, IdleType DEF Only
    <3>2. ASSUME NEW r \in Requests, Loads(r) \/ GoesOn(r)
          PROVE  req'[q].seen.order.state \in {"PRE_AUTH", order.state, req[q].seen.order.state}
      BY <3>2 DEF Loads, GoesOn, Only
    <3>3. ASSUME NEW r \in Requests, NEW m \in Messages, Receive(r, m)
          PROVE  req'[q].seen.order.state \in {order.state, req[q].seen.order.state}
      BY <3>3, ReceiveDo DEF Only
    <3>4. ASSUME NEW r \in Requests, Load(r)
          PROVE  req'[q].seen.order.state = req[q].seen.order.state
      BY <3>4, LoadDo DEF Only
    <3>5. ASSUME NEW r \in Requests, LockForDispute(r) \/ OpenIssue(r)
          PROVE  req'[q].seen.order.state \in {"PRE_AUTH", req[q].seen.order.state}
      BY <3>5, OpeningDo DEF Only
    <3>6. ASSUME NEW r \in Requests, CommitDispute(r)
          PROVE  req'[q].seen.order.state = req[q].seen.order.state
      BY <3>6, CommitDisputeDo DEF Only
    <3>7. ASSUME \/ \E m \in Messages : SellerSends(m)
                 \/ OtherTransition \/ UNCHANGED vars
          PROVE  UNCHANGED req
      BY <3>7 DEF SellerSends, OtherTransition, vars
    <3> QED
      BY <3>1, <3>2, <3>3, <3>4, <3>5, <3>6, <3>7, StepSorted
         DEF Sorts, Ends, Commit, CommitIssue
  <2>2. order.state = "REFUNDED" \/ "undone" \in outside
    BY <1>2, <2>1 DEF RefundInv
  <2> QED
    BY <2>2, RefundStays, UndoneStays
<1> QED
  BY <1>1, <1>2 DEF RefundInv

\* The record of a message and its effects are written together, once.
LEMMA AppliedStep ==
    ASSUME BecknConstants, BecknInv, [Next]_vars
    PROVE  AppliedOnce'
<1> USE DEF BecknInv
<1>0. /\ AppliedOnce /\ effects \in [Messages -> Nat] /\ log \subseteq Messages
      /\ acked \subseteq log
  BY DEF TypeInv
<1>1. ASSUME UNCHANGED <<log, effects>>, acked' \subseteq log
      PROVE  AppliedOnce'
  BY <1>0, <1>1 DEF AppliedOnce
<1>2. ASSUME NEW r \in Requests, Commit(r)
      PROVE  AppliedOnce'
  <2> DEFINE k == req[r].msg
  <2>1. k \in Messages /\ effects' = [effects EXCEPT ![k] = @ + 1]
    BY <1>2, EffectsDo DEF Commit
  <2>2. k \notin log /\ log' = log \cup {k} /\ acked' \subseteq acked \cup {k}
    BY <1>2 DEF Commit, Answer
  <2>3. effects[k] = 0
    BY <1>0, <2>1, <2>2 DEF AppliedOnce
  <2>4. effects'[k] = 1 /\ \A m \in Messages : m # k => effects'[m] = effects[m]
    BY <1>0, <2>1, <2>3
  <2> HIDE DEF k
  <2> QED
    BY <1>0, <2>1, <2>2, <2>4 DEF AppliedOnce
<1>3. ASSUME NEW r \in Requests, Ends(r)
      PROVE  AppliedOnce'
  <2>1. UNCHANGED effects /\ UNCHANGED log
    BY <1>3 DEF Ends
  <2>2. acked' \subseteq log
    BY <1>0, <1>3 DEF Ends
  <2> QED
    BY <1>1, <2>1, <2>2
<1>4. ASSUME NEW r \in Requests, Sorts(r), ~Commit(r), ~Ends(r)
      PROVE  UNCHANGED <<log, effects, acked>>
  BY <1>4 DEF Sorts, Loads, GoesOn, Receive, Load, LockForDispute, OpenIssue,
              CommitDispute, CommitIssue
<1>5. ASSUME \/ \E m \in Messages : SellerSends(m)
             \/ OtherTransition \/ UNCHANGED vars
      PROVE  UNCHANGED <<log, effects, acked>>
  BY <1>5 DEF SellerSends, OtherTransition, vars
<1>6. UNCHANGED <<log, effects, acked>> => AppliedOnce'
  BY <1>0, <1>1
<1> QED
  BY <1>2, <1>3, <1>4, <1>5, <1>6, StepSorted

\* Only the request that inserts a dispute and the carriers' events move the order
\* to DISPUTED.
LEMMA DisputedStep ==
    ASSUME BecknConstants, BecknInv, [Next]_vars
    PROVE  DisputedHasRow'
<1> USE DEF BecknInv
<1> SUFFICES ASSUME order'.state = "DISPUTED"
             PROVE  (\E d \in Committed' : ~dispute'[d].issue) \/ "disputed" \in outside'
  BY DEF DisputedHasRow
<1>1. ASSUME OtherTransition
      PROVE  "disputed" \in outside'
  BY <1>1, OtherDo
<1>2. ASSUME NEW r \in Requests, CommitDispute(r)
      PROVE  \E d \in Committed' : ~dispute'[d].issue
  BY <1>2, CommitDisputeDo, OpenDisputeDo
<1>3. ASSUME NEW r \in Requests, Commit(r)
      PROVE  order.state = "DISPUTED" /\ UNCHANGED outside
  BY <1>3, EffectsDo DEF Commit
<1>4. ASSUME NEW r \in Requests, Sorts(r), ~Commit(r), ~CommitDispute(r)
      PROVE  order.state = "DISPUTED" /\ UNCHANGED outside
  BY <1>4 DEF Sorts, Ends, Loads, GoesOn, Receive, Load, LockForDispute, OpenIssue,
              CommitIssue
<1>5. ASSUME (\E m \in Messages : SellerSends(m)) \/ UNCHANGED vars
      PROVE  order.state = "DISPUTED" /\ UNCHANGED outside
  BY <1>5 DEF SellerSends, vars
<1>6. ASSUME order.state = "DISPUTED", UNCHANGED outside, "disputed" \notin outside
      PROVE  \E d \in Committed' : ~dispute'[d].issue
  <2>1. PICK d \in Committed : ~dispute[d].issue
    BY <1>6 DEF DisputedHasRow
  <2>2. d \in DisputeIds /\ d \in Committed'
    BY CommittedGrows DEF Committed
  <2>3. ~dispute'[d].issue
    BY <2>1, <2>2, DisputesDo
  <2> QED
    BY <2>2, <2>3
<1> QED
  BY <1>1, <1>2, <1>3, <1>4, <1>5, <1>6, StepSorted

LEMMA RecordedStep ==
    ASSUME BecknConstants, BecknInv, [Next]_vars
    PROVE  RefundRecorded'
<1> USE DEF BecknInv
<1> SUFFICES ASSUME NEW d \in DisputeIds, dispute'[d].resolution = "refunded"
             PROVE  order'.state = "REFUNDED" \/ "undone" \in outside'
  BY DEF RefundRecorded
<1>1. \/ dispute[d].resolution = "refunded"
      \/ order'.state = "REFUNDED" \/ "undone" \in outside
  BY DisputesDo
<1> QED
  BY <1>1, RefundStays, UndoneStays DEF RefundRecorded

\* Without a crash, who tells the seller of an issue goes on until its row is
\* there.
LEMMA IssueStep ==
    ASSUME BecknConstants, BecknInv, [Next]_vars
    PROVE  IssueHasRow'
<1> USE DEF BecknInv
<1> SUFFICES ASSUME "crash" \notin Faults, NEW d \in DisputeIds, <<"issue", d>> \in heard'
             PROVE  \/ dispute'[d].issue
                    \/ \E r \in Requests : req'[r].kind = "issue" /\ req'[r].d = d
  BY DEF IssueHasRow
<1>1. <<"issue", d>> \in heard \/ \E r \in Requests : req[r].kind = "issue" /\ req[r].d = d
  <2>1. ASSUME NEW r \in Requests, GoesOn(r), <<"issue", d>> \notin heard
        PROVE  req[r].kind = "issue" /\ req[r].d = d
    <3>1. Said(r) = <<"issue", d>>
      BY <2>1 DEF GoesOn
    <3> QED
      BY <3>1 DEF Said, IssueMessage, RatingMessage, SettleMessage
  <2>2. ASSUME NEW r \in Requests, Sorts(r), ~GoesOn(r)
        PROVE  UNCHANGED heard
    BY <2>2 DEF Sorts, Ends, Loads, Receive, Load, Commit, Answer, LockForDispute, OpenIssue,
                CommitDispute, CommitIssue
  <2>3. ASSUME \/ \E m \in Messages : SellerSends(m)
               \/ OtherTransition \/ UNCHANGED vars
        PROVE  UNCHANGED heard
    BY <2>3 DEF SellerSends, OtherTransition, vars
  <2> QED
    BY <2>1, <2>2, <2>3, StepSorted
<1>2. CASE dispute[d].issue
  BY <1>2, DisputesDo DEF RefundInv
<1>3. ASSUME NEW q \in Requests, req[q].kind = "issue", req[q].d = d
      PROVE  dispute'[d].issue \/ (req'[q].kind = "issue" /\ req'[q].d = d)
  <2>1. ASSUME NEW r \in Requests, r # q, Sorts(r)
        PROVE  req'[q] = req[q]
    <3>1. Only(r)
      BY <2>1, FinishDo, ReceiveDo, LoadDo, OpeningDo, CommitDisputeDo
         DEF Sorts, Ends, Loads, GoesOn, Commit, CommitIssue
    <3> QED
      BY <2>1, <3>1 DEF Only
  <2>2. ASSUME CommitIssue(q)
        PROVE  dispute'[d].issue
    BY <1>3, <2>2, OpenDisputeDo DEF CommitIssue, OpensInv, Opens
  <2>3. ASSUME GoesOn(q)
        PROVE  req'[q].kind = "issue" /\ req'[q].d = d
    BY <1>3, <2>3 DEF GoesOn
  <2>4. ~Ends(q)
    BY <1>3 DEF Ends
  <2>5. req[q].pc \in {"sending", "logging", "told"}
    BY <1>3 DEF OperateInv
  <2>6. ~(\E m \in Messages : Receive(q, m)) /\ ~LockForDispute(q) /\ ~OpenIssue(q)
    BY <2>5 DEF Receive, LockForDispute, OpenIssue, Begin
  <2>7. ~Load(q) /\ ~Commit(q) /\ ~CommitDispute(q) /\ ~Loads(q)
    BY <2>5 DEF Load, Commit, CommitDispute, Loads
  <2>8. ASSUME \/ \E m \in Messages : SellerSends(m)
               \/ OtherTransition \/ UNCHANGED vars
        PROVE  UNCHANGED req
    BY <2>8 DEF SellerSends, OtherTransition, vars
  <2> QED
    BY <1>3, <2>1, <2>2, <2>3, <2>4, <2>6, <2>7, <2>8, StepSorted DEF Sorts
<1> QED
  BY <1>1, <1>2, <1>3 DEF IssueHasRow

-----------------------------------------------------------------------------
(* What holds in every state.                                              *)

LEMMA BecknInit ==
    ASSUME BecknConstants, Init
    PROVE  BecknInv
<1>1. Committed = {}
  BY DEF Init, Committed, NoDispute
<1>2. /\ order.state = "FULFILLING" /\ order \in OrderRow
      /\ NoDispute \in DisputeRow /\ NoRating \in RatingRow
  BY DEF Init, OrderRow, OrderState, Codes, NoDispute, NoRating, DisputeRow, RatingRow,
         Resolutions, Awbs
<1>3. TypeInv
  BY <1>2, IdleType DEF Init, TypeInv
<1>4. LocksInv
  BY DEF Init, LocksInv
<1>5. \A r \in Requests : /\ req[r] = Idle /\ req[r].pc = "idle" /\ req[r].kind = "none"
                          /\ req[r].msg = NoMsg /\ req[r].seen.order.state = "PRE_AUTH"
  BY IdleType DEF Init
<1>6. InboxInv /\ OperateInv /\ OpensInv
  BY <1>5 DEF InboxInv, OperateInv, OpensInv, Opens
<1>7. RefundInv /\ DisputedHasRow /\ RefundRecorded
  BY <1>2, <1>5 DEF Init, RefundInv, DisputedHasRow, RefundRecorded, NoDispute
<1>8. AppliedOnce
  BY DEF Init, AppliedOnce
<1>9. IssueHasRow
  BY DEF Init, IssueHasRow
<1> QED
  BY <1>3, <1>4, <1>6, <1>7, <1>8, <1>9 DEF BecknInv

\* Every reachable state of the inbox and of the requests of buyer and operator
\* satisfies the invariant: types, who holds which row, which copies may be old
\* and how, and the properties below.
THEOREM BecknInvariance == BecknConstants => (Spec => []BecknInv)
<1> SUFFICES ASSUME BecknConstants PROVE Spec => []BecknInv
  OBVIOUS
<1>1. Init => BecknInv
  BY BecknInit
<1>2. BecknInv /\ [Next]_vars => BecknInv'
  <2> SUFFICES ASSUME BecknInv, [Next]_vars PROVE BecknInv'
    OBVIOUS
  <2>1. TypeInv' /\ LocksInv' /\ InboxInv'
    BY TypeStep, LocksStep, InboxStep
  <2>2. OperateInv' /\ OpensInv' /\ RefundInv'
    BY OperateStep, OpensStep, RefundStep
  <2>3. AppliedOnce' /\ DisputedHasRow' /\ RefundRecorded' /\ IssueHasRow'
    BY AppliedStep, DisputedStep, RecordedStep, IssueStep
  <2> QED
    BY <2>1, <2>2, <2>3 DEF BecknInv
<1> QED
  BY <1>1, <1>2, PTL DEF Spec

\* The state has its type: only a request under way has a row locked, and one
\* has a message exactly while it handles it.
THEOREM TypeOKHolds == BecknConstants => (Spec => []TypeOK)
<1> SUFFICES ASSUME BecknConstants PROVE Spec => []TypeOK
  OBVIOUS
<1>1. BecknInv => TypeOK
  <2> SUFFICES ASSUME BecknInv PROVE TypeOK
    OBVIOUS
  <2>1. TypeInv /\ LocksInv /\ InboxInv
    BY DEF BecknInv
  <2>2. \A r \in Requests :
           /\ req[r].pc \in Steps /\ req[r].left \in 0..Tries /\ req[r].d \in 0..MaxDispute
           /\ req[r].pc \in {"authorized", "handling"} <=> req[r].msg # NoMsg
    BY <2>1 DEF TypeInv, Request, InboxInv
  <2>3. \A l \in {orderLock, ratingLock} : l # NoReq => l \in Requests /\ req[l].pc # "idle"
    BY <2>1 DEF TypeInv, LocksInv
  <2>4. order.state \in OrderState /\ order.ref \in {"none", "ours"}
    BY <2>1 DEF TypeInv, OrderRow
  <2> QED
    BY <2>1, <2>2, <2>3, <2>4 DEF TypeInv, DisputeRow, RatingRow, TypeOK
<1>2. Spec => []BecknInv
  BY BecknInvariance
<1> QED
  BY <1>1, <1>2, PTL

\* The unique message_id, checked when the effects commit, makes every message
\* take effect at most once, and no ACK goes out for one that took none, however
\* many copies are handled together and wherever a process dies.
THEOREM AppliedOnceHolds == BecknConstants => (Spec => []AppliedOnce)
<1> SUFFICES ASSUME BecknConstants PROVE Spec => []AppliedOnce
  OBVIOUS
<1>1. Spec => []BecknInv
  BY BecknInvariance
<1>2. BecknInv => AppliedOnce
  BY DEF BecknInv
<1> QED
  BY <1>1, <1>2, PTL

\* An order under dispute that no carrier's event disputed has the row of
\* open_dispute(): the row is inserted in the transaction that changes the state,
\* and no handler takes it away.
THEOREM DisputedHasRowHolds == BecknConstants => (Spec => []DisputedHasRow)
<1> SUFFICES ASSUME BecknConstants PROVE Spec => []DisputedHasRow
  OBVIOUS
<1>1. Spec => []BecknInv
  BY BecknInvariance
<1>2. BecknInv => DisputedHasRow
  BY DEF BecknInv
<1> QED
  BY <1>1, <1>2, PTL

\* A dispute resolved with a refund goes with a refunded order for ever, though
\* the handlers write only what differs from copies that may be old, unless the
\* rest of the BAP takes the order out of its refund.
THEOREM RefundRecordedHolds == BecknConstants => (Spec => []RefundRecorded)
<1> SUFFICES ASSUME BecknConstants PROVE Spec => []RefundRecorded
  OBVIOUS
<1>1. Spec => []BecknInv
  BY BecknInvariance
<1>2. BecknInv => RefundRecorded
  BY DEF BecknInv
<1> QED
  BY <1>1, <1>2, PTL

\* Unless a process dies, an issue that the seller was told about has its row or
\* a request that is still going to insert it.
THEOREM IssueHasRowHolds == BecknConstants => (Spec => []IssueHasRow)
<1> SUFFICES ASSUME BecknConstants PROVE Spec => []IssueHasRow
  OBVIOUS
<1>1. Spec => []BecknInv
  BY BecknInvariance
<1>2. BecknInv => IssueHasRow
  BY DEF BecknInv
<1> QED
  BY <1>1, <1>2, PTL
=============================================================================
