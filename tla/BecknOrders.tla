---------------------------- MODULE BecknOrders ----------------------------
(***************************************************************************)
(* What the BAP and the seller of one order tell each other over Beckn     *)
(* once the order is placed: the inbox that receives the seller's on_*     *)
(* messages, and the requests of buyer and operator that open a dispute or *)
(* an issue, rate the order or ask for its settlement.                     *)
(*                                                                         *)
(* A message is handled on copies of the rows it is about; only columns    *)
(* that differ from those copies are written, together with the record     *)
(* that makes the message handled.  The requests keep their transaction    *)
(* open while they tell the seller, and each attempt to tell it is logged  *)
(* over a second connection of a small pool.                               *)
(***************************************************************************)
EXTENDS OrderStates, Naturals, FiniteSets

CONSTANTS
    Requests,   \* requests that can be in flight together
    Messages,   \* the seller's messages
    Contents,   \* what they may say
    Kinds,      \* requests that buyer and operator make
    MaxDispute, \* bound: disputes that can be opened
    Ratings,    \* ratings a buyer may give
    Tries,      \* attempts to tell the seller, four in the code
    PoolSize,   \* connections to the database, three in the code
    Faults,     \* what may go wrong
    Others,     \* bound: states that the rest of the BAP sets the order to
    NoReq, NoMsg

FaultKinds == {"crash", "lost_answer"}

Actions == {"on_confirm", "on_status", "on_update", "on_settle", "on_rating", "on_issue"}

BecknConstants ==
    /\ MaxDispute \in Nat /\ PoolSize \in Nat \ {0} /\ Tries \in Nat \ {0}
    /\ Kinds \subseteq {"dispute", "issue", "rate", "settle"}
    /\ Faults \subseteq FaultKinds
    /\ Others \subseteq OrderState
    /\ \A c \in Contents : c.action \in Actions /\ c.about \in 0..MaxDispute
    /\ NoReq \notin Requests /\ NoMsg \notin Messages \cup Contents

VARIABLES
    order,      \* columns of the Order row that these handlers use
    dispute,    \* Dispute rows by the order of their created_at
    rating,     \* the OrderRating row
    outside,    \* history: what the rest of the BAP did to the order's state
    orderLock,  \* the request that locked or changed the Order row
    ratingLock, \* ... and the one that changed or inserted the OrderRating
    log,        \* BecknInboundLog: messages handled
    req,        \* requests in flight
    sent,       \* the seller: what it has sent
    acked,      \* the seller: messages answered with an ACK
    heard,      \* the seller: what the BAP told it
    effects     \* how often a message's effects were committed

rows   == <<order, dispute, rating, outside>>
locks  == <<orderLock, ratingLock>>
seller == <<sent, acked, heard>>
vars   == <<rows, locks, log, req, seller, effects>>

DisputeIds == 1..MaxDispute

DisputeStatus == {"open", "brand_responding", "ops_review", "resolved"}
Resolutions   == {"none", "denied", "refunded", "resolved"}

NoDispute == [status |-> "none", resolution |-> "none", issue |-> FALSE]

NoRating == [value |-> "none", acked |-> FALSE]

\* A request: what it does and has reached, its message or the dispute it
\* inserts, the copies it works on, and the attempts left to tell the seller.
Idle == [pc |-> "idle", kind |-> "none", msg |-> NoMsg, d |-> 0, new |-> NoRating,
         seen |-> [order |-> [state |-> "PRE_AUTH", ref |-> "none",
                              status |-> "none", awb |-> "none", settlement |-> "none"],
                   dispute |-> NoDispute, rating |-> NoRating],
         left |-> 0, answer |-> "none"]

Steps == {"idle", "authorized", "handling", "locked", "loaded", "sending",
          "logging", "told"}

TypeOK ==
    /\ order.state \in OrderState /\ order.ref \in {"none", "ours"}
    /\ dispute \in [DisputeIds -> [status : DisputeStatus \cup {"none"},
                                   resolution : Resolutions, issue : BOOLEAN]]
    /\ rating \in [value : Ratings \cup {"none"}, acked : BOOLEAN]
    /\ outside \subseteq {"disputed", "undone"}
    /\ \A l \in {orderLock, ratingLock} :
         l # NoReq => l \in Requests /\ req[l].pc # "idle"
    /\ log \subseteq Messages
    /\ \A r \in Requests :
         /\ req[r].pc \in Steps /\ req[r].left \in 0..Tries
         /\ req[r].d \in 0..MaxDispute
         /\ req[r].pc \in {"authorized", "handling"} <=> req[r].msg # NoMsg
    /\ sent \in [Messages -> Contents \cup {NoMsg}]
    /\ acked \subseteq log
    /\ effects \in [Messages -> Nat]

Init ==
    /\ order = [state |-> "FULFILLING", ref |-> "none", status |-> "none",
                awb |-> "none", settlement |-> "none"]
    /\ dispute = [d \in DisputeIds |-> NoDispute]
    /\ rating = NoRating /\ outside = {}
    /\ orderLock = NoReq /\ ratingLock = NoReq
    /\ log = {} /\ acked = {} /\ heard = {}
    /\ req = [r \in Requests |-> Idle]
    /\ sent = [m \in Messages |-> NoMsg]
    /\ effects = [m \in Messages |-> 0]
-----------------------------------------------------------------------------
(* Sessions.                                                               *)

\* Requests that hold a connection: all but a dispute that was committed.
Connected == {r \in Requests : req[r].pc # "idle"
                 /\ ~(req[r].kind = "dispute" /\ req[r].pc \in {"sending", "logging", "told"})}

FreeConnection == Cardinality(Connected) < PoolSize

Release_bug(r) ==  \* a rollback keeps the row locked
    /\ orderLock' = IF orderLock = r /\ req[r].kind = "dispute" THEN NoReq ELSE orderLock
    /\ ratingLock' = IF ratingLock = r THEN NoReq ELSE ratingLock

\* Commit and rollback unlock rows.
Release(r) ==
    /\ orderLock' = IF orderLock = r THEN NoReq ELSE orderLock
    /\ ratingLock' = IF ratingLock = r THEN NoReq ELSE ratingLock

\* The request ends; without a commit before it, all it did is rolled back.
Finish(r) ==
    /\ req' = [req EXCEPT ![r] = Idle]
    /\ Release(r)

\* A flush writes the columns that differ from the copy that was loaded.
Written(row, seen, new) ==
    [c \in DOMAIN row |-> IF new[c] = seen[c] THEN row[c] ELSE new[c]]

Begin(r, step) ==
    /\ req[r].pc = "idle"
    /\ FreeConnection
    /\ req' = [req EXCEPT ![r] = step]

Crash(r) ==
    /\ "crash" \in Faults
    /\ req[r].pc # "idle"
    /\ Finish(r)
    /\ UNCHANGED <<rows, log, seller, effects>>
-----------------------------------------------------------------------------
(* The inbox.                                                              *)

Committed == {d \in DisputeIds : dispute[d].status # "none"}

\* The newest dispute of the order, 0 without one.
Newest == CHOOSE d \in Committed \cup {0} : \A e \in Committed : e <= d

Row(d) == IF d = 0 THEN NoDispute ELSE dispute[d]

\* match_order_reference(): our id of the order, or the recorded one.
MatchesReference(m) == m.ref = "ours" \/ m.ref = order.ref

\* The subscriber whose signature _verify() found to hold is the one that the
\* order or the issue belongs to.
Verified(m) == m.signer = "seller"

\* authorize_resources(): another subscriber's message is refused, and so is
\* one about an order or issue that is not known by the reference it gives.
Authorized(m) ==
    /\ Verified(m)
    /\ CASE m.action = "on_issue"  -> m.about \in Committed /\ dispute[m.about].issue
                                      /\ MatchesReference(m)
         [] m.action = "on_rating" -> TRUE
         [] OTHER                  -> MatchesReference(m)

\* A refusal changes nothing and is no step.
Receive(r, m) ==
    /\ sent[m] # NoMsg
    /\ Authorized(sent[m])
    /\ Begin(r, [Idle EXCEPT !.pc = "authorized", !.kind = "inbox", !.msg = m,
                             !.d = sent[m].about,
                             !.seen.order = order, !.seen.dispute = Row(sent[m].about)])
    /\ UNCHANGED <<rows, locks, log, seller, effects>>

\* The ACK of message m reaches the seller, or not.
Answer(m) ==
    /\ \/ acked' = acked \cup {m}
       \/ "lost_answer" \in Faults /\ UNCHANGED acked
    /\ UNCHANGED <<sent, heard>>

\* _idempotent(): a message handled before is answered as it was then.
Repeated(r) ==
    /\ req[r].pc = "authorized" /\ req[r].msg \in log
    /\ Finish(r)
    /\ Answer(req[r].msg)
    /\ UNCHANGED <<rows, log, effects>>

\* The rows that the handler itself looks up.
Load(r) ==
    LET m == sent[req[r].msg]
        d == IF m.action = "on_update" THEN Newest ELSE req[r].d
    IN  /\ req[r].pc = "authorized" /\ req[r].msg \notin log
        /\ m.action = "on_rating" => rating # NoRating
        /\ req' = [req EXCEPT ![r].pc = "handling", ![r].d = d,
                              ![r].seen.dispute = IF m.action = "on_update" THEN Row(d) ELSE @,
                              ![r].seen.rating = rating]
        /\ UNCHANGED <<rows, locks, log, seller, effects>>

\* handle_on_rating() finds no rating: 404.
RatingNotFound(r) ==
    /\ req[r].pc = "authorized" /\ req[r].msg \notin log
    /\ sent[req[r].msg].action = "on_rating" /\ rating = NoRating
    /\ Finish(r)
    /\ UNCHANGED <<rows, log, seller, effects>>

(* The handlers: from the copies of the rows to what they become.          *)

OnConfirm(m, c) == [c EXCEPT !.order.ref = m.ref]

\* A message may tell the status, the parcel (its number and where to track it),
\* both, or neither.
OnStatus(m, c) == [c EXCEPT !.order.status = IF m.code = "none" THEN @ ELSE m.code,
                            !.order.awb = IF m.awb = "none" THEN @ ELSE m.awb]

Resolve(c, resolution) == [c EXCEPT !.dispute.status = "resolved",
                                    !.dispute.resolution = resolution]

Refund_bug(c) ==  \* "an order not in dispute is not refunded"
    IF c.order.state = "DISPUTED" THEN [c EXCEPT !.order.state = "REFUNDED"] ELSE c

\* Whatever the state was, without transition().
Refund(c) == [c EXCEPT !.order.state = "REFUNDED"]

\* Without a dispute only the refund itself has an effect.
OnUpdate(m, d, c) ==
    CASE m.code = "refund_settled"  -> Refund(IF d = 0 THEN c ELSE Resolve(c, "refunded"))
      [] m.code = "refund_approved" /\ d # 0 -> [c EXCEPT !.dispute.status = "brand_responding"]
      [] m.code = "refund_denied" /\ d # 0   -> Resolve(c, "denied")
      [] OTHER                      -> c

OnSettle(m, c) == [c EXCEPT !.order.settlement = m.code]

OnRating(m, c) == [c EXCEPT !.rating.acked = m.code = "yes"]

OnIssue(m, c) ==
    CASE m.code = "PROCESSING" -> [c EXCEPT !.dispute.status = "brand_responding"]
      [] m.code = "RESOLVED"   -> Resolve(c, "resolved")
      [] m.code = "REFUNDED"   -> Refund(Resolve(c, "resolved"))
      [] m.code = "REJECTED"   -> Resolve(c, "denied")
      [] OTHER                 -> c

Handled(m, d, c) ==
    CASE m.action = "on_confirm" -> OnConfirm(m, c)
      [] m.action = "on_status"  -> OnStatus(m, c)
      [] m.action = "on_update"  -> OnUpdate(m, d, c)
      [] m.action = "on_settle"  -> OnSettle(m, c)
      [] m.action = "on_rating"  -> OnRating(m, c)
      [] m.action = "on_issue"   -> OnIssue(m, c)

\* A changed row waits for the request that has it locked; the time of a status
\* always changes.
CanWrite(m, c, new) ==
    /\ m.action = "on_status" \/ c.order # new.order => orderLock = NoReq
    /\ c.rating # new.rating => ratingLock = NoReq

Effects(r) ==
    LET c   == req[r].seen
        d   == req[r].d
        new == Handled(sent[req[r].msg], d, c)
    IN  /\ CanWrite(sent[req[r].msg], c, new)
        /\ order' = Written(order, c.order, new.order)
        /\ dispute' = IF d = 0 THEN dispute
                      ELSE [dispute EXCEPT ![d] = Written(@, c.dispute, new.dispute)]
        /\ rating' = Written(rating, c.rating, new.rating)
        /\ effects' = [effects EXCEPT ![req[r].msg] = @ + 1]
        /\ UNCHANGED outside

Commit_bug(r) ==  \* message_id is not unique
    /\ req[r].pc = "handling"
    /\ Effects(r)
    /\ log' = log \cup {req[r].msg}
    /\ Answer(req[r].msg)
    /\ Finish(r)

\* Effects and the record of the message commit together.
Commit(r) ==
    /\ req[r].pc = "handling"
    /\ req[r].msg \notin log
    /\ Effects(r)
    /\ log' = log \cup {req[r].msg}
    /\ Answer(req[r].msg)
    /\ Finish(r)

\* message_id is unique: the second of two copies fails and is rolled back.
Conflict(r) ==
    /\ req[r].pc = "handling"
    /\ req[r].msg \in log
    /\ Finish(r)
    /\ UNCHANGED <<rows, log, seller, effects>>
-----------------------------------------------------------------------------
(* Buyer and operator.                                                     *)

\* An id that no committed, uncommitted or announced dispute has.
NextDispute ==
    CHOOSE d \in DisputeIds :
        /\ \A e \in Committed \cup {req[r].d : r \in Requests}
                       \cup {h[2] : h \in {k \in heard : k[1] = "issue"}} : d > e

DisputeLeft == \A e \in Committed \cup {req[r].d : r \in Requests}
                       \cup {h[2] : h \in {k \in heard : k[1] = "issue"}} : e < MaxDispute

OpenDispute(d, issue) ==
    dispute' = [dispute EXCEPT ![d] = [NoDispute EXCEPT !.status = "open", !.issue = issue]]

\* open_dispute(): lock the order and change its state.
LockForDispute(r) ==
    /\ "dispute" \in Kinds
    /\ orderLock = NoReq
    /\ Accepts(order.state, "DISPUTED")
    /\ DisputeLeft
    /\ Begin(r, [Idle EXCEPT !.pc = "locked", !.kind = "dispute", !.d = NextDispute])
    /\ orderLock' = r
    /\ UNCHANGED <<rows, ratingLock, log, seller, effects>>

\* The dispute and the state commit together, and only then is the seller told.
CommitDispute(r) ==
    /\ req[r].pc = "locked"
    /\ order' = [order EXCEPT !.state = "DISPUTED"]
    /\ OpenDispute(req[r].d, FALSE)
    /\ req' = [req EXCEPT ![r].pc = "sending", ![r].left = Tries]
    /\ Release(r)
    /\ UNCHANGED <<rating, outside, log, seller, effects>>

IssueEligible == {"ESCROW_HELD", "FULFILLING", "RECEIVED", "DISPUTED"}

\* open_issue(): read the order without a lock and flush a dispute.
OpenIssue(r) ==
    /\ "issue" \in Kinds
    /\ order.state \in IssueEligible
    /\ DisputeLeft
    /\ Begin(r, [Idle EXCEPT !.pc = "sending", !.kind = "issue", !.d = NextDispute,
                             !.left = Tries])
    /\ UNCHANGED <<rows, locks, log, seller, effects>>

CommitIssue(r) ==
    /\ req[r].pc = "told" /\ req[r].kind = "issue"
    /\ OpenDispute(req[r].d, TRUE)
    /\ Finish(r)
    /\ UNCHANGED <<order, rating, outside, log, seller, effects>>

RatingEligible == {"RECEIVED", "ESCROW_RELEASED", "REFUNDED", "DISPUTED"}

\* submit_rating(): look up the order's rating ...
LoadRating(r, v) ==
    /\ "rate" \in Kinds
    /\ order.state \in RatingEligible
    /\ Begin(r, [Idle EXCEPT !.pc = "loaded", !.kind = "rate", !.seen.rating = rating,
                             !.new.value = v])
    /\ UNCHANGED <<rows, locks, log, seller, effects>>

\* ... insert or change it, unacknowledged ...
FlushRating(r) ==
    /\ req[r].pc = "loaded" /\ req[r].kind = "rate"
    /\ ratingLock = NoReq
    /\ req[r].seen.rating = NoRating => rating = NoRating
    /\ ratingLock' = IF req[r].new = req[r].seen.rating THEN NoReq ELSE r
    /\ req' = [req EXCEPT ![r].pc = "sending", ![r].left = Tries]
    /\ UNCHANGED <<rows, orderLock, log, seller, effects>>

\* ... unless another request has inserted one: order_id is unique, 500.
RatingExists(r) ==
    /\ req[r].pc = "loaded" /\ req[r].kind = "rate"
    /\ req[r].seen.rating = NoRating /\ rating # NoRating
    /\ Finish(r)
    /\ UNCHANGED <<rows, log, seller, effects>>

CommitRating(r) ==
    /\ req[r].pc = "told" /\ req[r].kind = "rate"
    /\ rating' = Written(rating, req[r].seen.rating, req[r].new)
    /\ Finish(r)
    /\ UNCHANGED <<order, dispute, outside, log, seller, effects>>

\* request_settlement(), whatever the order's state: load the order ...
LoadSettlement(r) ==
    /\ "settle" \in Kinds
    /\ Begin(r, [Idle EXCEPT !.pc = "loaded", !.kind = "settle", !.seen.order = order])
    /\ UNCHANGED <<rows, locks, log, seller, effects>>

\* ... and flush it; a changed row stays locked until the seller was told.
FlushSettlement(r) ==
    /\ req[r].pc = "loaded" /\ req[r].kind = "settle"
    /\ \/ req[r].seen.order.settlement = "NOT_PAID" /\ UNCHANGED orderLock
       \/ /\ req[r].seen.order.settlement # "NOT_PAID"
          /\ orderLock = NoReq /\ orderLock' = r
    /\ req' = [req EXCEPT ![r].pc = "sending", ![r].left = Tries]
    /\ UNCHANGED <<rows, ratingLock, log, seller, effects>>

CommitSettlement(r) ==
    /\ req[r].pc = "told" /\ req[r].kind = "settle"
    /\ order' = Written(order, req[r].seen.order,
                        [req[r].seen.order EXCEPT !.settlement = "NOT_PAID"])
    /\ Finish(r)
    /\ UNCHANGED <<dispute, rating, outside, log, seller, effects>>

EndDispute(r) ==
    /\ req[r].pc = "told" /\ req[r].kind = "dispute"
    /\ Finish(r)
    /\ UNCHANGED <<rows, log, seller, effects>>
-----------------------------------------------------------------------------
(* send_beckn_request().                                                   *)

\* The messages: an issue names the dispute it is about.
IssueMessage(r)  == <<"issue", req[r].d>>
RatingMessage(r) == <<"rate", req[r].new.value>>
SettleMessage    == <<"settle", 0>>

\* What the seller learns of request r.
Said(r) ==
    CASE req[r].kind = "issue"  -> IssueMessage(r)
      [] req[r].kind = "rate"   -> RatingMessage(r)
      [] req[r].kind = "settle" -> SettleMessage
      [] OTHER                  -> <<"dispute", 0>>

\* One attempt: it is accepted, refused for good, or failed and then may have
\* been heard all the same.
Post(r) ==
    /\ req[r].pc = "sending"
    /\ \/ /\ heard' = heard \cup {Said(r)}
          /\ req' = [req EXCEPT ![r].pc = "logging", ![r].left = @ - 1, ![r].answer = "accepted"]
       \/ /\ UNCHANGED heard
          /\ req' = [req EXCEPT ![r].pc = "logging", ![r].left = @ - 1, ![r].answer = "refused"]
       \/ /\ heard' \in {heard, heard \cup {Said(r)}}
          /\ req' = [req EXCEPT ![r].pc = "logging", ![r].left = @ - 1, ![r].answer = "failed"]
    /\ UNCHANGED <<rows, locks, log, sent, acked, effects>>

\* The attempt is logged over a connection of its own; a failed one is
\* repeated while attempts are left.
LogAttempt(r) ==
    /\ req[r].pc = "logging"
    /\ FreeConnection
    /\ req' = [req EXCEPT ![r].answer = "none",
                          ![r].pc = IF req[r].answer = "failed" /\ req[r].left > 0
                                    THEN "sending" ELSE "told"]
    /\ UNCHANGED <<rows, locks, log, seller, effects>>

LogTimeout_bug(r) ==  \* a wait without a timeout
    /\ FALSE /\ UNCHANGED vars

LogTimeout_bug2(r) ==  \* the exception ends the request
    /\ req[r].pc = "logging"
    /\ ~FreeConnection
    /\ Finish(r)
    /\ UNCHANGED <<rows, log, seller, effects>>

\* No connection gets free in the pool's time: the exception ends the sending,
\* and the caller goes on as if the seller had been told.
LogTimeout(r) ==
    /\ req[r].pc = "logging"
    /\ ~FreeConnection
    /\ req' = [req EXCEPT ![r].pc = "told", ![r].answer = "none"]
    /\ UNCHANGED <<rows, locks, log, seller, effects>>
-----------------------------------------------------------------------------
(* Seller, and the rest of the BAP.                                        *)

\* The answers to what it has heard: an on_issue echoes the issue's id, and
\* "REFUNDED" is RESOLVED with an amount ...
IssueAnswer(c) ==
    <<"issue", c.about>> \in heard
        /\ c.code \in {"PROCESSING", "RESOLVED", "REFUNDED", "REJECTED"}

SettleAnswer(c) == SettleMessage \in heard /\ c.code \in {"NOT_PAID", "PAID"}

RatingAnswer(c) == (\E v \in Ratings : <<"rate", v>> \in heard) /\ c.code \in {"yes", "no"}

\* ... while a seller speaks of the order any time.
Knows(c) ==
    CASE c.action = "on_issue"  -> IssueAnswer(c)
      [] c.action = "on_settle" -> SettleAnswer(c)
      [] c.action = "on_rating" -> RatingAnswer(c)
      [] OTHER                  -> TRUE

SellerSends(m) ==
    /\ sent[m] = NoMsg
    /\ \E c \in Contents :
         /\ Knows(c)
         /\ sent' = [sent EXCEPT ![m] = c]
    /\ UNCHANGED <<rows, locks, log, req, acked, heard, effects>>

\* The other handlers: the carriers' events dispute an order without a Dispute,
\* and a release, a reader or a webhook that read the order before it was
\* changed writes where that copy leads to, over whatever the state is by then.
OtherTransition ==
    /\ orderLock = NoReq
    /\ \E s \in Others \ {order.state} :
         /\ order' = [order EXCEPT !.state = s]
         /\ outside' = (outside \ {"disputed"})
               \cup {x \in {"disputed"} : s = "DISPUTED"}
               \cup {x \in {"undone"} : order.state = "REFUNDED"}
    /\ UNCHANGED <<dispute, rating, locks, log, req, seller, effects>>
-----------------------------------------------------------------------------
Inbox(r) ==
    \/ \E m \in Messages : Receive(r, m)
    \/ Repeated(r) \/ Load(r) \/ RatingNotFound(r) \/ Commit(r) \/ Conflict(r)

Operate(r) ==
    \/ LockForDispute(r) \/ CommitDispute(r) \/ EndDispute(r)
    \/ OpenIssue(r) \/ CommitIssue(r)
    \/ \E v \in Ratings : LoadRating(r, v)
    \/ FlushRating(r) \/ RatingExists(r) \/ CommitRating(r)
    \/ LoadSettlement(r) \/ FlushSettlement(r) \/ CommitSettlement(r)

Tell(r) == Post(r) \/ LogAttempt(r) \/ LogTimeout(r)

Next ==
    \/ \E r \in Requests : Inbox(r) \/ Operate(r) \/ Tell(r) \/ Crash(r)
    \/ \E m \in Messages : SellerSends(m)
    \/ OtherTransition

Spec == Init /\ [][Next]_vars

\* A request under way goes on: its HTTP calls and waits for a connection end
\* after a timeout, and the database serves waits for a row in turn.
GoOn(r) ==
    \/ Repeated(r) \/ Load(r) \/ RatingNotFound(r) \/ Conflict(r)
    \/ CommitDispute(r) \/ EndDispute(r) \/ CommitIssue(r)
    \/ RatingExists(r) \/ CommitRating(r) \/ CommitSettlement(r)
    \/ Tell(r)

Waits(r) == Commit(r) \/ FlushRating(r) \/ FlushSettlement(r)

Fairness == \A r \in Requests : WF_vars(GoOn(r)) /\ SF_vars(Waits(r))

FairSpec == Spec /\ Fairness
-----------------------------------------------------------------------------
(* Properties.                                                             *)

\* A message takes effect at most once, however many copies of it are handled
\* together, and the seller has an ACK only of a message that took effect.
AppliedOnce ==
    \A m \in Messages :
        /\ effects[m] <= 1
        /\ m \in log <=> effects[m] = 1
        /\ m \in acked => effects[m] = 1

\* An order is under dispute only with a row that says what the dispute is,
\* unless a carrier's event disputed it.
DisputedHasRow ==
    order.state = "DISPUTED" =>
        (\E d \in Committed : ~dispute[d].issue) \/ "disputed" \in outside

\* A dispute that ended in a refund belongs to a refunded order, whatever the
\* handlers read before others committed: neither they nor the requests undo the
\* refund, which only the release, the readers and the webhooks outside do.
RefundRecorded ==
    (\E d \in DisputeIds : dispute[d].resolution = "refunded") =>
        order.state = "REFUNDED" \/ "undone" \in outside

\* "Failure here MUST NOT roll back the Dispute row": an issue the seller was
\* told about has its row, or the request that inserts it is still under way,
\* unless a process died.
IssueHasRow ==
    "crash" \notin Faults =>
        \A d \in DisputeIds :
            <<"issue", d>> \in heard =>
                \/ dispute[d].issue
                \/ \E r \in Requests : req[r].kind = "issue" /\ req[r].d = d

\* Every request ends (again and again it is idle), although requests hold
\* connections and rows while they wait for a further connection.
RequestsEnd == \A r \in Requests : []<>(req[r].pc = "idle")
-----------------------------------------------------------------------------
(* The inductive invariant behind the safety properties.                   *)

Codes == {"none", "NOT_PAID"} \cup {c.code : c \in Contents}

Awbs == {"none"} \cup {c.awb : c \in Contents}

OrderRow   == [state : OrderState, ref : {"none", "ours"}, status : Codes, awb : Awbs,
               settlement : Codes]
DisputeRow == [status : DisputeStatus \cup {"none"}, resolution : Resolutions, issue : BOOLEAN]
RatingRow  == [value : Ratings \cup {"none"}, acked : BOOLEAN]
Copy       == [order : OrderRow, dispute : DisputeRow, rating : RatingRow]

Request ==
    [pc : Steps, kind : {"none", "inbox", "dispute", "issue", "rate", "settle"},
     msg : Messages \cup {NoMsg}, d : 0..MaxDispute, new : RatingRow, seen : Copy,
     left : 0..Tries, answer : {"none", "accepted", "refused", "failed"}]

TypeInv ==
    /\ order \in OrderRow /\ dispute \in [DisputeIds -> DisputeRow] /\ rating \in RatingRow
    /\ outside \subseteq {"disputed", "undone"}
    /\ orderLock \in Requests \cup {NoReq} /\ ratingLock \in Requests \cup {NoReq}
    /\ req \in [Requests -> Request]
    /\ log \subseteq Messages
    /\ sent \in [Messages -> Contents \cup {NoMsg}]
    /\ acked \subseteq log
    /\ effects \in [Messages -> Nat]

\* Only a request under way has a row locked.
LocksInv ==
    \A l \in {orderLock, ratingLock} : l # NoReq => req[l].pc # "idle"

\* A message being handled was sent, by a reference that matched, about a
\* dispute that has its row.
InboxInv ==
    \A r \in Requests :
        /\ req[r].pc \in {"authorized", "handling"} <=> req[r].msg # NoMsg
        /\ req[r].msg # NoMsg =>
              /\ sent[req[r].msg] # NoMsg
              /\ sent[req[r].msg].action = "on_confirm" =>
                    sent[req[r].msg].ref \in {"ours", req[r].seen.order.ref}
              /\ sent[req[r].msg].action = "on_issue" => req[r].d \in Committed
              /\ sent[req[r].msg].action = "on_update" /\ req[r].pc = "handling" =>
                    req[r].d \in Committed \cup {0}

\* A request that opens a dispute has the order locked, in a state from which
\* it can be disputed; one that tells the seller has an attempt left.
OperateInv ==
    \A r \in Requests :
        /\ req[r].pc = "locked" =>
              req[r].kind = "dispute" /\ orderLock = r /\ Accepts(order.state, "DISPUTED")
        /\ req[r].pc = "sending" => req[r].left > 0
        /\ req[r].kind = "issue" => req[r].pc \in {"sending", "logging", "told"}

\* The dispute that a request is about to insert.
Opens(r) == req[r].kind = "issue" \/ req[r].pc = "locked"

\* Its id is nobody else's.
OpensInv ==
    /\ \A r \in Requests : Opens(r) => req[r].d \in DisputeIds \ Committed
    /\ \A r, q \in Requests : Opens(r) /\ Opens(q) /\ req[r].d = req[q].d => r = q

\* A refund that was read is still there or was undone from outside, and an issue
\* is a committed dispute.
RefundInv ==
    /\ \A r \in Requests :
         req[r].seen.order.state = "REFUNDED" =>
             order.state = "REFUNDED" \/ "undone" \in outside
    /\ \A d \in DisputeIds : dispute[d].issue => d \in Committed

BecknInv ==
    /\ TypeInv /\ LocksInv /\ InboxInv /\ OperateInv /\ OpensInv /\ RefundInv
    /\ AppliedOnce /\ DisputedHasRow /\ RefundRecorded /\ IssueHasRow
=============================================================================
