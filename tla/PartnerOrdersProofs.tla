------------------------ MODULE PartnerOrdersProofs ------------------------
(***************************************************************************)
(* Theorems about PartnerOrders, for every set of requests, orders,        *)
(* external ids and tasks and every choice of faults.                      *)
(***************************************************************************)
EXTENDS PartnerOrders, TLAPS

USE PartnerConstants DEF rows, money, Rails, Events, PartnerOrderStatus
-----------------------------------------------------------------------------
(* Facts about the building blocks.                                        *)

LEMMA IdleType == Idle \in Request
  BY DEF Idle, Request, Stages

\* What TypeOK says of the requests.
ReqType ==
    /\ req \in [Requests -> Request]
    /\ \A r \in Requests :
         /\ req[r].pc = "checked" => req[r].id \in ExternalIds
         /\ req[r].pc \in {"inserted", "minted", "resolved", "loaded"}
              => req[r].order \in Orders

\* Ending a request, moving it on and loading an order keep its type.
LEMMA FinishType ==
  ASSUME TypeOK, NEW r \in Requests, Finish(r)
  PROVE  ReqType'
  BY IdleType DEF ReqType, Finish, TypeOK, Idle

LEMMA MoveType ==
  ASSUME TypeOK, NEW r \in Requests, req[r].order \in Orders,
         NEW pc \in {"minted", "loaded"}, NEW event \in Events,
         req' = [req EXCEPT ![r].pc = pc, ![r].event = event]
  PROVE  ReqType'
<1> DEFINE next == [req[r] EXCEPT !.pc = pc, !.event = event]
<1>1. req[r] \in Request /\ pc \in Stages
  BY DEF TypeOK, Stages
<1>2. next \in Request /\ next.pc = pc /\ next.order = req[r].order
  BY <1>1 DEF Request
<1>3. req' = [req EXCEPT ![r] = next]
  OBVIOUS
<1> HIDE DEF next
<1> QED
  BY <1>2, <1>3 DEF ReqType, TypeOK

LEMMA LoadType ==
  ASSUME TypeOK, NEW r \in Requests, NEW o \in Orders,
         NEW pc \in {"resolved", "loaded"}, NEW event \in Events,
         Load(r, o, pc, event)
  PROVE  ReqType'
<1>1. [pc |-> pc, id |-> NoId, order |-> o, event |-> event, seen |-> status[o]]
        \in Request
  BY DEF Load, TypeOK, Request, Stages
<1> QED
  BY <1>1 DEF ReqType, Load, TypeOK

\* What a request knows of its order and its event.
LEMMA LoadedType ==
  ASSUME TypeOK, NEW r \in Requests, req[r].pc \in {"resolved", "loaded"}
  PROVE  /\ req[r].order \in Orders /\ req[r].event \in Events
         /\ req[r].seen \in PartnerOrderStatus
  BY DEF TypeOK, Request

\* A row is written only for its event and only through a pending copy.
LEMMA MarkWrites ==
  ASSUME TypeOK, NEW r \in Requests, req[r].pc = "loaded", Mark(r)
  PROVE  /\ status' \in [Orders -> PartnerOrderStatus \cup {"none"}]
         /\ \A o \in Orders : o # req[r].order => status'[o] = status[o]
         /\ status'[req[r].order] =
              IF req[r].seen = "pending" THEN req[r].event ELSE status[req[r].order]
  BY LoadedType DEF Mark, TypeOK

\* A task is started for the order with all its attempts.
LEMMA NotifyStarts ==
  ASSUME TypeOK, NEW o \in Orders, Notify(o)
  PROVE  /\ chain' \in [Chains -> [order : Orders \cup {NoOrder}, left : 0..Retries]]
         /\ \A c \in Chains : chain'[c] = chain[c] \/ chain'[c].order = o
  BY DEF Notify, TypeOK, Retries

\* An attempt tells the partner of the task's order or nothing, and leaves
\* the task with its order or ends it.
LEMMA AttemptKeeps ==
  ASSUME TypeOK, NEW c \in Chains, ChainAttempt(c) \/ ChainDies(c)
  PROVE  /\ chain' \in [Chains -> [order : Orders \cup {NoOrder}, left : 0..Retries]]
         /\ \A d \in Chains : chain'[d].left > 0 =>
              chain[d].left > 0 /\ chain'[d].order = chain[d].order
         /\ chain[c].left > 0 /\ told' \in {told, told \cup {chain[c].order}}
         /\ UNCHANGED <<rows, req, money, acked, faults>>
<1> DEFINE Task == [order : Orders \cup {NoOrder}, left : 0..Retries]
<1>1. chain[c] \in Task /\ chain[c].left > 0
  BY DEF TypeOK, ChainAttempt, ChainDies
<1>2. PICK next \in {NoTask, Failed(chain[c])} : chain' = [chain EXCEPT ![c] = next]
  BY DEF ChainAttempt, ChainDies
<1>3. next \in Task /\ (next.left > 0 => next.order = chain[c].order)
  BY <1>1 DEF Failed, NoTask, Retries
<1>4. told' \in {told, told \cup {chain[c].order}}
      /\ UNCHANGED <<rows, req, money, acked, faults>>
  BY DEF ChainAttempt, ChainDies
<1> QED
  BY <1>1, <1>2, <1>3, <1>4 DEF TypeOK
-----------------------------------------------------------------------------
\* The initial state is of the declared types.
LEMMA TypeInit == Init => TypeOK
<1> SUFFICES ASSUME Init PROVE TypeOK
  OBVIOUS
<1>1. req \in [Requests -> Request] /\ \A r \in Requests : req[r].pc = "idle"
  BY IdleType DEF Init, Idle
<1>2. /\ chain \in [Chains -> [order : Orders \cup {NoOrder}, left : 0..Retries]]
      /\ \A c \in Chains : chain[c].left = 0
  BY DEF Init, NoTask, Retries
<1> QED
  BY <1>1, <1>2 DEF Init, TypeOK

\* No step leaves the declared types.
LEMMA TypeStep == TypeOK /\ [Next]_vars => TypeOK'
<1> SUFFICES ASSUME TypeOK, [Next]_vars PROVE TypeOK'
  OBVIOUS
<1>1. ASSUME NEW r \in Requests, Step(r) PROVE TypeOK'
  <2>1. ASSUME NEW id \in ExternalIds, RegisterCheck(r, id) PROVE TypeOK'
    <3>1. [Idle EXCEPT !.pc = "checked", !.id = id] \in Request
      BY DEF Idle, Request, Stages
    <3>2. ReqType'
      BY <2>1, <3>1 DEF RegisterCheck, ReqType, TypeOK, Idle
    <3> QED
      BY <2>1, <3>2 DEF RegisterCheck, ReqType, TypeOK
  <2>2. CASE RegisterInsert(r)
    <3>1. PICK o \in Orders :
            /\ ext' = [ext EXCEPT ![o] = req[r].id]
            /\ req' = [req EXCEPT ![r].pc = "inserted", ![r].order = o]
      BY <2>2 DEF RegisterInsert
    <3> DEFINE next == [req[r] EXCEPT !.pc = "inserted", !.order = o]
    <3>2. req[r] \in Request /\ req[r].id \in ExternalIds
      BY <2>2 DEF RegisterInsert, TypeOK
    <3>3. next \in Request /\ next.pc = "inserted" /\ next.order = o
      BY <3>2 DEF Request, Stages
    <3>4. req' = [req EXCEPT ![r] = next]
      BY <3>1
    <3> HIDE DEF next
    <3>5. ReqType'
      BY <3>3, <3>4 DEF ReqType, TypeOK
    <3> QED
      BY <2>2, <3>1, <3>2, <3>5 DEF RegisterInsert, ReqType, TypeOK
  <2>3. CASE RegisterConflict(r)
    BY <2>3, FinishType DEF RegisterConflict, ReqType, TypeOK
  <2>4. CASE Mint(r)
    <3> DEFINE next == [req[r] EXCEPT !.pc = "minted"]
    <3>1. req[r] \in Request /\ req[r].order \in Orders
      BY <2>4 DEF Mint, TypeOK
    <3>2. next \in Request /\ next.pc = "minted" /\ next.order = req[r].order
      BY <3>1 DEF Request, Stages
    <3>3. req' = [req EXCEPT ![r] = next]
      BY <2>4 DEF Mint
    <3> HIDE DEF next
    <3>4. ReqType'
      BY <3>1, <3>2, <3>3 DEF ReqType, TypeOK
    <3> QED
      BY <2>4, <3>4 DEF Mint, ReqType, TypeOK
  <2>5. CASE MintUnheard(r)
    BY <2>5, FinishType DEF MintUnheard, Rollback, ReqType, TypeOK
  <2>6. CASE MintRefused(r)
    BY <2>6, FinishType DEF MintRefused, Rollback, ReqType, TypeOK
  <2>7. CASE RegisterCommit(r)
    BY <2>7, FinishType DEF RegisterCommit, ReqType, TypeOK
  <2>8. ASSUME NEW o \in Orders, NEW event \in Events, XenditCallback(r, o, event)
        PROVE  TypeOK'
    BY <2>8, LoadType DEF XenditCallback, Load, ReqType, TypeOK
  <2>9. ASSUME NEW o \in Orders, DipayCallback(r, o) PROVE TypeOK'
    BY <2>9, LoadType DEF DipayCallback, Load, ReqType, TypeOK
  <2>10. CASE DipayQuery(r)
    <3>1. req[r].order \in Orders
      BY <2>10, LoadedType DEF DipayQuery
    <3>2. ReqType'
      BY <2>10, <3>1, FinishType, MoveType DEF DipayQuery
    <3> QED
      BY <2>10, <3>2 DEF DipayQuery, ReqType, TypeOK
  <2>11. CASE DipayQueryFails(r)
    BY <2>11, FinishType DEF DipayQueryFails, ReqType, TypeOK
  <2>12. CASE PaidWrite(r)
    <3>1. /\ req[r].order \in Orders
          /\ status' \in [Orders -> PartnerOrderStatus \cup {"none"}]
      BY <2>12, LoadedType, MarkWrites DEF PaidWrite
    <3>2. /\ chain' \in [Chains -> [order : Orders \cup {NoOrder}, left : 0..Retries]]
          /\ \A c \in Chains : chain'[c].left > 0 => chain'[c].order \in Orders
      BY <2>12, <3>1, NotifyStarts DEF PaidWrite, TypeOK
    <3> QED
      BY <2>12, <3>1, <3>2, FinishType DEF PaidWrite, Acknowledge, ReqType, TypeOK
  <2>13. CASE PaidWriteDies(r)
    BY <2>13, FinishType, MarkWrites DEF PaidWriteDies, ReqType, TypeOK
  <2>14. CASE ExpiredWrite(r)
    <3>1. /\ req[r].order \in Orders
          /\ status' \in [Orders -> PartnerOrderStatus \cup {"none"}]
      BY <2>14, LoadedType, MarkWrites DEF ExpiredWrite
    <3> QED
      BY <2>14, <3>1, FinishType DEF ExpiredWrite, Acknowledge, ReqType, TypeOK
  <2>15. CASE Crash(r)
    BY <2>15, FinishType DEF Crash, Rollback, ReqType, TypeOK
  <2> QED
    BY <1>1, <2>1, <2>2, <2>3, <2>4, <2>5, <2>6, <2>7, <2>8, <2>9, <2>10, <2>11,
       <2>12, <2>13, <2>14, <2>15 DEF Step
<1>2. ASSUME NEW c \in Chains, ChainAttempt(c) \/ ChainDies(c) PROVE TypeOK'
  <2>1. /\ chain' \in [Chains -> [order : Orders \cup {NoOrder}, left : 0..Retries]]
        /\ \A d \in Chains : chain'[d].left > 0 => chain'[d].order \in Orders
        /\ told' \subseteq Orders
    BY <1>2, AttemptKeeps DEF TypeOK
  <2>2. UNCHANGED <<rows, req, invoice, rail, url, acked, faults>>
    BY <1>2, AttemptKeeps
  <2> QED
    BY <2>1, <2>2 DEF TypeOK
<1>3. ASSUME NEW o \in Orders, XenditExpiryUnmatched(o) PROVE TypeOK'
  BY <1>3 DEF XenditExpiryUnmatched, TypeOK
<1>4. ASSUME NEW o \in Orders, Pay(o) PROVE TypeOK'
  BY <1>4 DEF Pay, TypeOK
<1>5. ASSUME NEW o \in Orders, InvoiceExpires(o) PROVE TypeOK'
  BY <1>5 DEF InvoiceExpires, TypeOK
<1>6. CASE UNCHANGED vars
  BY <1>6 DEF vars, TypeOK
<1> QED
  BY <1>1, <1>2, <1>3, <1>4, <1>5, <1>6 DEF Next

\* Rows, requests, tasks, invoices and answers keep their declared types, for
\* any number of each and any faults.
THEOREM TypeCorrect == Spec => []TypeOK
  BY TypeInit, TypeStep, PTL DEF Spec
-----------------------------------------------------------------------------
(* The parts of PartnerInv, each kept by every step.                       *)

\* The stages of the requests that hold an uncommitted row.
Holds(r) == req[r].pc \in {"inserted", "minted"}

\* Most steps of a request touch neither rows nor invoices and end with it
\* holding none.
LEMMA InsertKept ==
  ASSUME TypeOK, InsertInv, NEW r \in Requests, UNCHANGED <<status, ext, invoice>>,
         NEW next, req' = [req EXCEPT ![r] = next],
         next.pc \notin {"inserted", "minted"},
         next.pc \in {"resolved", "loaded"} => status[next.order] # "none"
  PROVE  InsertInv'
  BY DEF InsertInv, TypeOK

\* A committed row stays committed, an uncommitted one that is being inserted
\* is its request's alone, and its invoice is minted by that request.
LEMMA InsertStep == TypeOK /\ InsertInv /\ [Next]_vars => InsertInv'
<1> SUFFICES ASSUME TypeOK, InsertInv, [Next]_vars PROVE InsertInv'
  OBVIOUS
<1>1. ASSUME NEW r \in Requests, Step(r) PROVE InsertInv'
  <2>0. Idle.pc = "idle"
    BY DEF Idle
  <2>1. ASSUME NEW id \in ExternalIds, RegisterCheck(r, id) PROVE InsertInv'
    BY <2>1, InsertKept DEF RegisterCheck, Idle
  <2>2. CASE RegisterInsert(r)
    <3>1. PICK o \in Orders :
            /\ ext[o] = NoId /\ invoice[o] = "none"
            /\ ext' = [ext EXCEPT ![o] = req[r].id]
            /\ req' = [req EXCEPT ![r].pc = "inserted", ![r].order = o]
      BY <2>2 DEF RegisterInsert
    <3>2. /\ req[r].pc = "checked" /\ req[r].id \in ExternalIds
          /\ UNCHANGED <<status, invoice>>
      BY <2>2 DEF RegisterInsert, TypeOK
    <3>3. /\ req'[r].pc = "inserted" /\ req'[r].order = o
          /\ \A q \in Requests \ {r} : req'[q] = req[q]
      <4> DEFINE next == [req[r] EXCEPT !.pc = "inserted", !.order = o]
      <4>1. next.pc = "inserted" /\ next.order = o
        BY DEF TypeOK, Request
      <4>2. req' = [req EXCEPT ![r] = next]
        BY <3>1
      <4> HIDE DEF next
      <4> QED
        BY <4>1, <4>2 DEF TypeOK
    <3>4. \A p \in Orders : ext'[p] = ext[p] \/ ext'[p] # NoId
      BY <3>1, <3>2 DEF TypeOK
    <3>5. \A q \in Requests : Holds(q) => req[q].order \in Orders /\ req[q].order # o
      BY <3>1 DEF Holds, InsertInv, TypeOK
    <3>6. status[o] = "none" /\ ext'[o] # NoId
      BY <3>1, <3>2 DEF InsertInv, TypeOK
    <3>7. \A p \in Orders : ext[p] # NoId => ext'[p] # NoId
      BY <3>1, <3>4
    <3>8. ASSUME NEW q \in Requests, Holds(q)'
          PROVE  /\ status[req'[q].order] = "none" /\ ext'[req'[q].order] # NoId
                 /\ req'[q].pc = "inserted" => invoice[req'[q].order] = "none"
                 /\ \A s \in Requests \ {q} :
                      req'[s].pc \in {"inserted", "minted"}
                        => req'[s].order # req'[q].order
      <4>1. CASE q = r
        BY <3>1, <3>3, <3>5, <3>6, <4>1 DEF Holds
      <4>2. CASE q # r
        <5>1. req'[q] = req[q] /\ Holds(q)
          BY <3>3, <3>8, <4>2 DEF Holds
        <5> QED
          BY <3>3, <3>5, <3>7, <4>2, <5>1 DEF InsertInv, Holds
      <4> QED
        BY <4>1, <4>2
    <3>9. ASSUME NEW q \in Requests, req'[q].pc \in {"resolved", "loaded"}
          PROVE  status[req'[q].order] # "none"
      BY <3>3, <3>9 DEF InsertInv
    <3> QED
      BY <3>2, <3>4, <3>8, <3>9 DEF InsertInv, Holds
  <2>3. CASE RegisterConflict(r)
    BY <2>0, <2>3, InsertKept DEF RegisterConflict, Finish
  <2>4. CASE Mint(r)
    BY <2>4 DEF Mint, InsertInv, TypeOK, Request
  <2>5. ASSUME Holds(r), Rollback(r), UNCHANGED status,
               \A o \in Orders : o # req[r].order => invoice'[o] = invoice[o]
        PROVE  InsertInv'
    BY <2>0, <2>5 DEF Holds, Rollback, Finish, InsertInv, TypeOK
  <2>6. CASE MintUnheard(r)
    BY <2>5, <2>6 DEF MintUnheard, Holds, TypeOK
  <2>7. CASE MintRefused(r)
    BY <2>5, <2>7 DEF MintRefused, Holds
  <2>8. CASE RegisterCommit(r)
    BY <2>0, <2>8 DEF RegisterCommit, Finish, InsertInv, TypeOK
  <2>9. ASSUME NEW o \in Orders, NEW event \in Events, XenditCallback(r, o, event)
        PROVE  InsertInv'
    BY <2>9, InsertKept DEF XenditCallback, Load
  <2>10. ASSUME NEW o \in Orders, DipayCallback(r, o) PROVE InsertInv'
    BY <2>10, InsertKept DEF DipayCallback, Load
  <2>11. CASE DipayQuery(r)
    BY <2>0, <2>11 DEF DipayQuery, Finish, InsertInv, TypeOK, Request
  <2>12. CASE DipayQueryFails(r)
    BY <2>0, <2>12, InsertKept DEF DipayQueryFails, Finish
  <2>13. ASSUME req[r].pc = "loaded", Mark(r), Finish(r), UNCHANGED <<ext, invoice>>
         PROVE  InsertInv'
    <3>1. \A o \in Orders : (status'[o] = "none") = (status[o] = "none")
      BY <2>13, MarkWrites, LoadedType DEF InsertInv
    <3> QED
      BY <2>0, <2>13, <3>1 DEF Finish, InsertInv, TypeOK
  <2>14. CASE PaidWrite(r) \/ PaidWriteDies(r) \/ ExpiredWrite(r)
    BY <2>13, <2>14 DEF PaidWrite, PaidWriteDies, ExpiredWrite
  <2>15. CASE Crash(r)
    <3>1. CASE Holds(r)
      BY <2>5, <2>15, <3>1 DEF Crash, Holds
    <3>2. CASE ~Holds(r)
      BY <2>0, <2>15, <3>2, InsertKept DEF Crash, Holds, Finish
    <3> QED
      BY <3>1, <3>2
  <2> QED
    BY <1>1, <2>1, <2>2, <2>3, <2>4, <2>6, <2>7, <2>8, <2>9, <2>10, <2>11,
       <2>12, <2>14, <2>15 DEF Step
<1>2. ASSUME NEW c \in Chains, ChainAttempt(c) \/ ChainDies(c) PROVE InsertInv'
  BY <1>2, AttemptKeeps DEF InsertInv
<1>3. ASSUME NEW o \in Orders, XenditExpiryUnmatched(o) PROVE InsertInv'
  BY <1>3 DEF XenditExpiryUnmatched, InsertInv
<1>4. ASSUME NEW o \in Orders, Pay(o) \/ InvoiceExpires(o) PROVE InsertInv'
  BY <1>4 DEF Pay, InvoiceExpires, InsertInv, TypeOK
<1>5. CASE UNCHANGED vars
  BY <1>5 DEF vars, InsertInv
<1> QED
  BY <1>1, <1>2, <1>3, <1>4, <1>5 DEF Next

\* With the index no two rows, committed or not, have one external id.
LEMMA IndexStep == TypeOK /\ IndexInv /\ [Next]_vars => IndexInv'
<1> SUFFICES ASSUME TypeOK, IndexInv, [Next]_vars, UniqueIndex PROVE IndexInv'
  BY DEF IndexInv
<1>1. ASSUME ext' = ext PROVE IndexInv'
  BY <1>1 DEF IndexInv
<1>2. ASSUME NEW r \in Requests, Rollback(r) PROVE IndexInv'
  BY <1>2 DEF Rollback, IndexInv, TypeOK
<1>3. ASSUME NEW r \in Requests, Step(r) PROVE IndexInv'
  <2>1. CASE RegisterInsert(r)
    BY <2>1 DEF RegisterInsert, IndexEntry, IndexInv, TypeOK
  <2>2. CASE MintUnheard(r) \/ MintRefused(r)
    BY <1>2, <2>2 DEF MintUnheard, MintRefused
  <2>3. CASE Crash(r)
    BY <1>1, <1>2, <2>3 DEF Crash
  <2>4. ASSUME ~RegisterInsert(r), ~MintUnheard(r), ~MintRefused(r), ~Crash(r)
        PROVE  ext' = ext
    BY <1>3, <2>4 DEF Step, RegisterCheck, RegisterConflict, Mint, RegisterCommit,
       XenditCallback, DipayCallback, Load, DipayQuery, DipayQueryFails, PaidWrite,
       PaidWriteDies, ExpiredWrite
  <2> QED
    BY <1>1, <2>1, <2>2, <2>3, <2>4
<1>4. ASSUME NEW c \in Chains, ChainAttempt(c) \/ ChainDies(c) PROVE ext' = ext
  BY <1>4, AttemptKeeps
<1>5. ASSUME NEW o \in Orders, XenditExpiryUnmatched(o) \/ Pay(o) \/ InvoiceExpires(o)
      PROVE  ext' = ext
  BY <1>5 DEF XenditExpiryUnmatched, Pay, InvoiceExpires
<1>6. CASE UNCHANGED vars
  BY <1>1, <1>6 DEF vars
<1> QED
  BY <1>1, <1>3, <1>4, <1>5, <1>6 DEF Next

\* What the provider received it keeps: an invoice is minted for an order
\* nobody has paid.
LEMMA PaidStays ==
  TypeOK /\ InsertInv /\ [Next]_vars => \A o \in Orders : Paid(o) => Paid(o)'
<1> SUFFICES ASSUME TypeOK, InsertInv, [Next]_vars, NEW o \in Orders, Paid(o)
             PROVE  Paid(o)'
  OBVIOUS
<1>1. ASSUME invoice' = invoice PROVE Paid(o)'
  BY <1>1 DEF Paid
<1>2. ASSUME NEW r \in Requests, Step(r) PROVE Paid(o)'
  <2>1. CASE Mint(r) \/ MintUnheard(r)
    BY <2>1 DEF Mint, MintUnheard, InsertInv, Paid, TypeOK
  <2>2. ASSUME ~Mint(r), ~MintUnheard(r) PROVE invoice' = invoice
    BY <1>2, <2>2 DEF Step, RegisterCheck, RegisterInsert, RegisterConflict, MintRefused,
       RegisterCommit, XenditCallback, DipayCallback, Load, DipayQuery,
       DipayQueryFails, PaidWrite, PaidWriteDies, ExpiredWrite, Crash
  <2> QED
    BY <1>1, <2>1, <2>2
<1>3. ASSUME NEW c \in Chains, ChainAttempt(c) \/ ChainDies(c) PROVE invoice' = invoice
  BY <1>3, AttemptKeeps
<1>4. ASSUME NEW p \in Orders, XenditExpiryUnmatched(p) \/ Pay(p) \/ InvoiceExpires(p)
      PROVE  Paid(o)'
  BY <1>4 DEF XenditExpiryUnmatched, Pay, InvoiceExpires, Paid, TypeOK
<1>5. CASE UNCHANGED vars
  BY <1>1, <1>5 DEF vars
<1> QED
  BY <1>1, <1>2, <1>3, <1>4, <1>5 DEF Next

\* The request of a step becomes one that knows of a payment only when the
\* provider has reported it.
LEMMA PaidNews ==
  ASSUME TypeOK, MoneyInv, NEW r \in Requests, Step(r)
  PROVE  \A q \in Requests : req'[q].pc = "loaded" /\ req'[q].event = "paid" =>
           Paid(req'[q].order)
<1> DEFINE Known == \A q \in Requests :
             req'[q].pc = "loaded" /\ req'[q].event = "paid" => Paid(req'[q].order)
<1> SUFFICES Known
  OBVIOUS
<1>0. Idle.pc = "idle"
  BY DEF Idle
<1>1. ASSUME NEW next, req' = [req EXCEPT ![r] = next],
             next.pc = "loaded" /\ next.event = "paid" => Paid(next.order)
      PROVE  Known
  BY <1>1 DEF MoneyInv, TypeOK
<1>2. CASE Finish(r)
  BY <1>0, <1>1, <1>2 DEF Finish
<1>3. ASSUME NEW id \in ExternalIds, RegisterCheck(r, id) PROVE Known
  <2> DEFINE next == [Idle EXCEPT !.pc = "checked", !.id = id]
  <2>1. next.pc = "checked" /\ req' = [req EXCEPT ![r] = next]
    BY <1>3 DEF RegisterCheck, Idle
  <2> HIDE DEF next, Known
  <2> QED
    BY <1>1, <2>1
<1>4. CASE RegisterInsert(r) \/ Mint(r)
  <2>1. \A q \in Requests \ {r} : req'[q] = req[q]
    BY <1>4 DEF RegisterInsert, Mint, TypeOK
  <2>2. req'[r].pc \in {"inserted", "minted"}
    BY <1>4 DEF RegisterInsert, Mint, TypeOK, Request
  <2> QED
    BY <2>1, <2>2 DEF MoneyInv
<1>5. ASSUME NEW o \in Orders, NEW pc \in {"resolved", "loaded"}, NEW event \in Events,
             Load(r, o, pc, event), pc = "loaded" /\ event = "paid" => Paid(o)
      PROVE  Known
  <2> DEFINE next == [pc |-> pc, id |-> NoId, order |-> o, event |-> event,
                      seen |-> status[o]]
  <2>1. /\ next.pc = pc /\ next.event = event /\ next.order = o
        /\ req' = [req EXCEPT ![r] = next]
    BY <1>5 DEF Load
  <2> HIDE DEF next, Known
  <2> QED
    BY <1>1, <1>5, <2>1
<1>6. ASSUME NEW o \in Orders, NEW event \in Events, XenditCallback(r, o, event)
      PROVE  Known
  <2>1. event = "paid" => Paid(o)
    BY <1>6 DEF XenditCallback, Reported, Paid
  <2> QED
    BY <1>5, <1>6, <2>1 DEF XenditCallback
<1>7. ASSUME NEW o \in Orders, DipayCallback(r, o) PROVE Known
  BY <1>5, <1>7 DEF DipayCallback
<1>8. CASE DipayQuery(r)
  <2>1. CASE Finish(r)
    BY <1>2, <2>1
  <2>2. ASSUME NEW event \in Events, event = "paid" => Paid(req[r].order),
               req' = [req EXCEPT ![r].pc = "loaded", ![r].event = event]
        PROVE  Known
    <3> DEFINE next == [req[r] EXCEPT !.pc = "loaded", !.event = event]
    <3>1. req[r] \in Request
      BY DEF TypeOK
    <3>2. next.event = event /\ next.order = req[r].order
      BY <3>1 DEF Request
    <3>3. req' = [req EXCEPT ![r] = next]
      BY <2>2
    <3> HIDE DEF next, Known
    <3> QED
      BY <1>1, <2>2, <3>2, <3>3
  <2>3. "paid" \in Events /\ "expired" \in Events /\ "expired" # "paid"
    OBVIOUS
  <2> HIDE DEF Known
  <2> QED
    BY <1>8, <2>1, <2>2, <2>3 DEF DipayQuery
<1>9. CASE Crash(r)
  BY <1>2, <1>9 DEF Crash, Rollback
<1> HIDE DEF Known
<1> QED
  BY <1>2, <1>3, <1>4, <1>6, <1>7, <1>8, <1>9 DEF Step, RegisterConflict, MintUnheard,
     MintRefused, Rollback, RegisterCommit, DipayQueryFails, PaidWrite, PaidWriteDies,
     ExpiredWrite

\* Requests, tasks and what was told rest on money the provider has.
LEMMA MoneyStep == TypeOK /\ InsertInv /\ MoneyInv /\ [Next]_vars => MoneyInv'
<1> SUFFICES ASSUME TypeOK, InsertInv, MoneyInv, [Next]_vars PROVE MoneyInv'
  OBVIOUS
<1>1. \A o \in Orders : Paid(o) => Paid(o)'
  BY PaidStays
<1>2. TypeOK'
  BY TypeStep
<1>3. ASSUME NEW r \in Requests, Step(r) PROVE MoneyInv'
  <2>1. \A q \in Requests : req'[q].pc = "loaded" /\ req'[q].event = "paid" =>
          invoice'[req'[q].order] \in {"paid", "paid_late"}
    <3>1. ASSUME NEW q \in Requests, req'[q].pc = "loaded", req'[q].event = "paid"
          PROVE  req'[q].order \in Orders /\ Paid(req'[q].order)
      BY <1>2, <1>3, <3>1, PaidNews DEF TypeOK
    <3> QED
      BY <1>1, <3>1 DEF Paid
  <2>2. told' = told
    BY <1>3 DEF Step, RegisterCheck, RegisterInsert, RegisterConflict, Mint,
       MintUnheard, MintRefused, RegisterCommit, XenditCallback, DipayCallback, Load,
       DipayQuery, DipayQueryFails, PaidWrite, PaidWriteDies, ExpiredWrite, Crash
  <2>3. CASE PaidWrite(r)
    <3>1. req[r].order \in Orders /\ Paid(req[r].order)
      BY <2>3, LoadedType DEF PaidWrite, MoneyInv
    <3>2. \A c \in Chains : chain'[c] = chain[c] \/ chain'[c].order = req[r].order
      BY <2>3, <3>1, NotifyStarts DEF PaidWrite
    <3>3. \A c \in Chains : chain'[c].left > 0 =>
            chain'[c].order \in Orders /\ Paid(chain'[c].order)
      BY <3>1, <3>2 DEF MoneyInv, TypeOK
    <3> QED
      BY <1>1, <2>1, <2>2, <3>3 DEF MoneyInv, ToldWasPaid, Paid, TypeOK
  <2>4. ASSUME ~PaidWrite(r) PROVE chain' = chain
    BY <1>3, <2>4 DEF Step, RegisterCheck, RegisterInsert, RegisterConflict, Mint,
       MintUnheard, MintRefused, RegisterCommit, XenditCallback, DipayCallback, Load,
       DipayQuery, DipayQueryFails, PaidWriteDies, ExpiredWrite, Crash
  <2> QED
    BY <1>1, <2>1, <2>2, <2>3, <2>4 DEF MoneyInv, ToldWasPaid, Paid, TypeOK
<1>4. ASSUME NEW c \in Chains, ChainAttempt(c) \/ ChainDies(c) PROVE MoneyInv'
  BY <1>1, <1>4, AttemptKeeps DEF MoneyInv, ToldWasPaid, Paid, TypeOK
<1>5. ASSUME NEW o \in Orders, XenditExpiryUnmatched(o) \/ Pay(o) \/ InvoiceExpires(o)
      PROVE  UNCHANGED <<req, chain, told>>
  BY <1>5 DEF XenditExpiryUnmatched, Pay, InvoiceExpires
<1>6. ASSUME UNCHANGED <<req, chain, told>> PROVE MoneyInv'
  BY <1>1, <1>6 DEF MoneyInv, ToldWasPaid, Paid, TypeOK
<1>7. CASE UNCHANGED vars
  BY <1>6, <1>7 DEF vars
<1> QED
  BY <1>3, <1>4, <1>5, <1>6, <1>7 DEF Next

\* While no invoice is paid late, a webhook about to write has the news the
\* provider still has, and a copy that is not pending is what the row shows.
Fresh(r) ==
    /\ req[r].pc \in {"resolved", "loaded"} /\ req[r].seen \in Events =>
         status[req[r].order] = req[r].seen
    /\ req[r].pc = "loaded" => invoice[req[r].order] = req[r].event

\* A row that is paid or expired stays so, and becomes so only as its invoice
\* has.
LEMMA RowMoves ==
  ASSUME TypeOK, AgreeInv, "late_payment" \notin faults, [Next]_vars,
         InsertInv, NEW o \in Orders
  PROVE  /\ status[o] \in Events => status'[o] = status[o]
         /\ status'[o] \in Events => status'[o] \in {status[o], invoice[o]}
<1> DEFINE Moves == /\ status[o] \in Events => status'[o] = status[o]
                    /\ status'[o] \in Events => status'[o] \in {status[o], invoice[o]}
<1> SUFFICES Moves
  OBVIOUS
<1>1. CASE status' = status
  BY <1>1
<1>2. ASSUME NEW r \in Requests, RegisterCommit(r) PROVE Moves
  BY <1>2 DEF RegisterCommit, InsertInv, TypeOK
<1>3. ASSUME NEW r \in Requests, req[r].pc = "loaded", Mark(r) PROVE Moves
  <2>1. /\ req[r].order \in Orders /\ req[r].event \in Events
        /\ req[r].seen \in PartnerOrderStatus
        /\ invoice[req[r].order] = req[r].event
        /\ status[req[r].order] \in Events =>
             status[req[r].order] = invoice[req[r].order]
    BY <1>3, LoadedType DEF AgreeInv
  <2>2. /\ \A p \in Orders : p # req[r].order => status'[p] = status[p]
        /\ status'[req[r].order] =
             IF req[r].seen = "pending" THEN req[r].event ELSE status[req[r].order]
    BY <1>3, MarkWrites
  <2> QED
    BY <2>1, <2>2
<1>4. ASSUME NEW r \in Requests, Step(r) PROVE Moves
  <2>1. CASE PaidWrite(r) \/ PaidWriteDies(r) \/ ExpiredWrite(r)
    BY <1>3, <2>1 DEF PaidWrite, PaidWriteDies, ExpiredWrite
  <2>2. CASE RegisterCommit(r)
    BY <1>2, <2>2
  <2>3. ASSUME ~PaidWrite(r), ~PaidWriteDies(r), ~ExpiredWrite(r), ~RegisterCommit(r)
        PROVE  status' = status
    BY <1>4, <2>3 DEF Step, RegisterCheck, RegisterInsert, RegisterConflict, Mint,
       MintUnheard, MintRefused, XenditCallback, DipayCallback, Load, DipayQuery,
       DipayQueryFails, Crash
  <2> QED
    BY <1>1, <2>1, <2>2, <2>3
<1>5. ASSUME NEW c \in Chains, ChainAttempt(c) \/ ChainDies(c) PROVE status' = status
  BY <1>5, AttemptKeeps
<1>6. ASSUME NEW p \in Orders, XenditExpiryUnmatched(p) \/ Pay(p) \/ InvoiceExpires(p)
      PROVE  status' = status
  BY <1>6 DEF XenditExpiryUnmatched, Pay, InvoiceExpires
<1>7. CASE UNCHANGED vars
  BY <1>1, <1>7 DEF vars
<1> QED
  BY <1>1, <1>4, <1>5, <1>6, <1>7 DEF Next

\* An invoice that is paid or expired stays so.
LEMMA InvoiceMoves ==
  ASSUME TypeOK, AgreeInv, "late_payment" \notin faults, [Next]_vars,
         InsertInv, NEW o \in Orders
  PROVE  /\ invoice[o] \in Events => invoice'[o] = invoice[o]
         /\ invoice'[o] # "paid_late"
<1> DEFINE Moves == /\ invoice[o] \in Events => invoice'[o] = invoice[o]
                    /\ invoice'[o] # "paid_late"
<1> SUFFICES Moves
  OBVIOUS
<1>1. CASE invoice' = invoice
  BY <1>1 DEF AgreeInv
<1>2. ASSUME NEW r \in Requests, Step(r) PROVE Moves
  <2>1. CASE Mint(r) \/ MintUnheard(r)
    BY <2>1 DEF Mint, MintUnheard, InsertInv, AgreeInv, TypeOK
  <2>2. ASSUME ~Mint(r), ~MintUnheard(r) PROVE invoice' = invoice
    BY <1>2, <2>2 DEF Step, RegisterCheck, RegisterInsert, RegisterConflict, MintRefused,
       RegisterCommit, XenditCallback, DipayCallback, Load, DipayQuery,
       DipayQueryFails, PaidWrite, PaidWriteDies, ExpiredWrite, Crash
  <2> QED
    BY <1>1, <2>1, <2>2
<1>3. ASSUME NEW c \in Chains, ChainAttempt(c) \/ ChainDies(c) PROVE invoice' = invoice
  BY <1>3, AttemptKeeps
<1>4. ASSUME NEW p \in Orders, XenditExpiryUnmatched(p) \/ Pay(p) \/ InvoiceExpires(p)
      PROVE  Moves
  BY <1>4 DEF XenditExpiryUnmatched, Pay, InvoiceExpires, AgreeInv, TypeOK
<1>5. CASE UNCHANGED vars
  BY <1>1, <1>5 DEF vars
<1> QED
  BY <1>1, <1>2, <1>3, <1>4, <1>5 DEF Next

\* Requests that were fresh stay fresh, and a step makes only fresh ones.
LEMMA FreshStep ==
  ASSUME TypeOK, InsertInv, AgreeInv, "late_payment" \notin faults,
         NEW r \in Requests, Step(r), NEW q \in Requests
  PROVE  Fresh(q)'
<1>0. Idle.pc = "idle"
  BY DEF Idle
<1>1. \A o \in Orders : /\ status[o] \in Events => status'[o] = status[o]
                        /\ invoice[o] \in Events => invoice'[o] = invoice[o]
  BY RowMoves, InvoiceMoves DEF Next
<1>2. ASSUME req'[q] = req[q] PROVE Fresh(q)'
  <2>1. CASE req[q].pc \in {"resolved", "loaded"}
    <3>1. /\ req[q].order \in Orders /\ req[q].event \in Events
          /\ req[q].seen \in Events => status[req[q].order] = req[q].seen
          /\ req[q].pc = "loaded" => invoice[req[q].order] = req[q].event
      BY <2>1, LoadedType DEF AgreeInv
    <3>2. req[q].seen \in Events =>
            status[req[q].order] \in Events /\ status'[req[q].order] = req[q].seen
      BY <1>1, <3>1
    <3>3. req[q].pc = "loaded" => invoice'[req[q].order] = req[q].event
      BY <1>1, <3>1
    <3> QED
      BY <1>2, <3>2, <3>3 DEF Fresh
  <2>2. CASE req[q].pc \notin {"resolved", "loaded"}
    BY <1>2, <2>2 DEF Fresh
  <2> QED
    BY <2>1, <2>2
<1>3. ASSUME NEW next, req' = [req EXCEPT ![r] = next],
             next.pc \notin {"resolved", "loaded"}
      PROVE  Fresh(q)'
  BY <1>2, <1>3 DEF Fresh, TypeOK
<1>4. CASE Finish(r)
  BY <1>0, <1>3, <1>4 DEF Finish
<1>5. ASSUME NEW id \in ExternalIds, RegisterCheck(r, id) PROVE Fresh(q)'
  <2> DEFINE next == [Idle EXCEPT !.pc = "checked", !.id = id]
  <2>1. next.pc = "checked" /\ req' = [req EXCEPT ![r] = next]
    BY <1>5 DEF RegisterCheck, Idle
  <2> HIDE DEF next
  <2> QED
    BY <1>3, <2>1
<1>6. CASE RegisterInsert(r) \/ Mint(r)
  <2>1. \A s \in Requests \ {r} : req'[s] = req[s]
    BY <1>6 DEF RegisterInsert, Mint, TypeOK
  <2>2. req'[r].pc \in {"inserted", "minted"}
    BY <1>6 DEF RegisterInsert, Mint, TypeOK, Request
  <2> QED
    BY <1>2, <2>1, <2>2 DEF Fresh
<1>7. ASSUME NEW o \in Orders, NEW pc \in {"resolved", "loaded"}, NEW event \in Events,
             Load(r, o, pc, event), pc = "loaded" => invoice[o] = event
      PROVE  Fresh(q)'
  <2> DEFINE next == [pc |-> pc, id |-> NoId, order |-> o, event |-> event,
                      seen |-> status[o]]
  <2>1. /\ next.pc = pc /\ next.event = event /\ next.order = o
        /\ next.seen = status[o]
        /\ req' = [req EXCEPT ![r] = next] /\ UNCHANGED <<status, invoice>>
    BY <1>7 DEF Load
  <2> HIDE DEF next
  <2> QED
    BY <1>2, <1>7, <2>1 DEF Fresh, TypeOK
<1>8. ASSUME NEW o \in Orders, NEW event \in Events, XenditCallback(r, o, event)
      PROVE  Fresh(q)'
  <2>1. invoice[o] = event
    BY <1>8 DEF XenditCallback, Reported, AgreeInv
  <2> QED
    BY <1>7, <1>8, <2>1 DEF XenditCallback
<1>9. ASSUME NEW o \in Orders, DipayCallback(r, o) PROVE Fresh(q)'
  BY <1>7, <1>9 DEF DipayCallback
<1>10. CASE DipayQuery(r)
  <2>1. ASSUME NEW event \in Events, invoice[req[r].order] = event,
               req' = [req EXCEPT ![r].pc = "loaded", ![r].event = event]
        PROVE  Fresh(q)'
    <3> DEFINE next == [req[r] EXCEPT !.pc = "loaded", !.event = event]
    <3>1. req[r] \in Request
      BY DEF TypeOK
    <3>2. /\ next.pc = "loaded" /\ next.event = event /\ next.order = req[r].order
          /\ next.seen = req[r].seen
      BY <3>1 DEF Request
    <3>3. req' = [req EXCEPT ![r] = next]
      BY <2>1
    <3> HIDE DEF next
    <3>4. req[r].seen \in Events => status[req[r].order] = req[r].seen
      BY <1>10 DEF DipayQuery, AgreeInv
    <3>5. UNCHANGED <<status, invoice>>
      BY <1>10 DEF DipayQuery
    <3> QED
      BY <1>2, <2>1, <3>2, <3>3, <3>4, <3>5 DEF Fresh, TypeOK
  <2>2. Paid(req[r].order) => invoice[req[r].order] = "paid"
    BY <1>10, LoadedType DEF DipayQuery, Paid, AgreeInv
  <2> QED
    BY <1>4, <1>10, <2>1, <2>2 DEF DipayQuery
<1>11. CASE Crash(r)
  BY <1>4, <1>11 DEF Crash, Rollback
<1> QED
  BY <1>4, <1>5, <1>6, <1>8, <1>9, <1>10, <1>11 DEF Step, RegisterConflict, MintUnheard,
     MintRefused, Rollback, RegisterCommit, DipayQueryFails, PaidWrite, PaidWriteDies,
     ExpiredWrite

\* Rows, copies, tasks and what was told agree with the provider.
LEMMA AgreeStep == TypeOK /\ InsertInv /\ AgreeInv /\ [Next]_vars => AgreeInv'
<1> SUFFICES ASSUME TypeOK, InsertInv, AgreeInv, [Next]_vars PROVE AgreeInv'
  OBVIOUS
<1>1. faults' = faults
  <2>1. ASSUME NEW r \in Requests, Step(r) PROVE faults' = faults
    BY <2>1 DEF Step, RegisterCheck, RegisterInsert, RegisterConflict, Mint,
       MintUnheard, MintRefused, RegisterCommit, XenditCallback, DipayCallback, Load,
       DipayQuery, DipayQueryFails, PaidWrite, PaidWriteDies, ExpiredWrite, Crash
  <2>2. ASSUME NEW c \in Chains, ChainAttempt(c) \/ ChainDies(c) PROVE faults' = faults
    BY <2>2, AttemptKeeps
  <2> QED
    BY <2>1, <2>2 DEF Next, XenditExpiryUnmatched, Pay, InvoiceExpires, vars
<1>2. CASE "late_payment" \in faults
  BY <1>1, <1>2 DEF AgreeInv
<1>3. CASE "late_payment" \notin faults
  <2>1. \A o \in Orders :
          /\ status[o] \in Events => status'[o] = status[o]
          /\ status'[o] \in Events => status'[o] \in {status[o], invoice[o]}
          /\ invoice[o] \in Events => invoice'[o] = invoice[o]
          /\ invoice'[o] # "paid_late"
    BY <1>3, RowMoves, InvoiceMoves
  <2>2. \A o \in Orders : status'[o] \in Events => invoice'[o] = status'[o]
    BY <1>3, <2>1 DEF AgreeInv
  <2>3. ASSUME NEW o \in Orders, status[o] = "paid" PROVE status'[o] = "paid"
    BY <2>1, <2>3
  <2>4. TypeOK'
    BY TypeStep
  <2>5. \A c \in Chains : chain[c].left > 0 =>
          chain[c].order \in Orders /\ status'[chain[c].order] = "paid"
    BY <1>3, <2>3 DEF AgreeInv, TypeOK
  <2>6. \A o \in told : status'[o] = "paid"
    BY <1>3, <2>3 DEF AgreeInv, ToldIsPaid, TypeOK
  <2>7. ASSUME \A q \in Requests : Fresh(q)',
               \A c \in Chains : chain'[c].left > 0 => status'[chain'[c].order] = "paid",
               \A o \in told' : status'[o] = "paid"
        PROVE  AgreeInv'
    BY <2>1, <2>2, <2>7 DEF AgreeInv, ToldIsPaid, Fresh
  <2>8. ASSUME req' = req PROVE \A q \in Requests : Fresh(q)'
    <3> SUFFICES ASSUME NEW q \in Requests PROVE Fresh(q)'
      OBVIOUS
    <3>1. CASE req[q].pc \in {"resolved", "loaded"}
      <4>1. /\ req[q].order \in Orders /\ req[q].event \in Events
            /\ req[q].seen \in Events => status[req[q].order] = req[q].seen
            /\ req[q].pc = "loaded" => invoice[req[q].order] = req[q].event
        BY <1>3, <3>1, LoadedType DEF AgreeInv
      <4> QED
        BY <2>1, <2>8, <4>1 DEF Fresh
    <3>2. CASE req[q].pc \notin {"resolved", "loaded"}
      BY <2>8, <3>2 DEF Fresh
    <3> QED
      BY <3>1, <3>2
  <2>9. ASSUME NEW r \in Requests, Step(r) PROVE AgreeInv'
    <3>1. \A q \in Requests : Fresh(q)'
      BY <1>3, <2>9, FreshStep
    <3>2. told' = told
      BY <2>9 DEF Step, RegisterCheck, RegisterInsert, RegisterConflict, Mint,
         MintUnheard, MintRefused, RegisterCommit, XenditCallback, DipayCallback, Load,
         DipayQuery, DipayQueryFails, PaidWrite, PaidWriteDies, ExpiredWrite, Crash
    <3>3. CASE PaidWrite(r)
      <4>1. /\ req[r].order \in Orders /\ req[r].event = "paid"
            /\ req[r].seen \in PartnerOrderStatus
            /\ invoice[req[r].order] = "paid" /\ Mark(r) /\ Notify(req[r].order)
        BY <1>3, <3>3, LoadedType DEF PaidWrite, AgreeInv
      <4>2. req[r].seen \in Events => status[req[r].order] = "paid"
        BY <1>3, <3>3, <4>1 DEF PaidWrite, AgreeInv
      <4>3. status'[req[r].order] = "paid"
        BY <3>3, <4>1, <4>2, MarkWrites DEF PaidWrite
      <4>4. \A c \in Chains : chain'[c] = chain[c] \/ chain'[c].order = req[r].order
        BY <4>1, NotifyStarts
      <4> QED
        BY <2>5, <2>6, <2>7, <3>1, <3>2, <4>3, <4>4
    <3>4. ASSUME ~PaidWrite(r) PROVE chain' = chain
      BY <2>9, <3>4 DEF Step, RegisterCheck, RegisterInsert, RegisterConflict, Mint,
         MintUnheard, MintRefused, RegisterCommit, XenditCallback, DipayCallback, Load,
         DipayQuery, DipayQueryFails, PaidWriteDies, ExpiredWrite, Crash
    <3> QED
      BY <2>5, <2>6, <2>7, <3>1, <3>2, <3>3, <3>4
  <2>10. ASSUME NEW c \in Chains, ChainAttempt(c) \/ ChainDies(c) PROVE AgreeInv'
    BY <2>5, <2>6, <2>7, <2>8, <2>10, AttemptKeeps
  <2>11. ASSUME UNCHANGED <<req, chain, told>> PROVE AgreeInv'
    BY <2>5, <2>6, <2>7, <2>8, <2>11
  <2>12. ASSUME NEW o \in Orders,
                XenditExpiryUnmatched(o) \/ Pay(o) \/ InvoiceExpires(o)
         PROVE  UNCHANGED <<req, chain, told>>
    BY <2>12 DEF XenditExpiryUnmatched, Pay, InvoiceExpires
  <2>13. CASE UNCHANGED vars
    BY <2>11, <2>13 DEF vars
  <2> QED
    BY <2>9, <2>10, <2>11, <2>12, <2>13 DEF Next
<1> QED
  BY <1>2, <1>3
-----------------------------------------------------------------------------
(* The theorems.                                                           *)

\* Between any two steps rows, requests, tasks and the provider owe each
\* other what PartnerInv says: the inductive invariant.
THEOREM PartnerInvariance == Spec => []PartnerInv
<1>1. Init => PartnerInv
  <2> SUFFICES ASSUME Init PROVE PartnerInv
    OBVIOUS
  <2>1. /\ \A o \in Orders : status[o] = "none" /\ ext[o] = NoId /\ invoice[o] = "none"
        /\ \A r \in Requests : req[r].pc = "idle"
        /\ \A c \in Chains : chain[c].left = 0
        /\ told = {}
    BY DEF Init, Idle, NoTask
  <2> QED
    BY <2>1, TypeInit DEF PartnerInv, InsertInv, IndexInv, MoneyInv, AgreeInv,
       ToldWasPaid, ToldIsPaid
<1>2. PartnerInv /\ [Next]_vars => PartnerInv'
  BY TypeStep, InsertStep, IndexStep, MoneyStep, AgreeStep DEF PartnerInv
<1> QED
  BY <1>1, <1>2, PTL DEF Spec

\* With the unique index two committed rows never share an external id,
\* however registrations overlap, fail and roll back.
THEOREM OneOrderPerIdHolds == ASSUME UniqueIndex PROVE Spec => []OneOrderPerId
<1>1. PartnerInv => OneOrderPerId
  BY DEF PartnerInv, InsertInv, IndexInv, OneOrderPerId
<1> QED
  BY <1>1, PartnerInvariance, PTL

\* The partner is never told of a payment that the provider does not have:
\* callbacks are believed only from Xendit, and Dipay is queried.
THEOREM ToldWasPaidHolds == Spec => []ToldWasPaid
<1>1. PartnerInv => ToldWasPaid
  BY DEF PartnerInv, MoneyInv
<1> QED
  BY <1>1, PartnerInvariance, PTL

\* An order the partner was told is paid reads back as paid, unless an
\* invoice was paid after it expired.
THEOREM ToldIsPaidHolds == Spec => []ToldIsPaid
<1>1. PartnerInv => ToldIsPaid
  BY DEF PartnerInv, AgreeInv, ToldIsPaid
<1> QED
  BY <1>1, PartnerInvariance, PTL
=============================================================================
