------------------------------ MODULE BuyerRows ------------------------------
(***************************************************************************)
(* What one buyer keeps, in tables whose handlers look for a row and then  *)
(* insert one: claimed coupons (routers/coupons.py), saved products        *)
(* (routers/wishlist.py), addresses and the demonstration's payment method *)
(* (routers/profiles.py).  Coupons and products have a unique constraint;  *)
(* that there is one default address is the handler's own doing, which two *)
(* requests together undo.                                                 *)
(*                                                                         *)
(* A request reads, flushes and commits; a phone sends several at once.    *)
(***************************************************************************)
EXTENDS Naturals, FiniteSets

CONSTANTS
    Requests,
    MaxRows     \* bound: rows inserted

BuyerRowsConstants == MaxRows \in Nat \ {0}

Things == {"coupon", "product", "address", "method"}
Unique == {"coupon", "product"}
Ids    == 1..MaxRows

VARIABLES
    rows,      \* Ids -> the committed row, or Vacant
    last,      \* the last id that was used
    offered,   \* the coupon is active
    req        \* Requests -> a request under way

vars == <<rows, last, offered, req>>

\* marked: a coupon is claimed, an address is the default one.
Vacant == [thing |-> "none", marked |-> FALSE]
Idle  == [pc |-> "idle", thing |-> "none", marked |-> FALSE, seen |-> {},
          added |-> 0, marks |-> {}, unmarks |-> {}, gone |-> {}]

Keeping == [pc : {"idle", "read", "flushed"}, thing : Things \cup {"none"}, marked : BOOLEAN,
            seen : SUBSET Ids, added : 0..MaxRows, marks : SUBSET Ids,
            unmarks : SUBSET Ids, gone : SUBSET Ids]

TypeOK ==
    /\ rows \in [Ids -> [thing : Things \cup {"none"}, marked : BOOLEAN]]
    /\ last \in 0..MaxRows
    /\ offered \in BOOLEAN
    /\ req \in [Requests -> Keeping]

\* A coupon may have been put in a buyer's list unclaimed, by hand.
Init ==
    /\ offered \in BOOLEAN
    /\ \/ rows = [i \in Ids |-> Vacant] /\ last = 0
       \/ /\ rows = [i \in Ids |-> IF i = 1 THEN [thing |-> "coupon", marked |-> FALSE]
                                   ELSE Vacant]
          /\ last = 1
    /\ req = [r \in Requests |-> Idle]

-----------------------------------------------------------------------------
Of(thing) == {i \in Ids : rows[i].thing = thing}

\* Rows that somebody else has written and not committed.
Busy(r) == UNION {req[q].marks \cup req[q].unmarks \cup req[q].gone : q \in Requests \ {r}}

MayInsert_bug(r, thing) ==  \* only the handler's own look
    /\ last < MaxRows
    /\ thing \in Unique => req[r].seen = {}

\* The unique constraint: an insert waits for another one of the same key, and
\* for its deletion, and fails if the row is there.
MayInsert(r, thing) ==
    /\ last < MaxRows
    /\ thing \in Unique =>
          /\ Of(thing) = {}
          /\ \A q \in Requests \ {r} : req[q].thing = thing => req[q].added = 0

Reads(r, thing, marked, seen) ==
    /\ req[r] = Idle
    /\ req' = [req EXCEPT ![r] = [Idle EXCEPT !.pc = "read", !.thing = thing,
                                             !.marked = marked, !.seen = seen]]
    /\ UNCHANGED <<rows, last, offered>>

Inserts(r) ==
    /\ MayInsert(r, req[r].thing)
    /\ last' = last + 1
    /\ req' = [req EXCEPT ![r].pc = "flushed", ![r].added = last',
                          ![r].unmarks = IF req[r].thing = "address" THEN req[r].seen ELSE {}]
    /\ UNCHANGED <<rows, offered>>

-----------------------------------------------------------------------------
\* claim_coupon(); one that is not active is not found.
ClaimCoupon(r) ==
    offered /\ Reads(r, "coupon", TRUE, Of("coupon"))

AddClaim(r) ==
    /\ req[r].pc = "read" /\ req[r].thing = "coupon" /\ req[r].seen = {}
    /\ Inserts(r)

\* The row is there: it is claimed now, or was before.
MarkClaim(r) ==
    LET new == {i \in req[r].seen : ~rows[i].marked} IN
    /\ req[r].pc = "read" /\ req[r].thing = "coupon" /\ req[r].seen # {}
    /\ new \cap Busy(r) = {}
    /\ req' = [req EXCEPT ![r].pc = "flushed", ![r].marks = new]
    /\ UNCHANGED <<rows, last, offered>>

\* add_wishlist_item() answers with the row there is.
SaveProduct(r) ==
    Of("product") = {} /\ Reads(r, "product", FALSE, {})

AddProduct(r) ==
    /\ req[r].pc = "read" /\ req[r].thing = "product" /\ req[r].seen = {}
    /\ Inserts(r)

\* delete_wishlist_item()
ForgetProduct(r) ==
    Of("product") # {} /\ Reads(r, "product", FALSE, Of("product"))

DeleteProduct(r) ==
    /\ req[r].pc = "read" /\ req[r].thing = "product" /\ req[r].seen # {}
    /\ req[r].seen \cap Busy(r) = {}
    /\ req' = [req EXCEPT ![r].pc = "flushed", ![r].gone = req[r].seen]
    /\ UNCHANGED <<rows, last, offered>>

\* create_address() reads the addresses that are the default ...
NewAddress(r, default) ==
    Reads(r, "address", default,
          IF default THEN {i \in Of("address") : rows[i].marked} ELSE {})

\* ... and makes them ordinary ones, with the insert of the new one.
AddAddress(r) ==
    /\ req[r].pc = "read" /\ req[r].thing = "address"
    /\ req[r].seen \cap Busy(r) = {}
    /\ Inserts(r)

\* list_payment_methods() of a demonstration adds one to an empty list.
ListMethods(r) ==
    Of("method") = {} /\ Reads(r, "method", TRUE, {})

AddMethod(r) ==
    /\ req[r].pc = "read" /\ req[r].thing = "method"
    /\ Inserts(r)

Commit(r) ==
    LET q == req[r] IN
    /\ q.pc = "flushed"
    /\ rows' = [i \in Ids |->
           IF i = q.added THEN [thing |-> q.thing, marked |-> q.marked]
           ELSE IF i \in q.gone THEN Vacant
           ELSE [rows[i] EXCEPT !.marked = (@ \/ i \in q.marks) /\ i \notin q.unmarks]]
    /\ req' = [req EXCEPT ![r] = Idle]
    /\ UNCHANGED <<last, offered>>

\* The constraint refuses, the row is gone, or the connection dies.
Fail(r) ==
    /\ req[r].pc # "idle"
    /\ req' = [req EXCEPT ![r] = Idle]
    /\ UNCHANGED <<rows, last, offered>>

Next ==
    \E r \in Requests :
        \/ ClaimCoupon(r) \/ AddClaim(r) \/ MarkClaim(r)
        \/ SaveProduct(r) \/ AddProduct(r) \/ ForgetProduct(r) \/ DeleteProduct(r)
        \/ \E default \in BOOLEAN : NewAddress(r, default)
        \/ AddAddress(r)
        \/ ListMethods(r) \/ AddMethod(r)
        \/ Commit(r) \/ Fail(r)

Spec == Init /\ [][Next]_vars

-----------------------------------------------------------------------------
\* RowsAnswer: requests that look for a row and insert it together, and a
\* deletion among them, never leave two of a coupon or of a saved product, of
\* which every look-up expects one at most (scalar_one_or_none).
RowsAnswer == \A thing \in Unique : Cardinality(Of(thing)) <= 1
-----------------------------------------------------------------------------
(* The inductive invariant behind it.                                      *)

\* Rows have ids up to the last one.
UsedIds == \A i \in Ids : i > last => rows[i].thing = "none"

\* An insert that is flushed has an id of its own; while it is not committed,
\* there is no row of its coupon or product, and no other insert of one.
InsertOf(r) ==
    req[r].added # 0 =>
        /\ req[r].added <= last /\ rows[req[r].added].thing = "none"
        /\ req[r].thing \in Unique => Of(req[r].thing) = {}
        /\ \A q \in Requests \ {r} :
              /\ req[q].added # req[r].added
              /\ req[r].thing \in Unique /\ req[q].thing = req[r].thing => req[q].added = 0

InsertInv == \A r \in Requests : InsertOf(r)

OneOfEach ==
    \A i, j \in Ids : rows[i].thing \in Unique /\ rows[j].thing = rows[i].thing => i = j

RowsInv == TypeOK /\ UsedIds /\ InsertInv /\ OneOfEach
=============================================================================
