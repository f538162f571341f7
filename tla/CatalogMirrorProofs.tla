-------------------------- MODULE CatalogMirrorProofs --------------------------
(***************************************************************************)
(* The mirror holds one catalogue of a seller, for any number of sellers,  *)
(* messages under way and messages handled together: the store row, which  *)
(* the handler of a message changes first and so keeps until its commit,   *)
(* lets one handler of a seller at a time replace the products.            *)
(***************************************************************************)
EXTENDS CatalogMirror, FiniteSetTheorems, TLAPS

\* What only the messages, the puller and the bot's search change leaves the
\* mirror alone.
LEMMA OutsideStep ==
    ASSUME MirrorInv, UNCHANGED <<store, mirror, lock, handler>>,
           catalog' \in [Sellers -> Versions], net' \in [Slots -> Message],
           puller' \subseteq Sellers, session' \in Session, quiet' \in BOOLEAN
    PROVE  MirrorInv'
<1>1. TypeOK'
  BY DEF MirrorInv, TypeOK
<1>2. HandlesSeller' /\ RowIsLocked' /\ GoneIsAll'
  BY DEF MirrorInv, HandlesSeller, RowIsLocked, GoneIsAll
<1>3. OneBatch' /\ ProductsHaveStore'
  BY DEF MirrorInv, OneBatch, ProductsHaveStore
<1> QED
  BY <1>1, <1>2, <1>3 DEF MirrorInv

\* A message of a seller, put into any slot, has the catalogue of now.
LEMMA SentIsMessage ==
    ASSUME MirrorInv, NEW s \in Sellers, Sends(s)
    PROVE  net' \in [Slots -> Message]
  BY DEF MirrorInv, TypeOK, Sends, Message

LEMMA MulticastStep ==
    ASSUME MirrorInv, Multicast
    PROVE  MirrorInv'
<1>1. net' \in [Slots -> Message]
  <2>1. PICK found \in SUBSET Sellers : \E at \in [found -> {i \in Slots : Free(i)}] :
            net' = [i \in Slots |->
                      IF \E s \in found : at[s] = i
                      THEN LET s == CHOOSE x \in found : at[x] = i
                           IN  [seller |-> s, version |-> catalog[s]]
                      ELSE net[i]]
    BY DEF Multicast
  <2>2. PICK at \in [found -> {i \in Slots : Free(i)}] :
            net' = [i \in Slots |->
                      IF \E s \in found : at[s] = i
                      THEN LET s == CHOOSE x \in found : at[x] = i
                           IN  [seller |-> s, version |-> catalog[s]]
                      ELSE net[i]]
    BY <2>1
  <2> DEFINE from(i) == CHOOSE x \in found : at[x] = i
  <2>3. ASSUME NEW i \in Slots
        PROVE  net'[i] \in Message
    <3>1. net'[i] = IF \E s \in found : at[s] = i
                    THEN [seller |-> from(i), version |-> catalog[from(i)]] ELSE net[i]
      BY <2>2
    <3>2. (\E s \in found : at[s] = i) => from(i) \in found
      OBVIOUS
    <3> HIDE DEF from
    <3>3. found \subseteq Sellers /\ catalog \in [Sellers -> Versions] /\ net[i] \in Message
      BY <2>3 DEF MirrorInv, TypeOK
    <3> QED
      BY <3>1, <3>2, <3>3 DEF Message
  <2>4. net' = [i \in Slots |-> net'[i]]
    BY <2>2
  <2> QED
    BY <2>3, <2>4
<1> QED
  BY <1>1, OutsideStep DEF Multicast, MirrorInv, TypeOK

LEMMA SearchStep ==
    ASSUME MirrorConstants, MirrorInv,
           \/ \E s \in Sellers : SellerWrites(s) \/ Pull(s) \/ PullFails(s)
           \/ \E i \in Slots : Lost(i)
           \/ PullStarts \/ CreateSearch \/ ReadProducts \/ ReadSkus \/ SearchExpires
           \/ CalmDown \/ UNCHANGED vars
    PROVE  MirrorInv'
<1>0. TypeOK /\ 1 \in Versions
  BY DEF MirrorInv, MirrorConstants, Versions
<1>1. ASSUME NEW s \in Sellers, SellerWrites(s)
      PROVE  MirrorInv'
  <2>1. catalog' \in [Sellers -> Versions] /\ catalog'[s] \in Versions
    BY <1>0, <1>1 DEF SellerWrites, TypeOK, Versions, MirrorConstants
  <2>2. net' \in [Slots -> Message]
    BY <1>0, <1>1, <2>1 DEF SellerWrites, TypeOK, Message
  <2> QED
    BY <1>0, <1>1, <2>1, <2>2, OutsideStep DEF SellerWrites, TypeOK
<1>2. ASSUME NEW s \in Sellers, Pull(s) \/ PullFails(s)
      PROVE  MirrorInv'
  <2>1. net' \in [Slots -> Message]
    BY <1>0, <1>2, SentIsMessage DEF Pull, PullFails, TypeOK
  <2> QED
    BY <1>0, <1>2, <2>1, OutsideStep DEF Pull, PullFails, TypeOK
<1>3. ASSUME NEW i \in Slots, Lost(i)
      PROVE  MirrorInv'
  <2>1. net' \in [Slots -> Message]
    BY <1>0, <1>3 DEF Lost, TypeOK, Message, NoMessage
  <2> QED
    BY <1>0, <1>3, <2>1, OutsideStep DEF Lost, TypeOK
<1>4. CASE PullStarts \/ CalmDown \/ UNCHANGED vars
  BY <1>0, <1>4, OutsideStep DEF PullStarts, CalmDown, vars, TypeOK, MirrorConstants
<1>5. CASE CreateSearch
  <2>1. net' \in [Slots -> Message]
    BY <1>0, <1>5, SentIsMessage DEF CreateSearch, SendSearch, TypeOK
  <2>2. session' \in Session
    BY <1>5 DEF CreateSearch, NoSession, Session
  <2> QED
    BY <1>0, <1>5, <2>1, <2>2, OutsideStep DEF CreateSearch, TypeOK
<1>6. CASE ReadProducts
  <2>1. UNION {mirror[s] : s \in Sellers} \subseteq Batches
    BY <1>0 DEF TypeOK
  <2>2. session' \in Session
    BY <1>0, <1>6, <2>1 DEF ReadProducts, Session, TypeOK
  <2> QED
    BY <1>0, <1>6, <2>2, OutsideStep DEF ReadProducts, TypeOK
<1>7. CASE ReadSkus
  <2>1. session' \in Session
    BY <1>0, <1>7 DEF ReadSkus, Session, TypeOK
  <2> QED
    BY <1>0, <1>7, <2>1, OutsideStep DEF ReadSkus, TypeOK
<1>8. CASE SearchExpires
  <2>1. session' \in Session
    BY <1>8 DEF SearchExpires, NoSession, Session
  <2> QED
    BY <1>0, <1>8, <2>1, OutsideStep DEF SearchExpires, TypeOK
<1> QED
  BY <1>1, <1>2, <1>3, <1>4, <1>5, <1>6, <1>7, <1>8

\* A step of one handler, which leaves the mirror alone, takes no row that is
\* another's and has its own when it writes.
LEMMA HandlerStep ==
    ASSUME MirrorInv, NEW h \in Handlers, NEW g \in Handling,
           handler' = [handler EXCEPT ![h] = g],
           g.pc # "idle" => g.seller \in Sellers,
           g.pc \in Writing => lock'[g.seller] = h,
           g.pc = "replaced" => g.gone = mirror[g.seller],
           lock' \in [Sellers -> Handlers \cup {NoSeller}],
           \A k \in Handlers : \A s \in Sellers : k # h /\ lock[s] = k => lock'[s] = k,
           net' \in [Slots -> Message],
           UNCHANGED <<catalog, store, mirror, puller, session, quiet>>
    PROVE  MirrorInv'
<1>0. /\ TypeOK
      /\ handler' \in [Handlers -> Handling] /\ handler'[h] = g
      /\ \A k \in Handlers : k # h => handler'[k] = handler[k]
  BY DEF MirrorInv, TypeOK
<1>1. TypeOK'
  BY <1>0 DEF TypeOK
<1>2. HandlesSeller'
  BY <1>0 DEF MirrorInv, HandlesSeller
<1>3. RowIsLocked'
  <2> SUFFICES ASSUME NEW k \in Handlers, k # h, handler[k].pc \in Writing
               PROVE  lock'[handler[k].seller] = k
    BY <1>0 DEF RowIsLocked
  <2>1. handler[k].seller \in Sellers /\ lock[handler[k].seller] = k
    BY DEF MirrorInv, HandlesSeller, RowIsLocked, Writing
  <2> QED
    BY <2>1
<1>4. GoneIsAll'
  BY <1>0 DEF MirrorInv, GoneIsAll
<1>5. OneBatch' /\ ProductsHaveStore'
  BY DEF MirrorInv, OneBatch, ProductsHaveStore
<1> QED
  BY <1>1, <1>2, <1>3, <1>4, <1>5 DEF MirrorInv

LEMMA HandleStep ==
    ASSUME MirrorConstants, MirrorInv, NEW h \in Handlers,
           \/ \E i \in Slots : LookUp(h, i)
           \/ WriteStore(h) \/ StoreExists(h) \/ Replace(h)
    PROVE  MirrorInv'
<1>0. /\ TypeOK /\ handler[h] \in Handling /\ 1 \in Versions
      /\ handler[h].pc # "idle" => handler[h].seller \in Sellers
      /\ handler[h].pc = "stored" => lock[handler[h].seller] = h
  BY DEF MirrorInv, MirrorConstants, Versions, HandlesSeller, RowIsLocked, Writing, TypeOK
<1>1. ASSUME NEW i \in Slots, LookUp(h, i)
      PROVE  MirrorInv'
  <2>1. PICK g : /\ handler' = [handler EXCEPT ![h] = g]
                 /\ g = [pc |-> "looked", seller |-> net[i].seller,
                         version |-> net[i].version,
                         known |-> net[i].seller \in store, gone |-> {}]
    BY <1>1 DEF LookUp
  <2>2. net[i].seller \in Sellers /\ net[i].version \in Versions
    BY <1>0, <1>1 DEF LookUp, Free, TypeOK, Message
  <2>3. g \in Handling /\ g.pc = "looked" /\ g.seller \in Sellers
    BY <2>1, <2>2 DEF Handling
  <2>4. net' \in [Slots -> Message]
    BY <1>0, <1>1 DEF LookUp, TypeOK, Message
  <2> QED
    BY <1>0, <1>1, <2>1, <2>3, <2>4, HandlerStep DEF LookUp, TypeOK, Writing
<1>2. CASE WriteStore(h)
  <2>1. PICK g : /\ handler' = [handler EXCEPT ![h] = g]
                 /\ g = [handler[h] EXCEPT !.pc = "stored"]
    BY <1>2 DEF WriteStore
  <2>2. g \in Handling /\ g.pc = "stored" /\ g.seller = handler[h].seller
    BY <1>0, <2>1 DEF Handling
  <2>3. /\ handler[h].seller \in Sellers /\ lock[handler[h].seller] = NoSeller
        /\ lock' = [lock EXCEPT ![handler[h].seller] = h]
        /\ UNCHANGED <<catalog, net, store, mirror, puller, session, quiet>>
    BY <1>0, <1>2 DEF WriteStore
  <2>4. /\ lock' \in [Sellers -> Handlers \cup {NoSeller}] /\ lock'[g.seller] = h
        /\ \A k \in Handlers : \A s \in Sellers : k # h /\ lock[s] = k => lock'[s] = k
    BY <1>0, <2>2, <2>3 DEF TypeOK, MirrorConstants
  <2>5. net' \in [Slots -> Message]
    BY <1>0, <2>3 DEF TypeOK
  <2> QED
    BY <2>1, <2>2, <2>3, <2>4, <2>5, HandlerStep
<1>3. CASE StoreExists(h)
  <2>1. Idle \in Handling /\ Idle.pc = "idle"
    BY <1>0 DEF Idle, Handling
  <2> QED
    BY <1>0, <1>3, <2>1, HandlerStep DEF StoreExists, TypeOK, Writing
<1>4. CASE Replace(h)
  <2>1. PICK g : /\ handler' = [handler EXCEPT ![h] = g]
                 /\ g = [handler[h] EXCEPT !.pc = "replaced", !.gone = mirror[handler[h].seller]]
    BY <1>4 DEF Replace
  <2>2. handler[h].pc = "stored" /\ mirror[handler[h].seller] \in SUBSET Batches
    BY <1>0, <1>4 DEF Replace, TypeOK
  <2>3. /\ g \in Handling /\ g.pc = "replaced" /\ g.seller = handler[h].seller
        /\ g.gone = mirror[g.seller] /\ g.seller \in Sellers /\ lock[g.seller] = h
    BY <1>0, <2>1, <2>2 DEF Handling
  <2>4. UNCHANGED <<catalog, net, store, mirror, lock, puller, session, quiet>>
    BY <1>4 DEF Replace
  <2>5. /\ lock' \in [Sellers -> Handlers \cup {NoSeller}] /\ lock'[g.seller] = h
        /\ net' \in [Slots -> Message]
    BY <1>0, <2>3, <2>4 DEF TypeOK
  <2> QED
    BY <2>1, <2>3, <2>4, <2>5, HandlerStep
<1> QED
  BY <1>1, <1>2, <1>3, <1>4

\* Who commits has the seller's row, so that no other handler of that seller is
\* between its two statements, and what it deletes is all there was.
LEMMA CommitStep ==
    ASSUME MirrorConstants, MirrorInv, NEW h \in Handlers, Commit(h)
    PROVE  MirrorInv'
<1> DEFINE s == handler[h].seller
           b == [by |-> h, version |-> handler[h].version]
<1>0. /\ TypeOK /\ handler[h] \in Handling /\ 1 \in Versions
      /\ handler[h].pc = "replaced" /\ s \in Sellers /\ lock[s] = h
      /\ handler[h].gone = mirror[s]
  BY DEF MirrorInv, MirrorConstants, Versions, HandlesSeller, RowIsLocked, GoneIsAll,
         Writing, TypeOK, Commit
<1>1. /\ store' = store \cup {s} /\ mirror' = [mirror EXCEPT ![s] = {b}]
      /\ lock' = [lock EXCEPT ![s] = NoSeller] /\ handler' = [handler EXCEPT ![h] = Idle]
      /\ UNCHANGED <<catalog, net, puller, session, quiet>>
  <2>1. (mirror[s] \ handler[h].gone) \cup {b} = {b}
    BY <1>0
  <2> QED
    BY <1>0, <2>1 DEF Commit, TypeOK
<1>2. b \in Batches
  BY <1>0 DEF Batches, Handling
<1> HIDE DEF s, b
<1>3. Idle \in Handling /\ Idle.pc = "idle"
  BY <1>0 DEF Idle, Handling
<1>4. /\ mirror' \in [Sellers -> SUBSET Batches] /\ mirror'[s] = {b}
      /\ \A t \in Sellers : t # s => mirror'[t] = mirror[t]
  BY <1>0, <1>1, <1>2 DEF TypeOK
<1>5. /\ lock' \in [Sellers -> Handlers \cup {NoSeller}]
      /\ \A t \in Sellers : t # s => lock'[t] = lock[t]
  BY <1>0, <1>1 DEF TypeOK
<1>6. /\ handler' \in [Handlers -> Handling] /\ handler'[h].pc = "idle"
      /\ \A k \in Handlers : k # h => handler'[k] = handler[k]
  BY <1>0, <1>1, <1>3 DEF TypeOK
<1>7. TypeOK'
  BY <1>0, <1>1, <1>4, <1>5, <1>6 DEF TypeOK
<1>8. \A k \in Handlers : handler'[k].pc # "idle" =>
         /\ k # h /\ handler'[k] = handler[k] /\ handler[k].seller \in Sellers
         /\ handler[k].pc \in Writing => handler[k].seller # s
  BY <1>0, <1>6 DEF MirrorInv, HandlesSeller, RowIsLocked
<1>9. HandlesSeller'
  BY <1>8 DEF HandlesSeller
<1>10. RowIsLocked'
  BY <1>5, <1>8 DEF MirrorInv, RowIsLocked, Writing
<1>11. GoneIsAll'
  BY <1>4, <1>8 DEF MirrorInv, GoneIsAll, Writing
<1>12. OneBatch'
  BY <1>4 DEF MirrorInv, OneBatch
<1>13. ProductsHaveStore'
  BY <1>1, <1>4 DEF MirrorInv, ProductsHaveStore
<1> QED
  BY <1>7, <1>9, <1>10, <1>11, <1>12, <1>13 DEF MirrorInv

\* The products of a seller are those of one message, all that the next one
\* deletes, in every behaviour.
THEOREM MirrorInvariance == MirrorConstants => (Spec => []MirrorInv)
<1> SUFFICES ASSUME MirrorConstants PROVE Spec => []MirrorInv
  OBVIOUS
<1>1. Init => MirrorInv
  <2> SUFFICES ASSUME Init PROVE MirrorInv
    OBVIOUS
  <2>1. 1 \in Versions /\ NoMessage \in Message /\ Idle \in Handling /\ NoSession \in Session
    BY DEF MirrorConstants, Versions, NoMessage, Message, Idle, Handling, NoSession, Session
  <2>2. TypeOK
    BY <2>1 DEF Init, TypeOK
  <2>3. \A h \in Handlers : handler[h].pc = "idle"
    BY DEF Init, Idle
  <2>4. \A s \in Sellers : mirror[s] = {}
    BY DEF Init
  <2> QED
    BY <2>2, <2>3, <2>4 DEF MirrorInv, HandlesSeller, RowIsLocked, GoneIsAll, OneBatch,
                            ProductsHaveStore, Writing
<1>2. MirrorInv /\ [Next]_vars => MirrorInv'
  BY MulticastStep, SearchStep, HandleStep, CommitStep DEF Next, Handle
<1> QED
  BY <1>1, <1>2, PTL DEF Spec

\* The variables hold what rows, messages and handlers of the code hold.
THEOREM TypeOKHolds == MirrorConstants => (Spec => []TypeOK)
<1> SUFFICES ASSUME MirrorConstants PROVE Spec => []TypeOK
  OBVIOUS
<1>1. MirrorInv => TypeOK
  BY DEF MirrorInv
<1> QED
  BY <1>1, MirrorInvariance, PTL

\* However many messages of a seller are handled together, its products are one
\* catalogue.
THEOREM OneCatalogHolds == MirrorConstants => (Spec => []OneCatalog)
<1> SUFFICES ASSUME MirrorConstants PROVE Spec => []OneCatalog
  OBVIOUS
<1>1. MirrorInv => OneCatalog
  <2> SUFFICES ASSUME MirrorInv, NEW s \in Sellers PROVE Cardinality(mirror[s]) <= 1
    BY DEF OneCatalog
  <2>1. CASE mirror[s] = {}
    BY <2>1, FS_EmptySet
  <2>2. CASE mirror[s] # {}
    <3>1. PICK b : mirror[s] = {b}
      BY <2>2 DEF MirrorInv, OneBatch
    <3>2. Cardinality(mirror[s]) = 1
      BY <3>1, FS_Singleton
    <3> QED
      BY <3>2
  <2> QED
    BY <2>1, <2>2
<1> QED
  BY <1>1, MirrorInvariance, PTL
================================================================================
