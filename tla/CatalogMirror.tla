--------------------------- MODULE CatalogMirror ---------------------------
(***************************************************************************)
(* The BAP's mirror of the sellers' catalogues, for one slug per seller.   *)
(*                                                                         *)
(* Sellers push their catalogue when it changes and answer searches with   *)
(* it; both arrive as on_search messages, which are lost, delayed and      *)
(* overtaken.  Each replaces the seller's products as a whole.  Searches   *)
(* come from the puller, which asks every store of the mirror in turn,     *)
(* from the gateway and from the bot, which polls for what is mirrored.    *)
(***************************************************************************)
EXTENDS Naturals, FiniteSets

CONSTANTS
    Sellers,      \* subscribers, with slugs of their own
    Default,      \* the one that is asked while the mirror is empty
    MaxVersion,   \* bound: catalogues a seller has in turn
    Slots,        \* bound: messages under way together
    Handlers,     \* messages handled together
    Bot,          \* whether the bot searches
    NoSeller

MirrorConstants ==
    /\ Default \in Sellers /\ NoSeller \notin Sellers \cup Handlers
    /\ MaxVersion \in Nat \ {0} /\ Bot \in BOOLEAN

VARIABLES
    catalog,  \* the sellers' catalogues, as versions
    net,      \* on_search messages under way
    store,    \* sellers with a MirrorStore row
    mirror,   \* MirrorProduct rows, by seller, as batches of one replace
    lock,     \* the handler that has changed or inserted a seller's store row
    handler,  \* messages being handled
    puller,   \* the sellers the puller has still to ask
    session,  \* a search of the bot: its status, and what a poll has read
    quiet     \* catalogues do not change and messages are not lost any more

vars == <<catalog, net, store, mirror, lock, handler, puller, session, quiet>>

Versions == 1..MaxVersion

\* A batch of product rows with their SKUs; the rows of two batches have
\* different ids, also if the catalogue is the same.
Batches == [by : Handlers, version : Versions]

NoMessage == [seller |-> NoSeller, version |-> 1]

Idle == [pc |-> "idle", seller |-> NoSeller, version |-> 1, known |-> FALSE, gone |-> {}]

NoSession == [status |-> "none", poll |-> "idle", products |-> {}, skus |-> {}]

Message == [seller : Sellers, version : Versions] \cup {NoMessage}

Handling == [pc : {"idle", "looked", "stored", "replaced"}, seller : Sellers \cup {NoSeller},
             version : Versions, known : BOOLEAN, gone : SUBSET Batches]

Session == [status : {"none", "pending", "results", "expired"}, poll : {"idle", "products"},
            products : SUBSET Batches, skus : SUBSET Batches]

TypeOK ==
    /\ catalog \in [Sellers -> Versions]
    /\ net \in [Slots -> Message]
    /\ store \subseteq Sellers
    /\ mirror \in [Sellers -> SUBSET Batches]
    /\ lock \in [Sellers -> Handlers \cup {NoSeller}]
    /\ handler \in [Handlers -> Handling]
    /\ puller \subseteq Sellers
    /\ session \in Session
    /\ quiet \in BOOLEAN

Init ==
    /\ catalog = [s \in Sellers |-> 1]
    /\ net = [i \in Slots |-> NoMessage]
    /\ store = {}
    /\ mirror = [s \in Sellers |-> {}]
    /\ lock = [s \in Sellers |-> NoSeller]
    /\ handler = [h \in Handlers |-> Idle]
    /\ puller = {} /\ session = NoSession /\ quiet = FALSE
-----------------------------------------------------------------------------
(* Sellers and searches.                                                   *)

Free(i) == net[i] = NoMessage

\* A message with the seller's catalogue of now is under way.
Sends(s) ==
    \E i \in Slots : Free(i) /\ net' = [net EXCEPT ![i] = [seller |-> s, version |-> catalog[s]]]

\* A product is written and the catalogue pushed, which may fail.
SellerWrites(s) ==
    /\ ~quiet
    /\ catalog[s] < MaxVersion
    /\ catalog' = [catalog EXCEPT ![s] = @ + 1]
    /\ \/ UNCHANGED net
       \/ \E i \in Slots : Free(i) /\ net' = [net EXCEPT ![i] = [seller |-> s, version |-> catalog'[s]]]
    /\ UNCHANGED <<store, mirror, lock, handler, puller, session, quiet>>

\* A message is lost, or refused by the inbox.
Lost(i) ==
    /\ ~quiet
    /\ ~Free(i)
    /\ net' = [net EXCEPT ![i] = NoMessage]
    /\ UNCHANGED <<catalog, store, mirror, lock, handler, puller, session, quiet>>

\* pull_once(): ask the stores of the mirror; an empty mirror starts with the
\* default seller.
PullStarts ==
    /\ puller = {}
    /\ puller' = IF store = {} THEN {Default} ELSE store
    /\ UNCHANGED <<catalog, net, store, mirror, lock, handler, session, quiet>>

\* A search that fails is passed over until the next round.
PullFails(s) ==
    /\ ~quiet
    /\ s \in puller
    /\ puller' = puller \ {s}
    /\ UNCHANGED <<catalog, net, store, mirror, lock, handler, session, quiet>>

Pull_bug(s) ==  \* the round ends with its first seller
    /\ s \in puller /\ s = (CHOOSE x \in puller : TRUE)
    /\ Sends(s)
    /\ puller' = {}
    /\ UNCHANGED <<catalog, store, mirror, lock, handler, session, quiet>>

Pull(s) ==
    /\ s \in puller
    /\ Sends(s)
    /\ puller' = puller \ {s}
    /\ UNCHANGED <<catalog, store, mirror, lock, handler, session, quiet>>

\* The gateway forwards a search to every seller of the area; one that does
\* not answer keeps no other from it, and the search is acknowledged anyway.
Multicast ==
    /\ ~quiet
    /\ \E found \in SUBSET Sellers :
         /\ found # {} /\ Cardinality(found) <= Cardinality({i \in Slots : Free(i)})
         /\ \E at \in [found -> {i \in Slots : Free(i)}] :
              /\ \A s, t \in found : at[s] = at[t] => s = t
              /\ net' = [i \in Slots |->
                           IF \E s \in found : at[s] = i
                           THEN LET s == CHOOSE x \in found : at[x] = i
                                IN  [seller |-> s, version |-> catalog[s]]
                           ELSE net[i]]
    /\ UNCHANGED <<catalog, store, mirror, lock, handler, puller, session, quiet>>
-----------------------------------------------------------------------------
(* handle_on_search().                                                     *)

\* The message is taken and the store row looked up.
LookUp(h, i) ==
    /\ ~Free(i) /\ handler[h].pc = "idle"
    /\ handler' = [handler EXCEPT ![h] = [pc |-> "looked", seller |-> net[i].seller,
                                          version |-> net[i].version,
                                          known |-> net[i].seller \in store, gone |-> {}]]
    /\ net' = [net EXCEPT ![i] = NoMessage]
    /\ UNCHANGED <<catalog, store, mirror, lock, puller, session, quiet>>

WriteStore_bug(h) ==  \* the store row is not touched before the products
    LET s == handler[h].seller
    IN  /\ handler[h].pc = "looked"
        /\ handler[h].known \/ s \notin store
        /\ handler' = [handler EXCEPT ![h].pc = "stored"]
        /\ UNCHANGED <<catalog, net, store, mirror, lock, puller, session, quiet>>

\* The row is inserted, or flushed with its last_pushed_at before the
\* products are deleted: it stays locked until the commit.
WriteStore(h) ==
    LET s == handler[h].seller
    IN  /\ handler[h].pc = "looked"
        /\ lock[s] = NoSeller
        /\ handler[h].known \/ s \notin store
        /\ lock' = [lock EXCEPT ![s] = h]
        /\ handler' = [handler EXCEPT ![h].pc = "stored"]
        /\ UNCHANGED <<catalog, net, store, mirror, puller, session, quiet>>

\* The row was inserted meanwhile: bpp_id is unique, 500, and the message is
\* given up.
StoreExists(h) ==
    /\ handler[h].pc = "looked"
    /\ ~handler[h].known /\ handler[h].seller \in store
    /\ handler' = [handler EXCEPT ![h] = Idle]
    /\ UNCHANGED <<catalog, net, store, mirror, lock, puller, session, quiet>>

\* The products that the statement sees are deleted, others inserted.
Replace(h) ==
    /\ handler[h].pc = "stored"
    /\ handler' = [handler EXCEPT ![h].pc = "replaced", ![h].gone = mirror[handler[h].seller]]
    /\ UNCHANGED <<catalog, net, store, mirror, lock, puller, session, quiet>>

Commit(h) ==
    LET s == handler[h].seller
    IN  /\ handler[h].pc = "replaced"
        /\ store' = store \cup {s}
        /\ mirror' = [mirror EXCEPT ![s] = (@ \ handler[h].gone)
                                        \cup {[by |-> h, version |-> handler[h].version]}]
        /\ lock' = [lock EXCEPT ![s] = IF @ = h THEN NoSeller ELSE @]
        /\ handler' = [handler EXCEPT ![h] = Idle]
        /\ UNCHANGED <<catalog, net, puller, session, quiet>>
-----------------------------------------------------------------------------
(* A search of the bot.                                                    *)

\* send_search(): a search sent to one seller, or not.
SendSearch == UNCHANGED net \/ \E s \in Sellers : Sends(s)

\* create_search(): a session, and the search.
CreateSearch ==
    /\ Bot /\ ~quiet
    /\ session.status = "none"
    /\ session' = [NoSession EXCEPT !.status = "pending"]
    /\ SendSearch
    /\ UNCHANGED <<catalog, store, mirror, lock, handler, puller, quiet>>

\* get_search_results(): the products of the mirror ...
ReadProducts ==
    /\ session.status \in {"pending", "results"} /\ session.poll = "idle"
    /\ session' = [session EXCEPT !.poll = "products",
                                  !.products = UNION {mirror[s] : s \in Sellers}, !.skus = {}]
    /\ UNCHANGED <<catalog, net, store, mirror, lock, handler, puller, quiet>>

\* ... and, in another statement, the SKUs that refer to them.
ReadSkus ==
    /\ session.poll = "products"
    /\ session' = [session EXCEPT
         !.poll = "idle",
         !.skus = session.products \cap UNION {mirror[s] : s \in Sellers},
         !.status = IF session.products # {} THEN "results" ELSE @]
    /\ UNCHANGED <<catalog, net, store, mirror, lock, handler, puller, quiet>>

\* A poll after the session's end returns nothing.
SearchExpires ==
    /\ session.status \in {"pending", "results"} /\ session.poll = "idle"
    /\ session' = [NoSession EXCEPT !.status = "expired"]
    /\ UNCHANGED <<catalog, net, store, mirror, lock, handler, puller, quiet>>
-----------------------------------------------------------------------------
CalmDown ==
    /\ ~quiet /\ quiet' = TRUE
    /\ UNCHANGED <<catalog, net, store, mirror, lock, handler, puller, session>>

Handle(h) == WriteStore(h) \/ StoreExists(h) \/ Replace(h) \/ Commit(h)

Next ==
    \/ \E s \in Sellers : SellerWrites(s) \/ Pull(s) \/ PullFails(s)
    \/ \E i \in Slots : Lost(i) \/ \E h \in Handlers : LookUp(h, i)
    \/ \E h \in Handlers : Handle(h)
    \/ PullStarts \/ Multicast \/ CreateSearch \/ ReadProducts \/ ReadSkus \/ SearchExpires
    \/ CalmDown

Spec == Init /\ [][Next]_vars

\* The puller makes its rounds, a seller answers a search, messages that are
\* not lost are taken, and waits for a row are served in turn.
Fairness ==
    /\ WF_vars(PullStarts)
    /\ \A s \in Sellers : SF_vars(Pull(s))
    /\ \A i \in Slots : SF_vars(\E h \in Handlers : LookUp(h, i))
    /\ \A h \in Handlers : SF_vars(Handle(h))

FairSpec == Spec /\ Fairness
-----------------------------------------------------------------------------
(* Properties.                                                             *)

\* However many messages of a seller are handled together, the mirror holds
\* one catalogue of it and not the products of several.
OneCatalog == \A s \in Sellers : Cardinality(mirror[s]) <= 1

\* "Safety net for missed push events": once catalogues stop changing, the
\* mirror of every store comes to show the seller's catalogue and stays so,
\* although pushes were lost and old messages arrive after new ones.
PullHeals ==
    \A s \in Sellers :
        <>[](quiet /\ s \in store) => <>[](\A b \in mirror[s] : b.version = catalog[s])
-----------------------------------------------------------------------------
(* The inductive invariant behind OneCatalog.                              *)

\* A handler has a seller as long as it has a message.
HandlesSeller == \A h \in Handlers : handler[h].pc # "idle" => handler[h].seller \in Sellers

\* From the flush of the store row to the commit the row is the handler's.
Writing == {"stored", "replaced"}

RowIsLocked == \A h \in Handlers : handler[h].pc \in Writing => lock[handler[h].seller] = h

\* So that nobody else replaces the products between its two statements, and
\* those it deletes are all there are.
GoneIsAll ==
    \A h \in Handlers : handler[h].pc = "replaced" => handler[h].gone = mirror[handler[h].seller]

OneBatch == \A s \in Sellers : \A b, c \in mirror[s] : b = c

ProductsHaveStore == \A s \in Sellers : mirror[s] # {} => s \in store

MirrorInv ==
    /\ TypeOK /\ HandlesSeller /\ RowIsLocked /\ GoneIsAll /\ OneBatch /\ ProductsHaveStore
=============================================================================
