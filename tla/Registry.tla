------------------------------ MODULE Registry ------------------------------
(***************************************************************************)
(* How the network knows a seller: the registry's row for it, its cache of *)
(* answers, and the caches of those who ask.                               *)
(*                                                                         *)
(* A seller changes its key and URL by being removed and registered again; *)
(* a version stands for what one registration holds, 0 for no row.  The    *)
(* registry answers by id and by domain and city, from Redis or from its   *)
(* table.  The gateway asks by domain and city.  The BAP asks by id, in    *)
(* two copies of one client: the inbox for keys that verify a signature,   *)
(* the outbound for URLs.                                                  *)
(***************************************************************************)
EXTENDS Naturals

CONSTANTS
    Clients,      \* clients of the BAP: the inbox's and the outbound's
    Lookups,      \* look-ups that can be under way together
    Admins,       \* registrations and removals under way together
    MaxVersion,   \* bound: registrations of the seller
    Static,       \* the version in the static file of the clients, 0 for none
    Faults        \* what may go wrong until the network is quiet

FaultKinds == {"registry_down", "redis_down"}

RegistryConstants ==
    /\ Clients \subseteq {"inbox", "outbound"}
    /\ MaxVersion \in Nat /\ Static \in 0..MaxVersion
    /\ Faults \subseteq FaultKinds

VARIABLES
    row,      \* the subscribers row: a version, or 0
    last,     \* the last version that was registered
    admin,    \* registrations and removals: what step they have reached
    answers,  \* Redis: the answer kept for a query
    caches,   \* each asker's own cache
    lookup,   \* look-ups under way
    quiet     \* nobody registers or removes any more, and nothing fails

vars == <<row, last, admin, answers, caches, lookup, quiet>>

Versions == 0..MaxVersion
Nothing  == MaxVersion + 1          \* no entry in a cache
Entries  == 0..(MaxVersion + 1)

Queries == {"by_id", "by_area"}
Askers  == Clients \cup {"gateway"}

\* The query in an asker's request, and with it the key in Redis.
CacheKey(asker) == IF asker = "gateway" THEN "by_area" ELSE "by_id"

NoLookup == [pc |-> "idle", asker |-> "gateway", version |-> 0]

TypeOK ==
    /\ row \in Versions /\ last \in Versions
    /\ admin \in [Admins -> {"idle", "checked", "changed"}]
    /\ answers \in [Queries -> Entries]
    /\ caches \in [Askers -> Entries]
    /\ lookup \in [Lookups -> [pc : {"idle", "asked", "read", "answered"},
                               asker : Askers, version : Versions]]
    /\ quiet \in BOOLEAN

Init ==
    /\ row = 0 /\ last = 0
    /\ admin = [a \in Admins |-> "idle"]
    /\ answers = [q \in Queries |-> Nothing]
    /\ caches = [k \in Askers |-> Nothing]
    /\ lookup = [l \in Lookups |-> NoLookup]
    /\ quiet = FALSE
-----------------------------------------------------------------------------
(* The registry's table.                                                   *)

\* subscribe(): no row of this id is found; with one it is a 409.
SubscribeCheck(a) ==
    /\ ~quiet
    /\ admin[a] = "idle"
    /\ row = 0
    /\ admin' = [admin EXCEPT ![a] = "checked"]
    /\ UNCHANGED <<row, last, answers, caches, lookup, quiet>>

\* The insert; subscriber_id is unique.
SubscribeCommit(a) ==
    /\ admin[a] = "checked"
    /\ row = 0 /\ last < MaxVersion
    /\ row' = last + 1 /\ last' = last + 1
    /\ admin' = [admin EXCEPT ![a] = "changed"]
    /\ UNCHANGED <<answers, caches, lookup, quiet>>

\* Another registration came first: 500.
SubscribeFails(a) ==
    /\ admin[a] = "checked"
    /\ row # 0 \/ last = MaxVersion
    /\ admin' = [admin EXCEPT ![a] = "idle"]
    /\ UNCHANGED <<row, last, answers, caches, lookup, quiet>>

\* delete_subscriber(); without a row it is a 404.
Delete(a) ==
    /\ ~quiet
    /\ admin[a] = "idle"
    /\ row # 0
    /\ row' = 0
    /\ admin' = [admin EXCEPT ![a] = "changed"]
    /\ UNCHANGED <<last, answers, caches, lookup, quiet>>

\* _invalidate_cache() after the commit; Redis can fail, which is logged.
InvalidateCache(a) ==
    /\ admin[a] = "changed"
    /\ answers' \in {[q \in Queries |-> Nothing]}
         \cup (IF "redis_down" \in Faults /\ ~quiet THEN {answers} ELSE {})
    /\ admin' = [admin EXCEPT ![a] = "idle"]
    /\ UNCHANGED <<row, last, caches, lookup, quiet>>
-----------------------------------------------------------------------------
(* A look-up.                                                              *)

At(l, pc) == lookup[l].pc = pc

Goto(l, pc, version) ==
    lookup' = [lookup EXCEPT ![l].pc = pc, ![l].version = version]

\* The asker's own cache has nothing.
Ask(l, asker) ==
    /\ At(l, "idle")
    /\ caches[asker] = Nothing
    /\ lookup' = [lookup EXCEPT ![l] = [pc |-> "asked", asker |-> asker, version |-> 0]]
    /\ UNCHANGED <<row, last, admin, answers, caches, quiet>>

\* lookup() of the registry: an answer is kept, also "nobody" ...
CacheHit(l) ==
    LET kept == answers[CacheKey(lookup[l].asker)]
    IN  /\ At(l, "asked")
        /\ kept # Nothing
        /\ Goto(l, "answered", kept)
        /\ UNCHANGED <<row, last, admin, answers, caches, quiet>>

\* ... or the table is read, also when Redis fails ...
ReadTable(l) ==
    /\ At(l, "asked")
    /\ \/ answers[CacheKey(lookup[l].asker)] = Nothing
       \/ "redis_down" \in Faults /\ ~quiet
    /\ Goto(l, "read", row)
    /\ UNCHANGED <<row, last, admin, answers, caches, quiet>>

\* ... and the answer kept, whatever became of the row meanwhile.
KeepAnswer(l) ==
    /\ At(l, "read")
    /\ \/ answers' = [answers EXCEPT ![CacheKey(lookup[l].asker)] = lookup[l].version]
       \/ "redis_down" \in Faults /\ ~quiet /\ UNCHANGED answers
    /\ Goto(l, "answered", lookup[l].version)
    /\ UNCHANGED <<row, last, admin, caches, quiet>>

\* What an asker gets, it keeps; a client keeps what its static file says too.
Got(l, version) ==
    LET asker == lookup[l].asker
    IN  /\ caches' = IF version = 0 THEN caches ELSE [caches EXCEPT ![asker] = version]
        /\ Goto(l, "idle", 0)
        /\ UNCHANGED <<row, last, admin, answers, quiet>>

\* RegistryClient.lookup(): a subscriber the registry does not name is looked
\* up in the static file.
ClientAnswer(l) ==
    /\ At(l, "answered") /\ lookup[l].asker \in Clients
    /\ Got(l, IF lookup[l].version = 0 THEN Static ELSE lookup[l].version)

\* _lookup_bpps() of the gateway: an empty answer is not kept.
GatewayAnswer(l) ==
    /\ At(l, "answered") /\ lookup[l].asker = "gateway"
    /\ Got(l, lookup[l].version)

\* No answer of the registry: the clients use the static file, and the gateway
\* answers 502.
AskFails(l) ==
    /\ "registry_down" \in Faults /\ ~quiet
    /\ At(l, "asked")
    /\ Got(l, IF lookup[l].asker \in Clients THEN Static ELSE 0)

Expire_bug(asker) ==  \* an entry in use is kept
    /\ caches[asker] # Nothing /\ asker \notin Clients
    /\ caches' = [caches EXCEPT ![asker] = Nothing]
    /\ UNCHANGED <<row, last, admin, answers, lookup, quiet>>

\* The clients keep an entry for 60 seconds: nothing gives them a Redis, and
\* nobody calls invalidate().
Expire(asker) ==
    /\ caches[asker] # Nothing
    /\ caches' = [caches EXCEPT ![asker] = Nothing]
    /\ UNCHANGED <<row, last, admin, answers, lookup, quiet>>

ExpireAnswer(q) ==
    /\ answers[q] # Nothing
    /\ answers' = [answers EXCEPT ![q] = Nothing]
    /\ UNCHANGED <<row, last, admin, caches, lookup, quiet>>
-----------------------------------------------------------------------------
Change(a) == SubscribeCommit(a) \/ SubscribeFails(a) \/ InvalidateCache(a)

Step(l) == CacheHit(l) \/ ReadTable(l) \/ KeepAnswer(l) \/ ClientAnswer(l) \/ GatewayAnswer(l)

CalmDown == ~quiet /\ quiet' = TRUE
            /\ UNCHANGED <<row, last, admin, answers, caches, lookup>>

Next ==
    \/ \E a \in Admins : SubscribeCheck(a) \/ Delete(a) \/ Change(a)
    \/ \E l \in Lookups : Step(l) \/ AskFails(l) \/ \E k \in Askers : Ask(l, k)
    \/ \E k \in Askers : Expire(k)
    \/ \E q \in Queries : ExpireAnswer(q)
    \/ CalmDown

Spec == Init /\ [][Next]_vars

\* Requests end, and entries of a cache reach their age.
Fairness ==
    /\ \A a \in Admins : WF_vars(Change(a))
    /\ \A l \in Lookups : WF_vars(Step(l))
    /\ \A k \in Askers : WF_vars(Expire(k))
    /\ \A q \in Queries : WF_vars(ExpireAnswer(q))

FairSpec == Spec /\ Fairness
-----------------------------------------------------------------------------
(* Properties.                                                             *)

Settled == quiet /\ \A a \in Admins : admin[a] = "idle"

\* What an asker may keep of the row: with none, what the static file says.
TrueEntry(asker) ==
    {Nothing, row} \cup (IF row = 0 /\ asker \in Clients THEN {Static} ELSE {})

\* Once nobody registers or removes any more, which is for good, nobody goes on using a key or a
\* URL that the registry has replaced: every cache comes to agree with the
\* registry's row, whatever the caches that were filled in between say.
CachesConverge ==
    <>[]Settled => <>[](\A k \in Askers : caches[k] \in TrueEntry(k))
=============================================================================
