------------------------------ MODULE LiveProofs ------------------------------
(***************************************************************************)
(* The parts of MCLive keep what their own modules prove: in a behaviour   *)
(* of MCLive the part that is at work behaves as its module says, and      *)
(* stays the one at work.                                                  *)
(***************************************************************************)
EXTENDS MCLive, TLAPS

\* The other parts stand still, and the part at work does not change.
LEMMA PartStays == [Next]_allVars => UNCHANGED part
  BY DEF Next, Beckn, Registered, Mirror, PaidOut, Shipped, allVars

\* The part issue runs as its module says, in its behaviours and in no other.
LEMMA IssueRuns ==
    /\ Spec /\ part = "issue" => Issue!Spec /\ [](part = "issue")
    /\ Spec /\ ~(part = "issue") => []~(part = "issue")
<1>1. part = "issue" /\ Init => Issue!Init
  BY DEF Init, NetworkInit
<1>2. part = "issue" /\ [Next]_allVars => [Issue!Next]_(Issue!vars) /\ (part = "issue")'
  <2>1. ASSUME part = "issue", Next
        PROVE  Issue!Next /\ (part = "issue")'
    BY <2>1 DEF Next, Beckn
  <2>2. ASSUME part = "issue", UNCHANGED allVars
        PROVE  UNCHANGED Issue!vars /\ (part = "issue")'
    BY <2>2 DEF allVars, networkVars, becknVars, Issue!vars, Issue!rows, Issue!locks, Issue!seller
  <2> QED
    BY <2>1, <2>2
<1>3. ~(part = "issue") /\ [Next]_allVars => (~(part = "issue"))'
  BY PartStays
<1>4. Spec /\ part = "issue" => Issue!Spec /\ [](part = "issue")
  BY <1>1, <1>2, PTL DEF Spec, Issue!Spec
<1>5. Spec /\ ~(part = "issue") => []~(part = "issue")
  BY <1>3, PTL DEF Spec
<1> QED
  BY <1>4, <1>5

\* The part update runs as its module says, in its behaviours and in no other.
LEMMA UpdateRuns ==
    /\ Spec /\ part = "update" => Update!Spec /\ [](part = "update")
    /\ Spec /\ ~(part = "update") => []~(part = "update")
<1>1. part = "update" /\ Init => Update!Init
  BY DEF Init, NetworkInit
<1>2. part = "update" /\ [Next]_allVars => [Update!Next]_(Update!vars) /\ (part = "update")'
  <2>1. ASSUME part = "update", Next
        PROVE  Update!Next /\ (part = "update")'
    BY <2>1 DEF Next, Beckn
  <2>2. ASSUME part = "update", UNCHANGED allVars
        PROVE  UNCHANGED Update!vars /\ (part = "update")'
    BY <2>2 DEF allVars, networkVars, becknVars, Update!vars, Update!rows, Update!locks, Update!seller
  <2> QED
    BY <2>1, <2>2
<1>3. ~(part = "update") /\ [Next]_allVars => (~(part = "update"))'
  BY PartStays
<1>4. Spec /\ part = "update" => Update!Spec /\ [](part = "update")
  BY <1>1, <1>2, PTL DEF Spec, Update!Spec
<1>5. Spec /\ ~(part = "update") => []~(part = "update")
  BY <1>3, PTL DEF Spec
<1> QED
  BY <1>4, <1>5

\* The part settle runs as its module says, in its behaviours and in no other.
LEMMA SettleRuns ==
    /\ Spec /\ part = "settle" => Settle!Spec /\ [](part = "settle")
    /\ Spec /\ ~(part = "settle") => []~(part = "settle")
<1>1. part = "settle" /\ Init => Settle!Init
  BY DEF Init, NetworkInit
<1>2. part = "settle" /\ [Next]_allVars => [Settle!Next]_(Settle!vars) /\ (part = "settle")'
  <2>1. ASSUME part = "settle", Next
        PROVE  Settle!Next /\ (part = "settle")'
    BY <2>1 DEF Next, Beckn
  <2>2. ASSUME part = "settle", UNCHANGED allVars
        PROVE  UNCHANGED Settle!vars /\ (part = "settle")'
    BY <2>2 DEF allVars, networkVars, becknVars, Settle!vars, Settle!rows, Settle!locks, Settle!seller
  <2> QED
    BY <2>1, <2>2
<1>3. ~(part = "settle") /\ [Next]_allVars => (~(part = "settle"))'
  BY PartStays
<1>4. Spec /\ part = "settle" => Settle!Spec /\ [](part = "settle")
  BY <1>1, <1>2, PTL DEF Spec, Settle!Spec
<1>5. Spec /\ ~(part = "settle") => []~(part = "settle")
  BY <1>3, PTL DEF Spec
<1> QED
  BY <1>4, <1>5

\* The part rating runs as its module says, in its behaviours and in no other.
LEMMA RatingRuns ==
    /\ Spec /\ part = "rating" => Rating!Spec /\ [](part = "rating")
    /\ Spec /\ ~(part = "rating") => []~(part = "rating")
<1>1. part = "rating" /\ Init => Rating!Init
  BY DEF Init, NetworkInit
<1>2. part = "rating" /\ [Next]_allVars => [Rating!Next]_(Rating!vars) /\ (part = "rating")'
  <2>1. ASSUME part = "rating", Next
        PROVE  Rating!Next /\ (part = "rating")'
    BY <2>1 DEF Next, Beckn
  <2>2. ASSUME part = "rating", UNCHANGED allVars
        PROVE  UNCHANGED Rating!vars /\ (part = "rating")'
    BY <2>2 DEF allVars, networkVars, becknVars, Rating!vars, Rating!rows, Rating!locks, Rating!seller
  <2> QED
    BY <2>1, <2>2
<1>3. ~(part = "rating") /\ [Next]_allVars => (~(part = "rating"))'
  BY PartStays
<1>4. Spec /\ part = "rating" => Rating!Spec /\ [](part = "rating")
  BY <1>1, <1>2, PTL DEF Spec, Rating!Spec
<1>5. Spec /\ ~(part = "rating") => []~(part = "rating")
  BY <1>3, PTL DEF Spec
<1> QED
  BY <1>4, <1>5

\* The part pulled runs as its module says, in its behaviours and in no other.
LEMMA PulledRuns ==
    /\ Spec /\ part = "pulled" => Pulled!Spec /\ [](part = "pulled")
    /\ Spec /\ ~(part = "pulled") => []~(part = "pulled")
<1>1. part = "pulled" /\ Init => Pulled!Init
  BY DEF Init, NetworkInit
<1>2. part = "pulled" /\ [Next]_allVars => [Pulled!Next]_(Pulled!vars) /\ (part = "pulled")'
  <2>1. ASSUME part = "pulled", Next
        PROVE  Pulled!Next /\ (part = "pulled")'
    BY <2>1 DEF Next, Mirror
  <2>2. ASSUME part = "pulled", UNCHANGED allVars
        PROVE  UNCHANGED Pulled!vars /\ (part = "pulled")'
    BY <2>2 DEF allVars, networkVars, mirrorVars, Pulled!vars
  <2> QED
    BY <2>1, <2>2
<1>3. ~(part = "pulled") /\ [Next]_allVars => (~(part = "pulled"))'
  BY PartStays
<1>4. Spec /\ part = "pulled" => Pulled!Spec /\ [](part = "pulled")
  BY <1>1, <1>2, PTL DEF Spec, Pulled!Spec
<1>5. Spec /\ ~(part = "pulled") => []~(part = "pulled")
  BY <1>3, PTL DEF Spec
<1> QED
  BY <1>4, <1>5

\* The part pushed runs as its module says, in its behaviours and in no other.
LEMMA PushedRuns ==
    /\ Spec /\ part = "pushed" => Pushed!Spec /\ [](part = "pushed")
    /\ Spec /\ ~(part = "pushed") => []~(part = "pushed")
<1>1. part = "pushed" /\ Init => Pushed!Init
  BY DEF Init, NetworkInit
<1>2. part = "pushed" /\ [Next]_allVars => [Pushed!Next]_(Pushed!vars) /\ (part = "pushed")'
  <2>1. ASSUME part = "pushed", Next
        PROVE  Pushed!Next /\ (part = "pushed")'
    BY <2>1 DEF Next, Mirror
  <2>2. ASSUME part = "pushed", UNCHANGED allVars
        PROVE  UNCHANGED Pushed!vars /\ (part = "pushed")'
    BY <2>2 DEF allVars, networkVars, mirrorVars, Pushed!vars
  <2> QED
    BY <2>1, <2>2
<1>3. ~(part = "pushed") /\ [Next]_allVars => (~(part = "pushed"))'
  BY PartStays
<1>4. Spec /\ part = "pushed" => Pushed!Spec /\ [](part = "pushed")
  BY <1>1, <1>2, PTL DEF Spec, Pushed!Spec
<1>5. Spec /\ ~(part = "pushed") => []~(part = "pushed")
  BY <1>3, PTL DEF Spec
<1> QED
  BY <1>4, <1>5

\* The part searched runs as its module says, in its behaviours and in no other.
LEMMA SearchedRuns ==
    /\ Spec /\ part = "searched" => Searched!Spec /\ [](part = "searched")
    /\ Spec /\ ~(part = "searched") => []~(part = "searched")
<1>1. part = "searched" /\ Init => Searched!Init
  BY DEF Init, NetworkInit
<1>2. part = "searched" /\ [Next]_allVars => [Searched!Next]_(Searched!vars) /\ (part = "searched")'
  <2>1. ASSUME part = "searched", Next
        PROVE  Searched!Next /\ (part = "searched")'
    BY <2>1 DEF Next, Mirror
  <2>2. ASSUME part = "searched", UNCHANGED allVars
        PROVE  UNCHANGED Searched!vars /\ (part = "searched")'
    BY <2>2 DEF allVars, networkVars, mirrorVars, Searched!vars
  <2> QED
    BY <2>1, <2>2
<1>3. ~(part = "searched") /\ [Next]_allVars => (~(part = "searched"))'
  BY PartStays
<1>4. Spec /\ part = "searched" => Searched!Spec /\ [](part = "searched")
  BY <1>1, <1>2, PTL DEF Spec, Searched!Spec
<1>5. Spec /\ ~(part = "searched") => []~(part = "searched")
  BY <1>3, PTL DEF Spec
<1> QED
  BY <1>4, <1>5

\* The part payout runs as its module says, in its behaviours and in no other.
LEMMA PayoutRuns ==
    /\ Spec /\ part = "payout" => Payout!Spec /\ [](part = "payout")
    /\ Spec /\ ~(part = "payout") => []~(part = "payout")
<1>1. part = "payout" /\ Init => Payout!Init
  BY DEF Init, NetworkInit
<1>2. part = "payout" /\ [Next]_allVars => [Payout!Next]_(Payout!vars) /\ (part = "payout")'
  <2>1. ASSUME part = "payout", Next
        PROVE  Payout!Next /\ (part = "payout")'
    BY <2>1 DEF Next, PaidOut
  <2>2. ASSUME part = "payout", UNCHANGED allVars
        PROVE  UNCHANGED Payout!vars /\ (part = "payout")'
    BY <2>2 DEF allVars, orderVars, escrowVars, Payout!vars
  <2> QED
    BY <2>1, <2>2
<1>3. ~(part = "payout") /\ [Next]_allVars => (~(part = "payout"))'
  BY PartStays
<1>4. Spec /\ part = "payout" => Payout!Spec /\ [](part = "payout")
  BY <1>1, <1>2, PTL DEF Spec, Payout!Spec
<1>5. Spec /\ ~(part = "payout") => []~(part = "payout")
  BY <1>3, PTL DEF Spec
<1> QED
  BY <1>4, <1>5

\* The part ship runs as its module says, in its behaviours and in no other.
LEMMA ShipRuns ==
    /\ Spec /\ part = "ship" => Ship!Spec /\ [](part = "ship")
    /\ Spec /\ ~(part = "ship") => []~(part = "ship")
<1>1. part = "ship" /\ Init => Ship!Init
  BY DEF Init, NetworkInit
<1>2. part = "ship" /\ [Next]_allVars => [Ship!Next]_(Ship!vars) /\ (part = "ship")'
  <2>1. ASSUME part = "ship", Next
        PROVE  Ship!Next /\ (part = "ship")'
    BY <2>1 DEF Next, Shipped
  <2>2. ASSUME part = "ship", UNCHANGED allVars
        PROVE  UNCHANGED Ship!vars /\ (part = "ship")'
    BY <2>2 DEF allVars, orderVars, shipVars, Ship!vars
  <2> QED
    BY <2>1, <2>2
<1>3. ~(part = "ship") /\ [Next]_allVars => (~(part = "ship"))'
  BY PartStays
<1>4. Spec /\ part = "ship" => Ship!Spec /\ [](part = "ship")
  BY <1>1, <1>2, PTL DEF Spec, Ship!Spec
<1>5. Spec /\ ~(part = "ship") => []~(part = "ship")
  BY <1>3, PTL DEF Spec
<1> QED
  BY <1>4, <1>5

\* The part registry runs as its module says, in its behaviours and in no other.
LEMMA NetRuns ==
    /\ Spec /\ part = "registry" => Net!Spec /\ [](part = "registry")
    /\ Spec /\ ~(part = "registry") => []~(part = "registry")
<1>1. part = "registry" /\ Init => Net!Init
  BY DEF Init, NetworkInit
<1>2. part = "registry" /\ [Next]_allVars => [Net!Next]_(Net!vars) /\ (part = "registry")'
  <2>1. ASSUME part = "registry", Next
        PROVE  Net!Next /\ (part = "registry")'
    BY <2>1 DEF Next, Registered
  <2>2. ASSUME part = "registry", UNCHANGED allVars
        PROVE  UNCHANGED Net!vars /\ (part = "registry")'
    BY <2>2 DEF allVars, networkVars, registryVars, Net!vars
  <2> QED
    BY <2>1, <2>2
<1>3. ~(part = "registry") /\ [Next]_allVars => (~(part = "registry"))'
  BY PartStays
<1>4. Spec /\ part = "registry" => Net!Spec /\ [](part = "registry")
  BY <1>1, <1>2, PTL DEF Spec, Net!Spec
<1>5. Spec /\ ~(part = "registry") => []~(part = "registry")
  BY <1>3, PTL DEF Spec
<1> QED
  BY <1>4, <1>5

\* A message of the seller takes effect at most once in each of the four parts of
\* Beckn, and an ACK means it did.
THEOREM AppliedOnceHolds == Spec => []AppliedOnce
<1>1. /\ Issue!Spec => []Issue!AppliedOnce
      /\ Update!Spec => []Update!AppliedOnce
      /\ Settle!Spec => []Settle!AppliedOnce
      /\ Rating!Spec => []Rating!AppliedOnce
  BY Constants, Issue!AppliedOnceHolds, Update!AppliedOnceHolds, Settle!AppliedOnceHolds,
     Rating!AppliedOnceHolds
<1>2. Spec => [](part = "issue" => Issue!AppliedOnce)
  BY <1>1, IssueRuns, PTL
<1>3. Spec => [](part = "update" => Update!AppliedOnce)
  BY <1>1, UpdateRuns, PTL
<1>4. Spec => [](part = "settle" => Settle!AppliedOnce)
  BY <1>1, SettleRuns, PTL
<1>5. Spec => [](part = "rating" => Rating!AppliedOnce)
  BY <1>1, RatingRuns, PTL
<1> QED
  BY <1>2, <1>3, <1>4, <1>5, PTL DEF AppliedOnce

\* A disputed order has its dispute, unless a carrier's event disputed it, and an
\* issue the seller was told about has its row.
THEOREM DisputedHasRowHolds == Spec => []DisputedHasRow
<1>1. /\ Issue!Spec => []Issue!DisputedHasRow
      /\ Issue!Spec => []Issue!IssueHasRow
      /\ Update!Spec => []Update!DisputedHasRow
  BY Constants, Issue!DisputedHasRowHolds, Issue!IssueHasRowHolds, Update!DisputedHasRowHolds
<1>2. Spec => [](part = "issue" => Issue!DisputedHasRow /\ Issue!IssueHasRow)
  BY <1>1, IssueRuns, PTL
<1>3. Spec => [](part = "update" => Update!DisputedHasRow)
  BY <1>1, UpdateRuns, PTL
<1> QED
  BY <1>2, <1>3, PTL DEF DisputedHasRow

\* A dispute that ended in a refund belongs to an order that is refunded, unless
\* the rest of the service wrote over the refund from an old copy.
THEOREM RefundRecordedHolds == Spec => []RefundRecorded
<1>1. /\ Issue!Spec => []Issue!RefundRecorded
      /\ Update!Spec => []Update!RefundRecorded
  BY Constants, Issue!RefundRecordedHolds, Update!RefundRecordedHolds
<1>2. Spec => [](part = "issue" => Issue!RefundRecorded)
  BY <1>1, IssueRuns, PTL
<1>3. Spec => [](part = "update" => Update!RefundRecorded)
  BY <1>1, UpdateRuns, PTL
<1> QED
  BY <1>2, <1>3, PTL DEF RefundRecorded

\* The mirror holds one catalogue of a seller in each of its three parts.
THEOREM OneCatalogHolds == Spec => []OneCatalog
<1>1. /\ Pulled!Spec => []Pulled!OneCatalog
      /\ Pushed!Spec => []Pushed!OneCatalog
      /\ Searched!Spec => []Searched!OneCatalog
  BY Constants, Pulled!OneCatalogHolds, Pushed!OneCatalogHolds, Searched!OneCatalogHolds
<1>2. Spec => [](part = "pulled" => Pulled!OneCatalog)
  BY <1>1, PulledRuns, PTL
<1>3. Spec => [](part = "pushed" => Pushed!OneCatalog)
  BY <1>1, PushedRuns, PTL
<1>4. Spec => [](part = "searched" => Searched!OneCatalog)
  BY <1>1, SearchedRuns, PTL
<1> QED
  BY <1>2, <1>3, <1>4, PTL DEF OneCatalog

\* The registry's rows, caches and look-ups keep their types.
LEMMA NetTyped == Net!Spec => []Net!TypeOK
<1> USE DEF Net!Versions, Net!Entries, Net!Nothing, Net!Queries, Net!Askers
<1>1. Net!Init => Net!TypeOK
  <2>1. 0 \in Net!Versions /\ Net!Nothing \in Net!Entries /\ "gateway" \in Net!Askers
    OBVIOUS
  <2>2. Net!NoLookup \in [pc : {"idle", "asked", "read", "answered"},
                          asker : Net!Askers, version : Net!Versions]
    BY <2>1 DEF Net!NoLookup
  <2> HIDE DEF Net!Versions, Net!Entries, Net!Nothing, Net!Queries, Net!Askers
  <2> QED
    BY <2>1, <2>2 DEF Net!Init, Net!TypeOK
<1>2. Net!TypeOK /\ [Net!Next]_(Net!vars) => Net!TypeOK'
  <2> SUFFICES ASSUME Net!TypeOK, [Net!Next]_(Net!vars) PROVE Net!TypeOK'
    OBVIOUS
  <2> USE DEF Net!TypeOK
  <2>1. ASSUME NEW a \in {r1}, Net!SubscribeCheck(a) \/ Net!Delete(a) \/ Net!Change(a)
        PROVE  Net!TypeOK'
    <3>1. CASE Net!SubscribeCheck(a) \/ Net!Delete(a)
      BY <3>1 DEF Net!SubscribeCheck, Net!Delete
    <3>2. CASE Net!Change(a)
      BY <3>2 DEF Net!Change, Net!SubscribeCommit, Net!SubscribeFails, Net!InvalidateCache
    <3> QED
      BY <2>1, <3>1, <3>2
  <2>2. ASSUME NEW l \in {r1}, Net!Step(l) \/ Net!AskFails(l) \/ \E k \in Net!Askers : Net!Ask(l, k)
        PROVE  Net!TypeOK'
    <3>0. /\ lookup[l] \in [pc : {"idle", "asked", "read", "answered"},
                            asker : Net!Askers, version : Net!Versions]
          /\ Net!CacheKey(lookup[l].asker) \in Net!Queries
      BY DEF Net!CacheKey
    <3>1. ASSUME NEW k \in Net!Askers, Net!Ask(l, k)
          PROVE  Net!TypeOK'
      BY <3>1 DEF Net!Ask
    <3>2. ASSUME NEW pc \in {"idle", "asked", "read", "answered"}, NEW v \in Net!Versions,
                 Net!Goto(l, pc, v)
          PROVE  lookup' \in [{r1} -> [pc : {"idle", "asked", "read", "answered"},
                                       asker : Net!Askers, version : Net!Versions]]
      BY <3>2 DEF Net!Goto
    <3>3. CASE Net!CacheHit(l)
      <4>1. answers[Net!CacheKey(lookup[l].asker)] \in Net!Versions
        BY <3>0, <3>3 DEF Net!CacheHit
      <4> QED
        BY <3>2, <3>3, <4>1 DEF Net!CacheHit
    <3>4. CASE Net!ReadTable(l)
      BY <3>2, <3>4 DEF Net!ReadTable
    <3>5. CASE Net!KeepAnswer(l)
      BY <3>0, <3>2, <3>5 DEF Net!KeepAnswer
    <3>6. ASSUME NEW v \in Net!Versions, Net!Got(l, v)
          PROVE  Net!TypeOK'
      BY <3>0, <3>2, <3>6 DEF Net!Got
    <3>7. CASE Net!ClientAnswer(l) \/ Net!GatewayAnswer(l) \/ Net!AskFails(l)
      BY <3>0, <3>6, <3>7 DEF Net!ClientAnswer, Net!GatewayAnswer, Net!AskFails
    <3> QED
      BY <2>2, <3>1, <3>3, <3>4, <3>5, <3>7 DEF Net!Step
  <2>3. ASSUME NEW k \in Net!Askers, Net!Expire(k)
        PROVE  Net!TypeOK'
    BY <2>3 DEF Net!Expire
  <2>4. ASSUME NEW q \in Net!Queries, Net!ExpireAnswer(q)
        PROVE  Net!TypeOK'
    BY <2>4 DEF Net!ExpireAnswer
  <2>5. CASE Net!CalmDown \/ UNCHANGED Net!vars
    BY <2>5 DEF Net!CalmDown, Net!vars
  <2> QED
    BY <2>1, <2>2, <2>3, <2>4, <2>5 DEF Net!Next
<1> QED
  BY <1>1, <1>2, PTL DEF Net!Spec

\* The payout's and the shipment's variables keep their types.
LEMMA PayoutTyped == Payout!Spec => []Payout!TypeOK
<1>1. /\ PayoutRace \subseteq Payout!Handlers
      /\ {"lost_answer"} \subseteq Payout!FaultKinds
  BY DEF PayoutRace, Payout!Handlers, Payout!ReleaseHandlers, Payout!FaultKinds
<1>2. NoReq \notin Requests /\ NoMsg \notin Requests \cup {m2} \cup {m1}
  BY Names
<1> QED
  BY <1>1, <1>2, Payout!TypeCorrect

LEMMA ShipTyped == Ship!Spec => []Ship!TypeOK
<1>1. /\ {s1} \cap {s2} = {} /\ NoReq \notin Requests /\ NoSeller \notin Ship!Bookings
      /\ own \notin Ship!Bookings \cup {NoSeller} /\ {{}} \subseteq SUBSET Ship!FaultKinds
  BY Names DEF Ship!Bookings, Sellers
<1> QED
  BY <1>1, Ship!TypeCorrect

\* Whichever part is at work, its variables hold what rows, requests and messages
\* of the code hold.
THEOREM TypeOKHolds == Spec => []TypeOK
<1>1. /\ Issue!Spec => []Issue!TypeOK
      /\ Update!Spec => []Update!TypeOK
      /\ Settle!Spec => []Settle!TypeOK
      /\ Rating!Spec => []Rating!TypeOK
  BY Constants, Issue!TypeOKHolds, Update!TypeOKHolds, Settle!TypeOKHolds, Rating!TypeOKHolds
<1>2. /\ Pulled!Spec => []Pulled!TypeOK
      /\ Pushed!Spec => []Pushed!TypeOK
      /\ Searched!Spec => []Searched!TypeOK
  BY Constants, Pulled!TypeOKHolds, Pushed!TypeOKHolds, Searched!TypeOKHolds
<1>3. Spec => []((part = "issue" => Issue!TypeOK) /\ (part = "update" => Update!TypeOK))
  BY <1>1, IssueRuns, UpdateRuns, PTL
<1>4. Spec => []((part = "settle" => Settle!TypeOK) /\ (part = "rating" => Rating!TypeOK))
  BY <1>1, SettleRuns, RatingRuns, PTL
<1>5. Spec => []((part = "registry" => Net!TypeOK) /\ (part = "pulled" => Pulled!TypeOK))
  BY <1>2, NetTyped, NetRuns, PulledRuns, PTL
<1>6. Spec => []((part = "pushed" => Pushed!TypeOK) /\ (part = "searched" => Searched!TypeOK))
  BY <1>2, PushedRuns, SearchedRuns, PTL
<1>7. Spec => []((part = "payout" => Payout!TypeOK) /\ (part = "ship" => Ship!TypeOK))
  BY PayoutTyped, ShipTyped, PayoutRuns, ShipRuns, PTL
<1> QED
  BY <1>3, <1>4, <1>5, <1>6, <1>7, PTL DEF TypeOK
===============================================================================
