---------------------------- MODULE InvoicesProofs ----------------------------
(***************************************************************************)
(* Theorems about Invoices, for every set of requests, webhook handlers,   *)
(* providers and faults.                                                   *)
(***************************************************************************)
EXTENDS Invoices, TLAPS

USE DEF Quiet, Calling
-----------------------------------------------------------------------------
(* What the provider's answers make of a snapshot.                         *)

\* Two invoices of one provider that takes its reference from the order are one.
LEMMA KeyedOnce ==
    ASSUME InvoiceConstants
    PROVE  /\ \A i \in Invoice : i[1] \in Providers /\ i = <<i[1], i[2]>>
           /\ \A i, j \in Invoice : Keyed(i[1]) /\ i[1] = j[1] => i = j
           /\ NoInvoice \notin Invoice
           /\ \A p \in Providers : Keyed(p) => <<p, 1>> \in Invoice
           /\ \A p \in Providers, k \in 1..MaxMints : ~Keyed(p) => <<p, k>> \in Invoice
  BY DEF InvoiceConstants, Invoice, NoInvoice, Keyed

\* Every snapshot that a handler makes of one is a snapshot.
LEMMA SnapshotTypes ==
    ASSUME InvoiceConstants, NEW s \in Snapshot
    PROVE  /\ "dipay" \in Providers =>
                /\ Reserved(s) \in Snapshot /\ Sound(Reserved(s))
                /\ "dipay" \in Reserved(s).keys
           /\ [s EXCEPT !.status = "failed"] \in Snapshot
           /\ Sound(s) => Sound([s EXCEPT !.status = "failed"])
           /\ [s EXCEPT !.status = "failed"].keys = s.keys
<1>1. ASSUME "dipay" \in Providers
      PROVE  /\ Reserved(s) \in Snapshot /\ Sound(Reserved(s))
             /\ "dipay" \in Reserved(s).keys
  <2>1. <<"dipay", 1>> \in Invoice
    BY <1>1, KeyedOnce DEF Keyed
  <2>2. Reserved(s) \in Snapshot
    BY <1>1, <2>1 DEF Reserved, Snapshot
  <2>3. /\ Reserved(s).keys = s.keys \cup {"dipay"} /\ Reserved(s).qr = FALSE
        /\ Reserved(s).id = <<"dipay", 1>>
    BY DEF Reserved, Snapshot
  <2> QED
    BY <2>2, <2>3 DEF Sound
<1>2. /\ [s EXCEPT !.status = "failed"] \in Snapshot
      /\ [s EXCEPT !.status = "failed"].keys = s.keys
      /\ [s EXCEPT !.status = "failed"].id = s.id
      /\ [s EXCEPT !.status = "failed"].qr = s.qr
  BY DEF Snapshot
<1> QED
  BY <1>1, <1>2 DEF Sound

\* An answer keeps the references there are, and adds what the webhook needs.
LEMMA AnsweredTypes ==
    ASSUME InvoiceConstants, NEW r \in Requests, ask[r] \in Asking,
           Sound(ask[r].copy), ask[r].by \in Providers,
           ask[r].minted \in Invoice, ask[r].minted[1] = ask[r].by,
           ask[r].by = "dipay" => "dipay" \in ask[r].copy.keys
    PROVE  /\ Answered(r) \in Snapshot /\ Sound(Answered(r))
           /\ "dipay" \in Answered(r).keys <=> "dipay" \in ask[r].copy.keys
<1> DEFINE s == ask[r].copy
           i == ask[r].minted
<1>0. s \in Snapshot /\ ask[r].by \in {"xendit", "oy", "sento", "dipay"}
  BY DEF Asking, InvoiceConstants
<1>1. CASE ask[r].by = "dipay"
  <2>1. Answered(r) = DipayAnswered(s)
    BY <1>1 DEF Answered
  <2>2. /\ DipayAnswered(s) \in Snapshot /\ DipayAnswered(s).keys = s.keys
        /\ DipayAnswered(s).id = s.id
    BY <1>0, <1>1 DEF DipayAnswered, Shown, Snapshot
  <2> QED
    BY <1>1, <2>1, <2>2 DEF Sound
<1>2. CASE ask[r].by = "sento"
  <2>1. Answered(r) = SentoAnswered(s, i)
    BY <1>2 DEF Answered
  <2>2. /\ SentoAnswered(s, i) \in Snapshot
        /\ SentoAnswered(s, i).keys = s.keys \cup {"sento"} /\ SentoAnswered(s, i).qr = s.qr
    BY <1>0, <1>2 DEF SentoAnswered, Shown, Snapshot
  <2> QED
    BY <2>1, <2>2 DEF Sound
<1>3. CASE ask[r].by = "oy"
  <2>1. Answered(r) = OyAnswered(s, i)
    BY <1>3 DEF Answered
  <2>2. /\ OyAnswered(s, i) \in Snapshot /\ OyAnswered(s, i).id = i
        /\ OyAnswered(s, i).keys = s.keys /\ OyAnswered(s, i).qr = s.qr
    BY <1>0, <1>3 DEF OyAnswered, Shown, Snapshot
  <2> QED
    BY <1>3, <2>1, <2>2 DEF Sound
<1>4. CASE ask[r].by = "xendit"
  <2>1. Answered(r) = XenditAnswered(s, i)
    BY <1>4 DEF Answered
  <2>2. /\ XenditAnswered(s, i) \in Snapshot /\ XenditAnswered(s, i).id = i
        /\ XenditAnswered(s, i).keys = s.keys /\ XenditAnswered(s, i).qr = s.qr
    BY <1>0, <1>4 DEF XenditAnswered, Shown, Snapshot
  <2> QED
    BY <1>4, <2>1, <2>2 DEF Sound
<1> QED
  BY <1>0, <1>1, <1>2, <1>3, <1>4
-----------------------------------------------------------------------------
(* A step of one request.                                                  *)

\* What a step of request r to the row x has to see to.
Fits(r, x) ==
    /\ x \in Asking /\ AskOf(x) /\ CopyOf(x)
    /\ "switch_midway" \notin Faults => x.by \in {"none", brand}
    /\ snap' \in Snapshot /\ Sound(snap')
    /\ inv' \in [Invoice -> {"none", "open", "paid", "expired"}]
    /\ \A i \in Invoice : inv'[i] # inv[i] => inv[i] = "none"
    /\ KeepsReference =>
         /\ x.by = "dipay" /\ x.pc \in Calling => "dipay" \in snap'.keys
         /\ "dipay" \in snap.keys => "dipay" \in snap'.keys
         /\ \A i \in Invoice : inv'[i] # inv[i] /\ i[1] = "dipay" => "dipay" \in snap.keys
         /\ brand # "dipay" =>
              /\ "dipay" \in snap'.keys <=> "dipay" \in snap.keys
              /\ x.pc # "idle" => ("dipay" \in x.copy.keys <=> "dipay" \in snap.keys)

LEMMA RequestStep ==
    ASSUME InvoicesInv, NEW r \in Requests, NEW x, Fits(r, x),
           ask' = [ask EXCEPT ![r] = x],
           UNCHANGED <<brand, state, note, acked, held, returned>>
    PROVE  InvoicesInv'
<1> USE DEF InvoicesInv
<1>0. /\ ask' \in [Requests -> Asking] /\ ask'[r] = x
      /\ \A q \in Requests : q # r => ask'[q] = ask[q]
  BY DEF TypeOK, Fits
<1>1. TypeOK'
  BY <1>0 DEF TypeOK, Fits
<1>2. AskInv' /\ SnapInv' /\ SwitchInv'
  BY <1>0 DEF AskInv, SnapInv, SwitchInv, Fits, AskOf, CopyOf
<1>3. ReservedInv'
  <2> SUFFICES ASSUME KeepsReference
               PROVE  /\ \A q \in Requests :
                           ask'[q].by = "dipay" /\ ask'[q].pc \in Calling =>
                              "dipay" \in snap'.keys
                      /\ \A i \in Invoice : i[1] = "dipay" /\ inv'[i] # "none" =>
                              "dipay" \in snap'.keys
                      /\ brand # "dipay" =>
                           \A q \in Requests : ask'[q].pc # "idle" =>
                              ("dipay" \in ask'[q].copy.keys <=> "dipay" \in snap'.keys)
    BY DEF ReservedInv, KeepsReference
  <2>1. /\ x.by = "dipay" /\ x.pc \in Calling => "dipay" \in snap'.keys
        /\ "dipay" \in snap.keys => "dipay" \in snap'.keys
        /\ \A i \in Invoice : inv'[i] # inv[i] /\ i[1] = "dipay" => "dipay" \in snap.keys
        /\ brand # "dipay" =>
              /\ "dipay" \in snap'.keys <=> "dipay" \in snap.keys
              /\ x.pc # "idle" => ("dipay" \in x.copy.keys <=> "dipay" \in snap.keys)
    BY DEF Fits
  <2>2. /\ \A q \in Requests :
              ask[q].by = "dipay" /\ ask[q].pc \in Calling => "dipay" \in snap.keys
        /\ \A i \in Invoice : i[1] = "dipay" /\ inv[i] # "none" => "dipay" \in snap.keys
        /\ brand # "dipay" =>
              \A q \in Requests : ask[q].pc # "idle" =>
                  ("dipay" \in ask[q].copy.keys <=> "dipay" \in snap.keys)
    BY DEF ReservedInv
  <2>3. \A q \in Requests :
           ask'[q].by = "dipay" /\ ask'[q].pc \in Calling => "dipay" \in snap'.keys
    BY <1>0, <2>1, <2>2
  <2>4. \A i \in Invoice : i[1] = "dipay" /\ inv'[i] # "none" => "dipay" \in snap'.keys
    BY <2>1, <2>2
  <2>5. brand # "dipay" =>
           \A q \in Requests : ask'[q].pc # "idle" =>
              ("dipay" \in ask'[q].copy.keys <=> "dipay" \in snap'.keys)
    BY <1>0, <2>1, <2>2
  <2> QED
    BY <2>3, <2>4, <2>5
<1>4. NoteInv'
  <2> SUFFICES ASSUME NEW n \in Notices PROVE NoteOf(note[n])'
    BY DEF NoteInv, TypeOK
  <2>1. NoteOf(note[n])
    BY DEF NoteInv
  <2> QED
    BY <2>1 DEF NoteOf, Fits
<1>5. StaleInv' /\ ReturnedInv'
  BY DEF StaleInv, StaleOf, OneKeyed, ReturnedInv
<1> QED
  BY <1>1, <1>2, <1>3, <1>4, <1>5

\* What the invariant says of one request.
LEMMA RequestHas ==
    ASSUME InvoicesInv, NEW r \in Requests
    PROVE  /\ ask[r] \in Asking /\ AskOf(ask[r]) /\ CopyOf(ask[r])
           /\ ask[r].copy \in Snapshot /\ Sound(ask[r].copy)
           /\ "switch_midway" \notin Faults => ask[r].by \in {"none", brand}
           /\ snap \in Snapshot /\ Sound(snap)
           /\ inv \in [Invoice -> {"none", "open", "paid", "expired"}]
           /\ KeepsReference =>
                /\ ask[r].by = "dipay" /\ ask[r].pc \in Calling => "dipay" \in snap.keys
                /\ brand # "dipay" /\ ask[r].pc # "idle" =>
                      ("dipay" \in ask[r].copy.keys <=> "dipay" \in snap.keys)
           /\ brand \in Providers
  BY DEF InvoicesInv, TypeOK, AskInv, SnapInv, SwitchInv, ReservedInv, Asking, CopyOf

\* A provider that is called when the reference is to be kept is the brand's, or
\* Dipay is none.
LEMMA CalledIsBrand ==
    ASSUME InvoicesInv, NEW r \in Requests, KeepsReference, ask[r].by = "dipay"
    PROVE  brand = "dipay"
  BY RequestHas DEF KeepsReference, Asking

\* A request ends: with the snapshot as it is, or as one of its kind left it.
LEMMA EndsStep ==
    ASSUME InvoiceConstants, InvoicesInv, NEW r \in Requests,
           NEW i \in Invoice \cup {NoInvoice}, Ends(r, i),
           snap' \in Snapshot, Sound(snap'),
           KeepsReference =>
              /\ "dipay" \in snap.keys => "dipay" \in snap'.keys
              /\ brand # "dipay" => ("dipay" \in snap'.keys <=> "dipay" \in snap.keys),
           UNCHANGED <<brand, state, note, inv, acked, held, returned>>
    PROVE  InvoicesInv'
<1> DEFINE x == [NotAsked EXCEPT !.shown = i]
<1>1. /\ x \in Asking /\ x.pc = "idle" /\ x.by = "none" /\ x.copy = NoSnapshot
      /\ x.minted = NoInvoice
  BY DEF NotAsked, Asking, NoSnapshot, Snapshot
<1>2. Sound(NoSnapshot)
  BY DEF Sound, NoSnapshot, NoInvoice
<1>3. ask' = [ask EXCEPT ![r] = x]
  BY DEF Ends
<1> HIDE DEF x
<1>4. AskOf(x) /\ CopyOf(x)
  BY <1>1, <1>2 DEF AskOf, CopyOf
<1>5. Fits(r, x)
  BY <1>1, <1>4, RequestHas DEF Fits
<1> QED
  BY <1>3, <1>5, RequestStep

\* A request goes on without writing anything.
LEMMA GoesOnStep ==
    ASSUME InvoiceConstants, InvoicesInv, NEW r \in Requests, NEW x \in Asking,
           ask' = [ask EXCEPT ![r] = x], AskOf(x), CopyOf(x),
           "switch_midway" \notin Faults => x.by \in {"none", brand},
           KeepsReference =>
              /\ x.by = "dipay" /\ x.pc \in Calling => "dipay" \in snap.keys
              /\ brand # "dipay" /\ x.pc # "idle" =>
                    ("dipay" \in x.copy.keys <=> "dipay" \in snap.keys),
           UNCHANGED <<brand, state, snap, note, inv, acked, held, returned>>
    PROVE  InvoicesInv'
<1>1. Fits(r, x)
  BY RequestHas DEF Fits
<1> QED
  BY <1>1, RequestStep

LEMMA ReadStep ==
    ASSUME InvoiceConstants, InvoicesInv, NEW r \in Requests,
           ReturnStored(r) \/ Load(r) \/ Choose(r) \/ Crash(r)
    PROVE  InvoicesInv'
<1>0. snap \in Snapshot /\ Sound(snap) /\ brand \in Providers /\ ask[r] \in Asking
  BY RequestHas
<1>1. CASE ReturnStored(r)
  <2>1. snap.id \in Invoice \cup {NoInvoice}
    BY <1>0 DEF Snapshot
  <2> QED
    BY <1>0, <1>1, <2>1, EndsStep DEF ReturnStored
<1>2. CASE Load(r)
  <2> DEFINE x == [NotAsked EXCEPT !.pc = "loaded", !.copy = snap]
  <2>1. /\ x \in Asking /\ x.pc = "loaded" /\ x.by = "none" /\ x.copy = snap
        /\ x.minted = NoInvoice
    BY <1>0 DEF NotAsked, Asking
  <2>2. ask' = [ask EXCEPT ![r] = x] /\ UNCHANGED <<brand, state, snap, note, inv, acked, held, returned>>
    BY <1>2 DEF Load
  <2> HIDE DEF x
  <2>3. AskOf(x) /\ CopyOf(x)
    BY <1>0, <2>1 DEF AskOf, CopyOf
  <2> QED
    BY <2>1, <2>2, <2>3, GoesOnStep
<1>3. CASE Choose(r)
  <2> DEFINE x == [ask[r] EXCEPT !.by = brand,
                                 !.pc = IF brand = "dipay" THEN "reserving" ELSE "minting"]
  <2>1. /\ x \in Asking /\ x.pc \in {"reserving", "minting"} /\ x.by = brand
        /\ x.pc = "reserving" <=> brand = "dipay"
        /\ x.copy = ask[r].copy /\ x.minted = ask[r].minted
    BY <1>0 DEF Asking
  <2>2. /\ ask' = [ask EXCEPT ![r] = x]
        /\ UNCHANGED <<brand, state, snap, note, inv, acked, held, returned>>
    BY <1>0, <1>3 DEF Choose, Asking
  <2> HIDE DEF x
  <2>3. ask[r].pc = "loaded" /\ ask[r].minted = NoInvoice
    BY <1>3, RequestHas DEF Choose, AskOf
  <2>4. brand # "none"
    BY <1>0 DEF InvoiceConstants
  <2>5. AskOf(x) /\ CopyOf(x)
    BY <2>1, <2>3, <2>4, RequestHas DEF AskOf, CopyOf
  <2> QED
    BY <2>1, <2>2, <2>3, <2>5, RequestHas, GoesOnStep
<1>4. CASE Crash(r)
  BY <1>0, <1>4, EndsStep DEF Crash
<1> QED
  BY <1>1, <1>2, <1>3, <1>4

\* Dipay's reference is in the row, and in the copy, before the call.
LEMMA ReserveStep ==
    ASSUME InvoiceConstants, InvoicesInv, NEW r \in Requests, Reserve(r)
    PROVE  InvoicesInv'
<1>0. /\ snap \in Snapshot /\ Sound(snap) /\ ask[r] \in Asking /\ ask[r].pc = "reserving"
      /\ ask[r].by = "dipay" /\ "dipay" \in Providers /\ ask[r].minted = NoInvoice
      /\ KeepsReference => brand = "dipay"
      /\ UNCHANGED <<brand, state, note, inv, acked, held, returned>>
      /\ "switch_midway" \notin Faults => brand = "dipay"
  BY RequestHas, CalledIsBrand DEF Reserve, AskOf, Asking
<1>1. CASE Ends(r, NoInvoice) /\ UNCHANGED snap
  BY <1>0, <1>1, EndsStep
<1>2. CASE /\ snap.id \in {NoInvoice, <<"dipay", 1>>} /\ snap.qr
           /\ ask' = [ask EXCEPT ![r].copy = snap, ![r].minted = snap.id, ![r].pc = "storing"]
           /\ UNCHANGED snap
  <2> DEFINE x == [ask[r] EXCEPT !.copy = snap, !.minted = snap.id, !.pc = "storing"]
  <2>1. /\ x \in Asking /\ x.pc = "storing" /\ x.by = "dipay" /\ x.copy = snap
    BY <1>0 DEF Asking, Snapshot
  <2>2. ask' = [ask EXCEPT ![r] = x]
    BY <1>0, <1>2 DEF Asking
  <2> HIDE DEF x
  <2>3. "dipay" \in snap.keys
    BY <1>0, <1>2 DEF Sound
  <2>4. AskOf(x) /\ CopyOf(x)
    BY <1>0, <2>1, <2>3 DEF AskOf, CopyOf
  <2> QED
    BY <1>0, <1>2, <2>1, <2>2, <2>3, <2>4, GoesOnStep
<1>3. CASE /\ snap' = Reserved(snap)
           /\ ask' = [ask EXCEPT ![r].copy = Reserved(snap), ![r].pc = "minting"]
  <2> DEFINE s == Reserved(snap)
             x == [ask[r] EXCEPT !.copy = s, !.pc = "minting"]
  <2>0. s \in Snapshot /\ Sound(s) /\ "dipay" \in s.keys
    BY <1>0, SnapshotTypes
  <2> HIDE DEF s
  <2>1. /\ x \in Asking /\ x.pc = "minting" /\ x.by = "dipay" /\ x.copy = s
        /\ x.minted = NoInvoice
    BY <1>0, <2>0 DEF Asking
  <2>2. ask' = [ask EXCEPT ![r] = x] /\ snap' = s
    BY <1>0, <1>3 DEF Asking, s
  <2> HIDE DEF x
  <2>3. AskOf(x) /\ CopyOf(x)
    BY <2>0, <2>1 DEF AskOf, CopyOf
  <2>4. Fits(r, x)
    BY <1>0, <2>0, <2>1, <2>2, <2>3, RequestHas DEF Fits
  <2> QED
    BY <1>0, <2>2, <2>4, RequestStep
<1> QED
  BY <1>1, <1>2, <1>3 DEF Reserve

LEMMA MintedStep ==
    ASSUME InvoiceConstants, InvoicesInv, NEW r \in Requests, NEW i \in Invoice,
           ask[r].pc = "minting", ask[r].by = i[1], NEW known, Minted(r, i, known)
    PROVE  InvoicesInv'
<1>0. /\ ask[r] \in Asking /\ AskOf(ask[r]) /\ CopyOf(ask[r]) /\ ask[r].minted = NoInvoice
      /\ UNCHANGED <<brand, state, snap, note, acked, held, returned>>
  BY RequestHas DEF AskOf, Minted
<1>1. /\ inv' \in [Invoice -> {"none", "open", "paid", "expired"}]
      /\ \A j \in Invoice : inv'[j] # inv[j] => inv[j] = "none" /\ j = i
  BY RequestHas DEF Minted
<1>2. PICK j \in {NoInvoice, i} : ask' = [ask EXCEPT ![r].pc = "answered", ![r].minted = j]
  <2>1. CASE ask' = [ask EXCEPT ![r].pc = "answered", ![r].minted = i]
    BY <2>1
  <2>2. CASE ask' = [ask EXCEPT ![r].pc = "answered"]
    <3>1. [ask[r] EXCEPT !.pc = "answered"] =
             [ask[r] EXCEPT !.pc = "answered", !.minted = NoInvoice]
      BY <1>0 DEF Asking
    <3> QED
      BY <1>0, <2>2, <3>1
  <2> QED
    BY <2>1, <2>2 DEF Minted
<1> DEFINE x == [ask[r] EXCEPT !.pc = "answered", !.minted = j]
<1>3. /\ x \in Asking /\ x.pc = "answered" /\ x.by = ask[r].by /\ x.copy = ask[r].copy
      /\ x.minted = j
  BY <1>0 DEF Asking
<1>4. ask' = [ask EXCEPT ![r] = x]
  BY <1>0, <1>2 DEF Asking
<1> HIDE DEF x
<1>5. ask[r].by # "none"
  BY <1>0, KeyedOnce DEF AskOf, InvoiceConstants
<1>6. AskOf(x) /\ CopyOf(x)
  BY <1>0, <1>3, <1>5 DEF AskOf, CopyOf
<1>7. Fits(r, x)
  BY <1>0, <1>1, <1>3, <1>6, RequestHas DEF Fits
<1> QED
  BY <1>0, <1>4, <1>7, RequestStep

LEMMA CallStep ==
    ASSUME InvoiceConstants, InvoicesInv, NEW r \in Requests,
           MintAnother(r) \/ MintSento(r) \/ MintDipay(r) \/ Refuse(r)
    PROVE  InvoicesInv'
<1>0. ask[r] \in Asking /\ ask[r].by \in Providers \cup {"none"}
  BY RequestHas DEF Asking
<1>1. CASE MintAnother(r)
  <2>1. PICK k \in 1..MaxMints : Minted(r, <<ask[r].by, k>>, FALSE)
    BY <1>1 DEF MintAnother
  <2>2. ask[r].pc = "minting" /\ ~Keyed(ask[r].by) /\ ask[r].by \in Providers
    BY <1>0, <1>1, RequestHas DEF MintAnother, AskOf
  <2>3. <<ask[r].by, k>> \in Invoice
    BY <2>2, KeyedOnce
  <2> QED
    BY <2>1, <2>2, <2>3, MintedStep
<1>2. ASSUME NEW p \in {"sento", "dipay"}, MintOnce(r, <<p, 1>>)
      PROVE  InvoicesInv'
  <2>1. /\ ask[r].pc = "minting" /\ ask[r].by = p
        /\ Minted(r, <<p, 1>>, inv[<<p, 1>>] # "none")
    BY <1>2 DEF MintOnce
  <2>2. <<p, 1>> \in Invoice
    BY <1>0, <2>1, KeyedOnce DEF Keyed
  <2> QED
    BY <2>1, <2>2, MintedStep
<1>3. CASE Refuse(r)
  <2> DEFINE x == [ask[r] EXCEPT !.pc = "answered"]
  <2>1. /\ x \in Asking /\ x.pc = "answered" /\ x.by = ask[r].by /\ x.copy = ask[r].copy
        /\ x.minted = ask[r].minted
    BY <1>0 DEF Asking
  <2>2. /\ ask' = [ask EXCEPT ![r] = x] /\ ask[r].pc = "minting"
        /\ UNCHANGED <<brand, state, snap, note, inv, acked, held, returned>>
    BY <1>3 DEF Refuse
  <2> HIDE DEF x
  <2>3. AskOf(x) /\ CopyOf(x)
    BY <2>1, <2>2, RequestHas DEF AskOf, CopyOf
  <2> QED
    BY <2>1, <2>2, <2>3, RequestHas, GoesOnStep
<1> QED
  BY <1>1, <1>2, <1>3 DEF MintSento, MintDipay

\* Whatever is written over the order's snapshot has Dipay's reference if the
\* snapshot had it.
LEMMA WriteStep ==
    ASSUME InvoiceConstants, InvoicesInv, NEW r \in Requests, Fail(r) \/ Succeed(r) \/ Store(r)
    PROVE  InvoicesInv'
<1>0. /\ ask[r] \in Asking /\ AskOf(ask[r]) /\ CopyOf(ask[r]) /\ ask[r].copy \in Snapshot
      /\ Sound(ask[r].copy) /\ snap \in Snapshot /\ Sound(snap)
      /\ ask[r].minted \in Invoice \cup {NoInvoice}
      /\ ask[r].pc \in {"answered", "storing"} /\ ask[r].by \in Providers
      /\ UNCHANGED <<brand, state, note, inv, acked, held, returned>>
  <2>1. /\ ask[r].pc \in {"answered", "storing"}
        /\ UNCHANGED <<brand, state, note, inv, acked, held, returned>>
    BY DEF Fail, Succeed, Store
  <2> QED
    BY <2>1, RequestHas DEF AskOf, Asking
\* Who calls Dipay writes its reference; who does not keeps it.
<1>1. ASSUME NEW s \in Snapshot, "dipay" \in s.keys <=> "dipay" \in ask[r].copy.keys,
             KeepsReference
      PROVE  /\ "dipay" \in snap.keys => "dipay" \in s.keys
             /\ brand # "dipay" => ("dipay" \in s.keys <=> "dipay" \in snap.keys)
             /\ ask[r].by = "dipay" => "dipay" \in s.keys
  <2>1. CASE ask[r].by = "dipay"
    BY <1>0, <1>1, <2>1, CalledIsBrand DEF CopyOf
  <2>2. CASE ask[r].by # "dipay"
    <3>1. brand # "dipay"
      BY <1>0, <1>1, <2>2, RequestHas DEF KeepsReference, InvoiceConstants
    <3> QED
      BY <1>0, <1>1, <2>2, <3>1, RequestHas
  <2> QED
    BY <2>1, <2>2
<1>2. CASE Fail(r)
  <2> DEFINE s == [ask[r].copy EXCEPT !.status = "failed"]
  <2>1. s \in Snapshot /\ Sound(s) /\ s.keys = ask[r].copy.keys
    BY <1>0, SnapshotTypes
  <2>2. snap' \in {s, snap} /\ Ends(r, NoInvoice)
    BY <1>2 DEF Fail
  <2> HIDE DEF s
  <2> QED
    BY <1>0, <1>1, <2>1, <2>2, EndsStep
<1>3. CASE Store(r)
  <2>1. snap' = ask[r].copy /\ Ends(r, ask[r].minted)
    BY <1>3 DEF Store
  <2> QED
    BY <1>0, <1>1, <2>1, EndsStep
<1>4. CASE Succeed(r)
  <2> DEFINE s == Answered(r)
             x == [ask[r] EXCEPT !.copy = s, !.pc = "storing"]
  <2>0. ask[r].pc = "answered" /\ ask[r].minted \in Invoice /\ ask[r].minted[1] = ask[r].by
    BY <1>0, <1>4 DEF Succeed, AskOf
  <2>1. s \in Snapshot /\ Sound(s) /\ ("dipay" \in s.keys <=> "dipay" \in ask[r].copy.keys)
    BY <1>0, <2>0, AnsweredTypes DEF CopyOf
  <2>2. /\ ask' = [ask EXCEPT ![r].copy = s, ![r].pc = "storing"]
        /\ snap' = IF ask[r].by = "dipay" THEN s ELSE snap
    BY <1>4 DEF Succeed
  <2> HIDE DEF s
  <2>3. /\ x \in Asking /\ x.pc = "storing" /\ x.by = ask[r].by /\ x.copy = s
    BY <1>0, <2>1 DEF Asking
  <2>4. ask' = [ask EXCEPT ![r] = x]
    BY <1>0, <2>2 DEF Asking
  <2> HIDE DEF x
  <2>5. ask[r].by # "none"
    BY <1>0 DEF InvoiceConstants
  <2>6. AskOf(x) /\ CopyOf(x)
    BY <1>0, <2>0, <2>1, <2>3, <2>5 DEF AskOf, CopyOf
  <2>7. KeepsReference =>
          /\ x.by = "dipay" => "dipay" \in snap'.keys
          /\ "dipay" \in snap.keys => "dipay" \in snap'.keys
          /\ brand # "dipay" =>
               /\ "dipay" \in snap'.keys <=> "dipay" \in snap.keys
               /\ "dipay" \in x.copy.keys <=> "dipay" \in snap.keys
    BY <1>1, <2>1, <2>2, <2>3
  <2>8. snap' \in Snapshot /\ Sound(snap')
    BY <1>0, <2>1, <2>2
  <2>9. Fits(r, x)
    BY <1>0, <2>3, <2>6, <2>7, <2>8, RequestHas DEF Fits
  <2> QED
    BY <1>0, <2>4, <2>9, RequestStep
<1> QED
  BY <1>2, <1>3, <1>4

-----------------------------------------------------------------------------
(* A step of one webhook handler, and the others'.                         *)

LEMMA HandlerStep ==
    ASSUME InvoiceConstants, InvoicesInv, NEW n \in Notices, NEW m \in Noting,
           NoteOf(m), note' = [note EXCEPT ![n] = m],
           state' \in OrderState, held \subseteq held', held' \subseteq Invoice,
           acked' \subseteq Invoice,
           OneKeyed => StaleOf(m)',
           OneKeyed /\ state \notin Payable /\ state' \in Payable =>
              \A i \in Invoice : Keyed(i[1]) => i \in held',
           UNCHANGED <<brand, snap, ask, inv, returned>>
    PROVE  InvoicesInv'
<1> USE DEF InvoicesInv
<1>0. /\ note' \in [Notices -> Noting] /\ note'[n] = m
      /\ \A k \in Notices : k # n => note'[k] = note[k]
  BY DEF TypeOK
<1>1. TypeOK'
  BY <1>0 DEF TypeOK
<1>2. AskInv' /\ SnapInv' /\ SwitchInv' /\ ReservedInv'
  BY DEF AskInv, SnapInv, SwitchInv, ReservedInv
<1>3. NoteInv'
  BY <1>0 DEF NoteInv, NoteOf
<1>4. StaleInv'
  <2> SUFFICES ASSUME OneKeyed, NEW k \in Notices, k # n PROVE StaleOf(note[k])'
    BY <1>0 DEF StaleInv, OneKeyed
  <2>1. StaleOf(note[k]) /\ NoteOf(note[k]) /\ note'[k] = note[k]
    BY <1>0 DEF StaleInv, NoteInv
  <2> QED
    BY <2>1 DEF StaleOf, NoteOf
<1>5. ReturnedInv'
  BY DEF ReturnedInv
<1> QED
  BY <1>1, <1>2, <1>3, <1>4, <1>5

LEMMA NoteHas ==
    ASSUME InvoicesInv, NEW n \in Notices
    PROVE  /\ note[n] \in Noting /\ NoteOf(note[n]) /\ (OneKeyed => StaleOf(note[n]))
           /\ state \in OrderState /\ held \subseteq Invoice /\ acked \subseteq Invoice
           /\ inv \in [Invoice -> {"none", "open", "paid", "expired"}]
  BY DEF InvoicesInv, TypeOK, NoteInv, StaleInv

LEMMA NotNotedFits ==
    /\ NotNoted \in Noting /\ NoteOf(NotNoted) /\ StaleOf(NotNoted)'
    /\ StaleOf(NotNoted)
  BY DEF NotNoted, Noting, NoteOf, StaleOf

LEMMA AskingStep ==
    ASSUME InvoiceConstants, InvoicesInv, NEW n \in Notices,
           (\E i \in Invoice : Notify(n, i)) \/ QueryDipay(n) \/ QuerySento(n) \/ Unverified(n)
    PROVE  InvoicesInv'
<1>0. /\ note[n] \in Noting /\ NoteOf(note[n]) /\ (OneKeyed => StaleOf(note[n]))
      /\ state \in OrderState /\ held \subseteq Invoice /\ acked \subseteq Invoice
  BY NoteHas
<1>1. ASSUME NEW i \in Invoice, Notify(n, i)
      PROVE  InvoicesInv'
  <2>1. /\ inv[i] \in {"paid", "expired"}
        /\ UNCHANGED <<brand, state, snap, ask, inv, acked, held, returned>>
    BY <1>1 DEF Notify
  <2>2. PICK m :
           /\ note' = [note EXCEPT ![n] = m]
           /\ m = [pc     |-> IF Keyed(i[1]) THEN "querying" ELSE "settling",
                   about  |-> i,
                   copy   |-> IF i[1] = "dipay" THEN state ELSE "none",
                   status |-> inv[i]]
    BY <1>1 DEF Notify
  <2>3. /\ m \in Noting /\ m.pc # "idle" /\ m.about = i /\ m.status = inv[i]
        /\ m.copy \in {"none", state} /\ (m.copy # "none" => Keyed(i[1]))
    BY <1>0, <2>1, <2>2 DEF Noting, Keyed
  <2>4. NoteOf(m)
    BY <2>1, <2>3 DEF NoteOf
  <2>5. StaleOf(m)'
    BY <2>1, <2>3 DEF StaleOf
  <2> QED
    BY <1>0, <2>1, <2>2, <2>3, <2>4, <2>5, HandlerStep
<1>2. CASE Unverified(n)
  BY <1>0, <1>2, NotNotedFits, HandlerStep DEF Unverified
<1>3. ASSUME NEW m \in Noting, NEW copy \in {note[n].copy, "none", state},
             note[n].pc = "querying", Keyed(note[n].about[1]),
             m.pc = "settling", m.about = note[n].about, m.copy = copy,
             m.status = inv[note[n].about], note' = [note EXCEPT ![n] = m],
             UNCHANGED <<brand, state, snap, ask, inv, acked, held, returned>>
      PROVE  InvoicesInv'
  <2>1. note[n].about \in Invoice /\ inv[note[n].about] \in {"paid", "expired"}
    BY <1>0, <1>3 DEF NoteOf
  <2>2. NoteOf(m)
    BY <1>3, <2>1 DEF NoteOf
  <2>3. OneKeyed => StaleOf(m)'
    BY <1>0, <1>3 DEF StaleOf
  <2> QED
    BY <1>0, <1>3, <2>2, <2>3, HandlerStep
<1>4. CASE QueryDipay(n)
  <2> DEFINE m == [note[n] EXCEPT !.pc = "settling", !.status = inv[note[n].about]]
  <2>1. note[n].pc = "querying" /\ Keyed(note[n].about[1])
    BY <1>4 DEF QueryDipay, Keyed
  <2>2. note' = [note EXCEPT ![n] = m]
    BY <1>4 DEF QueryDipay, query_qris
  <2>3. note[n].about \in Invoice /\ inv[note[n].about] \in {"paid", "expired"}
    BY <1>0, <2>1 DEF NoteOf
  <2>4. /\ m \in Noting /\ m.pc = "settling" /\ m.about = note[n].about
        /\ m.status = inv[note[n].about] /\ m.copy = note[n].copy
    BY <1>0, <2>3 DEF Noting
  <2> HIDE DEF m
  <2> QED
    BY <1>3, <1>4, <2>1, <2>2, <2>4 DEF QueryDipay
<1>5. CASE QuerySento(n)
  <2>1. PICK copy \in {"none", state} :
           note' = [note EXCEPT ![n].pc = "settling", ![n].status = inv[note[n].about],
                                ![n].copy = copy]
    BY <1>5 DEF QuerySento, get_status
  <2> DEFINE m == [note[n] EXCEPT !.pc = "settling", !.status = inv[note[n].about],
                                  !.copy = copy]
  <2>2. note[n].pc = "querying" /\ Keyed(note[n].about[1])
    BY <1>5 DEF QuerySento, Keyed
  <2>3. note' = [note EXCEPT ![n] = m]
    BY <2>1
  <2>4. note[n].about \in Invoice /\ inv[note[n].about] \in {"paid", "expired"}
    BY <1>0, <2>2 DEF NoteOf
  <2>5. /\ m \in Noting /\ m.pc = "settling" /\ m.about = note[n].about
        /\ m.status = inv[note[n].about] /\ m.copy = copy
    BY <1>0, <2>4 DEF Noting
  <2> HIDE DEF m
  <2> QED
    BY <1>3, <1>5, <2>2, <2>3, <2>5 DEF QuerySento
<1> QED
  BY <1>1, <1>2, <1>4, <1>5

\* The row a handler settles on, and what an old copy makes of it.
Seen(n) == IF note[n].copy = "none" THEN state ELSE note[n].copy

LEMMA SettleStep ==
    ASSUME InvoiceConstants, InvoicesInv, NEW n \in Notices, Settle(n) \/ SettleExpired(n)
    PROVE  InvoicesInv'
<1>0. /\ note[n] \in Noting /\ NoteOf(note[n]) /\ (OneKeyed => StaleOf(note[n]))
      /\ state \in OrderState /\ held \subseteq Invoice /\ acked \subseteq Invoice
      /\ note[n].pc # "idle" /\ note[n].about \in Invoice
  BY NoteHas DEF NoteOf, Settle, SettleExpired
<1>1. /\ note' = [note EXCEPT ![n] = NotNoted] /\ UNCHANGED <<brand, snap, ask, inv, returned>>
      /\ acked' \subseteq Invoice
  BY <1>0 DEF Settle, SettleExpired, Acknowledge
<1>2. CASE SettleExpired(n)
  BY <1>0, <1>1, <1>2, NotNotedFits, HandlerStep DEF SettleExpired
<1>3. CASE Settle(n)
  <2>1. MarkPaid(note[n].about, Seen(n))
    BY <1>3 DEF Settle, Seen
  <2>2. /\ state' \in OrderState /\ held \subseteq held' /\ held' \subseteq Invoice
    BY <1>0, <2>1 DEF MarkPaid, OrderState
  <2>3. ASSUME OneKeyed, state \notin Payable, state' \in Payable, NEW i \in Invoice, Keyed(i[1])
        PROVE  i \in held'
    <3>1. Seen(n) = "CART_REVIEWED"
      BY <2>1, <2>3 DEF MarkPaid
    <3>2. note[n].about \in held'
      BY <2>1, <3>1 DEF MarkPaid
    <3>3. note[n].copy # "none"
      BY <2>3, <3>1 DEF Seen, Payable
    <3>4. Keyed(note[n].about[1])
      BY <1>0, <3>3 DEF NoteOf
    <3>5. note[n].about[1] = i[1]
      BY <1>0, <2>3, <3>4, KeyedOnce DEF OneKeyed, Keyed
    <3>6. note[n].about = i
      BY <1>0, <3>4, <3>5, KeyedOnce
    <3> QED
      BY <3>2, <3>6
  <2> QED
    BY <1>1, <2>2, <2>3, NotNotedFits, HandlerStep
<1> QED
  BY <1>2, <1>3

LEMMA ElseStep ==
    ASSUME InvoiceConstants, InvoicesInv,
           (\E i \in Invoice : Resolve(i)) \/ Switch \/ OtherTransition \/ UNCHANGED vars
    PROVE  InvoicesInv'
<1> USE DEF InvoicesInv
<1>1. ASSUME NEW i \in Invoice, Resolve(i)
      PROVE  InvoicesInv'
  <2>1. /\ inv' \in [Invoice -> {"none", "open", "paid", "expired"}]
        /\ inv[i] = "open" /\ \A j \in Invoice : j # i => inv'[j] = inv[j]
        /\ UNCHANGED <<brand, state, snap, ask, note, acked, held, returned>>
    BY <1>1 DEF Resolve, TypeOK
  <2>2. TypeOK'
    BY <2>1 DEF TypeOK
  <2>3. AskInv' /\ SnapInv' /\ SwitchInv' /\ StaleInv' /\ ReturnedInv'
    BY <2>1 DEF AskInv, SnapInv, SwitchInv, StaleInv, StaleOf, ReturnedInv
  <2>4. ReservedInv'
    BY <2>1 DEF ReservedInv
  <2>5. NoteInv'
    <3> SUFFICES ASSUME NEW n \in Notices PROVE NoteOf(note[n])'
      BY DEF NoteInv
    <3>1. NoteOf(note[n])
      BY DEF NoteInv
    <3> QED
      BY <2>1, <3>1 DEF NoteOf
  <2> QED
    BY <2>2, <2>3, <2>4, <2>5
<1>2. CASE Switch
  <2>1. /\ brand' \in Providers /\ UNCHANGED <<state, snap, ask, note, inv, acked, held, returned>>
        /\ "switch_midway" \notin Faults => \A r \in Requests : ask[r].pc = "idle"
    BY <1>2 DEF Switch
  <2>2. TypeOK' /\ AskInv' /\ SnapInv' /\ NoteInv' /\ StaleInv' /\ ReturnedInv'
    BY <2>1 DEF TypeOK, AskInv, SnapInv, NoteInv, NoteOf, StaleInv, StaleOf, ReturnedInv
  <2>3. SwitchInv'
    BY <2>1 DEF SwitchInv, AskInv, AskOf
  <2>4. ReservedInv'
    <3> SUFFICES ASSUME KeepsReference PROVE ReservedInv'
      BY DEF ReservedInv
    <3>1. CASE "dipay" \notin Providers
      <4>1. brand # "dipay"
        BY <3>1 DEF TypeOK
      <4> QED
        BY <2>1, <4>1 DEF ReservedInv
    <3>2. CASE "switch_midway" \notin Faults
      BY <2>1, <3>2 DEF ReservedInv
    <3> QED
      BY <3>1, <3>2 DEF KeepsReference
  <2> QED
    BY <2>2, <2>3, <2>4
<1>3. CASE OtherTransition
  <2>1. /\ UNCHANGED <<brand, snap, ask, note, inv, acked, held>>
        /\ state' \in OrderState /\ state' # "CART_REVIEWED" /\ returned' \in BOOLEAN
        /\ returned => returned'
    BY <1>3 DEF OtherTransition, InvoiceConstants, TypeOK
  <2>2. /\ state' = "ESCROW_HELD" => returned'
        /\ returned' => returned \/ held # {}
    BY <1>3 DEF OtherTransition
  <2>3. TypeOK' /\ AskInv' /\ SnapInv' /\ SwitchInv' /\ ReservedInv'
    BY <2>1 DEF TypeOK, AskInv, SnapInv, SwitchInv, ReservedInv
  <2>4. NoteInv' /\ ReturnedInv'
    BY <2>1, <2>2 DEF NoteInv, NoteOf, ReturnedInv
  <2>5. StaleInv'
    BY <2>1, <2>2 DEF StaleInv, StaleOf, Payable
  <2> QED
    BY <2>3, <2>4, <2>5
<1>4. CASE UNCHANGED vars
  <2>1. TypeOK' /\ AskInv' /\ SnapInv' /\ SwitchInv' /\ ReservedInv'
    BY <1>4 DEF vars, TypeOK, AskInv, SnapInv, SwitchInv, ReservedInv
  <2>2. NoteInv' /\ StaleInv' /\ ReturnedInv'
    BY <1>4 DEF vars, NoteInv, NoteOf, StaleInv, StaleOf, ReturnedInv
  <2> QED
    BY <2>1, <2>2
<1> QED
  BY <1>1, <1>2, <1>3, <1>4
-----------------------------------------------------------------------------
(* What holds in every state.                                              *)

LEMMA InvoicesInit ==
    ASSUME InvoiceConstants, Init
    PROVE  InvoicesInv
<1>1. NoSnapshot \in Snapshot /\ Sound(NoSnapshot)
  BY DEF NoSnapshot, Snapshot, Sound, NoInvoice
<1>2. NotAsked \in Asking /\ AskOf(NotAsked) /\ CopyOf(NotAsked)
  BY <1>1 DEF NotAsked, Asking, AskOf, CopyOf
<1>3. TypeOK
  BY <1>1, <1>2, NotNotedFits DEF Init, TypeOK, OrderState
<1>4. AskInv /\ SnapInv
  BY <1>1, <1>2 DEF Init, AskInv, SnapInv
<1>5. SwitchInv /\ ReservedInv
  BY DEF Init, SwitchInv, ReservedInv, NotAsked
<1>6. NoteInv /\ StaleInv /\ ReturnedInv
  BY NotNotedFits DEF Init, NoteInv, StaleInv, ReturnedInv
<1> QED
  BY <1>3, <1>4, <1>5, <1>6 DEF InvoicesInv

\* Every reachable state satisfies the invariant: types, whose invoice a request
\* has, which snapshots may be written over the order's, and what the webhook
\* handlers' copies are worth.
THEOREM InvoicesInvariance == InvoiceConstants => (Spec => []InvoicesInv)
<1> SUFFICES ASSUME InvoiceConstants PROVE Spec => []InvoicesInv
  OBVIOUS
<1>1. Init => InvoicesInv
  BY InvoicesInit
<1>2. InvoicesInv /\ [Next]_vars => InvoicesInv'
  <2> SUFFICES ASSUME InvoicesInv, [Next]_vars PROVE InvoicesInv'
    OBVIOUS
  <2>1. ASSUME NEW r \in Requests,
               \/ ReturnStored(r) \/ Load(r) \/ Choose(r) \/ Reserve(r) \/ MintAnother(r)
               \/ MintSento(r) \/ MintDipay(r) \/ Refuse(r) \/ Fail(r) \/ Succeed(r)
               \/ Store(r) \/ Crash(r)
        PROVE  InvoicesInv'
    BY <2>1, ReadStep, ReserveStep, CallStep, WriteStep
  <2>2. ASSUME NEW n \in Notices,
               \/ QueryDipay(n) \/ QuerySento(n) \/ Unverified(n) \/ Settle(n)
               \/ SettleExpired(n) \/ \E i \in Invoice : Notify(n, i)
        PROVE  InvoicesInv'
    BY <2>2, AskingStep, SettleStep
  <2> QED
    BY <2>1, <2>2, ElseStep DEF Next
<1> QED
  BY <1>1, <1>2, PTL DEF Spec

\* Requests, handlers, snapshot and invoices have their types.
THEOREM TypeOKHolds == InvoiceConstants => (Spec => []TypeOK)
<1> SUFFICES ASSUME InvoiceConstants PROVE Spec => []TypeOK
  OBVIOUS
<1>1. Spec => []InvoicesInv
  BY InvoicesInvariance
<1>2. InvoicesInv => TypeOK
  BY DEF InvoicesInv
<1> QED
  BY <1>1, <1>2, PTL

\* The reservation is in the row before Dipay is called and in every copy that is
\* written over it, unless the brand's provider changes while requests run; so a
\* webhook finds the order whatever crashed in between.
THEOREM PaidFindsOrderHolds == InvoiceConstants /\ KeepsReference => (Spec => []PaidFindsOrder)
<1> SUFFICES ASSUME InvoiceConstants, KeepsReference PROVE Spec => []PaidFindsOrder
  OBVIOUS
<1>1. Spec => []InvoicesInv
  BY InvoicesInvariance
<1>2. InvoicesInv => PaidFindsOrder
  <2> SUFFICES ASSUME InvoicesInv, NEW i \in Invoice, inv[i] # "none",
                      i[1] \in {"xendit", "dipay"} \/ snap.id = i
               PROVE  Found(i)
    BY DEF PaidFindsOrder
  <2>1. i[1] \in {"xendit", "oy", "sento", "dipay"}
    BY KeyedOnce DEF InvoiceConstants
  <2>2. i[1] = "dipay" => "dipay" \in snap.keys
    BY DEF InvoicesInv, ReservedInv
  <2>3. snap.id = i /\ i[1] = "sento" => "sento" \in snap.keys
    BY DEF InvoicesInv, SnapInv, Sound
  <2> QED
    BY <2>1, <2>2, <2>3 DEF Found, FoundByOy, FoundBySento, FoundByDipay
<1> QED
  BY <1>1, <1>2, PTL

\* A payment acknowledged while the order can be paid is held, also as the second
\* one, although the handlers of keyed invoices settle on copies older than their
\* lock - as long as only one provider's handlers do, and but for a handler that
\* read the order before a cancelled shipment put it back.
THEOREM AckedIsHeldHolds == InvoiceConstants /\ OneKeyed => (Spec => AckedIsHeld)
<1> SUFFICES ASSUME InvoiceConstants, OneKeyed PROVE Spec => AckedIsHeld
  OBVIOUS
<1>1. Spec => []InvoicesInv
  BY InvoicesInvariance
<1>2. ASSUME InvoicesInv, Next
      PROVE  AckHeld
  <2> SUFFICES ASSUME NEW i \in acked' \ acked, inv[i] = "paid", state \in Payable, ~ReadBefore(i)
               PROVE  i \in held'
    BY DEF AckHeld
  <2>1. PICK n \in Notices : Settle(n) \/ SettleExpired(n)
    BY <1>2 DEF Next, ReturnStored, Load, Choose, Reserve, MintAnother, MintSento,
                MintDipay, MintOnce, Minted, Refuse, Fail, Succeed, Store, Crash, QueryDipay,
                QuerySento, Unverified, Notify, Resolve, Switch, OtherTransition
  <2>2. i = note[n].about /\ note[n].pc # "idle"
    BY <2>1 DEF Settle, SettleExpired, Acknowledge
  <2>3. /\ note[n].status = "paid" /\ StaleOf(note[n]) /\ held \subseteq Invoice
        /\ inv[i] = note[n].status
    BY <1>2, <2>2, NoteHas DEF NoteOf
  <2>4. Settle(n) /\ MarkPaid(i, Seen(n))
    BY <2>1, <2>2, <2>3 DEF SettleExpired, Settle, Seen
  <2>5. CASE Seen(n) \in Payable
    BY <2>4, <2>5 DEF MarkPaid, Payable
  <2>6. CASE Seen(n) \notin Payable
    <3>1. note[n].copy # "none" /\ note[n].copy \notin Payable
      BY <2>6 DEF Seen
    <3>2. ~returned
      BY <1>2, <2>2, <3>1 DEF ReadBefore, InvoicesInv, ReturnedInv
    <3> QED
      BY <2>2, <2>3, <2>4, <3>1, <3>2 DEF StaleOf, MarkPaid
  <2> QED
    BY <2>5, <2>6
<1>3. ASSUME UNCHANGED vars
      PROVE  AckHeld
  BY <1>3 DEF vars, AckHeld
<1>4. InvoicesInv /\ [Next]_vars => [AckHeld]_vars
  BY <1>2, <1>3
<1> QED
  BY <1>1, <1>4, PTL DEF Spec, AckedIsHeld
===============================================================================
