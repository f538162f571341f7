--------------------------- MODULE PayoutAccounts ---------------------------
(***************************************************************************)
(* The bank accounts a brand is paid out to: the rows of                   *)
(* payout_bank_accounts, of which a partial unique index lets one be       *)
(* active, the PUT of a dashboard that deletes, edits, adds and activates  *)
(* them (routers/brands.py), and the script that fills the table from the  *)
(* older columns of brands (scripts/add-payout-bank-accounts.py), which an *)
(* operator may run again while dashboards write.                          *)
(*                                                                         *)
(* A PUT reads the rows once and then flushes, step by step, what it       *)
(* changes in its copies of them; nobody sees it before it commits, but    *)
(* whoever writes the same rows, or the index, waits.                      *)
(***************************************************************************)
EXTENDS Naturals, FiniteSets, Functions

CONSTANTS
    Accounts,   \* a bank's code with an account number
    Legacy,     \* provider -> the account in its columns of brands, or NoAccount
    Bodies,     \* what the PUTs ask for
    Requests,   \* PUTs under way together
    MaxRows,    \* bound: rows inserted
    NoAccount

Providers == {"xendit", "sento", "dipay"}
Ids       == 1..MaxRows
Brand     == 0            \* the brand's row, where a lock is concerned
New       == MaxRows + 1  \* "the account added by this request"

Body == [delete : Ids \cup {0}, edit : Ids \cup {0}, account : Accounts \cup {NoAccount},
         activate : Ids \cup {0, New}, provider : Providers \cup {"same"}]

PayoutConstants ==
    /\ MaxRows \in Nat /\ NoAccount \notin Accounts
    /\ Legacy \in [Providers -> Accounts \cup {NoAccount}]
    /\ Bodies \subseteq Body

VARIABLES
    accounts,    \* Ids -> the committed row
    last,        \* the last id that was used
    provider,    \* brands.payment_provider
    req,         \* Requests -> a PUT under way
    script       \* what a run of the script has read, or "idle"

vars == <<accounts, last, provider, req, script>>

Vacant == [account |-> NoAccount, active |-> FALSE]
Rows  == [account : Accounts \cup {NoAccount}, active : BOOLEAN]
Blank == [delete |-> 0, edit |-> 0, account |-> NoAccount, activate |-> 0, provider |-> "same"]
Idle  == [pc |-> "idle", body |-> Blank, copy |-> [i \in Ids |-> Vacant], was |-> "xendit",
          added |-> 0, numbers |-> {}, flags |-> {}, gone |-> {}]

Put == [pc : {"idle", "deleting", "writing", "clearing", "activating", "checking",
              "committing"},
        body : Bodies \cup {Blank}, copy : [Ids -> Rows], was : Providers,
        added : 0..MaxRows, numbers : SUBSET (Ids \cup {Brand}), flags : SUBSET Ids,
        gone : SUBSET Ids]

TypeOK ==
    /\ accounts \in [Ids -> Rows]
    /\ last \in 0..MaxRows
    /\ provider \in Providers
    /\ req \in [Requests -> Put]
    /\ script \in Providers \cup {"idle"}

Init ==
    /\ accounts = [i \in Ids |-> Vacant]
    /\ last = 0
    /\ provider \in Providers
    /\ req = [r \in Requests |-> Idle]
    /\ script = "idle"

-----------------------------------------------------------------------------
Live(rows)   == {i \in Ids : rows[i] # Vacant}
Active(rows) == {i \in Ids : rows[i].active}

\* The rows a transaction has written and not committed.
Locked(r)    == req[r].numbers \cup req[r].flags \cup req[r].gone
Free(r, ids) == \A q \in Requests \ {r} : Locked(q) \cap ids = {}

\* Rows whose entry in the index a transaction has added or taken out.
Pending(r) ==
    {i \in req[r].flags : req[r].copy[i].active}
        \cup {i \in req[r].flags \cup req[r].gone : accounts[i].active}

\* uq_payout_bank_accounts_active: who adds an entry waits for those who have
\* changed one, and fails if there is one that it does not take out itself.
IndexLets(r) ==
    /\ \A q \in Requests \ {r} : Pending(q) = {}
    /\ Active(accounts) \subseteq req[r].flags \cup req[r].gone

\* The row to activate, 0 for none.
Target(r) == IF req[r].body.activate = New THEN req[r].added ELSE req[r].body.activate

Goes(r, from, fields) ==
    /\ req[r].pc = from
    /\ req' = [req EXCEPT ![r] = fields]

-----------------------------------------------------------------------------
\* put_payouts() reads the brand and its rows.  A body that names rows there are
\* not is refused (404, 422).
Begin(r, b) ==
    /\ req[r] = Idle
    /\ {b.delete, b.edit} \subseteq Live(accounts) \cup {0}
    /\ b.edit # 0 => b.edit # b.delete
    /\ b.activate \in (Live(accounts) \ {b.delete}) \cup {0, New}
    /\ b.activate = New => b.edit = 0 /\ b.account # NoAccount
    /\ req' = [req EXCEPT ![r] = [Idle EXCEPT !.pc = "deleting", !.body = b,
                                             !.copy = accounts, !.was = provider]]
    /\ UNCHANGED <<accounts, last, provider, script>>

\* Rows are deleted and flushed first; one that is gone already is no error.
DeleteRow(r) ==
    LET q == req[r]
        d == {q.body.delete} \ {0}
    IN
    /\ Free(r, d)
    /\ Goes(r, "deleting",
            [q EXCEPT !.pc = "writing", !.gone = d,
                      !.copy = [i \in Ids |-> IF i \in d THEN Vacant ELSE q.copy[i]]])
    /\ UNCHANGED <<accounts, last, provider, script>>

\* A row is edited, if its account is not the one of the copy ...
EditRow(r) ==
    LET q == req[r]
        e == {i \in {q.body.edit} \ {0} :
                 q.body.account \notin {NoAccount, q.copy[i].account}}
    IN
    /\ q.body.edit # 0 \/ q.body.account = NoAccount
    /\ Free(r, e) /\ e \subseteq Live(accounts)
    /\ Goes(r, "writing",
            [q EXCEPT !.pc = "clearing", !.numbers = e,
                      !.copy = [i \in Ids |-> IF i \in e
                                              THEN [q.copy[i] EXCEPT !.account = q.body.account]
                                              ELSE q.copy[i]]])
    /\ UNCHANGED <<accounts, last, provider, script>>

\* ... or added, not active.
AddRow(r) ==
    LET q == req[r] IN
    /\ q.body.edit = 0 /\ q.body.account # NoAccount /\ last < MaxRows
    /\ last' = last + 1
    /\ Goes(r, "writing",
            [q EXCEPT !.pc = "clearing", !.added = last', !.numbers = {last'},
                      !.copy[last'] = [account |-> q.body.account, active |-> FALSE]])
    /\ UNCHANGED <<accounts, provider, script>>

ClearOthers_bug(r) ==  \* the others are deactivated and committed first
    LET q      == req[r]
        others == IF Target(r) = 0 THEN {} ELSE Active(q.copy) \ {Target(r)}
    IN
    /\ Free(r, others) /\ others \subseteq Live(accounts)
    /\ accounts' = [i \in Ids |-> IF i \in others THEN [accounts[i] EXCEPT !.active = FALSE]
                                  ELSE accounts[i]]
    /\ Goes(r, "clearing", [q EXCEPT !.pc = "activating"])
    /\ UNCHANGED <<last, provider, script>>

\* "Deactivate others FIRST, then flush, then activate": those that the copy
\* shows active.
ClearOthers(r) ==
    LET q      == req[r]
        others == IF Target(r) = 0 THEN {} ELSE Active(q.copy) \ {Target(r)}
    IN
    /\ Free(r, others) /\ others \subseteq Live(accounts)
    /\ Goes(r, "clearing",
            [q EXCEPT !.pc = "activating", !.flags = others,
                      !.copy = [i \in Ids |-> IF i \in others
                                              THEN [q.copy[i] EXCEPT !.active = FALSE]
                                              ELSE q.copy[i]]])
    /\ UNCHANGED <<accounts, last, provider, script>>

\* A row that the copy shows active is left as it is.
Activate(r) ==
    LET q == req[r]
        t == {Target(r)} \ ({0} \cup Active(q.copy))
    IN
    /\ Free(r, t) /\ t \subseteq Live(accounts) \cup {q.added}
    /\ t # {} => IndexLets(r)
    /\ Goes(r, "activating",
            [q EXCEPT !.pc = "checking", !.flags = @ \cup t,
                      !.copy = [i \in Ids |-> IF i \in t
                                              THEN [q.copy[i] EXCEPT !.active = TRUE]
                                              ELSE q.copy[i]]])
    /\ UNCHANGED <<accounts, last, provider, script>>

\* The rows are read again; those it had read before stay the copies they were.
SeesActive(r) ==
    \E i \in Ids \ req[r].gone :
        \/ i \in Live(accounts) \cup {req[r].added} /\ req[r].copy[i].active
        \/ req[r].copy[i] = Vacant /\ accounts[i].active

\* "An active payout bank account is required" of a brand that changes to Dipay.
ChooseProvider(r) ==
    LET q == req[r]
        p == q.body.provider
    IN
    /\ p = "dipay" => SeesActive(r)
    /\ p \notin {"same", q.was} => Free(r, {Brand})
    /\ Goes(r, "checking",
            [q EXCEPT !.pc = "committing",
                      !.numbers = IF p \in {"same", q.was} THEN @ ELSE @ \cup {Brand}])
    /\ UNCHANGED <<accounts, last, provider, script>>

Commit(r) ==
    LET q == req[r] IN
    /\ Goes(r, "committing", Idle)
    /\ accounts' =
           [i \in Ids |->
               IF i \in q.gone THEN Vacant
               ELSE [account |-> (IF i \in q.numbers THEN q.copy ELSE accounts)[i].account,
                     active  |-> (IF i \in q.flags THEN q.copy ELSE accounts)[i].active]]
    /\ provider' = IF Brand \in q.numbers THEN q.body.provider ELSE provider
    /\ UNCHANGED <<last, script>>

\* Everything else that ends a PUT rolls it back: a row it writes is gone, the
\* index refuses, two wait for each other, the connection dies.
Fail(r) ==
    /\ req[r].pc # "idle"
    /\ req' = [req EXCEPT ![r] = Idle]
    /\ UNCHANGED <<accounts, last, provider, script>>

-----------------------------------------------------------------------------
(* The script.                                                             *)

\* _fetch_brands()
Fetch ==
    /\ script = "idle"
    /\ script' = provider
    /\ UNCHANGED <<accounts, last, provider, req>>

\* _brand_rows(): one row for each account, however many providers have it ...
Candidates == {Legacy[p] : p \in Providers} \ {NoAccount}

\* ... and the active one is the provider's, or else the first.
Preferred(chosen) ==
    LET first == CHOOSE p \in Providers :
                     /\ Legacy[p] # NoAccount
                     /\ p = "sento" => Legacy["xendit"] = NoAccount
                     /\ p = "dipay" => Legacy["xendit"] = NoAccount /\ Legacy["sento"] = NoAccount
    IN IF Legacy[chosen] # NoAccount THEN Legacy[chosen] ELSE Legacy[first]

\* _backfill_sql(): an account that no row has is inserted ...
Missing == Candidates \ {accounts[i].account : i \in Ids}

Filled(place) ==
    [i \in Ids |-> IF i \in DOMAIN place
                   THEN [account |-> place[i], active |-> place[i] = Preferred(script)]
                   ELSE accounts[i]]

\* ... then "keep the newest active row, deactivate others".
KeepOne(rows, kept) ==
    [i \in Ids |-> IF i = kept THEN rows[i] ELSE [rows[i] EXCEPT !.active = FALSE]]

\* apply_migration(), in one transaction, which fails if the index refuses.  Its
\* CREATE INDEX, though it finds the index there, takes a SHARE lock on the table
\* that the transaction keeps: it waits for every PUT that has written a row, and
\* no PUT writes one until the script commits.  So its last UPDATE never waits on
\* a row, and is one step with the rest.
Backfill ==
    /\ script # "idle"
    /\ last + Cardinality(Missing) <= MaxRows
    /\ \A q \in Requests : Locked(q) \cap Ids = {}
    /\ Missing # {} /\ Preferred(script) \in Missing => Active(accounts) = {}
    /\ \E place \in Bijection((last + 1)..(last + Cardinality(Missing)), Missing),
           kept \in Ids \cup {0} :
          /\ Active(Filled(place)) # {} => kept \in Active(Filled(place))
          /\ accounts' = KeepOne(Filled(place), kept)
    /\ last' = last + Cardinality(Missing)
    /\ script' = "idle"
    /\ UNCHANGED <<provider, req>>

BackfillFails ==
    /\ script # "idle"
    /\ script' = "idle"
    /\ UNCHANGED <<accounts, last, provider, req>>

Next ==
    \/ \E r \in Requests :
          \/ \E b \in Bodies : Begin(r, b)
          \/ DeleteRow(r) \/ EditRow(r) \/ AddRow(r) \/ ClearOthers(r) \/ Activate(r)
          \/ ChooseProvider(r) \/ Commit(r) \/ Fail(r)
    \/ Fetch \/ Backfill \/ BackfillFails

Spec == Init /\ [][Next]_vars

-----------------------------------------------------------------------------
\* StaysPayable: a brand never has two active accounts, and it loses the one it
\* has only with the row: PUTs that choose another one together, and runs of the
\* script among them, leave one of the choices standing (put_payouts,
\* uq_payout_bank_accounts_active).
ChoiceStands ==
    /\ Cardinality(Active(accounts')) <= 1
    /\ Active(accounts) # {} /\ Active(accounts) \subseteq Live(accounts')
           => Active(accounts') # {}

StaysPayable == [][ChoiceStands]_vars
-----------------------------------------------------------------------------
(* The inductive invariant behind it.                                      *)

\* Rows beyond the last id are vacant, and nobody writes one of them.
LastIsLast ==
    /\ \A i \in Ids : i > last => accounts[i] = Vacant
    /\ \A r \in Requests :
          /\ \A i \in Locked(r) : i <= last
          /\ req[r].body.delete <= last /\ req[r].added <= last

\* The rows a PUT makes active: one of them, in one PUT, which takes the entry of
\* the index out that there is.
Chosen(r) == {i \in req[r].flags : req[r].copy[i].active}

OneChosen ==
    /\ \A i, j \in Active(accounts) : i = j
    /\ \A r \in Requests :
          /\ \A i, j \in Chosen(r) : i = j
          /\ Chosen(r) # {} => Active(accounts) \subseteq req[r].flags \cup req[r].gone
    /\ \A r, q \in Requests : Chosen(r) # {} /\ Chosen(q) # {} => r = q

\* A PUT deactivates what it read active only to make another row active, which
\* is none it deletes, and it writes the brand's row only to change the provider.
Steps(r) ==
    /\ req[r].pc \in {"idle", "deleting", "writing", "clearing"} => req[r].flags = {}
    /\ req[r].pc \in {"deleting", "writing"} =>
          /\ req[r].body.activate \in Ids \cup {0, New}
          /\ req[r].body.activate # 0 => req[r].body.activate # req[r].body.delete
          /\ req[r].body.activate = New => req[r].body.edit = 0 /\ req[r].body.account # NoAccount
          /\ req[r].gone \subseteq {req[r].body.delete}
    /\ req[r].pc \in {"clearing", "activating"} => Target(r) \in Ids \cup {0} /\ Target(r) \notin req[r].gone
    /\ req[r].pc \notin {"checking", "committing"} => \A i, j \in Active(req[r].copy) : i = j
    /\ req[r].pc = "activating" =>
          /\ Chosen(r) = {}
          /\ req[r].flags # {} => Target(r) # 0 /\ Target(r) \notin Active(req[r].copy)
    /\ req[r].flags # {} /\ req[r].pc \in {"checking", "committing"} => Chosen(r) # {}
    /\ Chosen(r) \cap req[r].gone = {}
    /\ Brand \in req[r].numbers => req[r].body.provider \in Providers

PayableInv == TypeOK /\ LastIsLast /\ OneChosen /\ \A r \in Requests : Steps(r)
=============================================================================
