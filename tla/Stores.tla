------------------------------- MODULE Stores -------------------------------
(***************************************************************************)
(* Who may manage one store: the rows of store_memberships as              *)
(* routers/identity.py invites, revokes and seeds them, and as a sign-in   *)
(* (deps.py) links them.  A row is looked up by address until it is linked *)
(* to a profile, and by profile when a permission is checked; nothing in   *)
(* the schema says that there is one row of either.                        *)
(*                                                                         *)
(* A request reads first, which is one step here, and commits later.       *)
(***************************************************************************)
EXTENDS Naturals, FiniteSets

CONSTANTS
    People,     \* who signs in with Google
    Supers,     \* those of them who are super admins, for whom rows do not count
    Mails,      \* their addresses
    Requests,   \* requests of owners and of the operator, under way together
    MaxRows,    \* bound: rows inserted
    NoOne,
    Faults      \* "moved": people change their address at Google

StoresConstants ==
    /\ Supers \subseteq People
    /\ MaxRows \in Nat /\ Cardinality(Mails) >= Cardinality(People)
    /\ NoOne \notin People \cup Mails
    /\ Faults \subseteq {"moved"}

Roles == {"owner", "staff"}
Ids   == 1..MaxRows

VARIABLES
    mail,     \* People -> profiles.email, NoOne before the first sign-in
    rows,     \* Ids -> the row of store_memberships, or NoMember
    last,     \* the last id that was inserted
    begun     \* Requests -> what a request has read

vars == <<mail, rows, last, begun>>

NoMember == [mail |-> NoOne, person |-> NoOne, role |-> "staff"]
Nothing  == [pc |-> "idle", id |-> 0, mail |-> NoOne, person |-> NoOne, role |-> "staff",
             was |-> "staff"]

Member == [mail : Mails \cup {NoOne}, person : People \cup {NoOne}, role : Roles]

Begun == [pc : {"idle", "inviting", "revoking", "seeding"}, id : 0..MaxRows,
          mail : Mails \cup {NoOne}, person : People \cup {NoOne}, role : Roles, was : Roles]

TypeOK ==
    /\ mail \in [People -> Mails \cup {NoOne}]
    /\ rows \in [Ids -> Member]
    /\ last \in 0..MaxRows
    /\ begun \in [Requests -> Begun]

Init ==
    /\ mail = [p \in People |-> NoOne]
    /\ rows = [i \in Ids |-> NoMember]
    /\ last = 0
    /\ begun = [r \in Requests |-> Nothing]

-----------------------------------------------------------------------------
Live      == {i \in Ids : rows[i] # NoMember}
RowsOf(p) == {i \in Live : rows[i].person = p}
RowsTo(m) == {i \in Live : rows[i].mail = m}
Owners    == {i \in Live : rows[i].role = "owner"}

\* can_admin(), my_stores(): the person's row answers; two are an error.
Answered(p) == p \in Supers \/ Cardinality(RowsOf(p)) <= 1

\* _can_manage(owner_only): the person's one row says so; two are an error.
CanManage(p) == p \in Supers \/ \E i \in Owners : RowsOf(p) = {i}

\* The row of an address, 0 for none; two rows are an error.
OneRowTo(m) == Cardinality(RowsTo(m)) <= 1
RowTo(m)    == IF RowsTo(m) = {} THEN 0 ELSE CHOOSE i \in RowsTo(m) : TRUE

\* The profile that has the address.
ProfileOf(m) ==
    IF \E p \in People : mail[p] = m THEN CHOOSE p \in People : mail[p] = m ELSE NoOne

\* What a request about an address has read: whose the row is, the role it had
\* and the one it gets, and whom to link it to.
Copy(pc, m, role) ==
    LET i == RowTo(m) IN
    [pc |-> pc, id |-> i, mail |-> m, role |-> role,
     was    |-> IF i = 0 THEN role ELSE rows[i].role,
     person |-> IF i # 0 /\ rows[i].person # NoOne THEN NoOne ELSE ProfileOf(m)]

Begins(r, copy) == begun[r] = Nothing /\ begun' = [begun EXCEPT ![r] = copy]
Ends(r)         == begun' = [begun EXCEPT ![r] = Nothing]

-----------------------------------------------------------------------------
\* _claim_pending_invites(): the rows that wait for the address.
Claim(p, m) ==
    [i \in Ids |-> IF i \in RowsTo(m) /\ rows[i].person = NoOne
                   THEN [rows[i] EXCEPT !.person = p] ELSE rows[i]]

\* The profile gets the address that Google verified, one that is somebody
\* else's fails the commit, and takes the rows that wait for it.
SignIn(p, m) ==
    /\ mail[p] \in {NoOne, m} \/ "moved" \in Faults
    /\ \A q \in People \ {p} : mail[q] # m
    /\ mail' = [mail EXCEPT ![p] = m]
    /\ rows' = Claim(p, m)
    /\ UNCHANGED <<last, begun>>

\* invite_member(), by an owner.
Invite(r, by, m, role) ==
    /\ CanManage(by) /\ OneRowTo(m)
    /\ Begins(r, Copy("inviting", m, role))
    /\ UNCHANGED <<mail, rows, last>>

\* seed_membership(), by the operator.
Seed(r, m, role) ==
    /\ OneRowTo(m)
    /\ Begins(r, Copy("seeding", m, role))
    /\ UNCHANGED <<mail, rows, last>>

AddRow_bug(r) ==  \* the row is added without a look at the one there is
    LET c == begun[r] IN
    /\ c.pc \in {"inviting", "seeding"} /\ last < MaxRows
    /\ last' = last + 1
    /\ rows' = [rows EXCEPT ![last'] = [mail |-> c.mail, person |-> c.person, role |-> c.role]]
    /\ Ends(r)
    /\ UNCHANGED mail

\* There was no row: one is added.
AddRow(r) ==
    LET c == begun[r] IN
    /\ c.pc \in {"inviting", "seeding"} /\ c.id = 0 /\ last < MaxRows
    /\ last' = last + 1
    /\ rows' = [rows EXCEPT ![last'] = [mail |-> c.mail, person |-> c.person, role |-> c.role]]
    /\ Ends(r)
    /\ UNCHANGED mail

\* There was one: its role changes, an owner's as well, and the operator's
\* request links it.  The UPDATE of a row that is gone fails.
ChangeRow(r) ==
    LET c == begun[r] IN
    /\ c.pc \in {"inviting", "seeding"} /\ c.id # 0
    /\ rows' = IF c.id \notin Live THEN rows
               ELSE [rows EXCEPT
                       ![c.id].role   = IF c.role = c.was THEN @ ELSE c.role,
                       ![c.id].person = IF c.pc = "seeding" /\ c.person # NoOne
                                        THEN c.person ELSE @]
    /\ Ends(r)
    /\ UNCHANGED <<mail, last>>

\* revoke_member(), by an owner, of anybody but the last owner.
Revoke(r, by, i) ==
    /\ CanManage(by) /\ i \in Live
    /\ rows[i].role = "owner" => Cardinality(Owners) > 1
    /\ Begins(r, [Nothing EXCEPT !.pc = "revoking", !.id = i])
    /\ UNCHANGED <<mail, rows, last>>

RemoveRow(r) ==
    /\ begun[r].pc = "revoking"
    /\ rows' = [rows EXCEPT ![begun[r].id] = NoMember]
    /\ Ends(r)
    /\ UNCHANGED <<mail, last>>

Next ==
    \/ \E p \in People, m \in Mails : SignIn(p, m)
    \/ \E r \in Requests :
          \/ \E p \in People, m \in Mails, role \in Roles : Invite(r, p, m, role)
          \/ \E m \in Mails, role \in Roles : Seed(r, m, role)
          \/ \E p \in People, i \in Ids : Revoke(r, p, i)
          \/ AddRow(r) \/ ChangeRow(r) \/ RemoveRow(r)

Spec == Init /\ [][Next]_vars

-----------------------------------------------------------------------------
\* AccessAnswers: while requests do not overlap and people keep their address,
\* sign-ins between a request's look and its commit included, each address and
\* each person has one row at most: no permission check ends in an error
\* ("scalar_one_or_none", identity._can_manage).
AccessAnswers ==
    /\ \A m \in Mails : OneRowTo(m)
    /\ \A p \in People : Answered(p)

\* OwnerStays: a store that has an owner keeps one ("cannot remove the last
\* owner", identity.revoke_member).
OwnerStays == [][Owners # {} => Owners' # {}]_vars
-----------------------------------------------------------------------------
(* The inductive invariant behind AccessAnswers, of one request at a time. *)

\* Nobody has somebody else's address.
OwnAddress == \A p, q \in People : mail[p] # NoOne /\ mail[p] = mail[q] => p = q

\* An address has one row, and a row is linked to the person with its address.
OneOfAddress == \A i, j \in Ids : rows[i].mail \in Mails /\ rows[i].mail = rows[j].mail => i = j

LinkedByAddress ==
    \A i \in Ids : rows[i].person # NoOne =>
        rows[i].mail \in Mails /\ mail[rows[i].person] = rows[i].mail

\* What a request about an address has read is still so.
ReadStands(r) ==
    /\ begun[r].pc = "revoking" => begun[r].id # 0
    /\ begun[r].pc \in {"inviting", "seeding"} =>
          /\ begun[r].mail \in Mails
          /\ begun[r].id = 0 => \A i \in Ids : rows[i].mail # begun[r].mail
          /\ begun[r].id # 0 => rows[begun[r].id].mail = begun[r].mail
          /\ begun[r].person # NoOne => mail[begun[r].person] = begun[r].mail

AccessInv ==
    TypeOK /\ OwnAddress /\ OneOfAddress /\ LinkedByAddress /\ \A r \in Requests : ReadStands(r)
=============================================================================
