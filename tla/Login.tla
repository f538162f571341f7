------------------------------- MODULE Login -------------------------------
(***************************************************************************)
(* Signing in with one e-mail address: services/otp_store.py,              *)
(* routers/auth.py, the profile look-ups of deps.py, and the invitations   *)
(* to a store that routers/identity.py leaves for the address.             *)
(*                                                                         *)
(* A request reads its row, and writes it later: an UPDATE by primary key  *)
(* of the columns that changed, which fails if the row is gone, or a       *)
(* DELETE, which does not.  Between its UPDATE and its commit a request    *)
(* holds the row's lock.                                                   *)
(***************************************************************************)
EXTENDS Naturals

CONSTANTS
    Requests,       \* concurrent requests of the person, or about the person
    MaxAttempts,    \* wrong codes a row allows; MAX_ATTEMPTS is 5
    MaxCodes,       \* codes issued
    MaxInvites,     \* rows of store_memberships for the address
    Faults

LoginConstants ==
    /\ MaxAttempts \in Nat \ {0} /\ MaxCodes \in Nat \ {0} /\ MaxInvites \in Nat
    /\ Faults \subseteq {"crash", "undelivered"}

Codes == 1..MaxCodes
Wrong == 0          \* what is typed when it is none of the codes

VARIABLES
    row,        \* otp_codes, the row of the address
    issued,     \* codes issued so far; the last of them made or refreshed the row
    known,      \* codes that reached the person
    req,        \* Requests -> a running request
    profile,    \* profiles, the row with the address
    invites,    \* store_memberships of the address
    accepted    \* Codes -> how often the code was accepted

vars == <<row, issued, known, req, profile, invites, accepted>>

Row == [id : 0..MaxCodes, code : 0..MaxCodes, attempts : 0..MaxAttempts,
        recent : BOOLEAN, late : BOOLEAN]

NoCode == [id |-> 0, code |-> 0, attempts |-> 0, recent |-> FALSE, late |-> FALSE]

Profile == [made : BOOLEAN, google : BOOLEAN]

Idle == [pc |-> "idle", row |-> NoCode, code |-> Wrong, seen |-> FALSE]

Asked == [pc : {"idle", "issuing", "expiring", "comparing", "admitting",
                "signing", "inviting"},
          row : Row, code : 0..MaxCodes, seen : BOOLEAN]

TypeOK ==
    /\ row \in Row
    /\ issued \in 0..MaxCodes
    /\ known \subseteq Codes
    /\ req \in [Requests -> Asked]
    /\ profile \in Profile
    /\ invites \in [pending : 0..MaxInvites, linked : 0..MaxInvites]
    /\ accepted \in [Codes -> 0..2]

Init ==
    /\ row = NoCode /\ issued = 0 /\ known = {}
    /\ req = [r \in Requests |-> Idle]
    /\ profile = [made |-> FALSE, google |-> FALSE]
    /\ invites = [pending |-> 0, linked |-> 0]
    /\ accepted = [c \in Codes |-> 0]

\* A request begins with what it reads: the code's row, or the profile.
Begins(r, copy) == req[r].pc = "idle" /\ req' = [req EXCEPT ![r] = copy]

WithRow(pc, code) == [Idle EXCEPT !.pc = pc, !.row = row, !.code = code]
WithProfile(pc)   == [Idle EXCEPT !.pc = pc, !.seen = profile.made]

Ends(r) == req' = [req EXCEPT ![r] = Idle]

\* A request that has updated the row holds its lock.
Unlocked(id) == \A q \in Requests : req[q].pc = "admitting" => req[q].row.id # id

-----------------------------------------------------------------------------
(* POST /auth/otp/request.                                                 *)

\* issue(): less than a minute after the last code there is no new one.
Issue(r) ==
    /\ issued < MaxCodes /\ ~(row.id # 0 /\ row.recent)
    /\ Begins(r, WithRow("issuing", Wrong))
    /\ UNCHANGED <<row, issued, known, profile, invites, accepted>>

\* send_otp(): the person gets the code, or the messenger failed.
SendOtp(c) == {known \cup {c}} \cup (IF "undelivered" \in Faults THEN {known} ELSE {})

\* The code is stored and committed, then sent.  The attempts are set back only
\* if the copy shows any.  The UPDATE of a row that is gone fails, and so does
\* the INSERT of a second row for the address.
StoreCode(r) ==
    LET c == req[r].row IN
    /\ req[r].pc = "issuing" /\ issued < MaxCodes
    /\ c.id # 0 => Unlocked(c.id)
    /\ IF c.id = row.id
       THEN /\ issued' = issued + 1
            /\ row' = [id       |-> IF c.id = 0 THEN issued' ELSE c.id,
                       code     |-> issued',
                       attempts |-> IF c.id = 0 \/ c.attempts # 0 THEN 0 ELSE row.attempts,
                       recent   |-> TRUE,
                       late     |-> FALSE]
            /\ known' \in SendOtp(issued')
       ELSE UNCHANGED <<row, issued, known>>
    /\ Ends(r)
    /\ UNCHANGED <<profile, invites, accepted>>

\* A minute has passed, or seven.
Age ==
    /\ row.id # 0 /\ ~row.late
    /\ row' = [row EXCEPT !.late = ~row.recent, !.recent = FALSE]
    /\ UNCHANGED <<issued, known, req, profile, invites, accepted>>

-----------------------------------------------------------------------------
(* POST /auth/otp/verify.                                                  *)

Verify_bug(r) ==  \* a row that allows no more attempts is compared with
    /\ row.id # 0
    /\ \/ row.late /\ Begins(r, WithRow("expiring", Wrong))
       \/ ~row.late /\ \E c \in known \cup {Wrong} : Begins(r, WithRow("comparing", c))
    /\ UNCHANGED <<row, issued, known, profile, invites, accepted>>

\* verify() reads the row.  One that allows no more attempts is left alone.
Verify(r) ==
    /\ row.id # 0
    /\ \/ row.late /\ Begins(r, WithRow("expiring", Wrong))
       \/ /\ ~row.late /\ row.attempts < MaxAttempts
          /\ \E c \in known \cup {Wrong} : Begins(r, WithRow("comparing", c))
    /\ UNCHANGED <<row, issued, known, profile, invites, accepted>>

\* A row that was late when it was read is deleted, whatever it is now.
Expire(r) ==
    /\ req[r].pc = "expiring" /\ Unlocked(req[r].row.id)
    /\ row' = IF row.id = req[r].row.id THEN NoCode ELSE row
    /\ Ends(r)
    /\ UNCHANGED <<issued, known, profile, invites, accepted>>

Gone_bug(r) == FALSE  \* the attempt is not counted, and the row's end not noticed

\* The attempt is counted on the copy; the UPDATE fails if the row is gone.
Gone(r) == row.id # req[r].row.id

Compare(r) ==
    /\ req[r].pc = "comparing" /\ Unlocked(req[r].row.id)
    /\ \/ Gone(r) /\ Ends(r) /\ UNCHANGED row
       \/ /\ ~Gone(r) /\ req[r].code # req[r].row.code
          /\ row' = [row EXCEPT !.attempts = req[r].row.attempts + 1]
          /\ Ends(r)
       \/ /\ ~Gone(r) /\ req[r].code = req[r].row.code
          /\ req' = [req EXCEPT ![r].pc = "admitting", ![r].seen = profile.made]
          /\ UNCHANGED row
    /\ UNCHANGED <<issued, known, profile, invites, accepted>>

\* _claim_pending_invites().
Claimed == [pending |-> 0, linked |-> invites.linked + invites.pending]

\* The profile is found, or made if it was not there and still is not.
FoundOrMade(r) == req[r].seen \/ ~profile.made

\* otp_verify() goes on to the profile; one made meanwhile fails the INSERT and
\* takes the whole request back.  The commit uses up the code.
Admit(r) ==
    /\ req[r].pc = "admitting"
    /\ \/ /\ ~FoundOrMade(r)
          /\ UNCHANGED <<row, profile, invites, accepted>>
       \/ /\ FoundOrMade(r)
          /\ row' = IF row.id = req[r].row.id THEN NoCode ELSE row
          /\ profile' = [profile EXCEPT !.made = TRUE]
          /\ invites' = Claimed
          /\ accepted' = [accepted EXCEPT ![req[r].code] = IF @ = 2 THEN 2 ELSE @ + 1]
    /\ Ends(r)
    /\ UNCHANGED <<issued, known>>

-----------------------------------------------------------------------------
(* Google, and the invitations.                                            *)

\* _get_or_create_profile() of any request with a Google token.
SignIn(r) ==
    /\ Begins(r, WithProfile("signing"))
    /\ UNCHANGED <<row, issued, known, profile, invites, accepted>>

\* The same person's profile gets the subject; a profile made meanwhile fails
\* the INSERT.
SignedIn(r) ==
    /\ req[r].pc = "signing"
    /\ IF ~req[r].seen /\ profile.made
       THEN UNCHANGED <<profile, invites>>
       ELSE /\ profile' = [made |-> TRUE, google |-> TRUE]
            /\ invites' = Claimed
    /\ Ends(r)
    /\ UNCHANGED <<row, issued, known, accepted>>

\* invite_member() looks for a membership of the address, and for its profile ...
Invite(r) ==
    /\ invites.pending + invites.linked = 0 /\ MaxInvites > 0
    /\ Begins(r, WithProfile("inviting"))
    /\ UNCHANGED <<row, issued, known, profile, invites, accepted>>

\* ... and adds a row: nothing in the schema says that there is only one.
AddInvite(r) ==
    /\ req[r].pc = "inviting" /\ invites.pending + invites.linked < MaxInvites
    /\ invites' = IF req[r].seen THEN [invites EXCEPT !.linked = @ + 1]
                                 ELSE [invites EXCEPT !.pending = @ + 1]
    /\ Ends(r)
    /\ UNCHANGED <<row, issued, known, profile, accepted>>

Crash(r) ==
    /\ "crash" \in Faults /\ req[r].pc # "idle"
    /\ Ends(r)
    /\ UNCHANGED <<row, issued, known, profile, invites, accepted>>

Next ==
    \/ \E r \in Requests :
          Issue(r) \/ StoreCode(r) \/ Verify(r) \/ Expire(r) \/ Compare(r) \/ Admit(r)
            \/ SignIn(r) \/ SignedIn(r) \/ Invite(r) \/ AddInvite(r) \/ Crash(r)
    \/ Age

Spec == Init /\ [][Next]_vars

-----------------------------------------------------------------------------
\* CodeOnce: a code signs nobody in twice, although requests with the same code
\* compare it with copies of one row ("A successful verify DELETES the row
\* (single-use)", models/otp_code.py).
CodeOnce == \A c \in Codes : accepted[c] < 2
-----------------------------------------------------------------------------
(* The inductive invariant behind it.                                      *)

\* Ids and codes are numbers issued so far, in the row and in copies of it.
WasIssued(c) == c.id # 0 => c.id \in 1..issued /\ c.code \in 1..issued

\* A request has read what it goes by; one that admits holds the row, which is
\* still the one it read.
CopyOf(r) ==
    /\ WasIssued(req[r].row)
    /\ req[r].pc \in {"expiring", "comparing", "admitting"} => req[r].row.id # 0
    /\ req[r].pc = "comparing" => req[r].row.attempts < MaxAttempts
    /\ req[r].pc = "admitting" =>
          /\ req[r].row.id = row.id /\ req[r].code = req[r].row.code
          /\ \A q \in Requests \ {r} : req[q].pc # "admitting"

\* The row with an accepted code is gone, and copies of it are of no use.
UsedUp(c) ==
    accepted[c] # 0 =>
        /\ accepted[c] = 1 /\ c <= issued
        /\ row.id # 0 => row.code # c
        /\ \A r \in Requests :
              req[r].row.id # 0 /\ req[r].row.code = c => req[r].row.id # row.id

LoginInv ==
    /\ TypeOK
    /\ WasIssued(row)
    /\ \A r \in Requests : CopyOf(r)
    /\ \A c \in Codes : UsedUp(c)
    /\ invites.pending + invites.linked <= MaxInvites
=============================================================================
