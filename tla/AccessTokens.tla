---------------------------- MODULE AccessTokens ----------------------------
(***************************************************************************)
(* The access tokens of a provider: services/dipay_client.py, which keeps  *)
(* one per merchant and asks for another when a call is refused, and       *)
(* services/jubelio.py, which keeps one and never asks again.              *)
(*                                                                         *)
(* The clock is the age of a token: "margin" once the client would renew   *)
(* it, two minutes before its end, and "over" from its end on.             *)
(***************************************************************************)
EXTENDS Naturals

CONSTANTS
    Calls,          \* concurrent calls of the process
    Merchants,      \* client keys, of brands and of the environment
    MaxTokens,      \* tokens the providers give out
    NoCall,
    Faults

AccessTokensConstants ==
    /\ NoCall \notin Calls /\ Merchants # {} /\ MaxTokens \in Nat \ {0}
    /\ Faults \subseteq {"refusal", "restart", "revoked", "signature"}

Tokens  == 1..MaxTokens
NoToken == 0

VARIABLES
    client,     \* the provider: "dipay" or "jubelio"
    cache,      \* _token_cache: merchant -> token
    lock,       \* _token_locks: merchant -> the call inside
    call,       \* Calls -> a running or finished call
    minted,     \* tokens given out so far
    owner,      \* Tokens -> whose it is
    age,        \* Tokens -> its age
    revoked     \* tokens the provider withdrew before their end

tokenVars == <<client, cache, lock, call, minted, owner, age, revoked>>

\* `why' is history: "signature" once a valid token was answered with a 401.
Idle(m) == [pc |-> "idle", of |-> m, first |-> NoToken, token |-> NoToken,
            why |-> "token"]

Call == [pc : {"idle", "getting", "fetching", "sending", "refused"},
         of : Merchants, first : 0..MaxTokens, token : 0..MaxTokens,
         why : {"token", "signature"}]

TypeOK ==
    /\ client \in {"dipay", "jubelio"}
    /\ cache \in [Merchants -> Tokens \cup {NoToken}]
    /\ lock \in [Merchants -> Calls \cup {NoCall}]
    /\ call \in [Calls -> Call]
    /\ minted \in 0..MaxTokens
    /\ owner \in [Tokens -> Merchants]
    /\ age \in [Tokens -> {"fresh", "margin", "over"}]
    /\ revoked \subseteq Tokens

Nobody == CHOOSE m \in Merchants : TRUE

Init ==
    /\ client \in {"dipay", "jubelio"}
    /\ cache = [m \in Merchants |-> NoToken]
    /\ lock = [m \in Merchants |-> NoCall]
    /\ call = [c \in Calls |-> Idle(Nobody)]
    /\ minted = 0
    /\ owner = [t \in Tokens |-> Nobody]
    /\ age = [t \in Tokens |-> "fresh"]
    /\ revoked = {}

Goes(c, pc) == call' = [call EXCEPT ![c].pc = pc]
Ends(c)     == call' = [call EXCEPT ![c] = Idle(Nobody)]

\* The client goes by its clock alone.
Usable(m) == cache[m] # NoToken /\ age[cache[m]] = "fresh"

Forced_bug(c) == FALSE  \* the retry takes the cached token again

\* _get_token(force=True): only the retry of a refused call.
Forced(c) == call[c].first # NoToken

\* What the provider accepts.
Accepts(m, t) == owner[t] = m /\ age[t] # "over" /\ t \notin revoked

-----------------------------------------------------------------------------
\* A caller resolves its merchant; Jubelio has a single account.
Begin(c, m) ==
    /\ call[c].pc \in {"idle", "refused"}
    /\ client = "jubelio" => m = Nobody
    /\ call' = [call EXCEPT ![c] = [Idle(m) EXCEPT !.pc = "getting"]]
    /\ UNCHANGED <<client, cache, lock, minted, owner, age, revoked>>

\* The cached token is taken: Dipay's client looks inside the lock, Jubelio's
\* also before it.
TakeCached(c) ==
    LET m == call[c].of IN
    /\ call[c].pc = "getting" /\ ~Forced(c) /\ Usable(m)
    /\ client = "dipay" => lock[m] = NoCall
    /\ call' = [call EXCEPT ![c].pc = "sending", ![c].token = cache[m]]
    /\ UNCHANGED <<client, cache, lock, minted, owner, age, revoked>>

Renew(c) ==
    LET m == call[c].of IN
    /\ call[c].pc = "getting" /\ (Forced(c) \/ ~Usable(m))
    /\ lock[m] = NoCall
    /\ lock' = [lock EXCEPT ![m] = c]
    /\ Goes(c, "fetching")
    /\ UNCHANGED <<client, cache, minted, owner, age, revoked>>

\* _fetch_token() returns inside the lock.
Fetched(c) ==
    LET m == call[c].of IN
    /\ call[c].pc = "fetching" /\ minted < MaxTokens
    /\ minted' = minted + 1
    /\ owner' = [owner EXCEPT ![minted'] = m]
    /\ cache' = [cache EXCEPT ![m] = minted']
    /\ lock' = [lock EXCEPT ![m] = NoCall]
    /\ call' = [call EXCEPT ![c].pc = "sending", ![c].token = minted']
    /\ UNCHANGED <<client, age, revoked>>

\* It raises, and the cached token stays.
NotFetched(c) ==
    /\ "refusal" \in Faults /\ call[c].pc = "fetching"
    /\ lock' = [lock EXCEPT ![call[c].of] = NoCall]
    /\ Ends(c)
    /\ UNCHANGED <<client, cache, minted, owner, age, revoked>>

\* Only Dipay's client tries again, and only once.
Retries(c) == client = "dipay" /\ call[c].first = NoToken

\* _signed_request(): an answer, or an error that is not a 401.
Accepted(c) ==
    /\ call[c].pc = "sending" /\ Accepts(call[c].of, call[c].token)
    /\ Ends(c)
    /\ UNCHANGED <<client, cache, lock, minted, owner, age, revoked>>

\* A 401, which the provider also gives to a signature it does not take; the
\* client does not ask what it is about.
Unauthorised(c) ==
    LET accepted == Accepts(call[c].of, call[c].token)
        why      == IF accepted THEN "signature" ELSE call[c].why
    IN
    /\ call[c].pc = "sending"
    /\ accepted => "signature" \in Faults
    /\ \/ /\ Retries(c)
          /\ call' = [call EXCEPT ![c].pc = "getting", ![c].first = call[c].token,
                                  ![c].why = why]
       \/ /\ ~Retries(c)
          /\ call' = [call EXCEPT ![c].pc = "refused", ![c].why = why]
    /\ UNCHANGED <<client, cache, lock, minted, owner, age, revoked>>

-----------------------------------------------------------------------------
\* Time goes on; past the margin a revoked token is as good as one that is over.
Older(t) ==
    /\ t <= minted /\ age[t] # "over" /\ (t \in revoked => age[t] = "fresh")
    /\ age' = [age EXCEPT ![t] = IF @ = "fresh" THEN "margin" ELSE "over"]
    /\ UNCHANGED <<client, cache, lock, call, minted, owner, revoked>>

\* The merchant's credentials are renewed at the provider.  Bound: one token is
\* revoked; a second one that is refused has come of age.
Revoke(t) ==
    /\ "revoked" \in Faults /\ revoked = {} /\ t \in 1..minted /\ age[t] # "over"
    /\ revoked' = revoked \cup {t}
    /\ UNCHANGED <<client, cache, lock, call, minted, owner, age>>

\* Caches and locks live in the process.
Restart ==
    /\ "restart" \in Faults
    /\ cache' = [m \in Merchants |-> NoToken]
    /\ lock' = [m \in Merchants |-> NoCall]
    /\ call' = [c \in Calls |-> Idle(Nobody)]
    /\ UNCHANGED <<client, minted, owner, age, revoked>>

Next ==
    \/ \E c \in Calls :
          \/ \E m \in Merchants : Begin(c, m)
          \/ TakeCached(c) \/ Renew(c) \/ Fetched(c) \/ NotFetched(c)
          \/ Accepted(c) \/ Unauthorised(c)
    \/ \E t \in Tokens : Older(t) \/ Revoke(t)
    \/ Restart

Spec == Init /\ [][Next]_tokenVars

-----------------------------------------------------------------------------
\* RefusedWithNew: a call is given up as unauthorised with a token of its own
\* merchant, with Dipay with a second one given out since the first was refused;
\* and unless a signature was rejected, each of the tokens had ended.  So
\* concurrent calls that renew the token, and tokens of other merchants, refuse
\* nobody (dipay_client._request, "retry once on a 401").
RefusedWithNew ==
    \A c \in Calls :
        call[c].pc = "refused" =>
            /\ owner[call[c].token] = call[c].of
            /\ call[c].why = "token" => ~Accepts(call[c].of, call[c].token)
            /\ client = "dipay" =>
                   /\ call[c].first \in Tokens /\ owner[call[c].first] = call[c].of
                   /\ call[c].why = "token" => ~Accepts(call[c].of, call[c].first)
                   /\ call[c].token > call[c].first
-----------------------------------------------------------------------------
(* The inductive invariant behind it.                                      *)

\* A cached token was given out, to the merchant it is kept for.
CacheOwned == \A m \in Merchants : cache[m] # NoToken => cache[m] <= minted /\ owner[cache[m]] = m

\* One call at a time asks for a merchant's token.
OneFetches == \A c \in Calls : call[c].pc = "fetching" => lock[call[c].of] = c

\* A token was given out to m; and m's calls are no longer accepted with it.
Given(m, t) == t \in 1..minted /\ owner[t] = m
Ended(m, t) == Given(m, t) /\ ~Accepts(m, t)

\* A call takes its own merchant's tokens; one it was refused with has ended,
\* but for a signature, and a retry's is newer.
CallOwns(c) ==
    /\ call[c].first # NoToken =>
          /\ client = "dipay" /\ Given(call[c].of, call[c].first)
          /\ call[c].why = "token" => Ended(call[c].of, call[c].first)
    /\ call[c].pc \in {"sending", "refused"} =>
          /\ Given(call[c].of, call[c].token)
          /\ call[c].token > call[c].first
    /\ call[c].pc = "refused" =>
          /\ call[c].why = "token" => Ended(call[c].of, call[c].token)
          /\ client = "dipay" => call[c].first # NoToken

TokensInv == TypeOK /\ CacheOwned /\ OneFetches /\ \A c \in Calls : CallOwns(c)
=============================================================================
