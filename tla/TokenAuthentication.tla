------------------------ MODULE TokenAuthentication ------------------------
(***************************************************************************)
(* Auth0Authenticator, AwsCognitoAuthenticator and                         *)
(* IdentityPlatformAuthenticator: singletons that fetch the keys of their  *)
(* issuer on first use and verify tokens with the copy they keep, while    *)
(* the issuer rotates its keys and time passes.                            *)
(*                                                                         *)
(* A token is [header, kid, signer, iss, exp, authTime, aud, scopes]: is   *)
(* there a Bearer header with three sections, the key it names, the key    *)
(* that signed it, and its claims.  Keys are numbered as they are made.    *)
(***************************************************************************)
EXTENDS Naturals, FiniteSets

CONSTANTS
    Providers,      \* of "auth0", "cognito", "identity-platform"
    Tokens,         \* what clients present
    Requests,       \* requests being authenticated, each at most once
    Audience,       \* the audience this service expects
    Scope,          \* the scope a route of Auth0 asks for
    MaxKey,         \* bound: keys the issuer makes
    MaxTime,        \* bound: seconds that pass
    Nothing

TokenAssumption ==
    /\ Providers \subseteq {"auth0", "cognito", "identity-platform"}
    /\ \A t \in Tokens : t.kid \in Nat /\ t.exp \in Nat /\ t.authTime \in Nat
    /\ MaxKey \in Nat \ {0}
    /\ Nothing \notin Nat /\ Nothing \notin {"forbidden", "unauthorized", "accepted", "unknown kid"}
    /\ \A pems \in SUBSET (1..MaxKey) : pems # Nothing

VARIABLES
    provider,
    published,      \* the keys the issuer publishes
    keysMade,       \* history: the last key made
    cachedPems,     \* Nothing, or the keys of the copy
    time,
    request         \* request[c]: where the request of caller c is, the keys the issuer
                    \* sent it, its answer, and when
tokenVars == <<provider, published, keysMade, cachedPems, time, request>>

NoRequest == [pc |-> "idle", token |-> Nothing, pems |-> Nothing, answer |-> Nothing, at |-> Nothing]
TokenInit ==
    /\ provider \in Providers
    /\ published = {1} /\ keysMade = 1
    /\ cachedPems = Nothing
    /\ time = 0
    /\ request = [c \in Requests |-> NoRequest]

\* verify(), of jsonwebtoken or the crypto of node: the signature and the expiry.
invalid(t, key) == t.signer # key
expired(t) == t.exp <= time

\* getAndVerifyClaims() after the signature: each provider's claims, in order.
audienceError(t) ==
    CASE provider = "auth0" -> IF Audience \in t.aud THEN Nothing ELSE "forbidden"
      [] provider = "identity-platform" -> IF t.aud = {Audience} THEN Nothing ELSE "unauthorized"
      [] OTHER -> Nothing
scopeError(t) == IF provider = "auth0" /\ Scope \notin t.scopes THEN "forbidden" ELSE Nothing
getAndVerifyClaims(t, key) ==
    CASE invalid(t, key) -> "unauthorized"
      [] ~invalid(t, key) /\ expired(t) -> "expired"
      [] ~invalid(t, key) /\ ~expired(t) /\ (time < t.authTime \/ ~t.iss) -> "unauthorized"
      [] OTHER -> IF audienceError(t) # Nothing THEN audienceError(t)
                  ELSE IF scopeError(t) # Nothing THEN scopeError(t) ELSE "accepted"

\* What authenticate() does once it has the keys: no await before the answer.
getKeyFromToken(t, pems) == IF t.kid \in pems THEN t.kid ELSE Nothing
verifyToken(t, pems) ==
    IF ~t.header THEN "no token"
    ELSE IF getKeyFromToken(t, pems) = Nothing THEN "unknown kid"
    ELSE getAndVerifyClaims(t, getKeyFromToken(t, pems))

Answer(c, t, answer) ==
    request' = [request EXCEPT ![c] = [pc |-> "done", token |-> t, pems |-> Nothing, answer |-> answer, at |-> time]]

authenticate(c, t) ==
    /\ request[c].pc = "idle"
    /\ IF cachedPems = Nothing
         THEN request' = [request EXCEPT ![c] = [NoRequest EXCEPT !.pc = "fetching", !.token = t]]
         ELSE Answer(c, t, verifyToken(t, cachedPems))
    /\ UNCHANGED <<provider, published, keysMade, cachedPems, time>>

\* The issuer sends the keys of the moment, which may have rotated on arrival.
SendKeys(c) ==
    /\ request[c].pc = "fetching"
    /\ request' = [request EXCEPT ![c] = [@ EXCEPT !.pc = "sent", !.pems = published]]
    /\ UNCHANGED <<provider, published, keysMade, cachedPems, time>>
\* getPems() and getCerts(): the last one to arrive is kept, be it the oldest.
getPems(c) ==
    /\ request[c].pc = "sent"
    /\ cachedPems' = request[c].pems
    /\ Answer(c, request[c].token, verifyToken(request[c].token, request[c].pems))
    /\ UNCHANGED <<provider, published, keysMade, time>>
\* An error response resolves as well.  Its body has no `keys`, and the request
\* fails; the body of Identity Platform is the map itself, and is kept.
cacheAnything(body) == body
cacheable(body) == IF provider = "identity-platform" THEN body ELSE Nothing
getPemsFails(c) ==
    /\ request[c].pc = "fetching"
    /\ cachedPems' = IF cacheable({}) = Nothing THEN cachedPems ELSE cacheable({})
    /\ Answer(c, request[c].token, IF cacheable({}) = Nothing THEN "error" ELSE verifyToken(request[c].token, {}))
    /\ UNCHANGED <<provider, published, keysMade, time>>

\* The issuer adds a key and, later, withdraws the oldest.
AddKey ==
    /\ keysMade < MaxKey
    /\ keysMade' = keysMade + 1 /\ published' = published \cup {keysMade + 1}
    /\ UNCHANGED <<provider, cachedPems, time, request>>
WithdrawKey ==
    /\ \E k \in published : \E l \in published : k < l /\ published' = published \ {k}
    /\ UNCHANGED <<provider, keysMade, cachedPems, time, request>>
Tick ==
    /\ time < MaxTime /\ time' = time + 1
    /\ UNCHANGED <<provider, published, keysMade, cachedPems, request>>

TokenNext ==
    \/ \E c \in Requests : SendKeys(c) \/ getPems(c) \/ getPemsFails(c) \/ \E t \in Tokens : authenticate(c, t)
    \/ AddKey \/ WithdrawKey \/ Tick
TokenSpec == TokenInit /\ [][TokenNext]_tokenVars

-----------------------------------------------------------------------------
\* An identity is only ever made of a token that a key of the issuer signed, before
\* it expired, for this issuer, audience and scope, however fetches, rotations and
\* the clock interleave: the key it names is the key that is used.
AcceptedIsAuthentic ==
    \A c \in Requests : request[c].answer = "accepted" =>
        LET t == request[c].token IN
        /\ t.header /\ t.signer = t.kid /\ t.kid <= keysMade /\ t.iss
        /\ provider # "cognito" => Audience \in t.aud
        /\ provider = "auth0" => Scope \in t.scopes
        /\ t.authTime <= request[c].at /\ request[c].at < t.exp

\* A key server that answers with an error costs Auth0 and Cognito the requests
\* that wait for it and nothing more: the copy is never empty, so a token of a key
\* in it is not turned away for its key.
FailedFetchIsNotKept ==
    provider # "identity-platform" =>
      /\ cachedPems # {}
      /\ \A c \in Requests : request[c].answer = "unknown kid" => cachedPems # Nothing /\ request[c].token.header

TokensAreVerified == AcceptedIsAuthentic /\ FailedFetchIsNotKept
=============================================================================
