--------------------------- MODULE Authorization ---------------------------
(***************************************************************************)
(* PermissionManager and RoleGuard of packages/security, the guards of     *)
(* aws-cognito and gcp-identity-platform, and JwtManager with its guard    *)
(* and its resolver.                                                       *)
(***************************************************************************)
EXTENDS Naturals, Sequences, FiniteSets

CONSTANT None

VoteEnum == {"GRANT", "DENY", "ABSTAIN"}
VotingStrategyEnum == {"GRANT_ON_UNANIMOUS_ABSTENTION", "DENY_ON_UNANIMOUS_ABSTENTION"}

\* Each voter is what it does with the resource: "unsupported", "throws" or a vote.
\* They are asked one after the other and the first that throws ends it.  The votes are
\* kept by the position of their voter.
votesOf(voters) == [i \in {j \in DOMAIN voters : voters[j] \in VoteEnum} |-> voters[i]]
majority(votes, votingStrategy) ==
    Cardinality({i \in DOMAIN votes : votes[i] = "GRANT"}) > Cardinality({i \in DOMAIN votes : votes[i] = "DENY"})
decide(votes, votingStrategy) ==
    /\ \A i \in DOMAIN votes : votes[i] # "DENY"
    /\ votingStrategy = "DENY_ON_UNANIMOUS_ABSTENTION" => \E i \in DOMAIN votes : votes[i] # "ABSTAIN"
hasAccessToResource(voters, votingStrategy) ==
    IF \E i \in DOMAIN voters : voters[i] = "throws" THEN "throws"
    ELSE IF decide(votesOf(voters), votingStrategy) THEN "granted" ELSE "denied"

\* RoleGuard and AwsCognitoGroupGuard.  A context is None or the names it needs; an
\* identity is None, or has claims that are None or a function; a claim is
\* [isArray, truthy, names].
allOf(context, identity, key) ==
    IF context = None THEN "no"
    ELSE IF context = {} THEN "yes"
    ELSE IF identity = None THEN "no"
    ELSE IF identity.claims = None THEN "throws"
    ELSE IF key \notin DOMAIN identity.claims \/ ~identity.claims[key].isArray THEN "no"
    ELSE IF context \subseteq identity.claims[key].names THEN "yes" ELSE "no"
roleGuard(context, identity) == allOf(context, identity, "roles")
groupGuard(context, identity) == allOf(context, identity, "cognito:groups")

\* IdentityPlatformClaimGuard: each claim itself has to be truthy.
claimGuard(context, identity) ==
    IF context = None THEN "no"
    ELSE IF context = {} THEN "yes"
    ELSE IF identity = None \/ identity.claims = None THEN "no"
    ELSE IF \A c \in context : c \in DOMAIN identity.claims /\ identity.claims[c].truthy THEN "yes" ELSE "no"

\* JwtManager: the header, then the signature by the one algorithm that is configured.
validateRequestAndReturnToken(r) == r.header # None /\ r.header.bearer
validateAndDecode(r) ==
    IF ~validateRequestAndReturnToken(r) THEN "JwtAuthorizationHeaderError"
    ELSE IF r.header.algorithm # "configured" \/ ~r.header.signed THEN "InvalidJwtError"
    ELSE IF r.header.expired THEN "TokenExpiredError" ELSE "payload"
\* The guard rejects with the reason; the parameter of a controller is an empty payload.
jwtProtectedGuard(r) == IF validateAndDecode(r) = "payload" THEN "yes" ELSE "throws"
jwtPayload(r) == IF validateAndDecode(r) = "payload" THEN "payload" ELSE "empty"

-----------------------------------------------------------------------------
Voters == VoteEnum \cup {"unsupported", "throws"}
Inserted(voters, n, v) == SubSeq(voters, 1, n) \o <<v>> \o SubSeq(voters, n + 1, Len(voters))

\* Access takes a vote for it, unless the strategy says otherwise, and never
\* survives a denial or an error, wherever in the order of voters it comes: a voter
\* more that denies takes access away, one more that abstains changes nothing.
VotesDecide(voters, votingStrategy) ==
    LET outcome == hasAccessToResource(voters, votingStrategy) IN
    /\ outcome = "granted" =>
         /\ \A i \in DOMAIN voters : voters[i] \in {"GRANT", "ABSTAIN", "unsupported"}
         /\ votingStrategy = "DENY_ON_UNANIMOUS_ABSTENTION" => \E i \in DOMAIN voters : voters[i] = "GRANT"
    /\ \A n \in 0..Len(voters) :
         /\ hasAccessToResource(Inserted(voters, n, "DENY"), votingStrategy) # "granted"
         /\ hasAccessToResource(Inserted(voters, n, "ABSTAIN"), votingStrategy) = outcome
         /\ outcome = "granted" => hasAccessToResource(Inserted(voters, n, "GRANT"), votingStrategy) = "granted"

\* A guard lets nobody through for whom it does not hold every name it was given,
\* and more names never let more identities through.
GuardsAreStrict(context, more, identity) ==
    \A guard \in {"role", "group", "claim"} :
      LET Is(needed) == CASE guard = "role" -> roleGuard(needed, identity)
                          [] guard = "group" -> groupGuard(needed, identity)
                          [] guard = "claim" -> claimGuard(needed, identity)
      IN  /\ context # {} /\ identity = None => Is(context) = "no"
          /\ context # None /\ Is(context \cup more) = "yes" => Is(context) = "yes"
          /\ context = None => Is(context) = "no"

\* A controller behind the guard of a token is given its payload, and nobody passes the
\* guard with a token that is unsigned, signed by another algorithm or expired.
JwtGuardsPayload(r) ==
    /\ jwtProtectedGuard(r) = "yes" <=> jwtPayload(r) = "payload"
    /\ jwtProtectedGuard(r) = "yes" => /\ r.header # None /\ r.header.bearer /\ r.header.signed
                                       /\ r.header.algorithm = "configured" /\ ~r.header.expired
=============================================================================
