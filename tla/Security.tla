------------------------------ MODULE Security ------------------------------
(***************************************************************************)
(* Who is let in: the authenticators that verify tokens, and the voters    *)
(* and guards that decide with what an identity says.                      *)
(***************************************************************************)
EXTENDS TokenAuthentication, Authorization

CONSTANTS VoterLists,       \* what the voters of an application do, in their order
          GuardCases,       \* a context of a guard, more names, and an identity
          JwtRequests

SecurityAssumption == TokenAssumption /\ VoterLists \subseteq Seq(Voters)

\* PermissionManager, the guards and JwtManager, on every input of the constants.
AccessIsStrict ==
    /\ \A voters \in VoterLists, votingStrategy \in VotingStrategyEnum : VotesDecide(voters, votingStrategy)
    /\ \A g \in GuardCases : GuardsAreStrict(g.context, g.more, g.identity)
    /\ \A r \in JwtRequests : JwtGuardsPayload(r)

\* Authenticators, voters and guards: nobody is let in on a token, a vote or a claim that
\* does not say so.
AuthorizationIsStrict == TokensAreVerified /\ AccessIsStrict
=============================================================================
