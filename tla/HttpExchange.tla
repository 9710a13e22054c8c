---------------------------- MODULE HttpExchange ----------------------------
(***************************************************************************)
(* How KernelHttpServer answers one request: CorsRequestHandler before the *)
(* kernel, RequestBodyDecoder on the way in and writeResponse on the way   *)
(* out.                                                                    *)
(*                                                                         *)
(* A policy is [origins, hosts, exposed, credentials, privateNetwork], the *)
(* normalised lists as sets.  A request is [method, origin, host,          *)
(* requestMethod, privateNetwork, contentType, charset, body].             *)
(***************************************************************************)
EXTENDS Naturals, Sequences, FiniteSets

CONSTANTS Exchanges,      \* a policy, a request and what becomes of it: [policy, request, outcome]
          Unsent          \* a header or a body that there is not

VARIABLE served         \* the one that a behaviour is about: no two share anything

OutcomeKinds == {"object", "text", "throws", "too large"}
ExchangeAssumption == \A x \in Exchanges : x.outcome.kind \in OutcomeKinds

NoHeaders == [h \in {} |-> Unsent]
With(headers, name, value) == [h \in DOMAIN headers \cup {name} |-> IF h = name THEN value ELSE headers[h]]
Merge(headers, others) ==
    [h \in DOMAIN headers \cup DOMAIN others |-> IF h \in DOMAIN others THEN others[h] ELSE headers[h]]

isOriginCheckEnabled(policy) == policy.origins # {}
isHostCheckEnabled(policy) == policy.hosts # {}
isHostAllowed(policy, host) == isHostCheckEnabled(policy) => host # Unsent /\ host \in policy.hosts
isOriginAllowed(policy, origin) == origin # Unsent /\ origin \in policy.origins

Allow(policy, origin) ==
    LET headers == With(With(NoHeaders, "Allow-Origin", origin), "Vary", "Origin") IN
    IF policy.credentials THEN With(headers, "Allow-Credentials", "true") ELSE headers

\* An OPTIONS request that names no method is no preflight and goes to the kernel.
isPreflight(policy, r) == isOriginCheckEnabled(policy) /\ r.method = "OPTIONS" /\ r.requestMethod # Unsent
buildPreflightResponse(policy, r) ==
    LET allowed == With(With(Allow(policy, r.origin), "Allow-Methods", "configured"), "Max-Age", "configured")
    IN  [status |-> 204, body |-> Unsent,
         headers |-> IF ~isOriginAllowed(policy, r.origin) THEN NoHeaders
                     ELSE IF policy.privateNetwork /\ r.privateNetwork
                       THEN With(allowed, "Allow-Private-Network", "true") ELSE allowed]

buildResponseHeaders(policy, origin) ==
    IF ~isOriginCheckEnabled(policy) \/ ~isOriginAllowed(policy, origin) THEN NoHeaders
    ELSE IF policy.exposed THEN With(Allow(policy, origin), "Expose-Headers", "configured")
    ELSE Allow(policy, origin)

\* RequestBodyDecoder: JSON that does not parse stays text, text needs a text type
\* or a charset, a charset nobody knows is utf-8, and the rest are bytes.
isJson(type) == type \in {"application/json", "application/x+json"}
isText(type, charset) == charset # Unsent \/ type \in {"text/plain", "application/xml"}
decodeText(body, charset) == <<"text", IF charset \in {"latin1"} THEN charset ELSE "utf-8", body>>
decode(type, charset, body) ==
    IF isJson(type) THEN IF body = "json" THEN <<"value", body>> ELSE decodeText(body, charset)
    ELSE IF isText(type, charset) THEN decodeText(body, charset) ELSE <<"bytes", body>>

\* mapToPristineRequest(): the bytes are kept beside what they decode to.
mapToPristineRequest(r) ==
    IF r.method \in {"GET", "HEAD"} \/ r.body = "" THEN [rawBody |-> Unsent, body |-> Unsent]
    ELSE [rawBody |-> r.body, body |-> decode(r.contentType, r.charset, r.body)]

\* writeResponse(): the headers of the response, then those of CORS over them; a
\* JSON body gets its content type where there is none in any spelling.
writeResponse(result, cors) ==
    LET named == IF result.kind = "object" /\ ~\E h \in DOMAIN result.headers : h \in {"content-type", "Content-Type"}
                   THEN With(result.headers, "content-type", "application/json") ELSE result.headers
    IN  [status |-> result.status, headers |-> Merge(named, cors), body |-> result.kind]

JsonError(status, cors) ==
    [status |-> status, headers |-> With(cors, "content-type", "application/json"), body |-> "error"]

\* handleRequest(): the outcome of the body and of the kernel is given.
corsOnSuccessOnly(policy, r, outcome) ==
    LET cors == buildResponseHeaders(policy, r.origin) IN
    CASE ~isHostAllowed(policy, r.host) -> [handled |-> FALSE, answer |-> JsonError(403, NoHeaders)]
      [] outcome.kind = "too large" -> [handled |-> FALSE, answer |-> JsonError(413, NoHeaders)]
      [] outcome.kind = "throws" -> [handled |-> TRUE, answer |-> JsonError(500, NoHeaders)]
      [] OTHER -> [handled |-> TRUE, answer |-> writeResponse(outcome, cors)]
handleRequest(policy, r, outcome) ==
    LET cors == buildResponseHeaders(policy, r.origin) IN
    IF ~isHostAllowed(policy, r.host) THEN [handled |-> FALSE, answer |-> JsonError(403, cors)]
    ELSE IF isPreflight(policy, r) THEN [handled |-> FALSE, answer |-> buildPreflightResponse(policy, r)]
    ELSE IF outcome.kind = "too large" /\ mapToPristineRequest(r).rawBody # Unsent
      THEN [handled |-> FALSE, answer |-> JsonError(413, cors)]
    ELSE IF outcome.kind \in {"throws", "too large"} THEN [handled |-> TRUE, answer |-> JsonError(500, cors)]
    ELSE [handled |-> TRUE, answer |-> writeResponse(outcome, cors)]

ExchangeInit == served \in Exchanges
ExchangeNext == UNCHANGED served
ExchangeSpec == ExchangeInit /\ [][ExchangeNext]_served

-----------------------------------------------------------------------------
(* Properties                                                               *)

\* A browser at an allowed origin can read every answer, the refusals and the
\* errors included: each one echoes that origin, and no answer of the server names
\* another.  A disallowed host and a preflight never reach the kernel; whatever the
\* kernel answers cannot widen the policy; and the raw body is always kept.
AnswerFollowsPolicy(policy, r, outcome) ==
    LET done == handleRequest(policy, r, outcome)
        echoed == IF "Allow-Origin" \in DOMAIN done.answer.headers
                    THEN done.answer.headers["Allow-Origin"] ELSE Unsent
        own == IF outcome.kind \in {"object", "text"} /\ "Allow-Origin" \in DOMAIN outcome.headers /\ done.handled
                 THEN outcome.headers["Allow-Origin"] ELSE Unsent
    IN
    /\ echoed = IF r.origin # Unsent /\ r.origin \in policy.origins THEN r.origin ELSE own
    /\ done.handled => (policy.hosts # {} => r.host \in policy.hosts)
                         /\ ~(policy.origins # {} /\ r.method = "OPTIONS" /\ r.requestMethod # Unsent)
    /\ "Allow-Private-Network" \in DOMAIN done.answer.headers
         => \/ policy.privateNetwork /\ r.privateNetwork /\ echoed \in policy.origins
            \/ done.handled /\ "Allow-Private-Network" \in DOMAIN outcome.headers
    /\ mapToPristineRequest(r).body # Unsent => mapToPristineRequest(r).body[Len(mapToPristineRequest(r).body)] = r.body

\* KernelHttpServer: every answer, errors included, follows the CORS policy.
AnswersFollowPolicy == AnswerFollowsPolicy(served.policy, served.request, served.outcome)
=============================================================================
