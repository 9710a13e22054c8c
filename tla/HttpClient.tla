----------------------------- MODULE HttpClient -----------------------------
(***************************************************************************)
(* HttpClient and HttpWrapper of packages/http: one request, with its      *)
(* retries and its redirects.  The network answers with any of Responses   *)
(* or fails.  A status is the class the client tells apart; a response is  *)
(* [status, location] where location is None or [kind, to].                *)
(***************************************************************************)
EXTENDS Naturals, Sequences

CONSTANTS
    Responses,      \* what a server may answer
    Options,        \* [followRedirects, maximumNumberOfRedirects, maximumNumberOfRetries]
    MaxSent,        \* bound: requests the network carries
    NoResponse

\* What the constants have to be.
ClientAssumption ==
    /\ \A o \in Options : /\ o.followRedirects \in BOOLEAN
                          /\ o.maximumNumberOfRedirects \in Nat /\ o.maximumNumberOfRetries \in Nat
    /\ MaxSent \in Nat

VARIABLE exchange   \* the request of one caller and the promise it waits for
clientVars == <<exchange>>

FirstUrl == [host |-> "start", path |-> "/", query |-> "?q", protocol |-> "https:"]
NewRequest(options, protocol) ==
    [pc |-> "new", options |-> options, url |-> [FirstUrl EXCEPT !.protocol = protocol],
     sent |-> 0, inHop |-> 0,           \* history: requests sent, in all and to this URL
     retryCount |-> 0, redirectCount |-> 0, response |-> NoResponse]

ClientInit == \E o \in Options, p \in {"https:", "ftp:"} : exchange = NewRequest(o, p)

isResponseError(r) == r.status \in {"clientError", "serverError"}
isResponseRedirect(r) == r.status = "redirect"
isRetryable(r) == r.status = "serverError"     \* defaultOptions.isRetryable

\* A maximum of 0 is falsy and limits nothing.
limitedAlways(maximum, count) == maximum <= count + 1
reached(maximum, count) == maximum # 0 /\ maximum <= count

\* HttpWrapper.executeRequest() rejects a protocol that is neither http nor https.
executeRequest(e, next) ==
    IF e.url.protocol \notin {"http:", "https:"} THEN [e EXCEPT !.pc = "rejected"]
    ELSE [e EXCEPT !.pc = next, !.sent = @ + 1, !.inHop = @ + 1]

\* A location that starts with a slash replaces the path only, the query stays;
\* any other has to be a whole URL.
appendLocationHeaderToUrl(url, location) ==
    CASE location.kind = "path" -> [url EXCEPT !.path = location.to]
      [] location.kind = "absolute" ->
           [host |-> location.to, path |-> "/", query |-> "", protocol |-> "https:"]
      [] OTHER -> NoResponse

\* handleResponseRedirect(), once the response is no retryable error.
handleResponseRedirect(e, r) ==
    IF ~isResponseRedirect(r) \/ ~e.options.followRedirects
      THEN [e EXCEPT !.pc = "resolved", !.response = r]
    ELSE IF reached(e.options.maximumNumberOfRedirects, e.redirectCount) \/ r.location = NoResponse
            \/ appendLocationHeaderToUrl(e.url, r.location) = NoResponse
      THEN [e EXCEPT !.pc = "rejected", !.response = r]
    ELSE executeRequest([e EXCEPT !.url = appendLocationHeaderToUrl(e.url, r.location),
                                  !.redirectCount = @ + 1, !.retryCount = 0, !.inHop = 0], "sent")

\* handleResponseError(): a response that can be retried arms the timer, until the
\* retries of this URL are used up.
retryForever(e, r) ==
    IF isResponseError(r) /\ isRetryable(r)
      THEN [e EXCEPT !.pc = "backingOff", !.response = r]
      ELSE handleResponseRedirect(e, r)
handleResponseError(e, r) ==
    IF isResponseError(r) /\ isRetryable(r) /\ ~reached(e.options.maximumNumberOfRetries, e.retryCount)
      THEN [e EXCEPT !.pc = "backingOff", !.retryCount = @ + 1, !.response = r]
      ELSE handleResponseRedirect(e, r)

request == exchange.pc = "new" /\ exchange' = executeRequest(exchange, "sent")
BackoffElapses ==
    /\ exchange.pc = "backingOff" /\ exchange.sent < MaxSent
    /\ exchange' = executeRequest(exchange, "resent")
Answers(r) ==
    /\ exchange.pc \in {"sent", "resent"}
    /\ exchange.sent = MaxSent => r.status # "redirect"
    /\ exchange' = handleResponseError(exchange, r)
\* An error rejects the promise, except that of a retry: its timer callback has
\* only `resolve`, and nobody sees the rejection.
NetworkFails ==
    /\ exchange.pc \in {"sent", "resent"}
    /\ exchange' = [exchange EXCEPT !.pc = IF @ = "sent" THEN "rejected" ELSE "forgotten"]

\* An interceptor of a request, of an error or of a response throws.
InterceptorThrows ==
    /\ exchange.pc \in {"new", "sent", "resent"}
    /\ exchange' = [exchange EXCEPT !.pc = "rejected"]

ClientNext ==
    request \/ BackoffElapses \/ NetworkFails \/ InterceptorThrows \/ \E r \in Responses : Answers(r)

\* A server answers or the connection fails, and timers fire.
Responds == NetworkFails \/ \E r \in Responses : Answers(r)
ClientSpec ==
    /\ ClientInit /\ [][ClientNext]_clientVars
    /\ WF_clientVars(request) /\ WF_clientVars(BackoffElapses) /\ WF_clientVars(Responds)

-----------------------------------------------------------------------------
\* Whatever mixture of errors and redirects the servers answer with, maxima above
\* zero bound the requests: those to one URL, and those of the whole request, as the
\* retries start over after a redirect.  A server error is returned only after every
\* retry, a redirect only when they are not followed, and each redirect is followed
\* at most once.
RequestsAreBounded ==
    LET R == exchange.options.maximumNumberOfRedirects
        T == exchange.options.maximumNumberOfRetries
    IN
    /\ T > 0 => exchange.inHop <= T + 1
    /\ T > 0 /\ R > 0 => exchange.sent <= (T + 1) * (R + 1)
    /\ exchange.pc = "resolved" /\ exchange.response.status = "serverError"
         => T > 0 /\ exchange.inHop = T + 1
    /\ exchange.pc = "resolved" /\ exchange.response.status = "redirect"
         => ~exchange.options.followRedirects /\ exchange.redirectCount = 0

\* With maxima above zero the caller's promise settles, but for a retry that could
\* not be sent.
Requested ==
    /\ exchange.pc = "new"
    /\ exchange.options.maximumNumberOfRetries > 0
    /\ exchange.options.maximumNumberOfRedirects > 0
Settled == exchange.pc \in {"resolved", "rejected", "forgotten"}
RequestSettles == Requested ~> Settled
=============================================================================
