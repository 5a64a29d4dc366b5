--------------------------- MODULE EndpointHandle ---------------------------
(***************************************************************************)
(* One request in an endpoint's handler (buildEndpointHandle in            *)
(* internal/lura/endpoint.go): a context with the endpoint's timeout, the  *)
(* proxy call with its concurrent backends, and the answer that is made of *)
(* a response, an error, both or neither.                                  *)
(*                                                                         *)
(* Lura's proxy stack between the handler and the backends is external: it *)
(* returns the one backend's result, or merges what several backends have  *)
(* answered by the time all have settled or the context is done.  It       *)
(* returns soon after the context is done.                                 *)
(*                                                                         *)
(* The router calls the handler only for the endpoint's own method, and    *)
(* the renderer is jsonRender (Provision sets no encoding).                *)
(***************************************************************************)
EXTENDS Naturals, FiniteSets

CONSTANT AllBackends   \* the backends an endpoint may have

VARIABLES cached,      \* CacheTTL is not zero
          backends,    \* the endpoint's backends
          pc,          \* "start", "call", "check", "respond", "render", "done", "panicked"
          ctx,         \* the request's context: "none", "live", "done"
          released,    \* cancel() has been called
          backend,     \* backend -> "waiting", "data", "empty", "coded" or "failed"
          response,    \* what the proxy returned: the backends whose data is in it
          err,         \* the error: "none", "coded" (has a status code), "plain"
          header,      \* the headers that tell about completeness and caching
          answer       \* "none" or what was written or returned

endpoint == <<cached, backends>>
vars == <<endpoint, pc, ctx, released, backend, response, err, header, answer>>

\* A response is nil or has data from some of the backends.
NilResponse == [nil |-> TRUE, data |-> {}, complete |-> FALSE]
Response(data, complete) == [nil |-> FALSE, data |-> data, complete |-> complete]
HasDataAndNoError == err = "none" /\ ~response.nil /\ response.data # {}   \* mutant
HasData == ~response.nil /\ response.data # {}

NoHeader == [completed |-> "unset", cacheControl |-> FALSE]
NoAnswer == [kind |-> "none"]
Error(code) == [kind |-> "error", code |-> code]
Body(data) == [kind |-> "body", data |-> data]

Init ==
    /\ cached \in BOOLEAN
    /\ backends \in (SUBSET AllBackends) \ {{}}
    /\ pc = "start"
    /\ ctx = "none" /\ released = FALSE
    /\ backend = [b \in backends |-> "waiting"]
    /\ response = NilResponse /\ err = "none"
    /\ header = NoHeader /\ answer = NoAnswer

-----------------------------------------------------------------------------
(* The handler *)

CallWithoutDeadline ==      \* mutant: the request's own context is used
    /\ pc = "start" /\ pc' = "call"
    /\ UNCHANGED <<endpoint, ctx, released, backend, response, err, header, answer>>
\* The context and the proxy request; the backends are called.
Call == /\ pc = "start"
        /\ pc' = "call" /\ ctx' = "live"
        /\ UNCHANGED <<endpoint, released, backend, response, err, header, answer>>

CheckNothing ==             \* mutant: the deadline is not looked at
    /\ pc = "check" /\ pc' = "respond"
    /\ UNCHANGED <<endpoint, ctx, released, backend, response, err, header, answer>>
\* select on requestCtx.Done(): a deadline that has passed is an error.
CheckDeadline ==
    /\ pc = "check"
    /\ err' = IF ctx = "done" /\ err = "none" THEN "plain" ELSE err
    /\ pc' = "respond"
    /\ UNCHANGED <<endpoint, ctx, released, backend, response, header, answer>>

\* The headers of an answer with data.
DataHeaderAlwaysCached ==   \* mutant: partial data may be cached, too
    [completed |-> IF response.complete THEN "true" ELSE "false", cacheControl |-> cached]
DataHeader == [completed |-> IF response.complete THEN "true" ELSE "false",
               cacheControl |-> response.complete /\ cached]

\* With data an error is forgotten.
RespondWithData ==
    /\ pc = "respond" /\ HasData
    /\ header' = DataHeader
    /\ pc' = "render"
    /\ UNCHANGED <<endpoint, ctx, released, backend, response, err, answer>>

ErrorLeaksTheContext ==      \* mutant: the error path forgets cancel()
    /\ pc = "respond" /\ ~HasData /\ err # "none"
    /\ header' = [NoHeader EXCEPT !.completed = "false"]
    /\ answer' = Error(IF err = "coded" THEN "own" ELSE "500")
    /\ pc' = "done"
    /\ UNCHANGED <<endpoint, ctx, released, backend, response, err>>
\* Without data: an error ends the request, with its own status code or 500.
RespondWithError ==
    /\ pc = "respond" /\ ~HasData /\ err # "none"
    /\ header' = [NoHeader EXCEPT !.completed = "false"]
    /\ answer' = Error(IF err = "coded" THEN "own" ELSE "500")
    /\ released' = TRUE /\ ctx' = "done"
    /\ pc' = "done"
    /\ UNCHANGED <<endpoint, backend, response, err>>

RespondEmptyOnError ==      \* mutant: the error is not looked at
    /\ pc = "respond" /\ ~HasData
    /\ header' = [NoHeader EXCEPT !.completed = "false"]
    /\ pc' = "render"
    /\ UNCHANGED <<endpoint, ctx, released, backend, response, err, answer>>
RespondEmpty ==
    /\ pc = "respond" /\ ~HasData /\ err = "none"
    /\ header' = [NoHeader EXCEPT !.completed = "false"]
    /\ pc' = "render"
    /\ UNCHANGED <<endpoint, ctx, released, backend, response, err, answer>>

\* jsonRender, and cancel().  Its error, for data that cannot be encoded
\* (render.go:79-82), is left out: what was decoded from JSON always can be.
Render ==
    /\ pc = "render"
    /\ answer' = Body(response.data)
    /\ released' = TRUE /\ ctx' = "done"
    /\ pc' = "done"
    /\ UNCHANGED <<endpoint, backend, response, err, header>>

-----------------------------------------------------------------------------
(* The environment *)

\* The timer, or the client that goes away.
ContextDone ==
    /\ ctx = "live" /\ ctx' = "done"
    /\ UNCHANGED <<endpoint, pc, released, backend, response, err, header, answer>>

\* A backend's proxy: the placeholders of its path cannot be replaced, the
\* call fails, with a status code or without, or the backend answers.
Settle(b, result) ==
    /\ pc = "call" /\ backend[b] = "waiting"
    /\ backend' = [backend EXCEPT ![b] = result]
    /\ UNCHANGED <<endpoint, pc, ctx, released, response, err, header, answer>>

With(result) == {b \in backends : backend[b] = result}
Settled == With("waiting") = {}

ProxyReturns ==
    /\ pc = "call" /\ (Settled \/ ctx = "done")
    /\ pc' = "check"
    /\ IF Cardinality(backends) = 1 THEN
         /\ response' = IF With("data") \cup With("empty") = backends
                        THEN Response(With("data"), TRUE) ELSE NilResponse
         /\ err' = IF With("data") \cup With("empty") = backends THEN "none"
                   ELSE IF With("coded") # {} THEN "coded" ELSE "plain"
       ELSE
         /\ response' = Response(With("data"), With("data") \cup With("empty") = backends)
         /\ err' = IF With("data") \cup With("empty") = backends THEN "none" ELSE "plain"
    /\ UNCHANGED <<endpoint, ctx, released, backend, header, answer>>

\* The proxy or the renderer panics: cancel() is not deferred.
Panic ==
    /\ pc \in {"call", "render"}
    /\ pc' = "panicked"
    /\ UNCHANGED <<endpoint, ctx, released, backend, response, err, header, answer>>

Handler == Call \/ CheckDeadline \/ RespondWithData \/ RespondWithError
           \/ RespondEmpty \/ Render

Next == \/ Handler \/ ContextDone \/ ProxyReturns \/ Panic
        \/ \E b \in backends, r \in {"data", "empty", "coded", "failed"} : Settle(b, r)

Spec == Init /\ [][Next]_vars
FairSpec == /\ Spec
            /\ WF_vars(Handler) /\ WF_vars(ContextDone) /\ WF_vars(ProxyReturns)

-----------------------------------------------------------------------------
(* Properties *)

Results == {"waiting", "data", "empty", "coded", "failed"}

(* The types; a request that waits for its backends has a context, and has  *)
(* released it exactly when it is over.                                     *)
TypeOK ==
    /\ cached \in BOOLEAN /\ released \in BOOLEAN
    /\ backends \subseteq AllBackends
    /\ pc \in {"start", "call", "check", "respond", "render", "done", "panicked"}
    /\ ctx \in {"none", "live", "done"} /\ (ctx = "none" <=> pc = "start")
    /\ released <=> pc = "done"
    /\ backend \in [backends -> Results]
    /\ response \in [nil : BOOLEAN, data : SUBSET backends, complete : BOOLEAN]
    /\ err \in {"none", "coded", "plain"}
    /\ header \in [completed : {"unset", "true", "false"}, cacheControl : BOOLEAN]
    /\ answer \in {NoAnswer} \cup {Error(c) : c \in {"own", "500"}}
                             \cup {Body(d) : d \in SUBSET backends}

Answered == answer.kind # "none"

(* An answer is called complete, and made cacheable, only when every        *)
(* backend has answered, and never when it is an error, whatever the        *)
(* deadline and the failures did in the meantime (endpoint.go:138-165).     *)
CompleteMeansEveryBackend ==
    /\ header.cacheControl => cached /\ header.completed = "true"
    /\ header.completed = "true" =>
         \A b \in backends : backend[b] \in {"data", "empty"}
    /\ (Answered /\ header.completed = "true") => answer = Body(With("data"))

(* An empty document is the answer only when every backend's was: never in  *)
(* the place of a failure or a timeout (endpoint.go:130-165).               *)
EmptyBodyMeansEmptyBackends ==
    answer = Body({}) => \A b \in backends : backend[b] = "empty"

(* What some backends have answered reaches the client, although others     *)
(* failed or the deadline has passed (endpoint.go:138).                     *)
PartialDataIsServed ==
    (pc = "done" /\ response.data # {}) => answer = Body(response.data)

(* A proxy that comes back after the deadline without data is an error,     *)
(* even if it reports none (endpoint.go:130-136).                           *)
LateWithoutDataFails ==
    (pc = "check" /\ ctx = "done" /\ ~HasData) ~> answer.kind = "error"

(* Every request is answered in the end, although no backend ever settles,  *)
(* and has released its context, unless something panics.                   *)
RequestsEnd == pc = "start" ~> (pc = "panicked" \/ (pc = "done" /\ released))
=============================================================================
