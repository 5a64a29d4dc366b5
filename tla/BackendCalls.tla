---------------------------- MODULE BackendCalls ----------------------------
(***************************************************************************)
(* An endpoint and its backends, from Provision to the calls of a request: *)
(* EndpointHandle with the part of each backend that newBackendFactory     *)
(* (endpoint.go) plays, and the patterns that Provision (app.go) prepares. *)
(*                                                                         *)
(* External: Lura's Init rewrites the patterns between two steps of        *)
(* Provision, Lura hands every backend a copy of the request, and its HTTP *)
(* proxy makes the call.                                                   *)
(***************************************************************************)
EXTENDS EndpointHandle, UrlPattern

\* [patterns, params, caddy]: the backends' patterns as configured, the
\* parameters of the request's path, and what else Caddy's replacer knows.
CONSTANT Configurations

VARIABLES config,      \* the configuration and the request
          stage,       \* Provision: "process", "apply", then "serving"
          urlPattern,  \* backend -> the pattern Lura and newBackendFactory see
          params,      \* backend -> the set the loop of url.go is yet to visit
          replacer,    \* the values in the request's replacer
          sent         \* backend -> the path that was called

provisioned == <<config, stage, urlPattern, params>>
callVars == <<provisioned, replacer, sent>>

NotSent == <<"not sent">>

CallsInit ==
    /\ Init
    /\ config \in {c \in Configurations : DOMAIN c.patterns = backends}
    /\ stage = "process"
    /\ urlPattern = config.patterns
    /\ params = [b \in backends |-> ParamsSet(urlPattern[b])]
    /\ replacer = config.caddy
    /\ sent = [b \in backends |-> NotSent]

-----------------------------------------------------------------------------
(* Provision *)

\* processBackendUrlPattern visits its set in the order of a map.
Process(b, name) ==
    /\ stage = "process" /\ name \in params[b]
    /\ urlPattern' = [urlPattern EXCEPT ![b] = Marked(@, name)]
    /\ params' = [params EXCEPT ![b] = @ \ {name}]
    /\ UNCHANGED <<vars, config, stage, replacer, sent>>

\* Lura's Init.
ServiceInit ==
    /\ stage = "process" /\ \A b \in backends : params[b] = {}
    /\ stage' = "apply"
    /\ urlPattern' = [b \in backends |-> Templated(urlPattern[b])]
    /\ UNCHANGED <<vars, config, params, replacer, sent>>

Apply ==
    /\ stage = "apply"
    /\ stage' = "serving"
    /\ urlPattern' = [b \in backends |-> CaddyPlaceholders(urlPattern[b])]
    /\ UNCHANGED <<vars, config, params, replacer, sent>>

-----------------------------------------------------------------------------
(* The request *)

CallUnbound ==              \* mutant: the parameters are not put in
    /\ stage = "serving" /\ Call
    /\ UNCHANGED callVars
CallEarly ==                \* mutant: the handler is there before Provision is over
    /\ stage # "process" /\ Call
    /\ replacer' = config.params @@ replacer
    /\ UNCHANGED <<provisioned, sent>>
\* The handler calls buildProxyRequest, which puts the path's parameters into
\* the replacer, in the place of other values of the same name.
CallProxy ==
    /\ stage = "serving" /\ Call
    /\ replacer' = config.params @@ replacer
    /\ UNCHANGED <<provisioned, sent>>

\* The backend's goroutine has not got to its call.  Its context may be done.
Pending(b) == pc # "start" /\ sent[b] = NotSent

SendEmpty(b) ==             \* mutant: ReplaceOrErr is told to let empty values pass
    /\ Pending(b) /\ \A k \in ReplacerSpans(urlPattern[b]) :
                        Inner(urlPattern[b], k) \in DOMAIN replacer
    /\ sent' = [sent EXCEPT ![b] = Replaced(urlPattern[b], replacer)]
    /\ UNCHANGED <<vars, provisioned, replacer>>
\* GeneratePath and ReplaceOrErr; next is called with the path.
Send(b) ==
    /\ Pending(b) /\ Resolvable(urlPattern[b], replacer)
    /\ sent' = [sent EXCEPT ![b] = Replaced(urlPattern[b], replacer)]
    /\ UNCHANGED <<vars, provisioned, replacer>>

\* ReplaceOrErr fails, and nothing is called.
Unresolved(b) ==
    /\ Pending(b) /\ ~Resolvable(urlPattern[b], replacer)
    /\ Settle(b, "failed")
    /\ UNCHANGED callVars

\* Lura's HTTP proxy returns.
Returns(b, result) ==
    /\ sent[b] # NotSent
    /\ Settle(b, result)
    /\ UNCHANGED callVars

Elsewhere == /\ \/ CheckDeadline \/ RespondWithData \/ RespondWithError
                \/ RespondEmpty \/ Render \/ ContextDone \/ ProxyReturns \/ Panic
             /\ UNCHANGED callVars

CallsNext == \/ ServiceInit \/ Apply \/ CallProxy \/ Elsewhere
             \/ \E b \in backends :
                  \/ \E name \in params[b] : Process(b, name)
                  \/ Send(b) \/ Unresolved(b)
                  \/ \E r \in {"data", "empty", "coded", "failed"} : Returns(b, r)

CallsSpec == CallsInit /\ [][CallsNext]_<<vars, callVars>>

-----------------------------------------------------------------------------
(* Properties *)

Values == config.params @@ config.caddy

\* The pattern has no name that another one of its names becomes in Lura.
Unmistakable(pattern) == \A n \in ParamsSet(pattern) : <<Tag>> \o n \notin ParamsSet(pattern)

(* Handlers see finished patterns only, every call is one of a request, and *)
(* only a backend that was called answers.                                  *)
CallsTypeOK ==
    /\ TypeOK
    /\ config \in Configurations /\ stage \in {"process", "apply", "serving"}
    /\ DOMAIN urlPattern = backends /\ DOMAIN sent = backends
    /\ \A b \in backends : params[b] \subseteq ParamsSet(config.patterns[b])
    /\ stage # "process" => \A b \in backends : params[b] = {}
    /\ stage # "serving" => pc = "start"
    /\ \A b \in backends : /\ sent[b] # NotSent => pc # "start"
                           /\ backend[b] \in {"data", "empty", "coded"} => sent[b] # NotSent

(* Whatever placeholders a pattern has, nested in braces or one within the  *)
(* other, and in whatever order the map yields them, Provision hands the    *)
(* pattern to Caddy's replacer as it was configured ("so that we may depend *)
(* upon caddy's replacer only", app.go:115).                                *)
PatternSurvives == stage = "serving" =>
    \A b \in backends : Unmistakable(config.patterns[b]) =>
        urlPattern[b] = config.patterns[b]

(* A backend is called at the path its configured pattern yields with this  *)
(* request's parameters and Caddy's values, each put in once, and is not    *)
(* called when one of them is missing or empty (endpoint.go:85-104, 173-178).*)
CallsFollowTheConfiguration ==
    \A b \in backends :
        (sent[b] # NotSent /\ Unmistakable(config.patterns[b])) =>
            /\ Resolvable(config.patterns[b], Values)
            /\ sent[b] = Replaced(config.patterns[b], Values)

(* A request one of whose backends cannot be called for want of a value is  *)
(* never answered as complete, nor with an empty document, nor cacheable,   *)
(* although the other backends answer (endpoint.go:95-98, 138-165).         *)
UnresolvedIsNeverComplete ==
    (/\ Answered
     /\ \E b \in backends : /\ Unmistakable(config.patterns[b])
                            /\ ~Resolvable(config.patterns[b], Values)) =>
        /\ header.completed = "false" /\ ~header.cacheControl
        /\ answer # Body({})
=============================================================================
