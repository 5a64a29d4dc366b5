------------------------ MODULE EndpointRegistration ------------------------
(***************************************************************************)
(* From a configuration to a filled router: Provision of app.go calls      *)
(* NewHandler, which registers the helper endpoints and then, one by one,  *)
(* the configured endpoints (internal/lura/lura.go and endpoint.go).       *)
(*                                                                         *)
(* The router is taken by its promise (RouteTable, which RouteTree         *)
(* implements): a method's tree refuses, with a panic, a route that is     *)
(* invalid or conflicts with one it has.  The proxy factory and Lura's     *)
(* validation are external: a stack may fail to build, and no non-GET      *)
(* endpoint with several backends is a valid sequential one, because       *)
(* Provision passes no extra configuration.                                *)
(***************************************************************************)
EXTENDS Routes

CONSTANTS Configurations, \* records [debug, echo, endpoints], see below
          AllMethods,     \* lura.go's allMethods, in order
          ToTitle,        \* strings.ToTitle on the methods a configuration may name
          DefaultDebug,   \* defaultDebugPattern
          DefaultEcho     \* defaultEchoPattern

\* A helper endpoint is [enabled, pattern]; an endpoint is [method, route,
\* backends, builds], `builds' telling whether its proxy stack can be built.

VARIABLES config,    \* the configuration that is provisioned
          table,     \* the routes of the router, each with its handler
          pc,        \* "debug", "echo", "endpoints", then "serving" or "panicked"
          at         \* the position in AllMethods or in config.endpoints

vars == <<config, table, pc, at>>

Endpoint(i) == config.endpoints[i]
Supported == {"GET", "POST", "PUT", "PATCH", "DELETE"}

ASSUME EndpointsTyped == \A c \in Configurations : c.endpoints \in
    Seq([method : DOMAIN ToTitle, route : Seq(STRING), backends : Nat, builds : BOOLEAN])
ASSUME SupportedAreListed ==
    /\ AllMethods \in Seq(STRING)
    /\ \A m \in DOMAIN ToTitle : ToTitle[m] \in Supported => ToTitle[m] \in ToSet(AllMethods)

\* Patterns are paths, and read as the router's are.
ASSUME PatternsRead ==
    /\ "*any" \in CatchAlls /\ <<Slash, "*any">> \in Seq(STRING)
    /\ \A d \in {DefaultDebug, DefaultEcho} : d \in Seq(STRING) /\ Tokenised(d)
    /\ \A c \in Configurations :
         /\ \A h \in {c.debug, c.echo} : h.pattern \in Seq(STRING) /\ Tokenised(h.pattern)
         /\ \A e \in ToSet(c.endpoints) : Tokenised(e.route)

\* TrimRight(pattern, "/") + "/*any", or the default for an empty pattern.
TrimSlashes(pattern) ==
    LET kept == {i \in DOMAIN pattern : pattern[i] # Slash}
    IN  UpTo(pattern, CHOOSE k \in kept \cup {0} : \A i \in kept : i <= k)
HelperRoute(helper, default) ==
    IF helper.pattern = <<>> THEN default
    ELSE TrimSlashes(helper.pattern) \o <<Slash, "*any">>
DebugRoute == HelperRoute(config.debug, DefaultDebug)
EchoRoute == HelperRoute(config.echo, DefaultEcho)

-----------------------------------------------------------------------------
Entry(method, route, handler) == [method |-> method, route |-> route, handler |-> handler]

\* Mutant: only a duplicate is refused.
RefusedTwice(method, route) ==
    \/ route = <<>> \/ route[1] # Slash
    \/ ~Valid(route)
    \/ \E e \in table : e.method = method /\ route = e.route
\* Router.Handle: the route goes into the method's tree, or it panics.
Refused(method, route) ==
    \/ route = <<>> \/ route[1] # Slash
    \/ ~Valid(route)
    \/ \E e \in table : e.method = method /\ Conflict(route, e.route)

Handle(method, route, handler) ==
    IF Refused(method, route)
    THEN pc' = "panicked" /\ UNCHANGED <<table, at>>
    ELSE /\ table' = table \cup {Entry(method, route, handler)}
         /\ at' = at + 1
         /\ UNCHANGED pc

Init == /\ config \in Configurations
        /\ table = {}
        /\ pc = "debug"
        /\ at = 1

\* A helper endpoint answers every method.
RegisterHelper(stage, helper, route, handler) ==
    /\ pc = stage /\ helper.enabled /\ at <= Len(AllMethods)
    /\ Handle(AllMethods[at], route, handler)
    /\ UNCHANGED config
RegisterDebug == RegisterHelper("debug", config.debug, DebugRoute, "debug")
RegisterEcho == RegisterHelper("echo", config.echo, EchoRoute, "echo")

EndHelperEarly(stage, helper, next) ==      \* mutant: after the first method
    /\ pc = stage /\ (helper.enabled => at > 1)
    /\ pc' = next /\ at' = 1
    /\ UNCHANGED <<config, table>>
EndHelper(stage, helper, next) ==
    /\ pc = stage /\ (helper.enabled => at > Len(AllMethods))
    /\ pc' = next /\ at' = 1
    /\ UNCHANGED <<config, table>>
EndDebug == EndHelper("debug", config.debug, "echo")
EndEcho == EndHelper("echo", config.echo, "endpoints")

Looping == pc = "endpoints" /\ at <= Len(config.endpoints)
Method(e) == ToTitle[e.method]
\* What ends the loop, whatever endpoints are left.
Sequential(e) == Method(e) # "GET" /\ e.backends > 1
UnsupportedNone(e) == FALSE            \* mutant: the switch has no default
Unsupported(e) == Method(e) \notin Supported

AbandonUnbuilt ==       \* mutant: a return in the place of the continue
    /\ Looping /\ ~Endpoint(at).builds
    /\ pc' = "serving"
    /\ UNCHANGED <<config, table, at>>
\* The proxy stack cannot be built: the loop goes on with the next endpoint.
SkipEndpoint ==
    /\ Looping /\ ~Endpoint(at).builds
    /\ at' = at + 1
    /\ UNCHANGED <<config, table, pc>>

RegisterEndpoint ==
    /\ Looping
    /\ LET e == Endpoint(at)
       IN  /\ e.builds /\ ~Sequential(e) /\ ~Unsupported(e)
           /\ Handle(Method(e), e.route, "endpoint")
    /\ UNCHANGED config

\* The function returns, and so do NewHandler and Provision, without an error.
Abandon ==
    /\ Looping
    /\ LET e == Endpoint(at)
       IN  e.builds /\ (Sequential(e) \/ Unsupported(e))
    /\ pc' = "serving"
    /\ UNCHANGED <<config, table, at>>

Finish ==
    /\ pc = "endpoints" /\ at > Len(config.endpoints)
    /\ pc' = "serving"
    /\ UNCHANGED <<config, table, at>>

Next == \/ RegisterDebug \/ EndDebug \/ RegisterEcho \/ EndEcho
        \/ SkipEndpoint \/ RegisterEndpoint \/ Abandon \/ Finish

Spec == Init /\ [][Next]_vars

-----------------------------------------------------------------------------
(* Properties *)

TypeOK ==
    /\ config \in Configurations
    /\ pc \in {"debug", "echo", "endpoints", "serving", "panicked"}
    /\ pc # "panicked" => at \in 1..(IF pc \in {"debug", "echo"} THEN Len(AllMethods)
                                      ELSE Len(config.endpoints)) + 1
    /\ \A e \in table : /\ e.method \in ToSet(AllMethods)
                        /\ e.handler \in {"debug", "echo", "endpoint"}

Faulty(e) == ~e.builds \/ Sequential(e) \/ Unsupported(e)
IsServed(e) == Entry(Method(e), e.route, "endpoint") \in table

\* The entries that answer a request.
Answering(method, path) ==
    {e \in table : e.method = method /\ Match(e.route, path) # {}}

(* The routers that get to serve are unambiguous: helpers and endpoints of  *)
(* whatever patterns never both match a request, so no endpoint depends on  *)
(* the order of the configuration (endpoint.go:26-79, tree.go:151-211).     *)
OneHandlerPerRequest == \A m \in ToSet(AllMethods), p \in Requests :
    Cardinality(Answering(m, p)) <= 1

(* An enabled helper owns its subtree for every method, once it serves: no  *)
(* endpoint takes a path of it, and no early return loses it.               *)
HelpersOwnTheirPaths == pc = "serving" =>
    \A m \in ToSet(AllMethods), p \in Requests :
        /\ (config.debug.enabled /\ Match(DebugRoute, p) # {}) =>
             Answering(m, p) = {Entry(m, DebugRoute, "debug")}
        /\ (config.echo.enabled /\ Match(EchoRoute, p) # {}) =>
             Answering(m, p) = {Entry(m, EchoRoute, "echo")}

(* A router that serves has every sound endpoint up to the first one that   *)
(* is given up, however many stacks before it could not be built, and none  *)
(* of the faulty ones (unless a sound one has the same method and route).   *)
ServesUpToTheFirstFault == pc = "serving" =>
    \A i \in DOMAIN config.endpoints :
        LET e == Endpoint(i)
            reached == \A j \in 1..i - 1 : Endpoint(j).builds =>
                           ~Sequential(Endpoint(j)) /\ ~Unsupported(Endpoint(j))
        IN  /\ (reached /\ ~Faulty(e)) => IsServed(e)
            /\ IsServed(e) => \E j \in DOMAIN config.endpoints :
                 /\ ~Faulty(Endpoint(j))
                 /\ Method(Endpoint(j)) = Method(e) /\ Endpoint(j).route = e.route

(* "Ignoring <path>" (endpoint.go:60): only the faulty endpoint is left     *)
(* out, every other one is served.                                          *)
OnlyFaultyEndpointIgnored == pc = "serving" =>
    \A i \in DOMAIN config.endpoints : Faulty(Endpoint(i)) \/ IsServed(Endpoint(i))
=============================================================================
