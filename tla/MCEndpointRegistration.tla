---- MODULE MCEndpointRegistration ----
(* Instance of EndpointRegistration: up to three endpoints out of nine, and  *)
(* helpers with default, custom, clashing and relative patterns.  A method   *)
(* may be one that helpers answer but endpoints may not have, or any other.  *)
EXTENDS EndpointRegistration

MCAllMethods == <<"GET", "POST", "HEAD">>
MCToTitle == [m \in {"GET", "get", "POST", "HEAD", "PURGE"} |-> IF m = "get" THEN "GET" ELSE m]
MCDefaultDebug == <<"/", "d", "/", "*any">>
MCDefaultEcho == <<"/", "e", "/", "*any">>

Helpers(patterns) == {[enabled |-> FALSE, pattern |-> <<>>]}
    \cup {[enabled |-> TRUE, pattern |-> p] : p \in patterns}
DebugHelpers == Helpers({<<>>, <<"/">>, <<"/", "a", "/", "/">>, <<"d">>})
EchoHelpers == Helpers({<<>>, <<"/", "a">>})

E(method, route, backends, builds) ==
    [method |-> method, route |-> route, backends |-> backends, builds |-> builds]
MCEndpoints == {
    E("GET", <<"/", "a">>, 1, TRUE), E("get", <<"/", "b">>, 2, TRUE),
    E("POST", <<"/", "a">>, 1, TRUE), E("POST", <<"/", "b">>, 2, TRUE),
    E("HEAD", <<"/", "b">>, 1, TRUE), E("GET", <<"/", "b", "/", ":x">>, 1, TRUE),
    E("GET", <<"/", ":x">>, 1, TRUE), E("POST", <<"/", "c">>, 0, FALSE),
    E("PURGE", <<"/", "c">>, 1, TRUE)}

MCConfigurations ==
    [debug : DebugHelpers, echo : EchoHelpers,
     endpoints : UNION {[1..k -> MCEndpoints] : k \in 0..3}]

MCRequests == {<<"/">> \o s : s \in UNION {[1..k -> {"/", "a", "b", "d", "e"}] : k \in 0..3}}
====
