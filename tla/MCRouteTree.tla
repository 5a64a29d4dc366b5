---- MODULE MCRouteTree ----
(* Instance of RouteTree: routes that share prefixes, split edges, end in   *)
(* the middle of others, differ in the name or the place of a wildcard, in  *)
(* the trailing slash, in case, and routes the tree must refuse.            *)
EXTENDS RouteTree

Letters == {"/", "a", "b", "A"}
\* Without empty segments: requests an ordinary client sends.
Clean(p) == \A i \in 1..Len(p) - 1 : p[i] = "/" => p[i + 1] # "/"
ShortRequests == {<<"/">> \o s : s \in UNION {[1..n -> Letters] : n \in 0..3}}
LongRequests == {<<"/">> \o s : s \in [1..4 -> Letters]}
CleanRequests == {p \in ShortRequests \cup LongRequests : Clean(p)}
                 \cup {<<"/", "A", "/", "b", "/", "b">>}
MCRequests == CleanRequests \cup ShortRequests
              \cup {<<"/", "a", "/", "/", "b">>, <<"/", "a", "/", "/", "/">>}

MCLower == [c \in Letters \cup {"B"} |->
              CASE c = "A" -> "a" [] c = "B" -> "b" [] OTHER -> c]
MCUpper == [c \in Letters \cup {"B"} |->
              CASE c = "a" -> "A" [] c = "b" -> "B" [] OTHER -> c]

StaticRoutes == {
    <<"/">>, <<"/", "a">>, <<"/", "A">>, <<"/", "a", "b">>, <<"/", "a", "/">>,
    <<"/", "a", "/", "b">>, <<"/", "b">>, <<"/", "b", "b">>, <<"/", "b", "/">>}
ParamRoutes == {
    <<"/", "a", "/", ":x">>, <<"/", "a", "/", ":y">>,
    <<"/", "a", "/", ":x", "/", "b">>, <<"/", "a", ":x">>,
    <<"/", ":x">>, <<"/", ":x", "/">>}
CatchAllRoutes == {
    <<"/", "b", "/", "*f">>, <<"/", ":x", "/", "*f">>, <<"/", "*f">>,
    <<"/", "a", "/", ":x", "/", "*f">>}
InvalidRoutes == {
    <<"/", "b", "*f">>, <<"/", "a", "/", ":x", ":y">>,
    <<"/", "b", "/", "*f", "/", "a">>, <<"/", "a", "/", ":">>}

MCCandidates == StaticRoutes \cup ParamRoutes \cup CatchAllRoutes \cup InvalidRoutes
====
