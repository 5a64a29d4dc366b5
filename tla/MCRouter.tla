---- MODULE MCRouter ----
(* Instance of Router: a tree of nested, overlapping and wildcard routes for *)
(* GET, and routes of three other methods on some of its paths.  A request   *)
(* that begins with two slashes is left out: net/url reads it as a host.     *)
EXTENDS Router

Letters == {"/", "a", "b", "A"}
MCMethods == {"GET", "POST", "OPTIONS", "CONNECT"}

ShortRequests == {<<"/">> \o s : s \in UNION {[1..k -> Letters] : k \in 0..3}}
HostLike == {<<"/", "/">> \o s : s \in UNION {[1..k -> Letters] : k \in 1..2}}
LongRequests == {
    <<"/", "A", "/", "/", "b">>, <<"/", "b", "/", ".", ".", "/", "a">>,
    <<"/", "a", "/", "b", "/">>, <<"/", "a", "/", ".", "/">>, <<"/", "A", "/", ".", "/", "b", "/", "/">>}
MCRequests == (ShortRequests \ HostLike) \cup LongRequests

MCLower == [c \in Letters \cup {"B", "*", "."} |->
              CASE c = "A" -> "a" [] c = "B" -> "b" [] OTHER -> c]
MCUpper == [c \in Letters \cup {"B", "*", "."} |->
              CASE c = "a" -> "A" [] c = "b" -> "B" [] OTHER -> c]

MCRoutes == {
    <<"/">>, <<"/", "a">>, <<"/", "a", "b">>, <<"/", "a", "/">>,
    <<"/", "a", "/", "b">>, <<"/", "a", "/", ":x">>, <<"/", "A">>,
    <<"/", "b", "/", "*f">>, <<"/", ":x">>, <<"/", ":x", "/", "*f">>}
MCRegistrable == {<<"GET", r>> : r \in MCRoutes}
    \cup {<<"POST", <<"/", "a">> >>, <<"OPTIONS", <<"/", ":x">> >>,
          <<"CONNECT", <<"/", "a", "/">> >>}
====
