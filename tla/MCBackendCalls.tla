---- MODULE MCBackendCalls ----
(* Instance of BackendCalls: one backend with every pattern of up to three    *)
(* pieces, or of four braces and nested placeholders; and two backends with   *)
(* short patterns, and values that may be missing, empty, shared by name, or  *)
(* look like placeholders.                                                    *)
EXTENDS BackendCalls
CONSTANTS b1, b2

MCBackends == {b1, b2}
MCNameTokens == {"a", "b", Tag}

A == <<"a">>
B == <<"b">>
AB == <<"a", "b">>
Braces == {Placeholder(A), Placeholder(<<Tag, "a">>), <<"{">>, <<"}">>}
Pieces == Braces \cup {Placeholder(B), Placeholder(AB), A, <<Tag>>}
Patterns(S, n) == {FlattenSeq(s) : s \in UNION {[1..k -> S] : k \in 0..n}}

\* Values: of the path's parameters, and of Caddy's placeholders.
BraceB == Placeholder(B)
Params == {A :> B, A :> BraceB, A :> <<>>, <<>>}
Caddy == {B :> A, A :> A @@ B :> B, AB :> BraceB}

LongPatterns ==
    {[patterns |-> b1 :> p, params |-> A :> B, caddy |-> B :> BraceB @@ AB :> A] :
        p \in Patterns(Pieces, 3) \cup Patterns(Braces, 4)}
TwoBackends ==
    {[patterns |-> b1 :> p @@ b2 :> q, params |-> v, caddy |-> w] :
        p \in {<<>>, Placeholder(A) \o Placeholder(B)},
        q \in Patterns(Pieces, 1), v \in Params, w \in Caddy}
MCConfigurations == LongPatterns \cup TwoBackends
====
