------------------------------- MODULE Routes -------------------------------
(***************************************************************************)
(* The vocabulary shared by the router's modules, and what a set of routes *)
(* means independently of the radix tree that stores it.                   *)
(*                                                                         *)
(* A path is a sequence of tokens.  A static byte is a one-letter string   *)
(* ("/" separates segments); a whole wildcard (":id", "*any") is a single  *)
(* token, because the code never looks inside a wildcard except to compare *)
(* it with another one.  The tokens ":" and "*" are the wildcards whose    *)
(* name is empty.                                                          *)
(***************************************************************************)
EXTENDS Naturals, Sequences, FiniteSets, SequencesExt

CONSTANTS ParamTokens,    \* tokens that begin with ':'
          CatchAlls,      \* tokens that begin with '*'
          Candidates,     \* the routes a configuration may try to register
          Requests        \* the request paths that are looked up

Slash == "/"
Wildcards == ParamTokens \cup CatchAlls
Unnamed == {":", "*"}

From(path, i) == SubSeq(path, i, Len(path))
UpTo(path, i) == SubSeq(path, 1, i)

\* What the tokeniser would produce: a wildcard runs to the next '/', or to
\* the next ':' or '*' (an invalid segment), and these two always begin one.
Tokenised(path) ==
    /\ \A i \in 1..Len(path) - 1 :
           path[i] \in Wildcards => path[i + 1] \in Wildcards \cup {Slash}
    /\ \A i \in 1..Len(path) : path[i] \in Unnamed => path[i] \in Wildcards

ASSUME TokensDisjoint == ParamTokens \cap CatchAlls = {} /\ Slash \notin Wildcards
ASSUME RoutesRooted ==
    \A r \in Candidates : /\ r \in Seq(STRING) /\ r # <<>>
                         /\ r[1] = Slash /\ Tokenised(r)
ASSUME RequestsRooted ==
    \A p \in Requests : /\ p \in Seq(STRING) /\ Len(p) > 0 /\ p[1] = Slash
                        /\ ToSet(p) \cap Wildcards = {}

Param == [key : STRING, value : Seq(STRING)]

-----------------------------------------------------------------------------
(* What the documentation of the router promises of a route (README of the *)
(* router, "named parameters" and "catch-all parameters").                 *)

\* A route the router can hold at all: at most one wildcard per segment,
\* named, and a catch-all only as the last token, right after a '/'.
Valid(route) == \A i \in 1..Len(route) :
    /\ route[i] \notin Unnamed
    /\ (route[i] \in Wildcards /\ i < Len(route)) => route[i + 1] = Slash
    /\ route[i] \in CatchAlls => i = Len(route) /\ route[i - 1] = Slash

\* Two routes cannot be told apart when they first differ at a wildcard, or
\* when one is the directory itself of the other's catch-all.
Conflict(r, s) ==
    LET k == Len(LongestCommonPrefix({r, s}))
        wild(p) == k < Len(p) /\ p[k + 1] \in Wildcards
        rest(p) == k < Len(p)
    IN  \/ r = s
        \/ rest(r) /\ rest(s) /\ (wild(r) \/ wild(s))
        \/ \E p \in {r, s} : rest(p) /\ p[k + 1] \in CatchAlls

\* Where the segment that starts a path ends: the position before its '/'.
SegmentEnd(path) ==
    LET i == SelectInSeq(path, LAMBDA c : c = Slash)
    IN  IF i = 0 THEN Len(path) ELSE i - 1

\* The set of parameter lists with which a route matches a request: empty
\* when it does not match, a singleton when it does.  A parameter takes the
\* rest of its segment, which is empty only when a '/' follows; a catch-all
\* takes everything from the '/' before it.
MatchFrom[m \in Seq(STRING) \X Seq(STRING)] ==
    LET route == m[1]
        path  == m[2]
        e     == SegmentEnd(path)
    IN  IF route = <<>> THEN IF path = <<>> THEN {<<>>} ELSE {}
        ELSE IF path = <<>> THEN {}
        ELSE IF route[1] \in ParamTokens THEN
            {<<[key |-> route[1], value |-> UpTo(path, e)]>> \o ps :
                ps \in MatchFrom[<<Tail(route), From(path, e + 1)>>]}
        ELSE IF route[1] # path[1] THEN {}
        ELSE IF Len(route) > 1 /\ route[2] \in CatchAlls THEN
            {<<[key |-> route[2], value |-> path]>>}
        ELSE MatchFrom[<<Tail(route), Tail(path)>>]

Match(route, path) == MatchFrom[<<route, path>>]
=============================================================================
