-------------------------- MODULE TreeLookupProofs --------------------------
(***************************************************************************)
(* What lookups in a radix tree find, for all trees and requests.          *)
(*                                                                         *)
(* Tells is what a lookup needs of a tree; it holds also of one in which a *)
(* registration panicked, since addRoute keeps it wherever it stops.       *)
(* Right says that the answer a lookup gives at a node is the one the      *)
(* routes through that node call for; TurnsRight goes over the branches of *)
(* getValue, and LookupFinds concludes that of all routes of a tree a      *)
(* lookup answers the only one that matches.                               *)
(*                                                                         *)
(* Lookups and case-insensitive searches are recursive.  WellDefined says  *)
(* that a recursion that only looks at smaller arguments defines a         *)
(* function; what gets smaller is the rest of the request, or the node's   *)
(* distance to one where the rest does.                                    *)
(*                                                                         *)
(* SearchRespells says what the case-insensitive search finds: the request *)
(* spelled with other cases, up to a slash at the end if it may fix that,  *)
(* and a path of a registered route if it may not.  TurnRespells goes over *)
(* its branches, by induction on what Remaining measures, and Respells is  *)
(* what holds of each.  SearchSpells adds that it writes no other bytes    *)
(* than those of requests and routes.                                      *)
(***************************************************************************)
EXTENDS RadixTreeProofs

-----------------------------------------------------------------------------
(* Recursion on what a measure makes smaller *)

\* A body B of functions from D to C: what it yields for a function and an
\* argument is in C, and depends on smaller arguments only, m measuring them.
Yields(D, C, B) == \A g \in [D -> C], x \in D : B[<<g, x>>] \in C
LooksBelow(D, C, m, B) ==
    \A g, h \in [D -> C], x \in D :
        (\A y \in D : m[y] < m[x] => g[y] = h[y]) => B[<<g, x>>] = B[<<h, x>>]
Satisfiable(D, C, B) == \E f \in [D -> C] : \A x \in D : f[x] = B[<<f, x>>]

(* Recursion: a body that only looks at smaller arguments defines a function. *)
LEMMA WellDefined ==
    ASSUME NEW D, NEW C, NEW c \in C, NEW m \in [D -> Nat], NEW B,
           Yields(D, C, B), LooksBelow(D, C, m, B)
    PROVE  Satisfiable(D, C, B)
<1> USE DEF Yields, LooksBelow
<1> DEFINE Sol(limit, g) == g \in [D -> C] /\ \A x \in D : m[x] <= limit => g[x] = B[<<g,x>>]
<1>1. ASSUME NEW i \in Nat, NEW j \in Nat, NEW g, NEW h, Sol(i, g), Sol(j, h), NEW x \in D, m[x] <= i, m[x] <= j
      PROVE g[x] = h[x]
  <2> DEFINE T == {k \in Nat : \E y \in D : m[y] = k /\ k <= i /\ k <= j /\ g[y] # h[y]}
  <2> SUFFICES ASSUME T # {} PROVE FALSE
    BY <1>1
  <2>1. PICK k \in T : \A l \in T : k <= l
    <3> HIDE DEF T
    <3>1. T \subseteq Nat BY DEF T
    <3> QED BY <3>1, SmallestOf
  <2>2. PICK y \in D : m[y] = k /\ k <= i /\ k <= j /\ g[y] # h[y]
    BY <2>1
  <2>3. \A z \in D : m[z] < m[y] => g[z] = h[z]
    BY <2>1, <2>2
  <2>4. g[y] = B[<<g, y>>] /\ h[y] = B[<<h,y>>]
    BY <1>1, <2>2
  <2>5. B[<<g, y>>] = B[<<h,y>>]
    BY <1>1, <2>3
  <2> QED BY <2>2, <2>4, <2>5
<1>2. ASSUME NEW limit \in Nat PROVE \E g : Sol(limit, g)
  <2> DEFINE T == {k \in Nat : ~\E g : Sol(k, g)}
  <2> SUFFICES ASSUME T # {} PROVE FALSE
    OBVIOUS
  <2>1. PICK k \in T : \A l \in T : k <= l
    <3> HIDE DEF T
    <3>1. T \subseteq Nat BY DEF T
    <3> QED BY <3>1, SmallestOf
  <2>2. \E g \in [D -> C] : \A x \in D : m[x] <= k - 1 => g[x] = B[<<g,x>>]
    <3>1. CASE k = 0
      <4> WITNESS [x \in D |-> c] \in [D -> C]
      <4> QED BY <3>1
    <3>2. CASE k # 0
      <4>1. k - 1 \in Nat /\ k - 1 \notin T
         BY <3>2, <2>1
      <4>2. \E g : Sol(k - 1, g)
         BY <4>1
      <4> QED BY <4>2
    <3> QED BY <3>1, <3>2
  <2>3. PICK g \in [D -> C] : \A x \in D : m[x] <= k - 1 => g[x] = B[<<g,x>>]
    BY <2>2
  <2> DEFINE h == [x \in D |-> B[<<g, x>>]]
  <2>4. h \in [D -> C] OBVIOUS
  <2>5. ASSUME NEW x \in D, m[x] <= k PROVE h[x] = B[<<h, x>>]
    <3>1. \A y \in D : m[y] < m[x] => g[y] = h[y]
       BY <2>3, <2>5
    <3>2. B[<<g, x>>] = B[<<h, x>>]
       <4> HIDE DEF h
       <4> QED BY <2>4, <3>1
    <3> QED BY <3>2
  <2>6. Sol(k, h)
    <3> HIDE DEF h
    <3> QED BY <2>4, <2>5
  <2> QED BY <2>1, <2>6
<1> DEFINE G(limit) == CHOOSE g : Sol(limit, g)
           F == [x \in D |-> G(m[x])[x]]
<1>3. \A limit \in Nat : Sol(limit, G(limit))
  BY <1>2
<1> HIDE DEF G
<1>4. F \in [D -> C]
  <2>1. \A x \in D : m[x] \in Nat OBVIOUS
  <2> QED BY <1>3, <2>1
<1>5. ASSUME NEW x \in D PROVE F[x] = B[<<F, x>>]
  <2> DEFINE g == G(m[x])
  <2>1. Sol(m[x], g) /\ m[x] \in Nat BY <1>3
  <2>2. ASSUME NEW y \in D, m[y] < m[x] PROVE g[y] = F[y]
    <3>1. m[y] \in Nat /\ Sol(m[y], G(m[y]))
      BY <1>3
    <3>2. m[y] <= m[x] /\ m[y] <= m[y]
      BY <2>1, <2>2, <3>1
    <3> HIDE DEF Sol
    <3>3. G(m[y])[y] = g[y]
      BY <1>1, <2>1, <3>1, <3>2
    <3> QED BY <3>3
  <2>3. B[<<g, x>>] = B[<<F, x>>]
    <3> HIDE DEF F, g
    <3> QED BY <1>4, <2>1, <2>2
  <2> QED BY <2>1, <2>3
<1> QED BY <1>4, <1>5 DEF Satisfiable

-----------------------------------------------------------------------------
(* What a route matches *)

\* Where a segment ends.
LEMMA SegmentOf ==
    ASSUME NEW path \in Seq(STRING)
    PROVE  /\ SegmentEnd(path) \in 0..Len(path)
           /\ From(path, SegmentEnd(path) + 1) \in Seq(STRING)
           /\ UpTo(path, SegmentEnd(path)) \in Seq(STRING)
           /\ Len(UpTo(path, SegmentEnd(path))) = SegmentEnd(path)
           /\ \A k \in 1..SegmentEnd(path) : path[k] # Slash
           /\ SegmentEnd(path) < Len(path) => path[SegmentEnd(path) + 1] = Slash
<1> DEFINE I == {k \in 1..Len(path) : path[k] = Slash}
           i == IF I # {} THEN Min(I) ELSE 0
           e == SegmentEnd(path)
<1>1. SelectInSeq(path, LAMBDA c : c = Slash) = i
  BY DEF SelectInSeq
<1>2. Len(path) \in Nat /\ I \subseteq 1..Len(path)
  OBVIOUS
<1>3. i \in 0..Len(path) /\ (I # {} => i \in I /\ i \in 1..Len(path) /\ \A k \in I : i <= k)
  <2> HIDE DEF I
  <2> QED BY <1>2, FirstOf
<1>4. I = {} => i = 0
  OBVIOUS
<1>5. e = IF i = 0 THEN Len(path) ELSE i - 1
  BY <1>1 DEF SegmentEnd
<1>6. i # 0 => i \in I
  BY <1>3, <1>4
<1> HIDE DEF i, e
<1>7. e \in 0..Len(path)
  BY <1>2, <1>3, <1>5
<1>8. \A k \in 1..e : path[k] # Slash
  <2> SUFFICES ASSUME NEW k \in 1..e, path[k] = Slash PROVE FALSE
    OBVIOUS
  <2>1. k \in 1..Len(path) /\ k \in I
    BY <1>2, <1>7
  <2>2. I # {} /\ i <= k /\ i \in 1..Len(path)
    BY <1>3, <2>1
  <2>3. e = i - 1
    BY <1>5, <2>2
  <2> HIDE DEF I
  <2> QED BY <1>2, <2>2, <2>3
<1>9. e < Len(path) => path[e + 1] = Slash
  <2> SUFFICES ASSUME e < Len(path) PROVE path[e + 1] = Slash
    OBVIOUS
  <2>1. i # 0 /\ e = i - 1
    BY <1>2, <1>5
  <2>2. i \in I /\ i \in 1..Len(path)
    BY <1>2, <1>6, <2>1
  <2>3. e + 1 = i
    BY <2>1, <2>2
  <2> QED BY <2>2, <2>3
<1>10. e + 1 \in 1..Len(path) + 1
  BY <1>2, <1>7
<1>11. From(path, e + 1) \in Seq(STRING) /\ UpTo(path, e) \in Seq(STRING) /\ Len(UpTo(path, e)) = e
  BY <1>7, <1>10, TailOf, HeadOf
<1> QED BY <1>7, <1>8, <1>9, <1>11 DEF e

\* What is matched at the head of a route, given what the rest of it matches.
MatchTurn(match, route, path) ==
    LET e == SegmentEnd(path)
    IN  IF route = <<>> THEN IF path = <<>> THEN {<<>>} ELSE {}
        ELSE IF path = <<>> THEN {}
        ELSE IF route[1] \in ParamTokens THEN
            {<<[key |-> route[1], value |-> UpTo(path, e)]>> \o ps :
                ps \in match[<<Tail(route), From(path, e + 1)>>]}
        ELSE IF route[1] # path[1] THEN {}
        ELSE IF Len(route) > 1 /\ route[2] \in CatchAlls THEN
            {<<[key |-> route[2], value |-> path]>>}
        ELSE match[<<Tail(route), Tail(path)>>]

\* A route matches what its head and the rest of it do.
LEMMA MatchIs ==
    ASSUME NEW route \in Seq(STRING), NEW path \in Seq(STRING)
    PROVE  /\ Match(route, path) \subseteq Seq(Param)
           /\ Match(route, path) = MatchTurn(MatchFrom, route, path)
<1> DEFINE D == Seq(STRING) \X Seq(STRING)
           C == SUBSET Seq(Param)
           B == [gx \in [D -> C] \X D |-> MatchTurn(gx[1], gx[2][1], gx[2][2])]
           m == [x \in D |-> Len(x[1])]
           Body(g) == [x \in D |-> MatchTurn(g, x[1], x[2])]
<1>1. m \in [D -> Nat] /\ \A x \in D : m[x] = Len(x[1])
  OBVIOUS
<1>2. \A g \in [D -> C], x \in D : B[<<g, x>>] = MatchTurn(g, x[1], x[2])
  OBVIOUS
<1>3. ASSUME NEW r \in Seq(STRING), r # <<>>
      PROVE  Tail(r) \in Seq(STRING) /\ Len(Tail(r)) < Len(r) /\ r[1] \in STRING
  BY <1>3
<1>4. ASSUME NEW p \in Seq(STRING), p # <<>> PROVE Tail(p) \in Seq(STRING)
  BY <1>4
<1>5. ASSUME NEW p \in Seq(STRING)
      PROVE  From(p, SegmentEnd(p) + 1) \in Seq(STRING) /\ UpTo(p, SegmentEnd(p)) \in Seq(STRING)
  BY SegmentOf
<1> HIDE DEF B, m
<1>6. ASSUME NEW g, NEW r \in Seq(STRING), NEW p \in Seq(STRING),
             r # <<>> => \A q \in Seq(STRING) : g[<<Tail(r), q>>] \subseteq Seq(Param)
      PROVE  MatchTurn(g, r, p) \subseteq Seq(Param)
  <2>1. {<<>>} \subseteq Seq(Param) /\ {} \subseteq Seq(Param)
    OBVIOUS
  <2>2. ASSUME r # <<>>, p # <<>>, NEW ps \in g[<<Tail(r), From(p, SegmentEnd(p) + 1)>>]
        PROVE  <<[key |-> r[1], value |-> UpTo(p, SegmentEnd(p))]>> \o ps \in Seq(Param)
    <3>2. ps \in Seq(Param)
      BY <1>5, <1>6, <2>2
    <3>3. [key |-> r[1], value |-> UpTo(p, SegmentEnd(p))] \in Param
      BY <1>3, <1>5, <2>2 DEF Param
    <3> QED BY <3>2, <3>3
  <2>3. ASSUME r # <<>>, Len(r) > 1
        PROVE  {<<[key |-> r[2], value |-> p]>>} \subseteq Seq(Param)
    <3>1. [key |-> r[2], value |-> p] \in Param
      BY <2>3 DEF Param
    <3> QED BY <3>1
  <2>4. r # <<>> /\ p # <<>> => g[<<Tail(r), Tail(p)>>] \subseteq Seq(Param)
    BY <1>4, <1>6
  <2> QED BY <2>1, <2>2, <2>3, <2>4 DEF MatchTurn
<1>7. ASSUME NEW g \in [D -> C], NEW h \in [D -> C], NEW x \in D,
             \A y \in D : m[y] < m[x] => g[y] = h[y]
      PROVE  MatchTurn(g, x[1], x[2]) = MatchTurn(h, x[1], x[2])
  <2> DEFINE r == x[1]
             p == x[2]
  <2>1. r \in Seq(STRING) /\ p \in Seq(STRING)
    OBVIOUS
  <2>2. ASSUME r # <<>>, NEW q \in Seq(STRING) PROVE g[<<Tail(r), q>>] = h[<<Tail(r), q>>]
    <3>1. <<Tail(r), q>> \in D /\ <<Tail(r), q>>[1] = Tail(r)
      BY <1>3, <2>1, <2>2
    <3>2. m[<<Tail(r), q>>] < m[x]
      BY <1>1, <1>3, <2>1, <2>2, <3>1
    <3> QED BY <1>7, <3>1, <3>2
  <2>3. r # <<>> => g[<<Tail(r), From(p, SegmentEnd(p) + 1)>>] = h[<<Tail(r), From(p, SegmentEnd(p) + 1)>>]
    BY <1>5, <2>1, <2>2
  <2>4. r # <<>> /\ p # <<>> => g[<<Tail(r), Tail(p)>>] = h[<<Tail(r), Tail(p)>>]
    BY <1>4, <2>1, <2>2
  <2> HIDE DEF r, p
  <2>5. MatchTurn(g, r, p) = MatchTurn(h, r, p)
    BY <2>3, <2>4 DEF MatchTurn
  <2> QED BY <2>5 DEF r, p
<1>8. Satisfiable(D, C, B)
  <2>1. Yields(D, C, B)
    <3> SUFFICES ASSUME NEW g \in [D -> C], NEW x \in D PROVE B[<<g, x>>] \in C
      BY DEF Yields
    <3>1. x[1] \in Seq(STRING) /\ x[2] \in Seq(STRING)
      OBVIOUS
    <3>2. x[1] # <<>> => \A q \in Seq(STRING) : g[<<Tail(x[1]), q>>] \subseteq Seq(Param)
      <4> SUFFICES ASSUME x[1] # <<>>, NEW q \in Seq(STRING)
                   PROVE  g[<<Tail(x[1]), q>>] \subseteq Seq(Param)
        OBVIOUS
      <4>1. <<Tail(x[1]), q>> \in D
        BY <1>3, <3>1
      <4> QED BY <4>1
    <3>3. MatchTurn(g, x[1], x[2]) \in C
      BY <1>6, <3>1, <3>2
    <3> QED BY <1>2, <3>3
  <2>2. LooksBelow(D, C, m, B)
    <3> SUFFICES ASSUME NEW g \in [D -> C], NEW h \in [D -> C], NEW x \in D,
                        \A y \in D : m[y] < m[x] => g[y] = h[y]
                 PROVE  B[<<g, x>>] = B[<<h, x>>]
      BY DEF LooksBelow
    <3>1. MatchTurn(g, x[1], x[2]) = MatchTurn(h, x[1], x[2])
      BY <1>7
    <3>2. B[<<g, x>>] = MatchTurn(g, x[1], x[2]) /\ B[<<h, x>>] = MatchTurn(h, x[1], x[2])
      <4> HIDE DEF D, C
      <4> QED BY <1>2, Zenon
    <3> QED BY <3>1, <3>2, Zenon
  <2>3. {} \in C
    OBVIOUS
  <2> HIDE DEF D, C
  <2> QED BY <1>1, <2>1, <2>2, <2>3, WellDefined, Zenon
<1>9. PICK f \in [D -> C] : \A x \in D : f[x] = B[<<f, x>>]
  BY <1>8 DEF Satisfiable
<1>10. f = Body(f)
  <2>1. \A x \in D : f[x] = MatchTurn(f, x[1], x[2])
    BY <1>2, <1>9
  <2> QED BY <2>1
<1>11. MatchFrom = CHOOSE g : g = Body(g)
  BY DEF MatchFrom, MatchTurn
<1>12. MatchFrom = Body(MatchFrom)
  <2> HIDE DEF Body
  <2> QED BY <1>10, <1>11
<1> DEFINE x == <<route, path>>
<1>13. x \in D /\ x[1] = route /\ x[2] = path
  OBVIOUS
<1>14. \A y \in D : MatchFrom[y] = MatchTurn(MatchFrom, y[1], y[2])
  <2>1. \A y \in D : MatchFrom[y] = Body(MatchFrom)[y]
    BY <1>12, Zenon
  <2>2. \A y \in D : Body(MatchFrom)[y] = MatchTurn(MatchFrom, y[1], y[2])
    BY Zenon
  <2> HIDE DEF Body, D
  <2> QED BY <2>1, <2>2, Zenon
<1>15. Match(route, path) = MatchTurn(MatchFrom, route, path)
  BY <1>13, <1>14 DEF Match
<1>16. Match(route, path) \subseteq Seq(Param)
  <2> DEFINE K == {n \in Nat : \A r, p \in Seq(STRING) :
                      Len(r) = n => MatchFrom[<<r, p>>] \subseteq Seq(Param)}
  <2>1. \A r, p \in Seq(STRING) : MatchFrom[<<r, p>>] = MatchTurn(MatchFrom, r, p)
    <3> SUFFICES ASSUME NEW r \in Seq(STRING), NEW p \in Seq(STRING)
                 PROVE  MatchFrom[<<r, p>>] = MatchTurn(MatchFrom, r, p)
      OBVIOUS
    <3>1. <<r, p>> \in D /\ <<r, p>>[1] = r /\ <<r, p>>[2] = p
      OBVIOUS
    <3> HIDE DEF D
    <3> QED BY <1>14, <3>1
  <2>2. 0 \in K
    <3> SUFFICES ASSUME NEW r \in Seq(STRING), NEW p \in Seq(STRING), Len(r) = 0
                 PROVE  MatchFrom[<<r, p>>] \subseteq Seq(Param)
      OBVIOUS
    <3>1. r = <<>>
      OBVIOUS
    <3>2. MatchTurn(MatchFrom, r, p) \subseteq Seq(Param)
      BY <1>6, <3>1
    <3> QED BY <2>1, <3>2, Zenon
  <2>3. ASSUME NEW n \in Nat, n \in K PROVE n + 1 \in K
    <3> SUFFICES ASSUME NEW r \in Seq(STRING), NEW p \in Seq(STRING), Len(r) = n + 1
                 PROVE  MatchFrom[<<r, p>>] \subseteq Seq(Param)
      OBVIOUS
    <3>1. Tail(r) \in Seq(STRING) /\ Len(Tail(r)) = n
      OBVIOUS
    <3>2. \A q \in Seq(STRING) : MatchFrom[<<Tail(r), q>>] \subseteq Seq(Param)
      BY <2>3, <3>1
    <3>3. MatchTurn(MatchFrom, r, p) \subseteq Seq(Param)
      BY <1>6, <3>2
    <3> QED BY <2>1, <3>3, Zenon
  <2>4. Nat \subseteq K
    <3> HIDE DEF K
    <3> QED BY <2>2, <2>3, NatSetInduction
  <2>5. Len(route) \in K
    BY <2>4
  <2> QED BY <2>5 DEF Match
<1> QED BY <1>15, <1>16

\* What the rest of a route behind its token e matches.
Rest(r, e) == From(r, e + 1)

\* The rest of a route and its first tokens.
LEMMA RestIs ==
    ASSUME NEW r \in Seq(STRING), NEW e \in 0..Len(r)
    PROVE  /\ Rest(r, e) \in Seq(STRING) /\ Len(Rest(r, e)) = Len(r) - e
           /\ e = Len(r) => Rest(r, e) = <<>>
           /\ e < Len(r) => /\ Rest(r, e) # <<>> /\ Rest(r, e)[1] = r[e + 1]
                            /\ Tail(Rest(r, e)) = Rest(r, e + 1)
           /\ e + 1 < Len(r) => Len(Rest(r, e)) > 1 /\ Rest(r, e)[2] = r[e + 2]
<1> DEFINE q == Rest(r, e)
<1>1. Len(r) \in Nat /\ e \in Nat /\ e + 1 \in 1..Len(r) + 1
  OBVIOUS
<1>2. /\ q \in Seq(STRING) /\ Len(q) = Len(r) - (e + 1) + 1
      /\ \A k \in 1..Len(r) - (e + 1) + 1 : q[k] = r[(e + 1) + k - 1]
  BY <1>1, TailOf DEF Rest
<1>3. Len(q) = Len(r) - e /\ \A k \in 1..Len(r) - e : q[k] = r[e + k]
  <2>1. Len(r) - (e + 1) + 1 = Len(r) - e
    BY <1>1
  <2>2. \A k \in 1..Len(r) - e : (e + 1) + k - 1 = e + k
    BY <1>1
  <2> QED BY <1>2, <2>1, <2>2
<1>4. ASSUME e < Len(r) PROVE Tail(q) = Rest(r, e + 1)
  <2> DEFINE s == Rest(r, e + 1)
  <2>1. e + 2 \in 1..Len(r) + 1 /\ (e + 1) + 1 = e + 2
    BY <1>1, <1>4
  <2>2. /\ s \in Seq(STRING) /\ Len(s) = Len(r) - (e + 2) + 1
        /\ \A k \in 1..Len(r) - (e + 2) + 1 : s[k] = r[(e + 2) + k - 1]
    BY <2>1, TailOf DEF Rest
  <2>3. q # <<>> /\ Len(q) > 0
    BY <1>1, <1>2, <1>3, <1>4
  <2> HIDE DEF q, s
  <2>4. /\ Tail(q) \in Seq(STRING) /\ Len(Tail(q)) = Len(q) - 1
        /\ \A k \in 1..Len(q) - 1 : Tail(q)[k] = q[k + 1]
    BY <1>2, <2>3
  <2>5. Len(Tail(q)) = Len(s)
    BY <1>1, <1>3, <2>2, <2>4
  <2>6. \A k \in 1..Len(s) : Tail(q)[k] = s[k]
    <3> SUFFICES ASSUME NEW k \in 1..Len(s) PROVE Tail(q)[k] = s[k]
      OBVIOUS
    <3>1. /\ k \in 1..Len(q) - 1 /\ k + 1 \in 1..Len(r) - e /\ k \in 1..Len(r) - (e + 2) + 1
          /\ e + (k + 1) = (e + 2) + k - 1
      BY <1>1, <1>3, <1>4, <2>2
    <3> QED BY <1>3, <2>2, <2>4, <3>1
  <2>7. Tail(q) = s
    BY <2>2, <2>4, <2>5, <2>6, SeqEqual
  <2> QED BY <2>7 DEF s
<1> HIDE DEF q
<1>5. e = Len(r) => q = <<>>
  BY <1>1, <1>2, <1>3
<1>6. e < Len(r) => q # <<>> /\ q[1] = r[e + 1]
  <2> SUFFICES ASSUME e < Len(r) PROVE q # <<>> /\ q[1] = r[e + 1]
    OBVIOUS
  <2>1. 1 \in 1..Len(r) - e /\ Len(q) > 0
    BY <1>1, <1>3
  <2> QED BY <1>3, <2>1
<1>7. e + 1 < Len(r) => Len(q) > 1 /\ q[2] = r[e + 2]
  <2> SUFFICES ASSUME e + 1 < Len(r) PROVE Len(q) > 1 /\ q[2] = r[e + 2]
    OBVIOUS
  <2>1. 2 \in 1..Len(r) - e /\ Len(q) > 1
    BY <1>1, <1>3
  <2> QED BY <1>3, <2>1
<1> QED BY <1>2, <1>3, <1>4, <1>5, <1>6, <1>7 DEF q

Matched(r, e, path) == Match(Rest(r, e), path)

\* What is behind the last token of a route, and what at any other.
LEMMA MatchedAtEnd ==
    ASSUME NEW r \in Seq(STRING), NEW e, e = Len(r), NEW path \in Seq(STRING)
    PROVE  Matched(r, e, path) = IF path = <<>> THEN {<<>>} ELSE {}
<1>1. e \in 0..Len(r)
  OBVIOUS
<1>2. Rest(r, e) = <<>> /\ Rest(r, e) \in Seq(STRING)
  BY <1>1, RestIs
<1> QED BY <1>2, MatchIs DEF Matched, MatchTurn

LEMMA MatchedNext ==
    ASSUME NEW r \in Seq(STRING), NEW e \in Nat, e < Len(r), NEW path \in Seq(STRING)
    PROVE  /\ path = <<>> => Matched(r, e, path) = {}
           /\ path # <<>> /\ r[e + 1] \notin ParamTokens /\ r[e + 1] # path[1] =>
                  Matched(r, e, path) = {}
           /\ path # <<>> /\ r[e + 1] \notin ParamTokens /\ r[e + 1] = path[1] =>
                  IF e + 1 < Len(r) /\ r[e + 2] \in CatchAlls
                  THEN Matched(r, e, path) = {<<[key |-> r[e + 2], value |-> path]>>}
                  ELSE Matched(r, e, path) = Matched(r, e + 1, From(path, 2))
           /\ path # <<>> /\ r[e + 1] \in ParamTokens =>
                  LET i == SegmentEnd(path)
                  IN  Matched(r, e, path) =
                        {<<[key |-> r[e + 1], value |-> UpTo(path, i)]>> \o ps :
                            ps \in Matched(r, e + 1, From(path, i + 1))}
<1>1. e \in 0..Len(r) /\ Len(r) \in Nat
  OBVIOUS
<1> DEFINE q == Rest(r, e)
<1>2. /\ q \in Seq(STRING) /\ Len(q) = Len(r) - e /\ q # <<>> /\ q[1] = r[e + 1]
      /\ Tail(q) = Rest(r, e + 1)
      /\ e + 1 < Len(r) => Len(q) > 1 /\ q[2] = r[e + 2]
  BY <1>1, RestIs
<1>3. Matched(r, e, path) = MatchTurn(MatchFrom, q, path)
  BY <1>2, MatchIs DEF Matched
<1> HIDE DEF q
<1>4. \A p : MatchFrom[<<Tail(q), p>>] = Matched(r, e + 1, p)
  BY <1>2 DEF Matched, Match
<1>5. path # <<>> => Tail(path) = From(path, 2)
  BY DEF From
<1>6. (Len(q) > 1) <=> e + 1 < Len(r)
  BY <1>1, <1>2
<1>7. path = <<>> => Matched(r, e, path) = {}
  BY <1>2, <1>3 DEF MatchTurn
<1>8. path # <<>> /\ r[e + 1] \notin ParamTokens /\ r[e + 1] # path[1] => Matched(r, e, path) = {}
  BY <1>2, <1>3 DEF MatchTurn
<1>9. path # <<>> /\ r[e + 1] \notin ParamTokens /\ r[e + 1] = path[1] =>
         IF Len(q) > 1 /\ q[2] \in CatchAlls
         THEN Matched(r, e, path) = {<<[key |-> q[2], value |-> path]>>}
         ELSE Matched(r, e, path) = Matched(r, e + 1, From(path, 2))
  BY <1>2, <1>3, <1>4, <1>5 DEF MatchTurn
<1>10. path # <<>> /\ r[e + 1] \in ParamTokens =>
          LET i == SegmentEnd(path)
          IN  Matched(r, e, path) =
                {<<[key |-> r[e + 1], value |-> UpTo(path, i)]>> \o ps :
                    ps \in Matched(r, e + 1, From(path, i + 1))}
  BY <1>2, <1>3, <1>4 DEF MatchTurn
<1> QED BY <1>2, <1>6, <1>7, <1>8, <1>9, <1>10

\* Tokens that are no wildcards, which a route goes on with without a catch-all.
Plain(q) == \A k \in 1..Len(q) : q[k] \notin Wildcards
NoCatchAll(r, e) == Len(r) > e => r[e + 1] \notin CatchAlls

\* The rest of the rest of a path.
LEMMA RestOfRest ==
    ASSUME NEW path \in Seq(STRING), NEW j \in Nat, j < Len(path)
    PROVE  /\ From(path, j + 1) \in Seq(STRING) /\ From(path, j + 1) # <<>>
           /\ From(path, j + 1)[1] = path[j + 1]
           /\ From(From(path, j + 1), 2) = From(path, j + 1 + 1)
<1>1. j \in 0..Len(path) /\ j + 1 \in Nat
  OBVIOUS
<1>2. /\ Rest(path, j) \in Seq(STRING) /\ Rest(path, j) # <<>> /\ Rest(path, j)[1] = path[j + 1]
      /\ Tail(Rest(path, j)) = Rest(path, j + 1)
  BY <1>1, RestIs
<1>3. \A s \in Seq(STRING) : s # <<>> => Tail(s) = From(s, 2)
  BY DEF From
<1> QED BY <1>2, <1>3 DEF Rest

\* Passing such tokens in a request.
LEMMA MatchedBehind ==
    ASSUME NEW r \in Seq(STRING), NEW e \in Nat, NEW q \in Seq(STRING), Spelt(q, e, r), Plain(q),
           NoCatchAll(r, e + Len(q)), NEW path \in Seq(STRING), NEW j \in Nat, j <= Len(q),
           j <= Len(path), \A k \in 1..j : path[k] = q[k]
    PROVE  Matched(r, e, path) = Matched(r, e + j, From(path, j + 1))
<1> DEFINE P(i) == (i <= Len(q) /\ i <= Len(path) /\ \A k \in 1..i : path[k] = q[k])
                       => Matched(r, e, path) = Matched(r, e + i, From(path, i + 1))
           K == {i \in Nat : P(i)}
<1>0. Len(q) \in Nat /\ Len(path) \in Nat /\ Len(r) \in Nat
  OBVIOUS
<1>1. 0 \in K
  <2>1. From(path, 0 + 1) = path /\ e + 0 = e
    BY DEF From
  <2> QED BY <2>1
<1>2. ASSUME NEW i \in Nat, i \in K PROVE i + 1 \in K
  <2> SUFFICES ASSUME i + 1 <= Len(q), i + 1 <= Len(path), \A k \in 1..i + 1 : path[k] = q[k]
               PROVE  Matched(r, e, path) = Matched(r, e + (i + 1), From(path, (i + 1) + 1))
    OBVIOUS
  <2>1. Matched(r, e, path) = Matched(r, e + i, From(path, i + 1))
    <3>1. i <= Len(q) /\ i <= Len(path) /\ \A k \in 1..i : k \in 1..i + 1
      BY <1>0
    <3> QED BY <1>2, <3>1
  <2> DEFINE p == From(path, i + 1)
             f == e + i
  <2>2. /\ p \in Seq(STRING) /\ p # <<>> /\ p[1] = path[i + 1] /\ From(p, 2) = From(path, i + 1 + 1)
    <3>1. i < Len(path)
      BY <1>0
    <3> QED BY <3>1, RestOfRest
  <2>3. i + 1 \in 1..Len(q) /\ i + 1 \in 1..i + 1
    BY <1>0
  <2>4. /\ Len(r) >= e + Len(q) /\ f \in Nat /\ f < Len(r) /\ f + 1 = e + (i + 1)
        /\ f + 2 = e + (i + 2) /\ (f + 1 < Len(r) <=> e + (i + 1) < Len(r))
    BY <1>0, <2>3 DEF Spelt
  <2>5. r[f + 1] = q[i + 1] /\ q[i + 1] \notin Wildcards /\ path[i + 1] = q[i + 1]
    BY <2>3, <2>4 DEF Spelt, Plain
  <2>6. f + 1 < Len(r) => r[f + 2] \notin CatchAlls
    <3>1. CASE i + 2 <= Len(q)
      <4>1. i + 2 \in 1..Len(q)
        BY <1>0, <3>1
      <4>2. r[e + (i + 2)] = q[i + 2] /\ q[i + 2] \notin Wildcards
        BY <4>1 DEF Spelt, Plain
      <4> QED BY <2>4, <4>2 DEF Wildcards
    <3>2. CASE ~(i + 2 <= Len(q))
      <4>1. f + 1 = e + Len(q) /\ f + 2 = (e + Len(q)) + 1
        <5>1. Len(q) = i + 1
          BY <1>0, <2>3, <3>2
        <5> HIDE DEF f
        <5>2. f + 1 = e + Len(q) /\ f + 2 = (f + 1) + 1
          BY <2>4, <5>1
        <5> QED BY <5>2
      <4> QED BY <4>1 DEF NoCatchAll
    <3> QED BY <3>1, <3>2
  <2> HIDE DEF p, f
  <2>7. Matched(r, f, p) = Matched(r, f + 1, From(p, 2))
    <3>1. r[f + 1] \notin ParamTokens /\ r[f + 1] = p[1]
      BY <2>2, <2>5 DEF Wildcards
    <3>2. ~(f + 1 < Len(r) /\ r[f + 2] \in CatchAlls)
      BY <2>6
    <3> QED BY <2>2, <2>4, <3>1, <3>2, MatchedNext
  <2>8. From(p, 2) = From(path, (i + 1) + 1)
    BY <2>2
  <2> QED BY <2>1, <2>4, <2>7, <2>8 DEF p, f
<1>3. j \in K
  <2> HIDE DEF K
  <2> QED BY <1>1, <1>2, NatSetInduction
<1> QED BY <1>3

\* A request that has other tokens there is not matched.
LEMMA MatchedNot ==
    ASSUME NEW r \in Seq(STRING), NEW e \in Nat, NEW q \in Seq(STRING), Spelt(q, e, r), Plain(q),
           NoCatchAll(r, e + Len(q)), NEW path \in Seq(STRING), ~IsPrefix(q, path)
    PROVE  Matched(r, e, path) = {}
<1>0. Len(q) \in Nat /\ Len(path) \in Nat /\ Len(r) \in Nat
  OBVIOUS
<1> DEFINE J == {j \in 1..Len(q) : j > Len(path) \/ path[j] # q[j]}
<1>1. J # {}
  <2> SUFFICES ASSUME \A j \in 1..Len(q) : j <= Len(path) /\ path[j] = q[j] PROVE IsPrefix(q, path)
    BY <1>0
  <2>1. Len(q) <= Len(path)
    <3>1. Len(q) # 0 => Len(q) \in 1..Len(q)
      BY <1>0
    <3> QED BY <1>0, <3>1
  <2>2. SubSeq(q, 1, Len(q)) = SubSeq(path, 1, Len(q))
    <3> DEFINE a == UpTo(q, Len(q))
               b == UpTo(path, Len(q))
    <3>1. Len(q) \in 0..Len(q) /\ Len(q) \in 0..Len(path)
      BY <1>0, <2>1
    <3>2. /\ a \in Seq(STRING) /\ Len(a) = Len(q) /\ \A k \in 1..Len(q) : a[k] = q[k]
          /\ b \in Seq(STRING) /\ Len(b) = Len(q) /\ \A k \in 1..Len(q) : b[k] = path[k]
      BY <3>1, HeadOf
    <3> HIDE DEF a, b
    <3>3. a = b
      BY <3>2, SeqEqual
    <3> QED BY <3>3 DEF a, b, UpTo
  <2> QED BY <2>1, <2>2 DEF IsPrefix
<1>2. PICK j \in J : \A k \in J : j <= k
  <2>1. J \subseteq Nat
    OBVIOUS
  <2> HIDE DEF J
  <2> QED BY <1>1, <2>1, SmallestOf
<1> DEFINE i == j - 1
<1>3. j \in 1..Len(q) /\ i \in Nat /\ i <= Len(q) /\ i + 1 = j /\ (j > Len(path) \/ path[j] # q[j])
  BY <1>0, <1>2
<1> HIDE DEF i
<1>4. \A k \in 1..i : k \in 1..Len(q) /\ ~(j <= k)
  BY <1>0, <1>3
<1>5. \A k \in 1..i : ~(k > Len(path)) /\ path[k] = q[k]
  BY <1>2, <1>4
<1>6. i <= Len(path)
  <2>1. i # 0 => i \in 1..i
    BY <1>3
  <2> QED BY <1>0, <1>3, <1>5, <2>1
<1>7. Matched(r, e, path) = Matched(r, e + i, From(path, i + 1))
  BY <1>3, <1>5, <1>6, MatchedBehind
<1>8. e + i \in Nat /\ e + i < Len(r) /\ (e + i) + 1 = e + j
  BY <1>0, <1>3 DEF Spelt
<1>9. r[e + j] = q[j] /\ q[j] \notin ParamTokens
  BY <1>3 DEF Spelt, Plain, Wildcards
<1>10. CASE j > Len(path)
  <2>1. i = Len(path)
    BY <1>0, <1>3, <1>6, <1>10
  <2>2. From(path, i + 1) = <<>> /\ <<>> \in Seq(STRING)
    <3>1. Len(path) + 1 \in 1..Len(path) + 1 /\ Len(path) - (Len(path) + 1) + 1 = 0
      BY <1>0
    <3>2. From(path, i + 1) \in Seq(STRING) /\ Len(From(path, i + 1)) = 0
      BY <2>1, <3>1, TailOf
    <3> QED BY <3>2
  <2> QED BY <1>7, <1>8, <2>2, MatchedNext
<1>11. CASE ~(j > Len(path))
  <2>1. i < Len(path) /\ path[i + 1] # q[j]
    BY <1>0, <1>3, <1>11
  <2>2. /\ From(path, i + 1) \in Seq(STRING) /\ From(path, i + 1) # <<>>
        /\ From(path, i + 1)[1] = path[i + 1]
    BY <1>3, <2>1, RestOfRest
  <2> QED BY <1>7, <1>8, <1>9, <2>1, <2>2, MatchedNext
<1> QED BY <1>10, <1>11

-----------------------------------------------------------------------------
(* What a lookup finds *)

\* What is left of a request behind a node's path, and what its wildcard takes.
Left(n, path) == From(path, Len(n.path) + 1)
Taken(below, rest) == IF below.nType = "param" THEN UpTo(rest, SegmentEnd(rest)) ELSE rest
Later(below, rest) == From(rest, Len(Taken(below, rest)) + 1)
Saved(ps, below, rest) == Append(ps, [key |-> Last(below.path), value |-> Taken(below, rest)])

\* The cases of a turn.
TurnIs(walk, n, below, rest, path, ps, a) ==
    /\ ~IsPrefix(n.path, path) /\ path # n.path => \E x \in BOOLEAN : a = Missed(ps, x)
    /\ path = n.path /\ n.handle # NoHandle => a = Answer(n.handle, ps, FALSE)
    /\ path = n.path /\ n.handle = NoHandle => \E x \in BOOLEAN : a = Missed(ps, x)
    /\ IsStrictPrefix(n.path, path) /\ ~n.wildChild =>
         IF ChildFor(n, rest[1]) # 0 THEN a = walk[<<ChildFor(n, rest[1]), rest, ps>>]
         ELSE \E x \in BOOLEAN : a = Missed(ps, x)
    /\ IsStrictPrefix(n.path, path) /\ n.wildChild =>
         LET later == Later(below, rest)
             saved == Saved(ps, below, rest)
         IN  IF later # <<>> /\ below.children # <<>>
             THEN a = walk[<<below.children[1], later, saved>>]
             ELSE IF later = <<>> /\ (below.handle # NoHandle \/ below.nType = "catchAll")
             THEN a = Answer(below.handle, saved, FALSE)
             ELSE \E x \in BOOLEAN : a = Missed(saved, x)

LEMMA LookupTurnIs ==
    ASSUME NEW t, NEW walk, NEW at, NEW path, NEW ps
    PROVE  TurnIs(walk, t[at], t[t[at].children[1]], Left(t[at], path), path, ps,
                  LookupTurn(t, walk, at, path, ps))
<1> DEFINE n == t[at]
           rest == Left(n, path)
           below == t[n.children[1]]
           a == LookupTurn(t, walk, at, path, ps)
           lone == path = <<Slash>>
           value == Taken(below, rest)
           later == Later(below, rest)
           saved == Saved(ps, below, rest)
           only == t[below.children[1]]
           slash == t[ChildFor(n, Slash)]
           x1 == rest = <<Slash>> /\ n.handle # NoHandle
           x2 == Len(later) = 1
           x3 == /\ Len(below.children) = 1
                 /\ \/ only.path = <<Slash>> /\ only.handle # NoHandle
                    \/ only.path = <<>> /\ only.indices = <<Slash>>
           x4 == \/ lone /\ n.wildChild /\ n.nType # "root"
                 \/ lone /\ n.nType = "static"
                 \/ /\ ChildFor(n, Slash) # 0
                    /\ \/ Len(slash.path) = 1 /\ slash.handle # NoHandle
                       \/ /\ slash.nType = "catchAll"
                          /\ t[slash.children[1]].handle # NoHandle
           x5 == lone \/ /\ n.path = Append(path, Slash)
                         /\ n.handle # NoHandle
<1>1. a = IF IsStrictPrefix(n.path, path) /\ ~n.wildChild THEN
            IF ChildFor(n, rest[1]) # 0 THEN walk[<<ChildFor(n, rest[1]), rest, ps>>]
            ELSE Missed(ps, x1)
          ELSE IF IsStrictPrefix(n.path, path) THEN
            IF later # <<>> /\ below.children # <<>>
            THEN walk[<<below.children[1], later, saved>>]
            ELSE IF later # <<>> THEN Missed(saved, x2)
            ELSE IF below.handle # NoHandle \/ below.nType = "catchAll"
            THEN Answer(below.handle, saved, FALSE)
            ELSE Missed(saved, x3)
          ELSE IF path = n.path /\ n.handle # NoHandle THEN Answer(n.handle, ps, FALSE)
          ELSE IF path = n.path THEN Missed(ps, x4)
          ELSE Missed(ps, x5)
  BY Zenon DEF LookupTurn, Left, Taken, Later, Saved
<1>2. x1 \in BOOLEAN /\ x2 \in BOOLEAN /\ x3 \in BOOLEAN /\ x4 \in BOOLEAN /\ x5 \in BOOLEAN
  OBVIOUS
<1> HIDE DEF x1, x2, x3, x4, x5, later, saved, n, rest, below, a
<1>3. IsStrictPrefix(n.path, path) => IsPrefix(n.path, path) /\ path # n.path
  BY DEF IsStrictPrefix
<1>4. /\ ~IsPrefix(n.path, path) /\ path # n.path => a = Missed(ps, x5)
      /\ path = n.path /\ n.handle # NoHandle => a = Answer(n.handle, ps, FALSE)
      /\ path = n.path /\ n.handle = NoHandle => a = Missed(ps, x4)
  BY <1>1, <1>3
<1>5. IsStrictPrefix(n.path, path) /\ ~n.wildChild =>
         IF ChildFor(n, rest[1]) # 0 THEN a = walk[<<ChildFor(n, rest[1]), rest, ps>>]
         ELSE a = Missed(ps, x1)
  BY <1>1
<1>6. IsStrictPrefix(n.path, path) /\ n.wildChild =>
         IF later # <<>> /\ below.children # <<>>
         THEN a = walk[<<below.children[1], later, saved>>]
         ELSE IF later = <<>> /\ (below.handle # NoHandle \/ below.nType = "catchAll")
         THEN a = Answer(below.handle, saved, FALSE)
         ELSE a = Missed(saved, x2) \/ a = Missed(saved, x3)
  BY <1>1
<1>7. TurnIs(walk, n, below, rest, path, ps, a)
  BY <1>2, <1>4, <1>5, <1>6 DEF TurnIs, later, saved
<1> QED BY <1>7 DEF n, rest, below, a

\* Lookups come to every node but those of wildcards.
Reachable(n) == n.nType # "param" /\ (n.nType = "catchAll" => n.wildChild)

\* What is known of a node that a lookup comes to, and of the routes through it.
LEMMA NodeReached ==
    ASSUME NEW t, NEW d, NEW v, NEW H, Telling(t, d, v, H), NEW at \in 1..Len(t),
           Reachable(t[at]), NEW e, e = d[at] + Len(t[at].path)
    PROVE  /\ t[at] \in Node /\ Plain(t[at].path) /\ d[at] \in Nat /\ e \in Nat
           /\ \A r \in v[at] :
                  /\ r \in Seq(STRING) /\ r # NoHandle /\ Spelt(t[at].path, d[at], r)
                  /\ NoCatchAll(r, e)
                  /\ \/ r = t[at].handle /\ Len(r) = e
                     \/ Len(r) > e /\ \E k \in 1..Len(t[at].children) : r \in v[t[at].children[k]]
           /\ t[at].handle # NoHandle => t[at].handle \in v[at] /\ Len(t[at].handle) = e
<1> DEFINE n == t[at]
<1>1. /\ InShape(t) /\ t \in Seq(Node) /\ Spells(t, d, v, H, 0, 0) /\ Distinct
      /\ v[at] \subseteq H
  BY DEF Telling, InShape
<1>2. n \in Node /\ n.path \in Seq(STRING) /\ Len(n.path) \in Nat
  BY <1>1, Places, FieldTypes
<1>3. NodeSpells(t, d, v, H, 0, 0, at) /\ Kinds(t, n)
  BY <1>1 DEF Spells
<1>4. d[at] \in Nat /\ e \in Nat
  BY <1>2, <1>3 DEF NodeSpells
<1>5. Plain(n.path)
  <2>1. CASE n.nType \in {"static", "root"}
    BY <1>3, <2>1 DEF Kinds, Plain
  <2>2. CASE n.nType = "catchAll"
    BY <1>3, <2>2 DEF Kinds, Plain, Reachable
  <2>3. n.nType \in {"static", "root", "param", "catchAll"}
    BY <1>2 DEF Node, NodeType
  <2> QED BY <2>1, <2>2, <2>3 DEF Reachable
<1>6. ASSUME NEW r \in v[at]
      PROVE  /\ r \in Seq(STRING) /\ r # NoHandle /\ Spelt(n.path, d[at], r)
             /\ \/ r = n.handle /\ Len(r) = e
                \/ Len(r) > e /\ \E k \in 1..Len(n.children) : r \in v[n.children[k]]
  <2>1. r \in v[at] \cap H
    BY <1>1
  <2>2. r \in Seq(STRING) /\ Spelt(n.path, d[at], r)
    BY <1>1, <2>1, GoesOn
  <2>3. \/ r = n.handle /\ Len(r) = e
        \/ \E k \in 1..Len(n.children) : r \in v[n.children[k]] /\ Len(r) > e
    BY <1>1, <2>1, <2>2, PastThePath
  <2>4. Len(r) > d[at]
    BY <1>3 DEF NodeSpells, Follows
  <2>5. r # NoHandle
    BY <1>4, <2>4 DEF NoHandle
  <2> QED BY <2>2, <2>3, <2>5
<1>7. ASSUME NEW r \in v[at] PROVE NoCatchAll(r, e)
  <2> SUFFICES ASSUME Len(r) > e PROVE r[e + 1] \notin CatchAlls
    BY DEF NoCatchAll
  <2>1. Len(r) # e /\ r \in v[at] \cap H
    BY <1>1, <1>4, <1>6
  <2>2. PICK k \in 1..Len(n.children) : r \in v[n.children[k]]
    BY <1>6, <2>1
  <2>3. CASE ~n.wildChild
    <3>0. ~t[at].wildChild /\ k \in 1..Len(t[at].children) /\ r \in v[t[at].children[k]]
      BY <2>2, <2>3
    <3> HIDE DEF n
    <3>1. Key(t[at], k) \notin Wildcards /\ r[e + 1] = Key(t[at], k)
      BY <1>1, <3>0, KeyIsStatic
    <3> QED BY <3>1 DEF Wildcards
  <2>4. CASE n.wildChild /\ n.nType # "catchAll"
    <3> DEFINE c == n.children[k]
    <3>0. c = t[at].children[k] /\ k \in 1..Len(t[at].children) /\ r \in v[c]
      BY <2>2
    <3> HIDE DEF c
    <3>1. t[c].path[1] \in ParamTokens /\ r[e + 1] = t[c].path[1]
      BY <1>1, <2>4, <3>0, ParamBelow
    <3> QED BY <1>1, <3>1 DEF Distinct
  <2>5. CASE n.wildChild /\ n.nType = "catchAll"
    <3> DEFINE c == n.children[k]
    <3>1. t[c].nType = "catchAll" /\ ~t[c].wildChild
      BY <1>3, <2>5 DEF Kinds
    <3>2. c \in 1..Len(t)
      BY <1>1, <2>2, ChildrenInRange DEF InShape
    <3>3. d[c] = e
      BY <1>3 DEF NodeSpells, Hangs
    <3> HIDE DEF c
    <3>4. NodeSpells(t, d, v, H, 0, 0, c) /\ Kinds(t, t[c])
      BY <1>1, <3>2 DEF Spells
    <3>5. Len(t[c].path) = 2 /\ t[c].path[1] = Slash
      BY <3>1, <3>4 DEF Kinds
    <3>6. Spelt(t[c].path, e, r)
      <4>1. r \in v[c] \cap H
        BY <2>1, <2>2 DEF c
      <4> QED BY <1>1, <3>2, <3>3, <4>1, GoesOn
    <3>7. r[e + 1] = Slash
      BY <3>5, <3>6 DEF Spelt
    <3> QED BY <1>1, <3>7 DEF Distinct, Wildcards
  <2> QED BY <2>3, <2>4, <2>5
<1>8. n.handle # NoHandle => n.handle \in v[at] /\ Len(n.handle) = e
  BY <1>3 DEF NodeSpells, Ends
<1> QED BY <1>2, <1>4, <1>5, <1>6, <1>7, <1>8

\* An answer is right at a node: its handle is a route through it, the only one
\* that matches the rest of the request, with the values it adds to the saved.
Finds(r, a, ps, found) ==
    IF r = a.handle THEN \E qs \in Seq(Param) : found = {qs} /\ a.ps = ps \o qs ELSE found = {}
Right(v, d, at, path, ps, a) ==
    /\ a.handle = NoHandle \/ a.handle \in v[at]
    /\ \A r \in v[at] : Finds(r, a, ps, Matched(r, d[at], path))

\* The routes through a node match a request as they do behind its path.
LEMMA MatchedThere ==
    ASSUME NEW t, NEW d, NEW v, NEW H, Telling(t, d, v, H), NEW at \in 1..Len(t),
           Reachable(t[at]), NEW e, e = d[at] + Len(t[at].path), NEW path \in Seq(STRING),
           NEW r \in v[at]
    PROVE  Matched(r, d[at], path) =
               IF IsPrefix(t[at].path, path) THEN Matched(r, e, Left(t[at], path)) ELSE {}
<1> DEFINE q == t[at].path
<1>1. /\ t[at] \in Node /\ Plain(q) /\ d[at] \in Nat /\ r \in Seq(STRING) /\ Spelt(q, d[at], r)
      /\ NoCatchAll(r, d[at] + Len(q))
  BY NodeReached
<1>2. q \in Seq(STRING)
  BY <1>1, FieldTypes
<1> HIDE DEF q
<1>3. CASE ~IsPrefix(q, path)
  BY <1>1, <1>2, <1>3, MatchedNot DEF q
<1>4. CASE IsPrefix(q, path)
  <2>1. Len(q) \in Nat /\ Len(q) <= Len(path) /\ SubSeq(q, 1, Len(q)) = SubSeq(path, 1, Len(q))
    BY <1>2, <1>4 DEF IsPrefix
  <2>2. \A k \in 1..Len(q) : path[k] = q[k]
    <3>1. \A k \in 1..Len(q) : SubSeq(q, 1, Len(q))[k] = q[k] /\ SubSeq(path, 1, Len(q))[k] = path[k]
      BY <1>2, <2>1
    <3> QED BY <2>1, <3>1
  <2>3. Matched(r, d[at], path) = Matched(r, d[at] + Len(q), From(path, Len(q) + 1))
    <3> DEFINE j == Len(q)
    <3>1. j \in Nat /\ j <= Len(q) /\ j <= Len(path) /\ \A k \in 1..j : path[k] = q[k]
      BY <2>1, <2>2
    <3>2. NoCatchAll(r, d[at] + Len(q))
      BY <1>1
    <3> HIDE DEF j
    <3>3. Matched(r, d[at], path) = Matched(r, d[at] + j, From(path, j + 1))
      BY <1>1, <1>2, <3>1, <3>2, MatchedBehind
    <3> QED BY <3>3 DEF j
  <2> QED BY <1>4, <2>3 DEF q, Left
<1> QED BY <1>3, <1>4

\* The part of a request behind a node's path.
LEMMA LeftIs ==
    ASSUME NEW n \in Node, NEW path \in Seq(STRING), IsPrefix(n.path, path)
    PROVE  /\ Left(n, path) \in Seq(STRING) /\ Len(Left(n, path)) = Len(path) - Len(n.path)
           /\ path = n.path => Left(n, path) = <<>>
           /\ path # n.path => Left(n, path) # <<>> /\ Left(n, path)[1] \in STRING
           /\ n.path = <<>> => Left(n, path) = path
<1> DEFINE q == n.path
           l == Left(n, path)
<1>1. q \in Seq(STRING) /\ Len(q) \in Nat /\ Len(path) \in Nat
  BY FieldTypes
<1> HIDE DEF q
<1>2. Len(q) <= Len(path) /\ SubSeq(q, 1, Len(q)) = SubSeq(path, 1, Len(q))
  BY DEF IsPrefix, q
<1>3. Len(q) + 1 \in 1..Len(path) + 1 /\ Len(path) - (Len(q) + 1) + 1 = Len(path) - Len(q)
  BY <1>1, <1>2
<1>4. l \in Seq(STRING) /\ Len(l) = Len(path) - Len(q)
  <2>1. l = From(path, Len(q) + 1)
    BY DEF Left, q
  <2> HIDE DEF l
  <2> QED BY <1>3, <2>1, TailOf
<1> HIDE DEF l
<1>5. ASSUME path = q PROVE l = <<>>
  BY <1>1, <1>4, <1>5
<1>6. ASSUME path # q PROVE l # <<>> /\ l[1] \in STRING
  <2>1. Len(path) # Len(q)
    <3> SUFFICES ASSUME Len(path) = Len(q) PROVE path = q
      BY <1>6
    <3>1. SubSeq(q, 1, Len(q)) = q /\ SubSeq(path, 1, Len(q)) = path
      BY <1>1
    <3> QED BY <1>2, <3>1
  <2>2. Len(l) > 0
    BY <1>1, <1>2, <1>4, <2>1
  <2> QED BY <1>4, <2>2
<1>7. ASSUME q = <<>> PROVE l = path
  <2>1. Len(q) = 0
    BY <1>7
  <2>2. l = From(path, 1)
    <3>1. l = From(path, Len(q) + 1)
      BY DEF l, Left, q
    <3> QED BY <2>1, <3>1
  <2> QED BY <2>2 DEF From
<1> QED BY <1>4, <1>5, <1>6, <1>7 DEF q, l

LEMMA MissedIsRight ==
    ASSUME NEW t, NEW d, NEW v, NEW H, Telling(t, d, v, H), NEW at \in 1..Len(t),
           Reachable(t[at]), NEW path, \A r \in v[at] : Matched(r, d[at], path) = {},
           NEW ps, NEW sofar, NEW x
    PROVE  Right(v, d, at, path, ps, Missed(sofar, x))
<1>1. \A r \in v[at] : r # NoHandle
  BY NodeReached
<1>2. Missed(sofar, x).handle = NoHandle
  BY DEF Missed, Answer
<1> QED BY <1>1, <1>2 DEF Right, Finds

\* Nothing is found when the request goes another way than the node's path.
LEMMA OtherWay ==
    ASSUME NEW t, NEW d, NEW v, NEW H, Telling(t, d, v, H), NEW at \in 1..Len(t),
           Reachable(t[at]), NEW path \in Seq(STRING), ~IsPrefix(t[at].path, path),
           NEW ps, NEW x
    PROVE  Right(v, d, at, path, ps, Missed(ps, x))
<1>1. \A r \in v[at] : Matched(r, d[at], path) = {}
  BY MatchedThere
<1> QED BY <1>1, MissedIsRight

\* A request that ends with the node's path is its handle's.
LEMMA EndReached ==
    ASSUME NEW t, NEW d, NEW v, NEW H, Telling(t, d, v, H), NEW at \in 1..Len(t),
           Reachable(t[at]), NEW path \in Seq(STRING), path = t[at].path,
           NEW ps \in Seq(Param), NEW x
    PROVE  IF t[at].handle = NoHandle THEN Right(v, d, at, path, ps, Missed(ps, x))
           ELSE Right(v, d, at, path, ps, Answer(t[at].handle, ps, FALSE))
<1> DEFINE n == t[at]
           e == d[at] + Len(n.path)
<1>1. /\ n \in Node /\ e \in Nat
      /\ n.handle # NoHandle => n.handle \in v[at]
      /\ \A r \in v[at] : /\ r \in Seq(STRING) /\ r # NoHandle
                          /\ (r = n.handle /\ Len(r) = e) \/ Len(r) > e
      /\ n.handle # NoHandle => Len(n.handle) = e
  BY NodeReached
<1>2. IsPrefix(n.path, path) /\ Left(n, path) = <<>>
  <2> DEFINE q == n.path
  <2>1. q = path
    OBVIOUS
  <2> HIDE DEF q
  <2>2. Len(path) \in Nat
    OBVIOUS
  <2>3. IsPrefix(q, path)
    BY <2>1, <2>2 DEF IsPrefix
  <2>4. IsPrefix(n.path, path) /\ path = n.path
    BY <2>1, <2>3 DEF q
  <2> HIDE DEF n
  <2> QED BY <1>1, <2>4, LeftIs
<1>3. \A r \in v[at] : Matched(r, d[at], path) = Matched(r, e, <<>>)
  BY <1>2, MatchedThere
<1> HIDE DEF e
<1>4. <<>> \in Seq(STRING)
  OBVIOUS
<1>5. ASSUME NEW r \in v[at], Len(r) > e PROVE Matched(r, d[at], path) = {}
  <2>1. Matched(r, e, <<>>) = {}
    <3> DEFINE p == <<>>
    <3>1. e < Len(r) /\ r \in Seq(STRING) /\ e \in Nat /\ p \in Seq(STRING) /\ p = <<>>
      BY <1>1, <1>4, <1>5
    <3> HIDE DEF p
    <3>2. Matched(r, e, p) = {}
      BY <3>1, MatchedNext
    <3> QED BY <3>2 DEF p
  <2> QED BY <1>3, <2>1
<1>6. ASSUME NEW r \in v[at], Len(r) = e PROVE Matched(r, d[at], path) = {<<>>}
  <2>1. Matched(r, e, <<>>) = {<<>>}
    BY <1>1, <1>4, <1>6, MatchedAtEnd
  <2> QED BY <1>3, <2>1
<1>7. CASE n.handle = NoHandle
  <2>1. \A r \in v[at] : Len(r) > e
    BY <1>1, <1>7
  <2>2. \A r \in v[at] : Matched(r, d[at], path) = {}
    BY <1>5, <2>1
  <2> QED BY <1>7, <2>2, MissedIsRight
<1>8. CASE n.handle # NoHandle
  <2> DEFINE a == Answer(n.handle, ps, FALSE)
  <2>1. a.handle = n.handle /\ a.ps = ps
    BY DEF Answer
  <2> HIDE DEF a
  <2>2. <<>> \in Seq(Param) /\ ps \o <<>> = ps
    OBVIOUS
  <2>3. ASSUME NEW r \in v[at] PROVE Finds(r, a, ps, Matched(r, d[at], path))
    <3>1. CASE r = n.handle
      <4>1. Matched(r, d[at], path) = {<<>>}
        BY <1>1, <1>6, <1>8, <3>1
      <4> QED BY <2>1, <2>2, <3>1, <4>1 DEF Finds
    <3>2. CASE r # n.handle
      <4>1. Matched(r, d[at], path) = {}
        BY <1>1, <1>5, <3>2
      <4> QED BY <2>1, <3>2, <4>1 DEF Finds
    <3> QED BY <3>1, <3>2
  <2>4. a.handle \in v[at]
    BY <1>1, <1>8, <2>1
  <2>5. Right(v, d, at, path, ps, a)
    BY <2>3, <2>4 DEF Right
  <2> QED BY <1>8, <2>5 DEF a
<1> QED BY <1>7, <1>8

\* Below a node without a wildcard the next byte decides.
LEMMA ByteDecides ==
    ASSUME NEW t, NEW d, NEW v, NEW H, Telling(t, d, v, H), NEW at \in 1..Len(t),
           Reachable(t[at]), ~t[at].wildChild, NEW path \in Seq(STRING),
           IsStrictPrefix(t[at].path, path),
           NEW rest, rest = Left(t[at], path), NEW c, c = ChildFor(t[at], rest[1]), NEW ps
    PROVE  IF c = 0 THEN \A x : Right(v, d, at, path, ps, Missed(ps, x))
           ELSE /\ c \in 1..Len(t) /\ Reachable(t[c]) /\ d[c] \in Nat
                /\ t[c].nType = "catchAll" => rest[1] = Slash
                /\ t[at].path = <<>> => Marks(t[c])
                /\ \A a : Right(v, d, c, rest, ps, a) => Right(v, d, at, path, ps, a)
<1> DEFINE n == t[at]
           e == d[at] + Len(n.path)
           pos == IndexOf(n, rest[1])
<1>1. /\ n \in Node /\ e \in Nat
      /\ \A r \in v[at] :
             /\ r \in Seq(STRING) /\ r # NoHandle
             /\ \/ Len(r) = e
                \/ Len(r) > e /\ \E k \in 1..Len(n.children) : r \in v[n.children[k]]
  <2> DEFINE f == e
  <2>0. f = d[at] + Len(n.path)
    OBVIOUS
  <2> HIDE DEF f
  <2>1. /\ n \in Node /\ f \in Nat
        /\ \A r \in v[at] :
             /\ r \in Seq(STRING) /\ r # NoHandle
             /\ \/ r = n.handle /\ Len(r) = f
                \/ Len(r) > f /\ \E k \in 1..Len(n.children) : r \in v[n.children[k]]
    <3>1. /\ n \in Node /\ Plain(n.path) /\ d[at] \in Nat /\ f \in Nat
          /\ \A r \in v[at] :
                 /\ r \in Seq(STRING) /\ r # NoHandle /\ Spelt(n.path, d[at], r)
                 /\ NoCatchAll(r, f)
                 /\ \/ r = n.handle /\ Len(r) = f
                    \/ Len(r) > f /\ \E k \in 1..Len(n.children) : r \in v[n.children[k]]
          /\ n.handle # NoHandle => n.handle \in v[at] /\ Len(n.handle) = f
      BY <2>0, NodeReached
    <3> QED BY <3>1, Zenon
  <2>2. /\ n \in Node /\ f \in Nat
        /\ \A r \in v[at] :
             /\ r \in Seq(STRING) /\ r # NoHandle
             /\ \/ Len(r) = f
                \/ Len(r) > f /\ \E k \in 1..Len(n.children) : r \in v[n.children[k]]
    BY <2>1, Zenon
  <2> QED BY <2>2 DEF f
<1>2. /\ InShape(t) /\ t \in Seq(Node) /\ Hung(t) /\ Spells(t, d, v, H, 0, 0) /\ Distinct
      /\ Chained(t)
  BY DEF Telling, InShape
<1>3. /\ n.children \in Seq(Nat) /\ n.indices \in Seq(STRING) /\ Len(n.children) \in Nat
      /\ Len(n.indices) \in Nat
  BY <1>1, FieldTypes
<1>4. IsPrefix(n.path, path) /\ path # n.path
  BY DEF IsStrictPrefix
<1>5. rest \in Seq(STRING) /\ rest # <<>> /\ rest[1] \in STRING
  BY <1>1, <1>4, LeftIs
<1>6. n.nType # "param" /\ Len(n.indices) = Len(n.children) /\ IsInjective(n.indices)
  <2>1. n.nType # "param"
    BY DEF Reachable
  <2>2. Fits(t, n)
    BY <1>2, Places DEF InShape
  <2> QED BY <2>1, <2>2 DEF Fits
<1>7. \A r \in v[at] : Matched(r, d[at], path) = Matched(r, e, rest)
  BY <1>4, MatchedThere
<1>8. \A k \in 1..Len(n.children) :
          /\ n.indices[k] \notin Wildcards
          /\ \A r \in v[n.children[k]] : r[e + 1] = n.indices[k]
  <2> SUFFICES ASSUME NEW k \in 1..Len(n.children)
               PROVE  /\ n.indices[k] \notin Wildcards
                      /\ \A r \in v[n.children[k]] : r[e + 1] = n.indices[k]
    OBVIOUS
  <2>1. Key(n, k) = n.indices[k]
    BY <1>6 DEF Key
  <2>2. /\ Key(n, k) \notin Wildcards
        /\ \A f, r : f = d[at] + Len(n.path) /\ r \in v[n.children[k]] => r[f + 1] = Key(n, k)
    BY <1>2, KeyIsStatic
  <2> QED BY <2>1, <2>2
<1>9. /\ pos \in 0..Len(n.indices)
      /\ pos # 0 => n.indices[pos] = rest[1]
      /\ pos = 0 => \A k \in 1..Len(n.indices) : n.indices[k] # rest[1]
  BY <1>1, IndexOfChild
<1>10. c = IF pos = 0 THEN 0 ELSE n.children[pos]
  BY DEF ChildFor
<1> HIDE DEF e, pos
\* A route that does not go on with that byte does not match.
<1>11. ASSUME NEW r \in v[at],
              \A k \in 1..Len(n.children) : r \in v[n.children[k]] => n.indices[k] # rest[1]
       PROVE  Matched(r, d[at], path) = {}
  <2>1. CASE Len(r) = e
    <3>1. Matched(r, e, rest) = {}
      BY <1>1, <1>5, <2>1, MatchedAtEnd
    <3> QED BY <1>7, <3>1
  <2>2. CASE Len(r) # e
    <3>1. e < Len(r)
      BY <1>1, <2>2
    <3>2. PICK k \in 1..Len(n.children) : r \in v[n.children[k]]
      BY <1>1, <2>2
    <3>3. r[e + 1] # rest[1] /\ r[e + 1] \notin ParamTokens
      BY <1>8, <1>11, <3>2 DEF Wildcards
    <3>4. Matched(r, e, rest) = {}
      BY <1>1, <1>5, <3>1, <3>3, MatchedNext
    <3> QED BY <1>7, <3>4
  <2> QED BY <2>1, <2>2
<1>12. CASE pos = 0
  <2>1. \A k \in 1..Len(n.children) : n.indices[k] # rest[1]
    BY <1>6, <1>9, <1>12
  <2>2. \A r \in v[at] : Matched(r, d[at], path) = {}
    BY <1>11, <2>1
  <2>3. \A x : Right(v, d, at, path, ps, Missed(ps, x))
    BY <2>2, MissedIsRight
  <2> QED BY <1>10, <1>12, <2>3
<1>13. CASE pos # 0
  <2>1. pos \in 1..Len(n.children) /\ c = n.children[pos] /\ n.indices[pos] = rest[1]
    BY <1>3, <1>6, <1>9, <1>10, <1>13
  <2>2. c \in 1..Len(t) /\ c # 0
    BY <1>2, <2>1, ChildrenInRange
  <2>3. NodeSpells(t, d, v, H, 0, 0, at) /\ NodeSpells(t, d, v, H, 0, 0, c) /\ Kinds(t, n) /\ Kinds(t, t[c])
    BY <1>2, <2>2 DEF Spells
  <2>4. Hangs(t, d, v, at, pos)
    BY <2>1, <2>3 DEF NodeSpells
  <2>5. d[c] = e /\ v[c] \subseteq v[at] /\ d[c] \in Nat
    BY <2>1, <2>3, <2>4 DEF Hangs, NodeSpells, e
  <2>6. Reachable(t[c])
    <3>1. t[c].nType = "catchAll" => t[c].wildChild
      BY <2>1, <2>3 DEF Kinds
    <3>2. t[c].nType # "param"
      <4>1. Fits(t, n)
        BY <1>2, Places DEF InShape
      <4>2. pos \in DOMAIN n.children
        BY <1>3, <2>1
      <4> QED BY <2>1, <4>1, <4>2 DEF Fits
    <3> QED BY <3>1, <3>2 DEF Reachable
  <2>7. /\ n.path = <<>> => Marks(t[c])
        /\ t[c].nType = "catchAll" => rest[1] = Slash
    <3>1. Key(n, pos) = n.indices[pos]
      BY <1>6 DEF Key
    <3> QED BY <1>2, <2>1, <3>1 DEF Chained
  <2>9. ASSUME NEW a, Right(v, d, c, rest, ps, a) PROVE Right(v, d, at, path, ps, a)
    <3>1. a.handle = NoHandle \/ a.handle \in v[at]
      BY <2>5, <2>9 DEF Right
    <3>2. ASSUME NEW r \in v[at], r \in v[c] PROVE Finds(r, a, ps, Matched(r, d[at], path))
      <4>1. Matched(r, d[at], path) = Matched(r, d[c], rest)
        BY <1>7, <2>5
      <4> QED BY <2>9, <3>2, <4>1 DEF Right
    <3>3. ASSUME NEW r \in v[at], r \notin v[c] PROVE Finds(r, a, ps, Matched(r, d[at], path))
      <4>1. \A k \in 1..Len(n.children) : r \in v[n.children[k]] => n.indices[k] # rest[1]
        <5> SUFFICES ASSUME NEW k \in 1..Len(n.children), r \in v[n.children[k]], n.indices[k] = rest[1]
                     PROVE  FALSE
          OBVIOUS
        <5>1. k \in DOMAIN n.indices /\ pos \in DOMAIN n.indices /\ n.indices[k] = n.indices[pos]
          BY <1>3, <1>6, <2>1
        <5>2. k = pos
          BY <1>6, <5>1 DEF IsInjective
        <5> QED BY <2>1, <3>3, <5>2
      <4>2. Matched(r, d[at], path) = {}
        BY <1>11, <4>1
      <4>3. r # a.handle
        BY <1>1, <2>9, <3>3 DEF Right
      <4> QED BY <4>2, <4>3 DEF Finds
    <3> QED BY <3>1, <3>2, <3>3 DEF Right
  <2> QED BY <2>2, <2>5, <2>6, <2>7, <2>9
<1> QED BY <1>12, <1>13

\* What is known of a parameter below a node, and of the routes that come to it.
ToParam(t, d, v, at, c, e) ==
    LET n == t[at]
        m == t[c]
    IN  /\ c \in 1..Len(t) /\ m \in Node /\ m.nType = "param" /\ m.path # <<>> /\ ~m.wildChild
        /\ Last(m.path) \in ParamTokens /\ Last(m.path) \in STRING /\ n.path # <<>>
        /\ e \in Nat /\ v[c] \subseteq v[at]
        /\ \A r \in v[at] : /\ r \in Seq(STRING) /\ r # NoHandle
                            /\ Len(r) = e \/ (Len(r) > e /\ r \in v[c])
        /\ \A r \in v[c] : /\ r[e + 1] = Last(m.path)
                           /\ \/ r = m.handle /\ Len(r) = e + 1
                              \/ Len(r) > e + 1 /\ m.children # <<>> /\ r \in v[m.children[1]]
        /\ m.handle # NoHandle => m.handle \in v[c] /\ Len(m.handle) = e + 1
        /\ m.children # <<>> =>
               LET g == m.children[1]
               IN  /\ g \in 1..Len(t) /\ Reachable(t[g]) /\ d[g] = e + 1 /\ v[g] \subseteq v[c]
                   /\ \A r \in v[g] : r[e + 2] = Slash /\ Len(r) > e + 1

\* A held route ends with the path of a node that it goes through, or goes on.
LEMMA EndsOrGoesOn ==
    ASSUME NEW t, InShape(t), NEW d, NEW v, NEW H, Spells(t, d, v, H, 0, 0), NEW at \in 1..Len(t),
           NEW r \in v[at] \cap H, NEW e, e = d[at] + Len(t[at].path)
    PROVE  \/ r = t[at].handle /\ Len(r) = e
           \/ \E k \in 1..Len(t[at].children) : r \in v[t[at].children[k]] /\ Len(r) > e
<1>1. Spelt(t[at].path, d[at], r) /\ r \in v[at]
  BY GoesOn
<1> QED BY <1>1, PastThePath

LEMMA ParamReached ==
    ASSUME NEW t, NEW d, NEW v, NEW H, Telling(t, d, v, H), NEW at \in 1..Len(t),
           Reachable(t[at]), t[at].wildChild, t[at].nType # "catchAll",
           NEW c, c = t[at].children[1], NEW e, e = d[at] + Len(t[at].path)
    PROVE  ToParam(t, d, v, at, c, e)
<1> DEFINE n == t[at]
           m == t[c]
           g == m.children[1]
<1>1. /\ InShape(t) /\ t \in Seq(Node) /\ Hung(t) /\ Spells(t, d, v, H, 0, 0) /\ at # 0
      /\ \A i \in 1..Len(t) : v[i] \subseteq H /\ i # 0
  <2>1. InShape(t) /\ t \in Seq(Node) /\ Hung(t) /\ Spells(t, d, v, H, 0, 0)
    BY DEF Telling, InShape
  <2>2. Len(t) \in Nat
    BY <2>1, Places
  <2> QED BY <2>1, <2>2 DEF Telling
<1>2. Fits(t, n) /\ Len(n.children) = 1 /\ 1 \in 1..Len(n.children)
  <2>1. Fits(t, n)
    BY <1>1, Places DEF InShape
  <2> QED BY <2>1 DEF Fits
<1>3. /\ m.nType = "param" /\ m.path[1] \in ParamTokens
      /\ \A f, r : f = d[at] + Len(n.path) /\ r \in v[c] => r[f + 1] = m.path[1]
  BY <1>1, <1>2, ParamBelow
<1>4. c \in 1..Len(t) /\ c # 0
  BY <1>1, <1>2, ChildrenInRange
<1>5. m \in Node /\ Fits(t, m) /\ Len(m.path) = 1
  BY <1>1, <1>3, <1>4, Places DEF InShape
<1>6. m.path \in Seq(STRING) /\ m.children \in Seq(Nat) /\ m.wildChild \in BOOLEAN
  BY <1>5, FieldTypes
<1>7. Last(m.path) = m.path[1] /\ m.path # <<>> /\ m.path[1] \in STRING
  <2> DEFINE q == m.path
  <2>1. q \in Seq(STRING) /\ Len(q) = 1
    BY <1>5, <1>6
  <2> HIDE DEF q
  <2>2. Last(q) = q[1] /\ q # <<>> /\ q[1] \in STRING
    <3>1. Len(<<>>) = 0 /\ 1 \in 1..Len(q)
      BY <2>1
    <3>2. q # <<>> /\ q[1] \in STRING
      BY <2>1, <3>1
    <3> QED BY <2>1, <3>2 DEF Last
  <2> QED BY <2>2 DEF q
<1>8. ~m.wildChild /\ n.path # <<>> /\ Len(m.children) <= 1
  BY <1>2, <1>3, <1>5 DEF Fits
<1>9. NodeSpells(t, d, v, H, 0, 0, at) /\ NodeSpells(t, d, v, H, 0, 0, c) /\ Kinds(t, m)
  BY <1>1, <1>4 DEF Spells
<1>10. d[c] = e /\ v[c] \subseteq v[at] /\ d[c] \in Nat
  <2>1. Hangs(t, d, v, at, 1)
    BY <1>2, <1>9 DEF NodeSpells
  <2> QED BY <1>9, <2>1 DEF Hangs, NodeSpells
<1>11. ASSUME NEW r \in v[at]
       PROVE  /\ r \in Seq(STRING) /\ r # NoHandle
              /\ Len(r) = e \/ (Len(r) > e /\ r \in v[c])
  <2>1. /\ r \in Seq(STRING) /\ r # NoHandle
        /\ \/ Len(r) = e
           \/ Len(r) > e /\ \E k \in 1..Len(n.children) : r \in v[n.children[k]]
    <3>1. /\ n \in Node /\ Plain(n.path) /\ d[at] \in Nat /\ e \in Nat
          /\ \A s \in v[at] :
                 /\ s \in Seq(STRING) /\ s # NoHandle /\ Spelt(n.path, d[at], s)
                 /\ NoCatchAll(s, e)
                 /\ \/ s = n.handle /\ Len(s) = e
                    \/ Len(s) > e /\ \E k \in 1..Len(n.children) : s \in v[n.children[k]]
          /\ n.handle # NoHandle => n.handle \in v[at] /\ Len(n.handle) = e
      BY NodeReached
    <3> QED BY <3>1, Zenon
  <2>2. \A k \in 1..Len(n.children) : k = 1
    BY <1>2
  <2> QED BY <2>1, <2>2
<1>12. ASSUME NEW r \in v[c]
       PROVE  /\ r[e + 1] = Last(m.path)
              /\ \/ r = m.handle /\ Len(r) = e + 1
                 \/ Len(r) > e + 1 /\ m.children # <<>> /\ r \in v[g]
  <2>1. r \in v[c] \cap H /\ r[e + 1] = m.path[1]
    BY <1>1, <1>3, <1>4
  <2> DEFINE f == d[c] + Len(m.path)
  <2>3. \/ r = m.handle /\ Len(r) = f
        \/ \E k \in 1..Len(m.children) : r \in v[m.children[k]] /\ Len(r) > f
    <3>1. ASSUME NEW i \in 1..Len(t), NEW s \in v[i] \cap H
          PROVE  \/ s = t[i].handle /\ Len(s) = d[i] + Len(t[i].path)
                 \/ \E k \in 1..Len(t[i].children) :
                        s \in v[t[i].children[k]] /\ Len(s) > d[i] + Len(t[i].path)
      <4> DEFINE x == d[i] + Len(t[i].path)
      <4>1. x = d[i] + Len(t[i].path)
        OBVIOUS
      <4> HIDE DEF x
      <4>2. \/ s = t[i].handle /\ Len(s) = x
            \/ \E k \in 1..Len(t[i].children) : s \in v[t[i].children[k]] /\ Len(s) > x
        BY <1>1, <4>1, EndsOrGoesOn
      <4> QED BY <4>2 DEF x
    <3> QED BY <1>4, <2>1, <3>1
  <2>4. f = e + 1
    BY <1>5, <1>10
  <2> HIDE DEF f
  <2>5. \A k \in 1..Len(m.children) : k = 1 /\ m.children # <<>>
    BY <1>6, <1>8
  <2> QED BY <1>7, <2>1, <2>3, <2>4, <2>5
<1>13. m.handle # NoHandle => m.handle \in v[c] /\ Len(m.handle) = e + 1
  BY <1>5, <1>9, <1>10 DEF NodeSpells, Ends
<1>14. ASSUME m.children # <<>>
       PROVE  /\ g \in 1..Len(t) /\ Reachable(t[g]) /\ d[g] = e + 1 /\ v[g] \subseteq v[c]
              /\ \A r \in v[g] : r[e + 2] = Slash /\ Len(r) > e + 1
  <2>1. 1 \in 1..Len(m.children) /\ 1 \in DOMAIN m.children
    BY <1>6, <1>8, <1>14
  <2>2. g \in 1..Len(t)
    BY <1>1, <1>4, <2>1, ChildrenInRange
  <2>3. Hangs(t, d, v, c, 1) /\ Key(m, 1) = Slash
    BY <1>3, <1>9, <2>1 DEF NodeSpells, Key
  <2>4. d[g] = e + 1 /\ v[g] \subseteq v[c] /\ \A r \in v[g] : r[d[g] + 1] = Slash
    BY <1>5, <1>8, <1>10, <2>3 DEF Hangs
  <2>5. (e + 1) + 1 = e + 2
    BY <1>10
  <2>6. Reachable(t[g])
    <3>1. t[g].nType = "catchAll" => t[g].wildChild
      BY <1>8, <1>9, <2>1 DEF Kinds
    <3>2. t[g].nType # "param"
      BY <1>5, <1>8, <2>1 DEF Fits
    <3> QED BY <3>1, <3>2 DEF Reachable
  <2>7. \A r \in v[g] : Len(r) > e + 1
    <3>1. NodeSpells(t, d, v, H, 0, 0, g)
      BY <1>1, <2>2 DEF Spells
    <3> QED BY <2>4, <3>1 DEF NodeSpells, Follows
  <2> QED BY <2>2, <2>4, <2>5, <2>6, <2>7
<1> HIDE DEF g
<1>15. /\ c \in 1..Len(t) /\ m \in Node /\ m.nType = "param" /\ m.path # <<>> /\ ~m.wildChild
       /\ Last(m.path) \in ParamTokens /\ Last(m.path) \in STRING /\ n.path # <<>>
       /\ e \in Nat /\ v[c] \subseteq v[at]
  BY <1>3, <1>4, <1>5, <1>7, <1>8, <1>10
<1> QED BY <1>11, <1>12, <1>13, <1>14, <1>15 DEF ToParam, g

\* A value saved before others.
LEMMA SavedFirst ==
    ASSUME NEW ps \in Seq(Param), NEW kv \in Param, NEW qs \in Seq(Param)
    PROVE  /\ Append(ps, kv) \in Seq(Param) /\ <<kv>> \o qs \in Seq(Param)
           /\ Append(ps, kv) \o qs = ps \o (<<kv>> \o qs)
<1>1. <<kv>> \in Seq(Param)
  BY SingletonSeq
<1>2. Append(ps, kv) \in Seq(Param) /\ Append(ps, kv) = ps \o <<kv>>
  BY AppendProperties, AppendIsConcat
<1>3. <<kv>> \o qs \in Seq(Param)
  BY <1>1, ConcatProperties
<1>4. (ps \o <<kv>>) \o qs = ps \o (<<kv>> \o qs)
  BY <1>1, ConcatAssociative
<1> QED BY <1>2, <1>3, <1>4

\* A parameter takes the first segment of what comes to it.
FirstSegment(token, path) == [key |-> token, value |-> UpTo(path, SegmentEnd(path))]
OtherSegments(path) == From(path, SegmentEnd(path) + 1)
Following(kv, found) == {<<kv>> \o ps : ps \in found}

\* What a parameter makes of the part of a request that comes to it.
LEMMA ValueTaken ==
    ASSUME NEW m \in Node, m.nType = "param", Last(m.path) \in STRING, NEW rest \in Seq(STRING)
    PROVE  /\ FirstSegment(Last(m.path), rest) \in Param
           /\ OtherSegments(rest) \in Seq(STRING) /\ Len(OtherSegments(rest)) <= Len(rest)
           /\ OtherSegments(rest) # <<>> => OtherSegments(rest)[1] = Slash
           /\ Later(m, rest) = OtherSegments(rest)
           /\ \A ps : Saved(ps, m, rest) = Append(ps, FirstSegment(Last(m.path), rest))
<1> DEFINE i == SegmentEnd(rest)
           later == OtherSegments(rest)
<1>1. /\ i \in 0..Len(rest) /\ UpTo(rest, i) \in Seq(STRING) /\ Len(UpTo(rest, i)) = i
      /\ i < Len(rest) => rest[i + 1] = Slash
  BY SegmentOf
<1>2. Taken(m, rest) = UpTo(rest, i)
  BY DEF Taken
<1>3. later = From(rest, i + 1)
  BY DEF OtherSegments
<1> HIDE DEF i, later
<1>4. /\ later \in Seq(STRING) /\ Len(later) = Len(rest) - (i + 1) + 1
      /\ \A k \in 1..Len(rest) - (i + 1) + 1 : later[k] = rest[i + 1 + k - 1]
  <2>1. i + 1 \in 1..Len(rest) + 1
    BY <1>1
  <2> QED BY <1>3, <2>1, TailOf
<1>5. Len(later) <= Len(rest)
  BY <1>1, <1>4
<1>6. ASSUME later # <<>> PROVE later[1] = Slash
  <2>1. Len(later) # 0
    BY <1>4, <1>6
  <2>2. i < Len(rest) /\ 1 \in 1..Len(rest) - (i + 1) + 1 /\ i + 1 + 1 - 1 = i + 1
    BY <1>1, <1>4, <2>1
  <2> QED BY <1>1, <1>4, <2>2
<1>7. Later(m, rest) = later
  BY <1>1, <1>2, <1>3 DEF Later
<1>8. FirstSegment(Last(m.path), rest) \in Param
  BY <1>1 DEF Param, FirstSegment, i
<1>9. \A ps : Saved(ps, m, rest) = Append(ps, FirstSegment(Last(m.path), rest))
  BY <1>2 DEF Saved, FirstSegment, i
<1> QED BY <1>4, <1>5, <1>6, <1>7, <1>8, <1>9 DEF later

\* A parameter matches the first segment.
LEMMA MatchedParam ==
    ASSUME NEW r \in Seq(STRING), NEW e \in Nat, e < Len(r), NEW path \in Seq(STRING), path # <<>>,
           r[e + 1] \in ParamTokens
    PROVE  Matched(r, e, path) =
               Following(FirstSegment(r[e + 1], path), Matched(r, e + 1, OtherSegments(path)))
<1>1. LET i == SegmentEnd(path)
      IN  Matched(r, e, path) =
            {<<[key |-> r[e + 1], value |-> UpTo(path, i)]>> \o ps :
                ps \in Matched(r, e + 1, From(path, i + 1))}
  BY MatchedNext
<1> QED BY <1>1, Zenon DEF FirstSegment, OtherSegments, Following

\* Which routes through a node above a parameter match, and how.
ParamSorts(t, d, v, at, path, rest, c, e) ==
    /\ \A r \in v[at] \ v[c] : Matched(r, d[at], path) = {}
    /\ \A r \in v[c] :
           Matched(r, d[at], path) = Following(FirstSegment(Last(t[c].path), rest),
                                               Matched(r, e + 1, OtherSegments(rest)))
    /\ rest \in Seq(STRING) /\ rest # <<>>
LEMMA ParamMatches ==
    ASSUME NEW t, NEW d, NEW v, NEW H, Telling(t, d, v, H), NEW at \in 1..Len(t),
           Reachable(t[at]), t[at].wildChild, t[at].nType # "catchAll", NEW path \in Seq(STRING),
           IsStrictPrefix(t[at].path, path), NEW rest, rest = Left(t[at], path),
           NEW c, c = t[at].children[1], NEW e, e = d[at] + Len(t[at].path)
    PROVE  ParamSorts(t, d, v, at, path, rest, c, e)
<1>1. ToParam(t, d, v, at, c, e)
  BY ParamReached
<1>2. /\ t[c] \in Node /\ t[c].nType = "param" /\ Last(t[c].path) \in ParamTokens
      /\ Last(t[c].path) \in STRING /\ e \in Nat /\ v[c] \subseteq v[at]
      /\ \A r \in v[at] : r \in Seq(STRING) /\ (Len(r) = e \/ (Len(r) > e /\ r \in v[c]))
      /\ \A r \in v[c] : r[e + 1] = Last(t[c].path) /\ (Len(r) = e + 1 \/ Len(r) > e + 1)
  BY <1>1 DEF ToParam
<1>3. IsPrefix(t[at].path, path) /\ path # t[at].path
  BY DEF IsStrictPrefix
<1>4. rest \in Seq(STRING) /\ rest # <<>>
  <2>1. t[at] \in Node
    BY Places DEF Telling, InShape
  <2> QED BY <1>3, <2>1, LeftIs
<1>5. \A r \in v[at] : Matched(r, d[at], path) = Matched(r, e, rest)
  BY <1>3, MatchedThere
<1>6. ASSUME NEW r \in v[at], r \notin v[c] PROVE Matched(r, d[at], path) = {}
  <2>1. r \in Seq(STRING) /\ Len(r) = e
    BY <1>2, <1>6
  <2>2. Matched(r, e, rest) = {}
    BY <1>4, <2>1, MatchedAtEnd
  <2> QED BY <1>5, <2>2
<1>7. ASSUME NEW r \in v[c]
      PROVE  Matched(r, d[at], path) = Following(FirstSegment(Last(t[c].path), rest),
                                                 Matched(r, e + 1, OtherSegments(rest)))
  <2>1. /\ r \in Seq(STRING) /\ e < Len(r) /\ r[e + 1] \in ParamTokens /\ r[e + 1] = Last(t[c].path)
        /\ Matched(r, d[at], path) = Matched(r, e, rest)
    <3>1. r \in v[at] /\ r \in Seq(STRING) /\ r[e + 1] = Last(t[c].path) /\ Last(t[c].path) \in ParamTokens
      BY <1>2
    <3>2. e < Len(r)
      BY <1>2
    <3> QED BY <1>5, <3>1, <3>2
  <2>2. Matched(r, e, rest) =
            Following(FirstSegment(r[e + 1], rest), Matched(r, e + 1, OtherSegments(rest)))
    BY <1>2, <1>4, <2>1, MatchedParam
  <2> QED BY <2>1, <2>2
<1> QED BY <1>4, <1>6, <1>7 DEF ParamSorts

\* An answer below a parameter is right above it, the parameter's value first.
LEMMA FollowingFinds ==
    ASSUME NEW r, NEW a, NEW ps \in Seq(Param), NEW kv \in Param, NEW found,
           Finds(r, a, Append(ps, kv), found)
    PROVE  Finds(r, a, ps, Following(kv, found))
<1>1. CASE r = a.handle
  <2>1. PICK qs \in Seq(Param) : found = {qs} /\ a.ps = Append(ps, kv) \o qs
    BY <1>1 DEF Finds
  <2>2. <<kv>> \o qs \in Seq(Param) /\ a.ps = ps \o (<<kv>> \o qs)
    BY <2>1, SavedFirst
  <2>3. Following(kv, found) = {<<kv>> \o qs}
    BY <2>1 DEF Following
  <2> QED BY <1>1, <2>2, <2>3 DEF Finds
<1>2. CASE r # a.handle
  <2>1. found = {}
    BY <1>2 DEF Finds
  <2>2. Following(kv, found) = {}
    BY <2>1 DEF Following
  <2> QED BY <1>2, <2>2 DEF Finds
<1> QED BY <1>1, <1>2

\* Below a node with a parameter the end of the segment decides.
SegmentDecides(t, d, v, at, path, ps, below, later, saved) ==
    /\ below.nType = "param" /\ later \in Seq(STRING) /\ saved \in Seq(Param)
    /\ (later = <<>> /\ below.handle = NoHandle) \/ (later # <<>> /\ below.children = <<>>) =>
           \A x : Right(v, d, at, path, ps, Missed(saved, x))
    /\ later = <<>> /\ below.handle # NoHandle =>
           Right(v, d, at, path, ps, Answer(below.handle, saved, FALSE))
    /\ later # <<>> /\ below.children # <<>> =>
           LET g == below.children[1]
           IN  /\ g \in 1..Len(t) /\ Reachable(t[g]) /\ later[1] = Slash
               /\ \A a : Right(v, d, g, later, saved, a) => Right(v, d, at, path, ps, a)

LEMMA ParamDecides ==
    ASSUME NEW t, NEW d, NEW v, NEW H, Telling(t, d, v, H), NEW at \in 1..Len(t),
           Reachable(t[at]), t[at].wildChild, t[at].nType # "catchAll", NEW path \in Seq(STRING),
           IsStrictPrefix(t[at].path, path), NEW rest, rest = Left(t[at], path),
           NEW below, below = t[t[at].children[1]], NEW later, later = Later(below, rest),
           NEW ps \in Seq(Param), NEW saved, saved = Saved(ps, below, rest)
    PROVE  SegmentDecides(t, d, v, at, path, ps, below, later, saved)
<1> DEFINE c == t[at].children[1]
           e == d[at] + Len(t[at].path)
           kv == FirstSegment(Last(below.path), rest)
           g == below.children[1]
<1>1. ToParam(t, d, v, at, c, e)
  <2> DEFINE f == e
             b == c
  <2>1. f = d[at] + Len(t[at].path) /\ b = t[at].children[1]
    OBVIOUS
  <2> HIDE DEF f, b
  <2>2. ToParam(t, d, v, at, b, f)
    BY <2>1, ParamReached
  <2> QED BY <2>2 DEF f, b
<1>2. /\ \A r \in v[at] \ v[c] : Matched(r, d[at], path) = {}
      /\ \A r \in v[c] : Matched(r, d[at], path) = Following(kv, Matched(r, e + 1, OtherSegments(rest)))
      /\ rest \in Seq(STRING) /\ rest # <<>>
  <2> DEFINE f == e
             b == c
  <2>1. f = d[at] + Len(t[at].path) /\ b = t[at].children[1]
    OBVIOUS
  <2> HIDE DEF f, b
  <2>2. ParamSorts(t, d, v, at, path, rest, b, f)
    BY <2>1, ParamMatches
  <2>3. ParamSorts(t, d, v, at, path, rest, c, e)
    BY <2>2 DEF b, f
  <2> QED BY <2>3, Zenon DEF ParamSorts
<1>3. below = t[c]
  OBVIOUS
<1> HIDE DEF c, e, kv
<1>4. /\ below \in Node /\ below.nType = "param" /\ Last(below.path) \in STRING
      /\ e \in Nat /\ v[c] \subseteq v[at]
      /\ \A r \in v[at] : r \in Seq(STRING) /\ r # NoHandle
      /\ \A r \in v[c] : \/ r = below.handle /\ Len(r) = e + 1
                         \/ Len(r) > e + 1 /\ below.children # <<>> /\ r \in v[g]
      /\ below.handle # NoHandle => below.handle \in v[c] /\ Len(below.handle) = e + 1
  BY <1>1, <1>3 DEF ToParam
<1>5. below.children # <<>> =>
          /\ g \in 1..Len(t) /\ Reachable(t[g]) /\ d[g] = e + 1 /\ v[g] \subseteq v[c]
          /\ \A r \in v[g] : Len(r) > e + 1
  BY <1>1, <1>3 DEF ToParam
<1>6. /\ kv \in Param /\ later \in Seq(STRING) /\ (later # <<>> => later[1] = Slash)
      /\ saved = Append(ps, kv) /\ saved \in Seq(Param) /\ later = OtherSegments(rest)
  <2>1. /\ kv \in Param /\ OtherSegments(rest) \in Seq(STRING)
        /\ OtherSegments(rest) # <<>> => OtherSegments(rest)[1] = Slash
        /\ Later(below, rest) = OtherSegments(rest)
        /\ \A qs : Saved(qs, below, rest) = Append(qs, kv)
    <3> DEFINE m == below
    <3> HIDE DEF m
    <3>1. m \in Node /\ m.nType = "param" /\ Last(m.path) \in STRING
      BY <1>4 DEF m
    <3>2. /\ FirstSegment(Last(m.path), rest) \in Param /\ OtherSegments(rest) \in Seq(STRING)
          /\ OtherSegments(rest) # <<>> => OtherSegments(rest)[1] = Slash
          /\ Later(m, rest) = OtherSegments(rest)
          /\ \A qs : Saved(qs, m, rest) = Append(qs, FirstSegment(Last(m.path), rest))
      BY <1>2, <3>1, ValueTaken
    <3> QED BY <3>2 DEF m, kv
  <2>2. later = OtherSegments(rest) /\ saved = Append(ps, kv)
    BY <2>1
  <2>3. Append(ps, kv) \in Seq(Param)
    BY <2>1
  <2> QED BY <2>1, <2>2, <2>3
<1> HIDE DEF g
<1>7. ASSUME NEW r \in v[c], Len(r) = e + 1
      PROVE  Matched(r, e + 1, later) = IF later = <<>> THEN {<<>>} ELSE {}
  <2>1. r \in Seq(STRING)
    BY <1>4
  <2> QED BY <1>6, <1>7, <2>1, MatchedAtEnd
<1>8. ASSUME NEW r \in v[c], Len(r) > e + 1, later = <<>> PROVE Matched(r, e + 1, later) = {}
  <2>1. r \in Seq(STRING) /\ e + 1 \in Nat /\ e + 1 < Len(r)
    BY <1>4, <1>8
  <2> QED BY <1>6, <1>8, <2>1, MatchedNext
<1>9. \A r \in v[at] : r \notin v[c] => \A a : a.handle \in v[c] \cup {NoHandle} =>
          Finds(r, a, ps, Matched(r, d[at], path))
  BY <1>2, <1>4 DEF Finds
<1>10. ASSUME NEW a, a.handle \in v[c] \cup {NoHandle},
              \A r \in v[c] : Finds(r, a, saved, Matched(r, e + 1, later))
       PROVE  Right(v, d, at, path, ps, a)
  <2>1. ASSUME NEW r \in v[c] PROVE Finds(r, a, ps, Matched(r, d[at], path))
    <3>1. Finds(r, a, ps, Following(kv, Matched(r, e + 1, later)))
      BY <1>6, <1>10, FollowingFinds
    <3> QED BY <1>2, <1>6, <3>1
  <2>2. a.handle = NoHandle \/ a.handle \in v[at]
    BY <1>4, <1>10
  <2> QED BY <1>9, <1>10, <2>1, <2>2 DEF Right
<1>11. ASSUME (later = <<>> /\ below.handle = NoHandle) \/ (later # <<>> /\ below.children = <<>>),
              NEW x
       PROVE  Right(v, d, at, path, ps, Missed(saved, x))
  <2>1. \A r \in v[c] : Matched(r, e + 1, later) = {} /\ r # NoHandle
    BY <1>4, <1>7, <1>8, <1>11
  <2>2. Missed(saved, x).handle = NoHandle
    BY DEF Missed, Answer
  <2>3. \A r \in v[c] : Finds(r, Missed(saved, x), saved, Matched(r, e + 1, later))
    BY <2>1, <2>2 DEF Finds
  <2> QED BY <1>10, <2>2, <2>3
<1>12. ASSUME later = <<>>, below.handle # NoHandle
       PROVE  Right(v, d, at, path, ps, Answer(below.handle, saved, FALSE))
  <2> DEFINE a == Answer(below.handle, saved, FALSE)
  <2>1. a.handle = below.handle /\ a.ps = saved
    BY DEF Answer
  <2> HIDE DEF a
  <2>2. <<>> \in Seq(Param) /\ saved \o <<>> = saved
    BY <1>6
  <2>3. ASSUME NEW r \in v[c] PROVE Finds(r, a, saved, Matched(r, e + 1, later))
    <3>1. CASE r = below.handle
      <4>1. Matched(r, e + 1, later) = {<<>>}
        BY <1>4, <1>7, <1>12, <3>1
      <4> QED BY <2>1, <2>2, <3>1, <4>1 DEF Finds
    <3>2. CASE r # below.handle
      <4>1. Matched(r, e + 1, later) = {}
        BY <1>4, <1>8, <1>12, <3>2
      <4> QED BY <2>1, <3>2, <4>1 DEF Finds
    <3> QED BY <3>1, <3>2
  <2>4. a.handle \in v[c] \cup {NoHandle}
    BY <1>4, <1>12, <2>1
  <2>5. Right(v, d, at, path, ps, a)
    BY <1>10, <2>3, <2>4
  <2> QED BY <2>5 DEF a
<1>13. ASSUME later # <<>>, below.children # <<>>, NEW a, Right(v, d, g, later, saved, a)
       PROVE  Right(v, d, at, path, ps, a)
  <2>1. d[g] = e + 1 /\ v[g] \subseteq v[c] /\ \A r \in v[g] : Len(r) > e + 1
    BY <1>5, <1>13
  <2>2. a.handle = NoHandle \/ a.handle \in v[g]
    BY <1>13 DEF Right
  <2>3. ASSUME NEW r \in v[c] PROVE Finds(r, a, saved, Matched(r, e + 1, later))
    <3>1. CASE r \in v[g]
      BY <1>13, <2>1, <3>1 DEF Right
    <3>2. CASE r \notin v[g]
      <4>1. Len(r) = e + 1 /\ r # NoHandle
        BY <1>4, <2>3, <3>2
      <4>2. Matched(r, e + 1, later) = {}
        BY <1>7, <1>13, <4>1
      <4> QED BY <2>2, <3>2, <4>1, <4>2 DEF Finds
    <3> QED BY <3>1, <3>2
  <2>4. a.handle \in v[c] \cup {NoHandle}
    BY <2>1, <2>2
  <2> QED BY <1>10, <2>3, <2>4
<1> QED BY <1>4, <1>5, <1>6, <1>11, <1>12, <1>13 DEF g, SegmentDecides

\* Below the node that marks a catch-all the whole rest is its value.
LEMMA CatchAllDecides ==
    ASSUME NEW t, NEW d, NEW v, NEW H, Telling(t, d, v, H), NEW at \in 1..Len(t),
           t[at].wildChild, t[at].nType = "catchAll", NEW path \in Seq(STRING),
           path # <<>>, path[1] = Slash, NEW ps \in Seq(Param)
    PROVE  LET below == t[t[at].children[1]]
               rest == Left(t[at], path)
           IN  /\ below.nType = "catchAll" /\ Later(below, rest) = <<>>
               /\ Right(v, d, at, path, ps, Answer(below.handle, Saved(ps, below, rest), FALSE))
               /\ \A r \in v[at] : Matched(r, d[at], path) # {}
<1> DEFINE n == t[at]
           c == n.children[1]
           below == t[c]
           e == d[at]
           rest == Left(n, path)
<1>1. /\ InShape(t) /\ t \in Seq(Node) /\ Hung(t) /\ Spells(t, d, v, H, 0, 0) /\ Distinct
      /\ \A i \in 1..Len(t) : v[i] \subseteq H /\ i # 0
  <2>1. InShape(t) /\ t \in Seq(Node) /\ Hung(t) /\ Spells(t, d, v, H, 0, 0) /\ Distinct
    BY DEF Telling, InShape
  <2>2. Len(t) \in Nat
    BY <2>1, Places
  <2> QED BY <2>1, <2>2 DEF Telling
<1>2. Len(n.children) = 1 /\ 1 \in 1..Len(n.children)
  <2>1. Fits(t, n)
    BY <1>1, Places DEF InShape
  <2> QED BY <2>1 DEF Fits
<1>3. c \in 1..Len(t) /\ c # 0 /\ at # 0
  BY <1>1, <1>2, ChildrenInRange
<1>4. /\ NodeSpells(t, d, v, H, 0, 0, at) /\ NodeSpells(t, d, v, H, 0, 0, c)
      /\ Kinds(t, n) /\ Kinds(t, below)
  BY <1>1, <1>3 DEF Spells
<1>5. n.path = <<>> /\ below.nType = "catchAll" /\ ~below.wildChild
  BY <1>2, <1>4 DEF Kinds
<1>6. /\ below.children = <<>> /\ Len(below.path) = 2 /\ below.path[1] = Slash
      /\ below.path[2] \in CatchAlls /\ below \in Node /\ n \in Node
  <2>1. below \in Node /\ n \in Node
    BY <1>1, <1>3, Places
  <2> QED BY <1>4, <1>5, <2>1 DEF Kinds
<1>7. e \in Nat /\ d[c] = e /\ v[c] \subseteq v[at]
  <2>1. Hangs(t, d, v, at, 1) /\ e \in Nat
    BY <1>2, <1>4 DEF NodeSpells
  <2>2. d[c] = e + Len(n.path) /\ v[c] \subseteq v[at]
    BY <2>1 DEF Hangs
  <2> QED BY <1>5, <2>1, <2>2
<1>8. rest = path
  <2>1. IsPrefix(n.path, path)
    <3> DEFINE q == n.path
    <3>1. q = <<>>
      BY <1>5
    <3> HIDE DEF q
    <3>2. IsPrefix(q, path)
      BY <3>1 DEF IsPrefix
    <3> QED BY <3>2 DEF q
  <2> QED BY <1>5, <1>6, <2>1, LeftIs
<1>9. below.path[2] \in STRING /\ Last(below.path) = below.path[2]
  <2>1. below.path \in Seq(STRING)
    BY <1>6, FieldTypes
  <2> DEFINE q == below.path
  <2>2. q \in Seq(STRING) /\ Len(q) = 2
    BY <1>6, <2>1
  <2> HIDE DEF q
  <2>3. 2 \in 1..Len(q)
    BY <2>2
  <2>4. q[2] \in STRING
    <3>1. \A k \in 1..Len(q) : q[k] \in STRING
      BY <2>2, ElementOfSeq
    <3> QED BY <2>3, <3>1, Zenon
  <2>5. Last(q) = q[2]
    BY <2>2, Zenon DEF Last
  <2> QED BY <2>4, <2>5 DEF q
<1> DEFINE kv == [key |-> below.path[2], value |-> path]
           saved == Saved(ps, below, rest)
<1>10. Later(below, rest) = <<>> /\ saved = Append(ps, kv) /\ kv \in Param
  <2>1. Taken(below, path) = path
    BY <1>5 DEF Taken
  <2>2. From(path, Len(path) + 1) = <<>>
    <3>1. Len(path) \in Nat
      OBVIOUS
    <3>2. Len(path) + 1 \in 1..Len(path) + 1 /\ Len(path) - (Len(path) + 1) + 1 = 0
      BY <3>1
    <3>3. From(path, Len(path) + 1) \in Seq(STRING) /\ Len(From(path, Len(path) + 1)) = 0
      BY <3>2, TailOf
    <3> QED BY <3>3
  <2>3. Later(below, path) = <<>>
    BY <2>1, <2>2 DEF Later
  <2>4. Saved(ps, below, path) = Append(ps, kv)
    BY <1>9, <2>1 DEF Saved
  <2>5. kv \in Param
    BY <1>9 DEF Param
  <2> QED BY <1>8, <2>3, <2>4, <2>5
<1> HIDE DEF e, rest, saved
\* A route through the node is the handle below it, and takes the whole rest.
<1>11. ASSUME NEW r \in v[at]
       PROVE  r = below.handle /\ r # NoHandle /\ Matched(r, e, path) = {<<kv>>}
  <2>1. r \in v[at] \cap H /\ r \in Seq(STRING) /\ Len(r) > e
    <3>1. Follows(t, d, v, H, 0, 0, at, r)
      BY <1>4 DEF NodeSpells
    <3> QED BY <1>1, <3>1 DEF Follows, e
  <2>2. r \in v[c]
    <3> DEFINE f == e + Len(n.path)
    <3>1. f = e
      BY <1>5, <1>7
    <3>2. f = d[at] + Len(t[at].path)
      BY DEF e
    <3> HIDE DEF f
    <3>3. \/ r = t[at].handle /\ Len(r) = f
          \/ \E k \in 1..Len(t[at].children) : r \in v[t[at].children[k]] /\ Len(r) > f
      BY <1>1, <2>1, <3>2, EndsOrGoesOn
    <3>4. \E k \in 1..Len(n.children) : r \in v[n.children[k]]
      BY <1>7, <2>1, <3>1, <3>3
    <3> QED BY <1>2, <3>4
  <2>3. r \in v[c] \cap H
    BY <2>1, <2>2
  <2>4. Spelt(below.path, e, r) /\ r = below.handle
    <3>1. /\ Spelt(t[c].path, d[c], r)
          /\ r = t[c].handle \/ \E k \in 1..Len(t[c].children) : r \in v[t[c].children[k]]
      BY <1>1, <1>3, <2>3, GoesOn
    <3>2. Len(below.children) = 0
      BY <1>6
    <3> QED BY <1>7, <3>1, <3>2
  <2>5. e + 1 < Len(r) /\ r[e + 1] = Slash /\ r[e + 2] = below.path[2] /\ e < Len(r)
    <3>1. Len(r) >= e + 2 /\ r[e + 1] = below.path[1] /\ r[e + 2] = below.path[2]
      <4>1. 1 \in 1..Len(below.path) /\ 2 \in 1..Len(below.path)
        BY <1>6
      <4> QED BY <1>6, <2>4, <4>1 DEF Spelt
    <3>2. Len(r) \in Nat
      BY <2>1
    <3> QED BY <1>6, <1>7, <3>1, <3>2
  <2>6. r[e + 1] \notin ParamTokens /\ r[e + 2] \in CatchAlls
    BY <1>1, <1>6, <2>5 DEF Distinct, Wildcards
  <2>7. Matched(r, e, path) = {<<[key |-> r[e + 2], value |-> path]>>}
    <3>1. e \in Nat /\ path \in Seq(STRING) /\ path # <<>> /\ path[1] = r[e + 1]
      BY <1>7, <2>5
    <3>2. r \in Seq(STRING) /\ e < Len(r)
      BY <2>1
    <3> QED BY <2>5, <2>6, <3>1, <3>2, MatchedNext, Zenon
  <2>8. r # NoHandle
    BY <1>7, <2>1 DEF NoHandle
  <2> QED BY <2>4, <2>5, <2>7, <2>8
<1> DEFINE a == Answer(below.handle, saved, FALSE)
<1>12. a.handle = below.handle /\ a.ps = Append(ps, kv)
  BY <1>10 DEF Answer
<1> HIDE DEF a, kv
<1>13. a.handle = NoHandle \/ a.handle \in v[at]
  <2>1. below.handle # NoHandle => below.handle \in v[c]
    BY <1>4 DEF NodeSpells, Ends
  <2> QED BY <1>7, <1>12, <2>1
<1>14. \A r \in v[at] : Finds(r, a, ps, Matched(r, d[at], path))
  <2>1. <<kv>> \in Seq(Param) /\ Append(ps, kv) = ps \o <<kv>>
    BY <1>10
  <2> QED BY <1>11, <1>12, <2>1 DEF Finds, e
<1>15. Right(v, d, at, path, ps, a)
  BY <1>13, <1>14 DEF Right
<1>16. \A r \in v[at] : Matched(r, d[at], path) # {}
  BY <1>11 DEF e
<1> QED BY <1>5, <1>10, <1>15, <1>16 DEF a, saved, rest

-----------------------------------------------------------------------------
(* A lookup is defined, and right *)

\* A turn goes on at most once, with the next byte or below a wildcard.
TakesByte(t, at, path) ==
    /\ IsStrictPrefix(t[at].path, path) /\ ~t[at].wildChild
    /\ ChildFor(t[at], Left(t[at], path)[1]) # 0
TakesWild(t, at, path) ==
    LET below == t[t[at].children[1]]
    IN  /\ IsStrictPrefix(t[at].path, path) /\ t[at].wildChild
        /\ Later(below, Left(t[at], path)) # <<>> /\ below.children # <<>>
ByteTurn(t, at, path, ps) ==
    <<ChildFor(t[at], Left(t[at], path)[1]), Left(t[at], path), ps>>
WildTurn(t, at, path, ps) ==
    LET below == t[t[at].children[1]]
        rest == Left(t[at], path)
    IN  <<below.children[1], Later(below, rest), Saved(ps, below, rest)>>

LEMMA TurnGoesOn ==
    ASSUME NEW t, NEW at, NEW path, NEW ps
    PROVE  /\ TakesByte(t, at, path) => \A walk :
                  LookupTurn(t, walk, at, path, ps) = walk[ByteTurn(t, at, path, ps)]
           /\ TakesWild(t, at, path) => \A walk :
                  LookupTurn(t, walk, at, path, ps) = walk[WildTurn(t, at, path, ps)]
           /\ ~TakesByte(t, at, path) /\ ~TakesWild(t, at, path) => \A walk, other :
                  LookupTurn(t, walk, at, path, ps) = LookupTurn(t, other, at, path, ps)
<1>1. TakesByte(t, at, path) => \A walk :
          LookupTurn(t, walk, at, path, ps) = walk[ByteTurn(t, at, path, ps)]
  BY Zenon DEF LookupTurn, TakesByte, ByteTurn, Left
<1>2. TakesWild(t, at, path) => \A walk :
          LookupTurn(t, walk, at, path, ps) = walk[WildTurn(t, at, path, ps)]
  BY Zenon DEF LookupTurn, TakesWild, WildTurn, Left, Later, Saved, Taken
<1>3. ~TakesByte(t, at, path) /\ ~TakesWild(t, at, path) => \A walk, other :
          LookupTurn(t, walk, at, path, ps) = LookupTurn(t, other, at, path, ps)
  <2> SUFFICES ASSUME ~TakesByte(t, at, path), ~TakesWild(t, at, path), NEW walk, NEW other
               PROVE  LookupTurn(t, walk, at, path, ps) = LookupTurn(t, other, at, path, ps)
    OBVIOUS
  <2>1. CASE IsStrictPrefix(t[at].path, path) /\ ~t[at].wildChild
    <3>1. ChildFor(t[at], From(path, Len(t[at].path) + 1)[1]) = 0
      BY <2>1, Zenon DEF TakesByte, Left
    <3> QED BY <2>1, <3>1, Zenon DEF LookupTurn
  <2>2. CASE IsStrictPrefix(t[at].path, path) /\ t[at].wildChild
    <3> DEFINE below == t[t[at].children[1]]
               rest == From(path, Len(t[at].path) + 1)
               value == IF below.nType = "param" THEN UpTo(rest, SegmentEnd(rest)) ELSE rest
               later == From(rest, Len(value) + 1)
    <3>1. ~(later # <<>> /\ below.children # <<>>)
      BY <2>2, Zenon DEF TakesWild, Left, Later, Taken
    <3> QED BY <2>2, <3>1, Zenon DEF LookupTurn
  <2>3. CASE ~IsStrictPrefix(t[at].path, path)
    BY <2>3, Zenon DEF LookupTurn
  <2> QED BY <2>1, <2>2, <2>3, Zenon
<1> QED BY <1>1, <1>2, <1>3

\* The turns of a lookup, what they yield, and how far each is from the end.
Lookups(t) == (1..Len(t)) \X Seq(STRING) \X Seq(Param)
Answers == [handle : Seq(STRING), ps : Seq(Param), tsr : BOOLEAN]
Remaining(n, path) == Len(path) + (IF Marks(n) THEN 0 ELSE 1)

\* A turn goes on closer to the end.
LEMMA TurnGoesDown ==
    ASSUME NEW t, NEW d, NEW v, NEW H, Telling(t, d, v, H), NEW at \in 1..Len(t),
           NEW path \in Seq(STRING), NEW ps \in Seq(Param)
    PROVE  /\ TakesByte(t, at, path) =>
                  LET g == ByteTurn(t, at, path, ps)
                  IN  g \in Lookups(t) /\ Remaining(t[g[1]], g[2]) < Remaining(t[at], path)
           /\ TakesWild(t, at, path) =>
                  LET g == WildTurn(t, at, path, ps)
                  IN  g \in Lookups(t) /\ Remaining(t[g[1]], g[2]) < Remaining(t[at], path)
           /\ IsStrictPrefix(t[at].path, path) /\ t[at].wildChild =>
                  Saved(ps, t[t[at].children[1]], Left(t[at], path)) \in Seq(Param)
<1> DEFINE n == t[at]
           rest == Left(n, path)
           c == ChildFor(n, rest[1])
           below == t[n.children[1]]
<1>1. /\ InShape(t) /\ t \in Seq(Node) /\ Hung(t) /\ Spells(t, d, v, H, 0, 0) /\ Chained(t)
      /\ n \in Node /\ Fits(t, n) /\ Kinds(t, n) /\ Len(path) \in Nat
  <2>1. InShape(t) /\ t \in Seq(Node) /\ Hung(t) /\ Spells(t, d, v, H, 0, 0) /\ Chained(t)
    BY DEF Telling, InShape
  <2>2. n \in Node /\ Fits(t, n)
    BY <2>1, Places DEF InShape
  <2>3. Kinds(t, n)
    BY <2>1 DEF Spells
  <2> QED BY <2>1, <2>2, <2>3
<1>2. /\ n.path \in Seq(STRING) /\ n.children \in Seq(Nat) /\ n.indices \in Seq(STRING)
      /\ Len(n.path) \in Nat /\ (Len(n.path) = 0 => n.path = <<>>)
  BY <1>1, FieldTypes
<1>3. \A k \in 1..Len(n.children) : n.children[k] \in 1..Len(t)
  BY <1>1, ChildrenInRange
<1>4. ASSUME IsStrictPrefix(n.path, path)
      PROVE  /\ rest \in Seq(STRING) /\ rest # <<>> /\ rest[1] \in STRING /\ Len(rest) \in Nat
             /\ Len(rest) = Len(path) - Len(n.path)
  <2>1. IsPrefix(n.path, path) /\ path # n.path
    BY <1>4 DEF IsStrictPrefix
  <2>2. rest \in Seq(STRING) /\ rest # <<>> /\ rest[1] \in STRING /\ Len(rest) = Len(path) - Len(n.path)
    BY <1>1, <2>1, LeftIs
  <2> HIDE DEF rest, n
  <2>3. Len(rest) \in Nat
    BY <2>2
  <2> QED BY <2>2, <2>3
<1>5. ASSUME TakesByte(t, at, path)
      PROVE  /\ c \in 1..Len(t) /\ rest \in Seq(STRING) /\ Remaining(t[c], rest) < Remaining(n, path)
  <2>1. IsStrictPrefix(n.path, path) /\ ~n.wildChild /\ c # 0
    BY <1>5 DEF TakesByte
  <2> DEFINE pos == IndexOf(n, rest[1])
  <2>2. pos \in 1..Len(n.indices) /\ c = n.children[pos]
    <3>1. pos \in 0..Len(n.indices)
      BY <1>1, <1>4, <2>1, IndexOfChild
    <3>2. c = IF pos = 0 THEN 0 ELSE n.children[pos]
      BY DEF ChildFor
    <3> HIDE DEF pos, c
    <3> QED BY <1>2, <2>1, <3>1, <3>2
  <2> HIDE DEF pos, c, rest
  <2>3. pos \in 1..Len(n.children)
    <3>1. Len(n.indices) <= Len(n.children)
      BY <1>1, <2>1 DEF Fits
    <3> QED BY <1>2, <2>2, <3>1
  <2>4. c \in 1..Len(t)
    BY <1>3, <2>2, <2>3
  <2>5. n.path = <<>> => Marks(t[c])
    BY <1>1, <2>1, <2>2, <2>3 DEF Chained
  <2>6. ~Marks(n)
    BY <2>1 DEF Marks
  <2>7. Remaining(n, path) = Len(path) + 1
    BY <2>6 DEF Remaining
  <2>8. Remaining(t[c], rest) < Len(path) + 1
    <3> DEFINE l == Len(rest)
               k == Len(n.path)
               p == Len(path)
    <3>1. l \in Nat /\ k \in Nat /\ p \in Nat /\ l = p - k
      BY <1>1, <1>2, <1>4, <2>1
    <3>2. Remaining(t[c], rest) = IF Marks(t[c]) THEN l ELSE l + 1
      BY <1>4, <2>1 DEF Remaining
    <3>3. Marks(t[c]) \/ k # 0
      BY <1>2, <2>5
    <3> HIDE DEF l, k, p
    <3>4. Remaining(t[c], rest) < p + 1
      BY <3>1, <3>2, <3>3
    <3> QED BY <3>4 DEF p
  <2> QED BY <1>4, <2>1, <2>4, <2>7, <2>8
<1>6. ASSUME IsStrictPrefix(n.path, path), n.wildChild
      PROVE  /\ below \in Node /\ Saved(ps, below, rest) \in Seq(Param)
             /\ n.children # <<>> /\ n.children[1] \in 1..Len(t)
             /\ n.nType = "catchAll" => Later(below, rest) = <<>>
             /\ n.nType # "catchAll" =>
                    /\ n.path # <<>> /\ Later(below, rest) \in Seq(STRING)
                    /\ Len(Later(below, rest)) \in Nat /\ Len(Later(below, rest)) <= Len(rest)
  <2>1. Len(n.children) = 1 /\ (n.path = <<>> => below.nType = "catchAll")
    BY <1>1, <1>6 DEF Fits
  <2>2. n.children # <<>> /\ 1 \in 1..Len(n.children)
    <3> DEFINE q == n.children
    <3>1. q \in Seq(Nat) /\ Len(q) = 1
      BY <1>2, <2>1
    <3> HIDE DEF q
    <3>2. q = <<>> => Len(q) = 0
      OBVIOUS
    <3>3. q # <<>>
      BY <3>1, <3>2
    <3>4. 1 \in 1..Len(q)
      BY <3>1
    <3> QED BY <3>3, <3>4 DEF q
  <2>3. n.children[1] \in 1..Len(t)
    BY <1>3, <2>2
  <2>4. below \in Node
    BY <1>1, <2>3, Places
  <2>5. rest \in Seq(STRING) /\ Len(rest) \in Nat
    BY <1>4, <1>6
  <2>6. /\ n.nType = "catchAll" => below.nType = "catchAll" /\ ~below.wildChild
        /\ n.nType # "catchAll" => below.nType = "param"
    BY <1>1, <1>6, <2>2 DEF Kinds
  <2> HIDE DEF below, rest
  <2>7. /\ Taken(below, rest) \in Seq(STRING) /\ Later(below, rest) \in Seq(STRING)
        /\ Len(Later(below, rest)) <= Len(rest) /\ Len(Later(below, rest)) \in Nat
        /\ below.nType = "catchAll" => Later(below, rest) = <<>>
    <3> DEFINE i == SegmentEnd(rest)
               k == IF below.nType = "param" THEN i ELSE Len(rest)
               l == Later(below, rest)
    <3>1. i \in 0..Len(rest) /\ UpTo(rest, i) \in Seq(STRING) /\ Len(UpTo(rest, i)) = i
      BY <2>5, SegmentOf
    <3> HIDE DEF i
    <3>2. Taken(below, rest) \in Seq(STRING) /\ Len(Taken(below, rest)) = k
      BY <2>5, <3>1 DEF Taken, i
    <3>3. k \in 0..Len(rest) /\ (below.nType = "catchAll" => k = Len(rest))
      BY <2>5, <3>1
    <3>4. l = From(rest, k + 1)
      BY <3>2 DEF Later
    <3> HIDE DEF k, l
    <3>5. l \in Seq(STRING) /\ Len(l) = Len(rest) - (k + 1) + 1
      <4>1. k + 1 \in 1..Len(rest) + 1
        BY <2>5, <3>3
      <4> QED BY <2>5, <3>4, <4>1, TailOf
    <3>6. Len(l) \in Nat /\ Len(l) <= Len(rest) /\ (below.nType = "catchAll" => Len(l) = 0)
      BY <2>5, <3>3, <3>5
    <3>7. below.nType = "catchAll" => l = <<>>
      BY <3>5, <3>6
    <3> QED BY <3>2, <3>5, <3>6, <3>7 DEF l
  <2>8. Last(below.path) \in STRING
    <3> DEFINE q == below.path
    <3>1. q \in Seq(STRING) /\ Len(q) # 0
      <4>1. below.path \in Seq(STRING)
        BY <2>4, FieldTypes
      <4>2. below.nType = "param" => Len(below.path) = 1
        BY <1>1, <2>3, Places DEF InShape, below
      <4>3. below.nType = "catchAll" /\ ~below.wildChild => Len(below.path) = 2
        <5>1. Kinds(t, below)
          BY <1>1, <2>3 DEF Spells, below
        <5> QED BY <5>1 DEF Kinds
      <4>4. Len(below.path) = 1 \/ Len(below.path) = 2
        BY <2>6, <4>2, <4>3, Zenon
      <4>5. Len(below.path) # 0
        <5> DEFINE l == Len(below.path)
        <5>1. l = 1 \/ l = 2
          BY <4>4
        <5> HIDE DEF l
        <5>2. l # 0
          BY <5>1
        <5> QED BY <5>2 DEF l
      <4> QED BY <4>1, <4>5, Zenon
    <3> HIDE DEF q
    <3>2. Len(q) \in 1..Len(q)
      BY <3>1
    <3>3. Last(q) = q[Len(q)]
      BY Zenon DEF Last
    <3>4. q[Len(q)] \in STRING
      BY <3>1, <3>2, ElementOfSeq
    <3> QED BY <3>3, <3>4 DEF q
  <2>9. Saved(ps, below, rest) \in Seq(Param)
    <3> DEFINE kv == [key |-> Last(below.path), value |-> Taken(below, rest)]
    <3>1. kv \in Param
      BY <2>7, <2>8 DEF Param
    <3> HIDE DEF kv
    <3>2. Append(ps, kv) \in Seq(Param)
      BY <3>1
    <3> QED BY <3>2 DEF Saved, kv
  <2> QED BY <2>1, <2>2, <2>3, <2>4, <2>6, <2>7, <2>9
<1>7. ASSUME TakesWild(t, at, path)
      PROVE  LET g == WildTurn(t, at, path, ps)
             IN  g \in Lookups(t) /\ Remaining(t[g[1]], g[2]) < Remaining(t[at], path)
  <2> DEFINE b == below.children[1]
             later == Later(below, rest)
             saved == Saved(ps, below, rest)
  <2>1. IsStrictPrefix(n.path, path) /\ n.wildChild /\ later # <<>> /\ below.children # <<>>
    BY <1>7 DEF TakesWild
  <2>2. /\ below \in Node /\ saved \in Seq(Param) /\ n.children[1] \in 1..Len(t)
        /\ n.path # <<>> /\ later \in Seq(STRING) /\ Len(later) \in Nat /\ Len(later) <= Len(rest)
    BY <1>6, <2>1
  <2>3. b \in 1..Len(t)
    <3>1. 1 \in 1..Len(below.children)
      <4>1. below.children \in Seq(Nat)
        BY <2>2, FieldTypes
      <4> QED BY <2>1, <4>1
    <3> QED BY <1>1, <2>2, <3>1, ChildrenInRange
  <2>4. WildTurn(t, at, path, ps) = <<b, later, saved>>
    BY DEF WildTurn
  <2>5. Remaining(t[b], later) < Remaining(n, path)
    <3>1. ~Marks(n)
      BY <2>2 DEF Marks
    <3>2. Remaining(n, path) = Len(path) + 1
      BY <3>1 DEF Remaining
    <3>3. Remaining(t[b], later) <= Len(later) + 1
      <4> HIDE DEF b, later
      <4> QED BY <2>2 DEF Remaining
    <3>4. Len(rest) < Len(path) /\ Len(rest) \in Nat
      <4>1. Len(rest) \in Nat /\ Len(rest) = Len(path) - Len(n.path) /\ Len(n.path) \in Nat
            /\ Len(n.path) # 0
        BY <1>2, <1>4, <2>1, <2>2
      <4> HIDE DEF rest, n
      <4> QED BY <1>1, <4>1
    <3>5. Remaining(t[b], later) \in Nat
      <4> HIDE DEF b, later
      <4> QED BY <2>2 DEF Remaining
    <3> HIDE DEF b, later, rest, n
    <3> QED BY <1>1, <2>2, <3>2, <3>3, <3>4, <3>5
  <2> HIDE DEF b, later, saved
  <2>6. <<b, later, saved>> \in Lookups(t)
    BY <2>2, <2>3 DEF Lookups
  <2> QED BY <2>4, <2>5, <2>6
<1>8. ASSUME TakesByte(t, at, path)
      PROVE  LET g == ByteTurn(t, at, path, ps)
             IN  g \in Lookups(t) /\ Remaining(t[g[1]], g[2]) < Remaining(t[at], path)
  <2>1. ByteTurn(t, at, path, ps) = <<c, rest, ps>>
    BY DEF ByteTurn
  <2>2. c \in 1..Len(t) /\ rest \in Seq(STRING) /\ Remaining(t[c], rest) < Remaining(n, path)
    BY <1>5, <1>8
  <2> HIDE DEF c, rest
  <2>3. <<c, rest, ps>> \in Lookups(t)
    BY <2>2 DEF Lookups
  <2> QED BY <2>1, <2>2, <2>3
<1> QED BY <1>6, <1>7, <1>8

\* A turn yields an answer if what it goes on with does.
LEMMA TurnAnswers ==
    ASSUME NEW t, NEW d, NEW v, NEW H, Telling(t, d, v, H), NEW at \in 1..Len(t),
           NEW path \in Seq(STRING), NEW ps \in Seq(Param), NEW walk,
           TakesByte(t, at, path) => walk[ByteTurn(t, at, path, ps)] \in Answers,
           TakesWild(t, at, path) => walk[WildTurn(t, at, path, ps)] \in Answers
    PROVE  LookupTurn(t, walk, at, path, ps) \in Answers
<1> DEFINE n == t[at]
           rest == Left(n, path)
           below == t[n.children[1]]
           later == Later(below, rest)
           saved == Saved(ps, below, rest)
           a == LookupTurn(t, walk, at, path, ps)
<1>1. TakesByte(t, at, path) \/ TakesWild(t, at, path) => a \in Answers
  BY TurnGoesOn
<1>2. t \in Seq(Node) /\ Hung(t) /\ n \in Node
  <2>1. t \in Seq(Node) /\ Hung(t)
    BY DEF Telling, InShape
  <2> QED BY <2>1, Places
<1>3. /\ \A qs \in Seq(Param) : \A x : x \in BOOLEAN => Missed(qs, x) \in Answers
      /\ \A qs \in Seq(Param), h \in Seq(STRING) : Answer(h, qs, FALSE) \in Answers
  <2>1. <<>> \in Seq(STRING)
    OBVIOUS
  <2> QED BY <2>1 DEF Missed, Answer, Answers, NoHandle
<1>4. FALSE \in BOOLEAN /\ n.handle \in Seq(STRING)
  BY <1>2, FieldTypes
<1>5. TurnIs(walk, n, below, rest, path, ps, a)
  BY LookupTurnIs
<1>6. IsStrictPrefix(n.path, path) <=> IsPrefix(n.path, path) /\ n.path # path
  BY DEF IsStrictPrefix
<1>7. CASE ~IsStrictPrefix(n.path, path)
  <2> HIDE DEF a, n, below, rest
  <2>1. \/ a = Answer(n.handle, ps, FALSE)
        \/ \E x \in BOOLEAN : a = Missed(ps, x)
    BY <1>5, <1>6, <1>7 DEF TurnIs
  <2>2. a \in Answers
    BY <1>3, <1>4, <2>1, Zenon
  <2> QED BY <2>2 DEF a
<1>8. CASE IsStrictPrefix(n.path, path) /\ ~n.wildChild
  <2>1. TakesByte(t, at, path) <=> ChildFor(n, rest[1]) # 0
    BY <1>8 DEF TakesByte
  <2> HIDE DEF a, n, rest, below
  <2>2. ChildFor(n, rest[1]) = 0 => \E x \in BOOLEAN : a = Missed(ps, x)
    BY <1>5, <1>8 DEF TurnIs
  <2>3. a \in Answers
    BY <1>1, <1>3, <2>1, <2>2, Zenon
  <2> QED BY <2>3 DEF a
<1>9. CASE IsStrictPrefix(n.path, path) /\ n.wildChild
  <2>1. TakesWild(t, at, path) <=> later # <<>> /\ below.children # <<>>
    BY <1>9 DEF TakesWild
  <2>2. saved \in Seq(Param)
    BY <1>9, TurnGoesDown
  <2>3. below.handle \in Seq(STRING)
    <3>1. Len(n.children) = 1
      <4>1. Fits(t, n)
        BY <1>2, Places DEF Telling, InShape
      <4> QED BY <1>9, <4>1 DEF Fits
    <3>2. 1 \in 1..Len(n.children)
      BY <3>1
    <3>3. n.children[1] \in 1..Len(t)
      BY <1>2, <3>2, ChildrenInRange
    <3> QED BY <1>2, <3>3, Places, FieldTypes
  <2> HIDE DEF a, n, below, rest
  <2>4. ~(later # <<>> /\ below.children # <<>>) =>
            \/ a = Answer(below.handle, saved, FALSE)
            \/ \E x \in BOOLEAN : a = Missed(saved, x)
    BY <1>5, <1>9 DEF TurnIs
  <2> HIDE DEF later, saved
  <2>5. a \in Answers
    BY <1>1, <1>3, <1>4, <2>1, <2>2, <2>3, <2>4, Zenon
  <2> QED BY <2>5 DEF a
<1> QED BY <1>7, <1>8, <1>9

\* The lookups of a tree: what every turn answers is what its turn says.
LookupsAre(t, walk) ==
    \A at \in 1..Len(t), path \in Seq(STRING), ps \in Seq(Param) :
        walk[<<at, path, ps>>] = LookupTurn(t, walk, at, path, ps)

(* The recursion of a lookup is well founded. *)
LEMMA LookupIsDefined ==
    ASSUME NEW t, NEW d, NEW v, NEW H, Telling(t, d, v, H)
    PROVE  \E walk : /\ LookupsAre(t, walk)
                     /\ \A request : GetValue(t, request) = walk[<<1, request, <<>>>>]
<1> DEFINE D == Lookups(t)
           C == Answers
           OneTurn(g, x) == LookupTurn(t, g, x[1], x[2], x[3])
           B == [gx \in [D -> C] \X D |-> OneTurn(gx[1], gx[2])]
           m == [x \in D |-> Remaining(t[x[1]], x[2])]
           Body(g) == [x \in (DOMAIN t) \X Seq(STRING) \X Seq(Param) |->
                          LookupTurn(t, g, x[1], x[2], x[3])]
<1>1. DOMAIN t = 1..Len(t) /\ D = (DOMAIN t) \X Seq(STRING) \X Seq(Param)
  <2>1. DOMAIN t = 1..Len(t)
    BY Places DEF Telling, InShape
  <2> QED BY <2>1 DEF Lookups
<1>2. \A x \in D : /\ x[1] \in 1..Len(t) /\ x[2] \in Seq(STRING) /\ x[3] \in Seq(Param)
                   /\ x = <<x[1], x[2], x[3]>>
  BY DEF Lookups
<1>3. m \in [D -> Nat] /\ \A x \in D : m[x] = Remaining(t[x[1]], x[2])
  <2>1. \A x \in D : Remaining(t[x[1]], x[2]) \in Nat
    <3>1. \A n, p : p \in Seq(STRING) => Remaining(n, p) \in Nat
      BY DEF Remaining
    <3> QED BY <1>2, <3>1, Zenon
  <2> HIDE DEF D
  <2> QED BY <2>1
<1>4. \A g \in [D -> C], x \in D : B[<<g, x>>] = OneTurn(g, x)
  <2> HIDE DEF D, C, OneTurn
  <2> QED OBVIOUS
<1> HIDE DEF D, C, B, m
<1>5. ASSUME NEW x \in D
      PROVE  /\ TakesByte(t, x[1], x[2]) =>
                    LET y == ByteTurn(t, x[1], x[2], x[3]) IN y \in D /\ m[y] < m[x]
             /\ TakesWild(t, x[1], x[2]) =>
                    LET y == WildTurn(t, x[1], x[2], x[3]) IN y \in D /\ m[y] < m[x]
  <2>1. x[1] \in 1..Len(t) /\ x[2] \in Seq(STRING) /\ x[3] \in Seq(Param)
    BY <1>2
  <2>2. /\ TakesByte(t, x[1], x[2]) =>
              LET g == ByteTurn(t, x[1], x[2], x[3])
              IN  g \in D /\ Remaining(t[g[1]], g[2]) < Remaining(t[x[1]], x[2])
        /\ TakesWild(t, x[1], x[2]) =>
              LET g == WildTurn(t, x[1], x[2], x[3])
              IN  g \in D /\ Remaining(t[g[1]], g[2]) < Remaining(t[x[1]], x[2])
    BY <2>1, TurnGoesDown DEF D
  <2> QED BY <1>3, <2>2
<1>6. Yields(D, C, B)
  <2> SUFFICES ASSUME NEW g \in [D -> C], NEW x \in D PROVE B[<<g, x>>] \in C
    BY DEF Yields
  <2>1. x[1] \in 1..Len(t) /\ x[2] \in Seq(STRING) /\ x[3] \in Seq(Param)
    BY <1>2
  <2>2. /\ TakesByte(t, x[1], x[2]) => g[ByteTurn(t, x[1], x[2], x[3])] \in C
        /\ TakesWild(t, x[1], x[2]) => g[WildTurn(t, x[1], x[2], x[3])] \in C
    BY <1>5
  <2>3. LookupTurn(t, g, x[1], x[2], x[3]) \in C
    BY <2>1, <2>2, TurnAnswers DEF C
  <2> QED BY <1>4, <2>3
<1>7. LooksBelow(D, C, m, B)
  <2> SUFFICES ASSUME NEW g \in [D -> C], NEW h \in [D -> C], NEW x \in D,
                      \A y \in D : m[y] < m[x] => g[y] = h[y]
               PROVE  B[<<g, x>>] = B[<<h, x>>]
    BY DEF LooksBelow
  <2>1. /\ TakesByte(t, x[1], x[2]) =>
              g[ByteTurn(t, x[1], x[2], x[3])] = h[ByteTurn(t, x[1], x[2], x[3])]
        /\ TakesWild(t, x[1], x[2]) =>
              g[WildTurn(t, x[1], x[2], x[3])] = h[WildTurn(t, x[1], x[2], x[3])]
    BY <1>5
  <2>2. LookupTurn(t, g, x[1], x[2], x[3]) = LookupTurn(t, h, x[1], x[2], x[3])
    BY <2>1, TurnGoesOn
  <2> QED BY <1>4, <2>2
<1>8. Answer(<<>>, <<>>, FALSE) \in C
  BY DEF C, Answers, Answer
<1>9. PICK f \in [D -> C] : \A x \in D : f[x] = B[<<f, x>>]
  <2>1. Satisfiable(D, C, B)
    BY <1>3, <1>6, <1>7, <1>8, WellDefined, Zenon
  <2> QED BY <2>1 DEF Satisfiable
<1>10. f = Body(f)
  <2>1. \A x \in D : f[x] = LookupTurn(t, f, x[1], x[2], x[3])
    BY <1>4, <1>9
  <2> QED BY <1>1, <1>9, <2>1
<1> DEFINE walk == CHOOSE g : g = Body(g)
<1>11. walk = Body(walk)
  <2> HIDE DEF Body
  <2> QED BY <1>10
<1>12. \A request : GetValue(t, request) = walk[<<1, request, <<>>>>]
  BY DEF GetValue
<1>13. LookupsAre(t, walk)
  <2> SUFFICES ASSUME NEW at \in 1..Len(t), NEW path \in Seq(STRING), NEW ps \in Seq(Param)
               PROVE  walk[<<at, path, ps>>] = LookupTurn(t, walk, at, path, ps)
    BY DEF LookupsAre
  <2> HIDE DEF walk
  <2> DEFINE x == <<at, path, ps>>
  <2>1. x \in (DOMAIN t) \X Seq(STRING) \X Seq(Param) /\ x[1] = at /\ x[2] = path /\ x[3] = ps
    BY <1>1
  <2>2. Body(walk)[x] = LookupTurn(t, walk, x[1], x[2], x[3])
    BY <2>1, Zenon
  <2> HIDE DEF Body
  <2> QED BY <1>11, <2>1, <2>2
<1> QED BY <1>12, <1>13

\* A lookup comes to a node with a request, and what it answers further down.
Comes(n, path) == Reachable(n) /\ (n.nType = "catchAll" => path # <<>> /\ path[1] = Slash)
RightBelow(t, d, v, walk, limit) ==
    \A g \in 1..Len(t), p \in Seq(STRING), qs \in Seq(Param) :
        Comes(t[g], p) /\ Remaining(t[g], p) < limit => Right(v, d, g, p, qs, walk[<<g, p, qs>>])

\* A turn is right if the turns below it are.
LEMMA TurnRight ==
    ASSUME NEW t, NEW d, NEW v, NEW H, Telling(t, d, v, H), NEW at \in 1..Len(t),
           NEW path \in Seq(STRING), Comes(t[at], path), NEW ps \in Seq(Param), NEW walk,
           RightBelow(t, d, v, walk, Remaining(t[at], path))
    PROVE  Right(v, d, at, path, ps, LookupTurn(t, walk, at, path, ps))
<1> DEFINE n == t[at]
           rest == Left(n, path)
           below == t[n.children[1]]
           a == LookupTurn(t, walk, at, path, ps)
<1>1. TurnIs(walk, n, below, rest, path, ps, a)
  BY LookupTurnIs
<1>2. Reachable(n) /\ (n.nType = "catchAll" => path # <<>> /\ path[1] = Slash)
  BY DEF Comes
<1>3. n \in Node
  <2>1. t \in Seq(Node)
    BY DEF Telling, InShape
  <2> QED BY <2>1, Places
<1>4. IsStrictPrefix(n.path, path) <=> IsPrefix(n.path, path) /\ n.path # path
  BY DEF IsStrictPrefix
<1>5. IsStrictPrefix(n.path, path) => rest \in Seq(STRING) /\ rest # <<>>
  BY <1>3, <1>4, LeftIs
<1>6. /\ TakesByte(t, at, path) =>
              LET g == ByteTurn(t, at, path, ps)
              IN  g \in Lookups(t) /\ Remaining(t[g[1]], g[2]) < Remaining(t[at], path)
      /\ TakesWild(t, at, path) =>
              LET g == WildTurn(t, at, path, ps)
              IN  g \in Lookups(t) /\ Remaining(t[g[1]], g[2]) < Remaining(t[at], path)
      /\ IsStrictPrefix(t[at].path, path) /\ t[at].wildChild =>
              Saved(ps, t[t[at].children[1]], Left(t[at], path)) \in Seq(Param)
  BY TurnGoesDown
<1>7. CASE ~IsPrefix(n.path, path) /\ path # n.path
  <2>1. \A x : Right(v, d, at, path, ps, Missed(ps, x))
    BY <1>2, <1>7, OtherWay
  <2> HIDE DEF n, rest, below, a
  <2>2. \E x \in BOOLEAN : a = Missed(ps, x)
    BY <1>1, <1>7 DEF TurnIs
  <2>3. Right(v, d, at, path, ps, a)
    BY <2>1, <2>2, Zenon
  <2> QED BY <2>3 DEF a
<1>8. CASE path = n.path
  <2>1. \A x : IF n.handle = NoHandle THEN Right(v, d, at, path, ps, Missed(ps, x))
               ELSE Right(v, d, at, path, ps, Answer(n.handle, ps, FALSE))
    BY <1>2, <1>8, EndReached
  <2> HIDE DEF n, rest, below, a
  <2>2. IF n.handle = NoHandle THEN \E x \in BOOLEAN : a = Missed(ps, x)
        ELSE a = Answer(n.handle, ps, FALSE)
    BY <1>1, <1>8 DEF TurnIs
  <2>3. Right(v, d, at, path, ps, a)
    BY <2>1, <2>2, Zenon
  <2> QED BY <2>3 DEF a
<1>9. CASE IsStrictPrefix(n.path, path) /\ ~n.wildChild
  <2> DEFINE s == rest
             c == ChildFor(n, rest[1])
  <2>1. s = Left(t[at], path) /\ c = ChildFor(t[at], s[1])
    OBVIOUS
  <2>2. TakesByte(t, at, path) <=> c # 0
    BY <1>9 DEF TakesByte
  <2>3. c # 0 => Remaining(t[c], rest) < Remaining(t[at], path)
    <3>1. ByteTurn(t, at, path, ps) = <<c, rest, ps>>
      BY DEF ByteTurn
    <3> HIDE DEF c, rest, n
    <3> QED BY <1>6, <2>2, <3>1
  <2>4. IF c = 0 THEN \E x \in BOOLEAN : a = Missed(ps, x) ELSE a = walk[<<c, rest, ps>>]
    <3> HIDE DEF n, rest, below, a
    <3> QED BY <1>1, <1>9 DEF TurnIs
  <2> HIDE DEF s, c
  <2>5. IF c = 0 THEN \A x : Right(v, d, at, path, ps, Missed(ps, x))
        ELSE /\ c \in 1..Len(t) /\ Reachable(t[c]) /\ d[c] \in Nat
             /\ t[c].nType = "catchAll" => s[1] = Slash
             /\ t[at].path = <<>> => Marks(t[c])
             /\ \A b : Right(v, d, c, s, ps, b) => Right(v, d, at, path, ps, b)
    BY <1>2, <1>9, <2>1, ByteDecides
  <2>6. s = rest
    BY DEF s
  <2> HIDE DEF n, rest, below, a
  <2>7. CASE c = 0
    <3>1. Right(v, d, at, path, ps, a)
      BY <2>4, <2>5, <2>7, Zenon
    <3> QED BY <3>1 DEF a
  <2>8. CASE c # 0
    <3>1. c \in 1..Len(t) /\ Comes(t[c], rest) /\ rest \in Seq(STRING)
      BY <1>5, <1>9, <2>5, <2>6, <2>8 DEF Comes
    <3>2. Right(v, d, c, rest, ps, walk[<<c, rest, ps>>])
      BY <2>3, <2>8, <3>1 DEF RightBelow
    <3>3. Right(v, d, at, path, ps, a)
      BY <2>4, <2>5, <2>6, <2>8, <3>2
    <3> QED BY <3>3 DEF a
  <2> QED BY <2>7, <2>8
<1>10. CASE IsStrictPrefix(n.path, path) /\ n.wildChild /\ n.nType # "catchAll"
  <2> DEFINE s == rest
             b == below
             later == Later(below, rest)
             saved == Saved(ps, below, rest)
             l == later
             q == saved
             g == below.children[1]
  <2>1. s = Left(t[at], path) /\ b = t[t[at].children[1]] /\ l = Later(b, s) /\ q = Saved(ps, b, s)
    OBVIOUS
  <2>2. TakesWild(t, at, path) <=> later # <<>> /\ below.children # <<>>
    BY <1>10 DEF TakesWild
  <2>3. later # <<>> /\ below.children # <<>> => Remaining(t[g], later) < Remaining(t[at], path)
    <3>1. WildTurn(t, at, path, ps) = <<g, later, saved>>
      BY DEF WildTurn
    <3> HIDE DEF g, later, saved, rest, n, below
    <3> QED BY <1>6, <2>2, <3>1
  <2>4. IF later # <<>> /\ below.children # <<>> THEN a = walk[<<g, later, saved>>]
        ELSE IF later = <<>> /\ (below.handle # NoHandle \/ below.nType = "catchAll")
        THEN a = Answer(below.handle, saved, FALSE)
        ELSE \E x \in BOOLEAN : a = Missed(saved, x)
    <3> HIDE DEF n, rest, below, a
    <3> QED BY <1>1, <1>10 DEF TurnIs
  <2> HIDE DEF s, b, l, q
  <2>5. SegmentDecides(t, d, v, at, path, ps, b, l, q)
    BY <1>2, <1>10, <2>1, ParamDecides
  <2>6. b = below /\ l = later /\ q = saved
    BY DEF b, l, q
  <2> HIDE DEF n, rest, below, a, later, saved
  <2>7. CASE later # <<>> /\ below.children # <<>>
    <3>1. g \in 1..Len(t) /\ Comes(t[g], later) /\ later \in Seq(STRING) /\ saved \in Seq(Param)
      BY <2>5, <2>6, <2>7 DEF Comes, SegmentDecides
    <3> HIDE DEF g
    <3>2. Right(v, d, g, later, saved, walk[<<g, later, saved>>])
      BY <2>3, <2>7, <3>1 DEF RightBelow
    <3>3. Right(v, d, at, path, ps, a)
      BY <2>4, <2>5, <2>6, <2>7, <3>2 DEF g, SegmentDecides
    <3> QED BY <3>3 DEF a
  <2>8. CASE later = <<>> /\ below.handle # NoHandle
    <3>1. Right(v, d, at, path, ps, a)
      BY <2>4, <2>5, <2>6, <2>8 DEF SegmentDecides
    <3> QED BY <3>1 DEF a
  <2>9. CASE (later = <<>> /\ below.handle = NoHandle) \/ (later # <<>> /\ below.children = <<>>)
    <3>1. below.nType # "catchAll"
      BY <2>5, <2>6 DEF SegmentDecides
    <3>2. \E x \in BOOLEAN : a = Missed(saved, x)
      BY <2>4, <2>9, <3>1
    <3>3. \A x : Right(v, d, at, path, ps, Missed(saved, x))
      BY <2>5, <2>6, <2>9 DEF SegmentDecides
    <3>4. Right(v, d, at, path, ps, a)
      BY <3>2, <3>3, Zenon
    <3> QED BY <3>4 DEF a
  <2> QED BY <2>7, <2>8, <2>9
<1>11. CASE IsStrictPrefix(n.path, path) /\ n.wildChild /\ n.nType = "catchAll"
  <2>1. /\ below.nType = "catchAll" /\ Later(below, rest) = <<>>
        /\ Right(v, d, at, path, ps, Answer(below.handle, Saved(ps, below, rest), FALSE))
    BY <1>2, <1>11, CatchAllDecides
  <2> HIDE DEF n, rest, below, a
  <2>2. a = Answer(below.handle, Saved(ps, below, rest), FALSE)
    BY <1>1, <1>11, <2>1 DEF TurnIs
  <2>3. Right(v, d, at, path, ps, a)
    BY <2>1, <2>2
  <2> QED BY <2>3 DEF a
<1>12. IsStrictPrefix(n.path, path) \/ path = n.path \/ (~IsPrefix(n.path, path) /\ path # n.path)
  BY <1>4
<1> HIDE DEF n, rest, below, a
<1> QED BY <1>7, <1>8, <1>9, <1>10, <1>11, <1>12

\* Every turn of a lookup that comes to a node is right there.
LEMMA TurnsRight ==
    ASSUME NEW t, NEW d, NEW v, NEW H, Telling(t, d, v, H), NEW walk, LookupsAre(t, walk),
           NEW limit \in Nat
    PROVE  RightBelow(t, d, v, walk, limit)
<1> DEFINE P(k) == RightBelow(t, d, v, walk, k)
           K == {k \in Nat : P(k)}
<1>1. \A n, p : p \in Seq(STRING) => Remaining(n, p) \in Nat
  BY DEF Remaining
<1>2. 0 \in K
  BY <1>1 DEF RightBelow
<1>3. ASSUME NEW k \in Nat, k \in K PROVE k + 1 \in K
  <2> SUFFICES ASSUME NEW g \in 1..Len(t), NEW p \in Seq(STRING), NEW qs \in Seq(Param),
                      Comes(t[g], p), Remaining(t[g], p) < k + 1
               PROVE  Right(v, d, g, p, qs, walk[<<g, p, qs>>])
    BY <1>3 DEF RightBelow
  <2>1. RightBelow(t, d, v, walk, Remaining(t[g], p))
    <3>1. P(k)
      BY <1>3
    <3>2. Remaining(t[g], p) <= k
      BY <1>1
    <3>3. \A f \in 1..Len(t), q \in Seq(STRING) : Remaining(t[f], q) < Remaining(t[g], p) => Remaining(t[f], q) < k
      BY <1>1, <3>2
    <3> QED BY <3>1, <3>3 DEF RightBelow
  <2>2. walk[<<g, p, qs>>] = LookupTurn(t, walk, g, p, qs)
    BY DEF LookupsAre
  <2> QED BY <2>1, <2>2, TurnRight
<1> HIDE DEF K
<1>4. Nat \subseteq K
  BY <1>2, <1>3, NatSetInduction
<1> QED BY <1>4 DEF K

(* A lookup finds the route that matches: of the held routes the one whose  *)
(* handle it answers matches the request, with the values it answers, and   *)
(* the others do not; it answers no handle when none does.                  *)
LEMMA LookupFinds ==
    ASSUME NEW t, NEW H, Tells(t, H), NEW request \in Seq(STRING)
    PROVE  LET a == GetValue(t, request)
           IN  /\ a.handle = NoHandle \/ a.handle \in H
               /\ \A r \in H : Match(r, request) = IF r = a.handle THEN {a.ps} ELSE {}
<1>1. PICK d, v : Telling(t, d, v, H)
  BY DEF Tells
<1>2. PICK walk : /\ LookupsAre(t, walk)
                  /\ \A p : GetValue(t, p) = walk[<<1, p, <<>>>>]
  BY <1>1, LookupIsDefined
<1>3. 1 \in 1..Len(t) /\ Reachable(t[1]) /\ d[1] = 0 /\ v[1] = H /\ t[1].nType # "catchAll"
  <2>1. InShape(t) /\ t \in Seq(Node) /\ t # <<>> /\ t[1].nType \notin {"param", "catchAll"}
    BY <1>1 DEF Telling, InShape
  <2>2. 1 \in 1..Len(t)
    BY <2>1, Places
  <2> QED BY <1>1, <2>1, <2>2 DEF Telling, Spells, Reachable
<1>4. Comes(t[1], request)
  BY <1>3 DEF Comes
<1> DEFINE a == GetValue(t, request)
<1>5. Right(v, d, 1, request, <<>>, a)
  <2>1. Remaining(t[1], request) \in Nat
    BY DEF Remaining
  <2>2. RightBelow(t, d, v, walk, Remaining(t[1], request) + 1)
    BY <1>1, <1>2, <2>1, TurnsRight
  <2>3. <<>> \in Seq(Param) /\ Remaining(t[1], request) < Remaining(t[1], request) + 1
    BY <2>1
  <2>4. Right(v, d, 1, request, <<>>, walk[<<1, request, <<>>>>])
    BY <1>3, <1>4, <2>2, <2>3 DEF RightBelow
  <2> QED BY <1>2, <2>4
<1> HIDE DEF a
<1>6. ASSUME NEW r \in H PROVE Match(r, request) = IF r = a.handle THEN {a.ps} ELSE {}
  <2>1. r \in Seq(STRING)
    BY <1>1, <1>3, NodeReached
  <2>2. Matched(r, 0, request) = Match(r, request)
    <3>1. Rest(r, 0) = r
      BY <2>1 DEF Rest, From
    <3> QED BY <3>1 DEF Matched
  <2>3. Finds(r, a, <<>>, Match(r, request))
    BY <1>3, <1>5, <2>2 DEF Right
  <2>4. CASE r = a.handle
    <3>1. PICK qs \in Seq(Param) : Match(r, request) = {qs} /\ a.ps = <<>> \o qs
      BY <2>3, <2>4 DEF Finds
    <3>2. <<>> \o qs = qs
      OBVIOUS
    <3> QED BY <2>4, <3>1, <3>2
  <2>5. CASE r # a.handle
    BY <2>3, <2>5 DEF Finds
  <2> QED BY <2>4, <2>5
<1>7. a.handle = NoHandle \/ a.handle \in H
  BY <1>3, <1>5 DEF Right
<1> QED BY <1>6, <1>7 DEF a

\* Between registrations a tree tells of its routes.
LEMMA OrderedTells ==
    ASSUME NEW t, NEW H, Ordered(t), SpelledOut(t, H), Distinct
    PROVE  Tells(t, H)
<1>1. InShape(t) /\ Linked(t, 0, Slash)
  BY DEF Ordered
<1>2. PICK d, v : Spells(t, d, v, H, 0, 0) /\ Through(v, Len(t), H)
  BY DEF SpelledOut
<1>3. H \subseteq v[1] /\ \A i \in 1..Len(t) : \E r \in v[i] : i # 0
  <2>1. Len(t) \in Nat
    BY <1>1, Places DEF InShape
  <2> QED BY <1>2, <2>1 DEF Through
<1> QED BY <1>1, <1>2, <1>3, StillTells

LEMMA EmptyTells ==
    ASSUME Distinct
    PROVE  Tells(EmptyTree, {})
<1> DEFINE t == EmptyTree
           d == <<0>>
           v == <<{}>>
<1>1. InShape(t) /\ Len(t) = 1 /\ t[1] = EmptyNode
  BY EmptyTreeInShape DEF EmptyTree
<1>2. /\ t[1].path = <<>> /\ t[1].indices = <<>> /\ t[1].children = <<>> /\ t[1].handle = NoHandle
      /\ t[1].nType = "static" /\ Len(t[1].children) = 0 /\ Len(t[1].path) = 0 /\ Len(t[1].indices) = 0
  BY <1>1, EmptyNodeIs DEF NoHandle
<1>3. \A i \in 1..Len(t) : i = 1
  BY <1>1
<1>4. d[1] = 0 /\ v[1] = {}
  OBVIOUS
<1> HIDE DEF t, d, v
<1>5. Chained(t)
  BY <1>2, <1>3 DEF Chained
<1>6. NodeSpells(t, d, v, {}, 0, 0, 1)
  BY <1>2, <1>4 DEF NodeSpells, Ends
<1>7. Kinds(t, t[1])
  BY <1>2 DEF Kinds
<1>8. Telling(t, d, v, {})
  BY <1>1, <1>3, <1>4, <1>5, <1>6, <1>7 DEF Telling, Spells
<1> QED BY <1>8 DEF Tells, t

\* A tree that holds the routes takes one that is welcome, and holds it too.
Holding(t, H) ==
    /\ H = Handles(t) /\ Held(H)
    /\ t = EmptyTree \/ (Ordered(t) /\ SpelledOut(t, H))
Holds(t, H) == Ordered(t) /\ SpelledOut(t, H) /\ H = Handles(t)
LEMMA RouteJoins ==
    ASSUME NEW t, NEW H, Holding(t, H), NEW route, Toward(route), route[1] = Slash, Distinct,
           Welcome(route, H)
    PROVE  Holds(AddRoute(t, route).tree, H \cup {route})
<1> DEFINE result == AddRoute(t, route)
<1>1. /\ result.panic = ~Welcome(route, H)
      /\ ~result.panic => SpelledOut(result.tree, H \cup {route})
  BY RouteTold DEF Holding
<1>2. Registers(result, t, route)
  BY RouteAdded DEF Distinct, Holding
<1>3. H = Handles(t)
  BY DEF Holding
<1> HIDE DEF result
<1>4. ~result.panic
  BY <1>1, Zenon
<1>5. SpelledOut(result.tree, H \cup {route})
  BY <1>1, <1>4, Zenon
<1>6. Ordered(result.tree) /\ Handles(result.tree) = Handles(t) \cup {route}
  BY <1>2, <1>4, Zenon DEF Registers, Gains
<1>7. Holds(result.tree, H \cup {route})
  BY <1>3, <1>5, <1>6, Zenon DEF Holds
<1> QED BY <1>7 DEF result

(* Two routes that match one request are in conflict: a tree that took one  *)
(* after the other would answer with both.                                  *)
LEMMA MatchingRoutesConflict ==
    ASSUME NEW r, NEW s, \A q \in {r, s} : Toward(q) /\ q[1] = Slash /\ Valid(q), Distinct,
           NEW request \in Seq(STRING), Match(r, request) # {}, Match(s, request) # {}, r # s
    PROVE  Conflict(s, r)
<1> SUFFICES ASSUME ~Conflict(s, r) PROVE FALSE
  OBVIOUS
<1> DEFINE one == AddRoute(EmptyTree, r).tree
           two == AddRoute(one, s).tree
<1>1. /\ Toward(r) /\ r[1] = Slash /\ Valid(r)
      /\ Toward(s) /\ s[1] = Slash /\ Valid(s)
  OBVIOUS
<1>2. Holds(one, {r})
  <2>1. Holding(EmptyTree, {}) /\ Welcome(r, {})
    BY <1>1, EmptyTreeInShape DEF Holding, Held, Welcome
  <2>2. Holds(one, {} \cup {r})
    BY <1>1, <2>1, RouteJoins
  <2>3. {} \cup {r} = {r}
    OBVIOUS
  <2> QED BY <2>2, <2>3, Zenon
<1> HIDE DEF one
<1>3. Holds(two, {r, s})
  <2>1. Holding(one, {r}) /\ Welcome(s, {r})
    BY <1>1, <1>2 DEF Holds, Holding, Held, Welcome, Toward
  <2>2. Holds(two, {r} \cup {s})
    BY <1>1, <2>1, RouteJoins
  <2>3. {r} \cup {s} = {r, s}
    OBVIOUS
  <2> QED BY <2>2, <2>3, Zenon
<1> HIDE DEF two
<1>4. \A q \in {r, s} : Match(q, request) # {} => q = GetValue(two, request).handle
  BY <1>3, OrderedTells, LookupFinds DEF Holds
<1> QED BY <1>4

-----------------------------------------------------------------------------
(* The case-insensitive search is defined *)

\* A search gets past the path of a node; below it goes on with a byte, or
\* behind the value of a parameter.
PastNode(n, path) ==
    /\ Len(n.path) <= Len(path)
    /\ Fold(SubSeq(path, 2, Len(n.path))) = Fold(From(n.path, 2))
    /\ Left(n, path) # <<>>
ByteSearch(n, path, out, c) == <<ChildFor(n, c), Left(n, path), out \o n.path, <<c>>>>
SegmentRest(rest) == From(rest, SegmentEnd(rest) + 1)
SegmentOfRest(rest) == UpTo(rest, SegmentEnd(rest))
WildSearch(t, n, path, out, rb) ==
    LET rest == Left(n, path)
    IN  <<t[n.children[1]].children[1], SegmentRest(rest),
          out \o n.path \o SegmentOfRest(rest), rb>>

\* Where a turn of the search adds or removes the slash at the end.
SlashToggled(t, n, path, out, found) ==
    LET rest   == Left(n, path)
        ciPath == out \o n.path
        value  == SegmentOfRest(rest)
        later  == SegmentRest(rest)
        past   == Len(n.path) <= Len(path) /\ Fold(SubSeq(path, 2, Len(n.path))) = Fold(From(n.path, 2))
    IN  \/ path = <<Slash>> /\ found = {out}
        \/ /\ Len(n.path) = Len(path) + 1 /\ n.path[Len(n.path)] = Slash
           /\ Fold(Tail(path)) = Fold(SubSeq(n.path, 2, Len(n.path) - 1)) /\ found = {ciPath}
        \/ past /\ rest = <<>> /\ found = {Append(ciPath, Slash)}
        \/ PastNode(n, path) /\ rest = <<Slash>> /\ found = {ciPath}
        \/ /\ PastNode(n, path) /\ n.wildChild /\ t[n.children[1]].nType # "catchAll"
           /\ \/ later # <<>> /\ Len(later) = 1 /\ found = {ciPath \o value}
              \/ later = <<>> /\ found = {ciPath \o value \o <<Slash>>}

\* The cases of a turn of the search.
SearchIs(t, fixSlash, find, n, path, out, rb, found) ==
    LET rest   == Left(n, path)
        ciPath == out \o n.path
        below  == t[n.children[1]]
        value  == SegmentOfRest(rest)
        later  == SegmentRest(rest)
        past   == Len(n.path) <= Len(path) /\ Fold(SubSeq(path, 2, Len(n.path))) = Fold(From(n.path, 2))
        bytes  == {Lower[rest[1]], Upper[rest[1]]}
    IN  \/ found = {}
        \/ fixSlash /\ SlashToggled(t, n, path, out, found)
        \/ past /\ rest = <<>> /\ n.handle # NoHandle /\ found = {ciPath}
        \/ /\ PastNode(n, path) /\ ~n.wildChild
           /\ \E c : /\ ChildFor(n, c) # 0 /\ found = find[ByteSearch(n, path, out, c)]
                     /\ IF Len(rb) > Len(n.path) THEN c = rb[Len(n.path) + 1]
                        ELSE n.path # <<>> /\ c \in bytes
        \/ /\ PastNode(n, path) /\ n.wildChild /\ below.nType = "catchAll"
           /\ found = {ciPath \o rest}
        \/ /\ PastNode(n, path) /\ n.wildChild /\ below.nType # "catchAll"
           /\ \/ later # <<>> /\ below.children # <<>> /\ found = find[WildSearch(t, n, path, out, rb)]
              \/ later = <<>> /\ below.handle # NoHandle /\ found = {ciPath \o value}

LEMMA SearchTurnIs ==
    ASSUME NEW t, NEW fixSlash \in BOOLEAN, NEW find, NEW at, NEW path, NEW out, NEW rb,
           Len(t[at].path) \in Nat, Len(path) \in Nat, t[at].path = <<>> <=> Len(t[at].path) = 0
    PROVE  SearchIs(t, fixSlash, find, t[at], path, out, rb,
                    SearchTurn(t, fixSlash, find, at, path, out, rb))
<1> DEFINE n      == t[at]
           np     == Len(n.path)
           rest   == From(path, np + 1)
           ciPath == out \o n.path
           below  == t[n.children[1]]
           value  == UpTo(rest, SegmentEnd(rest))
           later  == From(rest, SegmentEnd(rest) + 1)
           slash  == ChildFor(n, Slash)
           only   == t[below.children[1]]
           via(c) == find[<<ChildFor(n, c), rest, ciPath, <<c>>>>]
           lower  == IF ChildFor(n, Lower[rest[1]]) = 0 THEN {} ELSE via(Lower[rest[1]])
           onlyIf(cond, p) == SlashFixed(fixSlash, cond, p)
           served(m) == t[m].handle # NoHandle
           found  == SearchTurn(t, fixSlash, find, at, path, out, rb)
           away   == np > Len(path) \/ Fold(SubSeq(path, 2, np)) # Fold(From(n.path, 2))
           longer == /\ np = Len(path) + 1 /\ n.path[np] = Slash
                     /\ Fold(Tail(path)) = Fold(SubSeq(n.path, 2, np - 1))
           x1 == onlyIf(TRUE, out)
           x2 == onlyIf(/\ np = Len(path) + 1 /\ n.path[np] = Slash
                        /\ Fold(Tail(path)) = Fold(SubSeq(n.path, 2, np - 1))
                        /\ n.handle # NoHandle, ciPath)
           x3 == onlyIf(/\ slash # 0
                        /\ \/ Len(t[slash].path) = 1 /\ served(slash)
                           \/ /\ t[slash].nType = "catchAll"
                              /\ served(t[slash].children[1]),
                        Append(ciPath, Slash))
           x4 == onlyIf(rest = <<Slash>> /\ n.handle # NoHandle, ciPath)
           x5 == onlyIf(Len(later) = 1, ciPath \o value)
           x6 == onlyIf(/\ Len(below.children) = 1 /\ only.path = <<Slash>>
                        /\ only.handle # NoHandle,
                        ciPath \o value \o <<Slash>>)
<1>1. found = IF away THEN IF path = <<Slash>> THEN x1 ELSE x2
              ELSE IF rest = <<>> THEN IF n.handle # NoHandle THEN {ciPath} ELSE x3
              ELSE IF ~n.wildChild THEN
                IF Len(rb) > np THEN IF ChildFor(n, rb[np + 1]) # 0 THEN via(rb[np + 1]) ELSE x4
                ELSE IF np > 0 /\ lower # {} THEN lower
                ELSE IF /\ np > 0 /\ Upper[rest[1]] # Lower[rest[1]]
                        /\ ChildFor(n, Upper[rest[1]]) # 0 THEN via(Upper[rest[1]])
                ELSE x4
              ELSE IF below.nType = "catchAll" THEN {ciPath \o rest}
              ELSE IF later # <<>> /\ below.children # <<>>
              THEN find[<<below.children[1], later, ciPath \o value, rb>>]
              ELSE IF later # <<>> THEN x5
              ELSE IF below.handle # NoHandle THEN {ciPath \o value}
              ELSE x6
  BY Zenon DEF SearchTurn
<1>2. \A cond, p : \/ SlashFixed(fixSlash, cond, p) = {}
                   \/ fixSlash /\ cond /\ SlashFixed(fixSlash, cond, p) = {p}
  BY DEF SlashFixed
<1>3. /\ x1 = {} \/ (fixSlash /\ x1 = {out})
      /\ x2 = {} \/ (fixSlash /\ longer /\ x2 = {ciPath})
      /\ x3 = {} \/ (fixSlash /\ x3 = {Append(ciPath, Slash)})
      /\ x4 = {} \/ (fixSlash /\ rest = <<Slash>> /\ x4 = {ciPath})
      /\ x5 = {} \/ (fixSlash /\ Len(later) = 1 /\ x5 = {ciPath \o value})
      /\ x6 = {} \/ (fixSlash /\ x6 = {ciPath \o value \o <<Slash>>})
  BY <1>2, Zenon
<1>4. /\ rest = Left(n, path) /\ value = SegmentOfRest(Left(n, path))
      /\ later = SegmentRest(Left(n, path))
      /\ \A c : via(c) = find[ByteSearch(n, path, out, c)]
      /\ find[<<below.children[1], later, ciPath \o value, rb>>] = find[WildSearch(t, n, path, out, rb)]
      /\ PastNode(n, path) <=> /\ Len(n.path) <= Len(path)
                               /\ Fold(SubSeq(path, 2, Len(n.path))) = Fold(From(n.path, 2))
                               /\ rest # <<>>
  BY Zenon DEF Left, SegmentOfRest, SegmentRest, ByteSearch, WildSearch, PastNode
<1>5. away <=> ~(Len(n.path) <= Len(path) /\ Fold(SubSeq(path, 2, Len(n.path))) = Fold(From(n.path, 2)))
  OBVIOUS
<1>6. np > 0 <=> n.path # <<>>
  OBVIOUS
<1>7. lower # {} => ChildFor(n, Lower[rest[1]]) # 0 /\ lower = via(Lower[rest[1]])
  BY Zenon
<1> DEFINE wild == find[<<below.children[1], later, ciPath \o value, rb>>]
<1> HIDE DEF x1, x2, x3, x4, x5, x6, via, lower, found, away, wild
<1>8. SearchIs(t, fixSlash, find, n, path, out, rb, found)
  <2>0. ASSUME fixSlash, SlashToggled(t, n, path, out, found)
        PROVE  SearchIs(t, fixSlash, find, n, path, out, rb, found)
    BY <2>0, Zenon DEF SearchIs
  <2>9. ASSUME found = {} PROVE SearchIs(t, fixSlash, find, n, path, out, rb, found)
    BY <2>9, Zenon DEF SearchIs
  <2>1. CASE away
    <3>1. found = {} \/ (fixSlash /\ path = <<Slash>> /\ found = {out})
                     \/ (fixSlash /\ longer /\ found = {ciPath})
      BY <1>1, <1>3, <2>1
    <3>2. found = {} \/ (fixSlash /\ SlashToggled(t, n, path, out, found))
      BY <3>1, Zenon DEF SlashToggled
    <3> QED BY <2>0, <2>9, <3>2
  <2>2. CASE ~away /\ rest = <<>>
    <3>1. found = IF n.handle # NoHandle THEN {ciPath} ELSE x3
      BY <1>1, <2>2
    <3>2. CASE n.handle # NoHandle
      <4>1. found = {ciPath}
        BY <3>1, <3>2
      <4> QED BY <1>4, <1>5, <2>2, <3>2, <4>1, Zenon DEF SearchIs
    <3>3. CASE n.handle = NoHandle
      <4>1. found = {} \/ (fixSlash /\ found = {Append(ciPath, Slash)})
        BY <1>3, <3>1, <3>3
      <4>2. found = {} \/ (fixSlash /\ SlashToggled(t, n, path, out, found))
        BY <1>4, <1>5, <2>2, <4>1, Zenon DEF SlashToggled
      <4> QED BY <2>0, <2>9, <4>2
    <3> QED BY <3>2, <3>3
  <2>3. CASE ~away /\ rest # <<>> /\ ~n.wildChild
    <3>1. PastNode(n, path)
      BY <1>4, <1>5, <2>3
    <3>2. CASE found \in {{}, x4}
      <4>1. found = {} \/ (fixSlash /\ rest = <<Slash>> /\ found = {ciPath})
        BY <1>3, <3>2
      <4>2. found = {} \/ (fixSlash /\ SlashToggled(t, n, path, out, found))
        BY <1>4, <3>1, <4>1, Zenon DEF SlashToggled
      <4> QED BY <2>0, <2>9, <4>2
    <3>3. CASE found \notin {{}, x4}
      <4>1. \E c : /\ ChildFor(n, c) # 0 /\ found = via(c)
                   /\ IF Len(rb) > np THEN c = rb[np + 1]
                      ELSE n.path # <<>> /\ c \in {Lower[rest[1]], Upper[rest[1]]}
        BY <1>1, <1>6, <1>7, <2>3, <3>3
      <4>2. SearchIs(t, fixSlash, find, n, path, out, rb, found)
        BY <1>4, <2>3, <3>1, <4>1 DEF SearchIs
      <4> QED BY <4>2
    <3> QED BY <3>2, <3>3
  <2>4. CASE ~away /\ rest # <<>> /\ n.wildChild
    <3>1. PastNode(n, path)
      BY <1>4, <1>5, <2>4
    <3>2. CASE below.nType = "catchAll"
      <4>1. found = {ciPath \o rest}
        BY <1>1, <2>4, <3>2
      <4> QED BY <1>4, <2>4, <3>1, <3>2, <4>1 DEF SearchIs
    <3>3. CASE below.nType # "catchAll"
      <4>1. found = IF later # <<>> /\ below.children # <<>> THEN wild
                    ELSE IF later # <<>> THEN x5
                    ELSE IF below.handle # NoHandle THEN {ciPath \o value}
                    ELSE x6
        BY <1>1, <2>4, <3>3 DEF wild
      <4>2. \/ later # <<>> /\ found = x5
            \/ later = <<>> /\ found = x6
            \/ later # <<>> /\ below.children # <<>> /\ found = wild
            \/ later = <<>> /\ below.handle # NoHandle /\ found = {ciPath \o value}
        BY <4>1
      <4> HIDE DEF below, later, value, ciPath
      <4>3. CASE (later # <<>> /\ found = x5) \/ (later = <<>> /\ found = x6)
        <5>1. \/ found = {}
              \/ fixSlash /\ later # <<>> /\ Len(later) = 1 /\ found = {ciPath \o value}
              \/ fixSlash /\ later = <<>> /\ found = {ciPath \o value \o <<Slash>>}
          BY <1>3, <4>3
        <5>2. t[n.children[1]].nType # "catchAll"
          BY <3>3 DEF below
        <5>3. found = {} \/ (fixSlash /\ SlashToggled(t, n, path, out, found))
          BY <1>4, <2>4, <3>1, <5>1, <5>2, Zenon DEF SlashToggled, ciPath
        <5> QED BY <2>0, <2>9, <5>3
      <4>4. CASE later # <<>> /\ below.children # <<>> /\ found = wild
        BY <1>4, <2>4, <3>1, <3>3, <4>4 DEF SearchIs, wild, below, ciPath
      <4>5. CASE later = <<>> /\ below.handle # NoHandle /\ found = {ciPath \o value}
        BY <1>4, <2>4, <3>1, <3>3, <4>5 DEF SearchIs, below, ciPath
      <4> QED BY <4>2, <4>3, <4>4, <4>5
    <3> QED BY <3>2, <3>3
  <2> QED BY <2>1, <2>2, <2>3, <2>4
<1> QED BY <1>8 DEF found

\* A byte leads to one child, and from a node without a path to a marker.
LEMMA ByteLeads ==
    ASSUME NEW t, NEW d, NEW v, NEW H, Telling(t, d, v, H), NEW at \in 1..Len(t),
           ~t[at].wildChild, NEW b, ChildFor(t[at], b) # 0
    PROVE  /\ ChildFor(t[at], b) \in 1..Len(t) /\ b \in STRING
           /\ t[at].path = <<>> => Marks(t[ChildFor(t[at], b)])
           /\ t[at].nType # "param" => \E k \in 1..Len(t[at].children) :
                  ChildFor(t[at], b) = t[at].children[k] /\ Key(t[at], k) = b
<1> DEFINE n   == t[at]
           c   == ChildFor(n, b)
           pos == IndexOf(n, b)
<1>1. t \in Seq(Node) /\ Hung(t) /\ n \in Node /\ Fits(t, n)
  <2>1. InShape(t) /\ t \in Seq(Node) /\ Hung(t)
    BY DEF Telling, InShape
  <2> QED BY <2>1, Places DEF InShape
<1>2. n.indices \in Seq(STRING) /\ Len(n.indices) \in Nat /\ Len(n.children) \in Nat
  <2>1. n.indices \in Seq(STRING) /\ n.children \in Seq(Nat)
    BY <1>1, FieldTypes
  <2> HIDE DEF n
  <2> QED BY <2>1
<1>3. pos \in 0..Len(n.indices) /\ (pos # 0 => n.indices[pos] = b)
  BY <1>1, IndexOfChild
<1>4. c = IF pos = 0 THEN 0 ELSE n.children[pos]
  BY DEF ChildFor
<1>5. Len(n.indices) <= Len(n.children)
  BY <1>1, <1>2 DEF Fits
<1> HIDE DEF pos, c
<1>6. pos \in 1..Len(n.indices) /\ pos \in 1..Len(n.children) /\ c = n.children[pos] /\ n.indices[pos] = b
  <2>1. pos # 0
    BY <1>4 DEF c
  <2> HIDE DEF n
  <2> QED BY <1>2, <1>3, <1>4, <1>5, <2>1
<1>7. b \in STRING
  <2> HIDE DEF n
  <2> QED BY <1>2, <1>6, ElementOfSeq
<1>8. c \in 1..Len(t)
  BY <1>1, <1>6, ChildrenInRange
<1>9. n.path = <<>> => Marks(t[c])
  BY <1>6 DEF Telling, Chained
<1>10. n.nType # "param" => Key(n, pos) = b
  BY <1>6 DEF Key
<1> QED BY <1>6, <1>7, <1>8, <1>9, <1>10 DEF c

\* The searches of a tree.
Searches(t) == (1..Len(t)) \X Seq(STRING) \X Seq(STRING) \X Seq(STRING)

\* What is left behind the path of a node.
LEMMA LeftBehind ==
    ASSUME NEW n \in Node, NEW path \in Seq(STRING), Len(n.path) <= Len(path)
    PROVE  /\ Left(n, path) \in Seq(STRING) /\ Len(Left(n, path)) = Len(path) - Len(n.path)
           /\ Len(n.path) \in Nat /\ Len(path) \in Nat
           /\ Left(n, path) # <<>> => Left(n, path)[1] \in STRING /\ Len(Left(n, path)) > 0
           /\ Left(n, path) = <<>> => Len(path) = Len(n.path)
<1> DEFINE k == Len(n.path)
           q == Left(n, path)
<1>1. k \in Nat /\ Len(path) \in Nat
  <2>1. n.path \in Seq(STRING)
    BY FieldTypes
  <2> QED BY <2>1
<1>2. q = From(path, k + 1)
  BY DEF Left
<1>3. k + 1 \in 1..Len(path) + 1
  BY <1>1
<1> HIDE DEF k, q
<1>4. q \in Seq(STRING) /\ Len(q) = Len(path) - k
  <2>1. From(path, k + 1) \in Seq(STRING) /\ Len(From(path, k + 1)) = Len(path) - (k + 1) + 1
    BY <1>3, TailOf
  <2> QED BY <1>1, <1>2, <2>1
<1>5. q # <<>> => q[1] \in STRING /\ Len(q) > 0
  BY <1>4
<1>6. q = <<>> => Len(q) = 0
  OBVIOUS
<1> QED BY <1>1, <1>4, <1>5, <1>6 DEF k, q

\* A search goes on closer to the end.
LEMMA SearchGoesDown ==
    ASSUME NEW t, NEW d, NEW v, NEW H, Telling(t, d, v, H), NEW at \in 1..Len(t),
           NEW path \in Seq(STRING), NEW out \in Seq(STRING), NEW rb \in Seq(STRING),
           PastNode(t[at], path)
    PROVE  /\ ~t[at].wildChild => \A b : ChildFor(t[at], b) # 0 =>
                  LET g == ByteSearch(t[at], path, out, b)
                  IN  g \in Searches(t) /\ Remaining(t[g[1]], g[2]) < Remaining(t[at], path)
           /\ t[at].wildChild =>
                  /\ SegmentOfRest(Left(t[at], path)) \in Seq(STRING)
                  /\ t[t[at].children[1]].nType # "catchAll" =>
                     (t[t[at].children[1]].children # <<>> =>
                         LET g == WildSearch(t, t[at], path, out, rb)
                         IN  g \in Searches(t) /\ Remaining(t[g[1]], g[2]) < Remaining(t[at], path))
<1> DEFINE n    == t[at]
           rest == Left(n, path)
           below == t[n.children[1]]
           k == Len(n.path)
           l == Len(rest)
<1>1. /\ InShape(t) /\ t \in Seq(Node) /\ Hung(t) /\ n \in Node /\ Fits(t, n) /\ Kinds(t, n)
  <2>1. InShape(t) /\ t \in Seq(Node) /\ Hung(t) /\ Spells(t, d, v, H, 0, 0)
    BY DEF Telling, InShape
  <2> QED BY <2>1, Places DEF InShape, Spells
<1>2. Len(n.path) <= Len(path) /\ rest # <<>>
  BY DEF PastNode
<1>3. /\ rest \in Seq(STRING) /\ l = Len(path) - k /\ k \in Nat /\ Len(path) \in Nat /\ l > 0
  BY <1>1, <1>2, LeftBehind
<1>4. n.path \in Seq(STRING) /\ out \o n.path \in Seq(STRING)
  <2>1. n.path \in Seq(STRING)
    BY <1>1, FieldTypes
  <2> QED BY <2>1
<1>5. n.path # <<>> => k # 0
  <2> HIDE DEF n
  <2> QED BY <1>4
<1>6. \A m, q : Len(q) \in Nat => /\ Remaining(m, q) \in Nat /\ Remaining(m, q) <= Len(q) + 1
                                  /\ Marks(m) => Remaining(m, q) = Len(q)
                                  /\ ~Marks(m) => Remaining(m, q) = Len(q) + 1
  BY DEF Remaining
<1>7. ASSUME ~n.wildChild, NEW b, ChildFor(n, b) # 0
      PROVE  LET g == ByteSearch(n, path, out, b)
             IN  g \in Searches(t) /\ Remaining(t[g[1]], g[2]) < Remaining(t[at], path)
  <2> DEFINE c == ChildFor(n, b)
             s == out \o n.path
  <2>1. c \in 1..Len(t) /\ b \in STRING /\ (n.path = <<>> => Marks(t[c]))
    BY <1>7, ByteLeads
  <2>2. ByteSearch(n, path, out, b) = <<c, rest, s, <<b>>>>
    BY DEF ByteSearch
  <2>3. ~Marks(n)
    BY <1>7 DEF Marks
  <2>4. s \in Seq(STRING)
    BY <1>4
  <2>5. l \in Nat
    BY <1>3
  <2> HIDE DEF c, s
  <2>6. <<c, rest, s, <<b>>>> \in Searches(t)
    <3>1. <<b>> \in Seq(STRING)
      BY <2>1
    <3> HIDE DEF rest
    <3> QED BY <1>3, <2>1, <2>4, <3>1 DEF Searches
  <2>7. Remaining(t[c], rest) < Remaining(n, path)
    <3>1. Remaining(n, path) = Len(path) + 1
      BY <1>3, <1>6, <2>3
    <3>2. Remaining(t[c], rest) \in Nat /\ Remaining(t[c], rest) <= l + 1 /\ (Marks(t[c]) => Remaining(t[c], rest) = l)
      BY <1>6, <2>5
    <3>3. Marks(t[c]) \/ k # 0
      BY <1>5, <2>1
    <3> HIDE DEF l, k, rest, n
    <3> QED BY <1>3, <2>5, <3>1, <3>2, <3>3
  <2> QED BY <2>2, <2>6, <2>7
<1>8. ASSUME n.wildChild
      PROVE  /\ SegmentOfRest(rest) \in Seq(STRING) /\ SegmentRest(rest) \in Seq(STRING)
             /\ Len(SegmentRest(rest)) \in Nat /\ Len(SegmentRest(rest)) <= l
  <2> DEFINE i == SegmentEnd(rest)
             q == From(rest, i + 1)
  <2>0. Len(rest) \in Nat
    BY <1>3
  <2>1. i \in 0..Len(rest) /\ UpTo(rest, i) \in Seq(STRING)
    BY <1>3, SegmentOf
  <2> HIDE DEF i, rest
  <2>2. q \in Seq(STRING) /\ Len(q) = Len(rest) - (i + 1) + 1
    <3>1. i + 1 \in 1..Len(rest) + 1
      BY <2>0, <2>1
    <3> QED BY <1>3, <3>1, TailOf
  <2>3. Len(rest) \in Nat
    BY <2>0
  <2>4. Len(q) \in Nat /\ Len(q) <= Len(rest)
    <3> DEFINE j == Len(q)
               o == Len(rest)
    <3> HIDE DEF j, o, q
    <3>1. j = o - (i + 1) + 1 /\ i \in 0..o /\ o \in Nat
      BY <2>1, <2>2, <2>3 DEF j, o
    <3>2. j \in Nat /\ j <= o
      BY <3>1
    <3> QED BY <3>2 DEF j, o
  <2> QED BY <2>1, <2>2, <2>4 DEF i, SegmentOfRest, SegmentRest
<1>9. ASSUME n.wildChild, below.nType # "catchAll", below.children # <<>>
      PROVE  LET g == WildSearch(t, n, path, out, rb)
             IN  g \in Searches(t) /\ Remaining(t[g[1]], g[2]) < Remaining(t[at], path)
  <2> DEFINE b == below.children[1]
             later == SegmentRest(rest)
             s == out \o n.path \o SegmentOfRest(rest)
  <2>1. Len(n.children) = 1 /\ n.path # <<>>
    BY <1>1, <1>9 DEF Fits
  <2>2. n.children[1] \in 1..Len(t)
    <3>1. 1 \in 1..Len(n.children)
      BY <2>1
    <3> QED BY <1>1, <3>1, ChildrenInRange
  <2>3. b \in 1..Len(t)
    <3>1. below \in Node
      BY <1>1, <2>2, Places
    <3>2. 1 \in 1..Len(below.children)
      <4>1. below.children \in Seq(Nat)
        BY <3>1, FieldTypes
      <4> QED BY <1>9, <4>1
    <3> QED BY <1>1, <2>2, <3>2, ChildrenInRange
  <2>4. later \in Seq(STRING) /\ s \in Seq(STRING) /\ Len(later) \in Nat /\ Len(later) <= l
    <3>1. SegmentOfRest(rest) \in Seq(STRING)
      BY <1>8, <1>9
    <3> QED BY <1>4, <1>8, <1>9, <3>1
  <2>5. WildSearch(t, n, path, out, rb) = <<b, later, s, rb>>
    BY DEF WildSearch
  <2>6. ~Marks(n)
    BY <2>1 DEF Marks
  <2> HIDE DEF b, later, s
  <2>7. <<b, later, s, rb>> \in Searches(t)
    BY <2>3, <2>4 DEF Searches
  <2>8. Remaining(t[b], later) < Remaining(n, path)
    <3>1. Remaining(n, path) = Len(path) + 1
      BY <1>3, <1>6, <2>6
    <3>2. Remaining(t[b], later) \in Nat /\ Remaining(t[b], later) <= Len(later) + 1
      BY <1>6, <2>4
    <3>3. k # 0
      BY <1>5, <2>1
    <3> HIDE DEF l, k, rest, n
    <3> QED BY <1>3, <2>4, <3>1, <3>2, <3>3
  <2> QED BY <2>5, <2>7, <2>8
<1>10. ~n.wildChild => \A b : ChildFor(n, b) # 0 =>
           LET g == ByteSearch(n, path, out, b)
           IN  g \in Searches(t) /\ Remaining(t[g[1]], g[2]) < Remaining(t[at], path)
  BY <1>7, Zenon
<1>11. n.wildChild => SegmentOfRest(rest) \in Seq(STRING)
  BY <1>8
<1>12. n.wildChild => (below.nType # "catchAll" => (below.children # <<>> =>
           LET g == WildSearch(t, n, path, out, rb)
           IN  g \in Searches(t) /\ Remaining(t[g[1]], g[2]) < Remaining(t[at], path)))
  BY <1>9, Zenon
<1> QED BY <1>10, <1>11, <1>12, Zenon

\* A turn looks only at the searches it may go on with.
SameAhead(t, n, path, out, rb, g, h) ==
    /\ PastNode(n, path) /\ ~n.wildChild => \A b : ChildFor(n, b) # 0 =>
           g[ByteSearch(n, path, out, b)] = h[ByteSearch(n, path, out, b)]
    /\ PastNode(n, path) /\ n.wildChild =>
           (t[n.children[1]].nType # "catchAll" => (t[n.children[1]].children # <<>> =>
               g[WildSearch(t, n, path, out, rb)] = h[WildSearch(t, n, path, out, rb)]))

LEMMA SearchGoesOn ==
    ASSUME NEW t, NEW fixSlash, NEW at, NEW path, NEW out, NEW rb, NEW g, NEW h,
           Len(t[at].path) \in Nat, Len(path) \in Nat,
           SameAhead(t, t[at], path, out, rb, g, h)
    PROVE  SearchTurn(t, fixSlash, g, at, path, out, rb) =
           SearchTurn(t, fixSlash, h, at, path, out, rb)
<1> DEFINE n      == t[at]
           np     == Len(n.path)
           rest   == From(path, np + 1)
           ciPath == out \o n.path
           below  == t[n.children[1]]
           value  == UpTo(rest, SegmentEnd(rest))
           later  == From(rest, SegmentEnd(rest) + 1)
           slash  == ChildFor(n, Slash)
           only   == t[below.children[1]]
           served(m) == t[m].handle # NoHandle
           onlyIf(cond, p) == SlashFixed(fixSlash, cond, p)
           away   == np > Len(path) \/ Fold(SubSeq(path, 2, np)) # Fold(From(n.path, 2))
           x1 == onlyIf(TRUE, out)
           x2 == onlyIf(/\ np = Len(path) + 1 /\ n.path[np] = Slash
                        /\ Fold(Tail(path)) = Fold(SubSeq(n.path, 2, np - 1))
                        /\ n.handle # NoHandle, ciPath)
           x3 == onlyIf(/\ slash # 0
                        /\ \/ Len(t[slash].path) = 1 /\ served(slash)
                           \/ /\ t[slash].nType = "catchAll"
                              /\ served(t[slash].children[1]),
                        Append(ciPath, Slash))
           x4 == onlyIf(rest = <<Slash>> /\ n.handle # NoHandle, ciPath)
           x5 == onlyIf(Len(later) = 1, ciPath \o value)
           x6 == onlyIf(/\ Len(below.children) = 1 /\ only.path = <<Slash>>
                        /\ only.handle # NoHandle,
                        ciPath \o value \o <<Slash>>)
           via(f, c) == f[<<ChildFor(n, c), rest, ciPath, <<c>>>>]
           lower(f) == IF ChildFor(n, Lower[rest[1]]) = 0 THEN {} ELSE via(f, Lower[rest[1]])
           wild(f) == f[<<below.children[1], later, ciPath \o value, rb>>]
           found(f) == SearchTurn(t, fixSlash, f, at, path, out, rb)
<1>1. \A f : found(f) =
          IF away THEN IF path = <<Slash>> THEN x1 ELSE x2
          ELSE IF rest = <<>> THEN IF n.handle # NoHandle THEN {ciPath} ELSE x3
          ELSE IF ~n.wildChild THEN
            IF Len(rb) > np THEN IF ChildFor(n, rb[np + 1]) # 0 THEN via(f, rb[np + 1]) ELSE x4
            ELSE IF np > 0 /\ lower(f) # {} THEN lower(f)
            ELSE IF /\ np > 0 /\ Upper[rest[1]] # Lower[rest[1]]
                    /\ ChildFor(n, Upper[rest[1]]) # 0 THEN via(f, Upper[rest[1]])
            ELSE x4
          ELSE IF below.nType = "catchAll" THEN {ciPath \o rest}
          ELSE IF later # <<>> /\ below.children # <<>> THEN wild(f)
          ELSE IF later # <<>> THEN x5
          ELSE IF below.handle # NoHandle THEN {ciPath \o value}
          ELSE x6
  BY Zenon DEF SearchTurn
<1>2. /\ \A f, c : via(f, c) = f[ByteSearch(n, path, out, c)]
      /\ \A f : wild(f) = f[WildSearch(t, n, path, out, rb)]
      /\ PastNode(n, path) <=> /\ Len(n.path) <= Len(path)
                               /\ Fold(SubSeq(path, 2, Len(n.path))) = Fold(From(n.path, 2))
                               /\ rest # <<>>
  BY Zenon DEF Left, SegmentOfRest, SegmentRest, ByteSearch, WildSearch, PastNode
<1>3. ~away /\ rest # <<>> => PastNode(n, path)
  BY <1>2
<1>4. CASE away \/ rest = <<>>
  <2> HIDE DEF away, x1, x2, x3, x4, x5, x6, via, lower, wild, found, rest, ciPath, below, later, value, n
  <2>1. found(g) = found(h)
    BY <1>1, <1>4
  <2> QED BY <2>1 DEF found
<1>5. CASE ~away /\ rest # <<>> /\ ~n.wildChild
  <2>1. \A b : ChildFor(n, b) # 0 => via(g, b) = via(h, b)
    BY <1>2, <1>3, <1>5, Zenon DEF SameAhead
  <2>2. lower(g) = lower(h)
    BY <2>1, Zenon
  <2> HIDE DEF away, x1, x2, x3, x4, x5, x6, via, lower, wild, found, rest, ciPath, below, later, value, n
  <2>3. found(g) = found(h)
    BY <1>1, <1>5, <2>1, <2>2
  <2> QED BY <2>3 DEF found
<1>6. CASE ~away /\ rest # <<>> /\ n.wildChild
  <2>1. below.nType # "catchAll" /\ below.children # <<>> => wild(g) = wild(h)
    BY <1>2, <1>3, <1>6, Zenon DEF SameAhead
  <2> HIDE DEF away, x1, x2, x3, x4, x5, x6, via, lower, wild, found, rest, ciPath, below, later, value, n
  <2>2. found(g) = found(h)
    BY <1>1, <1>6, <2>1
  <2> QED BY <2>2 DEF found
<1> QED BY <1>4, <1>5, <1>6

\* A turn yields paths if what it goes on with does.
LEMMA SearchYields ==
    ASSUME NEW t, NEW d, NEW v, NEW H, Telling(t, d, v, H), NEW at \in 1..Len(t),
           NEW path \in Seq(STRING), NEW out \in Seq(STRING), NEW rb \in Seq(STRING),
           NEW fixSlash \in BOOLEAN, NEW find, Slash \in STRING,
           \A g \in Searches(t) : Remaining(t[g[1]], g[2]) < Remaining(t[at], path) =>
               find[g] \in SUBSET Seq(STRING)
    PROVE  SearchTurn(t, fixSlash, find, at, path, out, rb) \in SUBSET Seq(STRING)
<1> DEFINE n == t[at]
           found == SearchTurn(t, fixSlash, find, at, path, out, rb)
           rest == Left(n, path)
           ciPath == out \o n.path
           value == SegmentOfRest(rest)
<1>1. n \in Node /\ n.path \in Seq(STRING) /\ Slash \in STRING
  <2>1. t \in Seq(Node)
    BY DEF Telling, InShape
  <2> QED BY <2>1, Places, FieldTypes
<1>2. ciPath \in Seq(STRING) /\ out \in Seq(STRING) /\ Append(ciPath, Slash) \in Seq(STRING)
  <2> HIDE DEF n
  <2> QED BY <1>1
<1>3. Len(n.path) \in Nat /\ Len(path) \in Nat /\ (n.path = <<>> <=> Len(n.path) = 0)
  <2> HIDE DEF n
  <2> QED BY <1>1
<1>4. SearchIs(t, fixSlash, find, n, path, out, rb, found)
  BY <1>3, SearchTurnIs
<1>5. PastNode(n, path) => rest \in Seq(STRING)
  BY <1>1, LeftBehind DEF PastNode
<1>6. PastNode(n, path) /\ n.wildChild => /\ value \in Seq(STRING) /\ ciPath \o value \in Seq(STRING)
                                          /\ ciPath \o value \o <<Slash>> \in Seq(STRING)
  <2>1. PastNode(n, path) /\ n.wildChild => value \in Seq(STRING)
    BY SearchGoesDown
  <2> HIDE DEF value, ciPath
  <2> QED BY <1>1, <1>2, <2>1
<1>7. PastNode(n, path) => ciPath \o rest \in Seq(STRING)
  <2> HIDE DEF rest, ciPath
  <2> QED BY <1>2, <1>5
<1>8. ASSUME PastNode(n, path), ~n.wildChild, NEW b, ChildFor(n, b) # 0
      PROVE  find[ByteSearch(n, path, out, b)] \in SUBSET Seq(STRING)
  BY <1>8, SearchGoesDown
<1>9. ASSUME PastNode(n, path), n.wildChild, t[n.children[1]].nType # "catchAll",
             t[n.children[1]].children # <<>>
      PROVE  find[WildSearch(t, n, path, out, rb)] \in SUBSET Seq(STRING)
  BY <1>9, SearchGoesDown
<1> HIDE DEF found
<1>10. \/ found \in {{}, {out}, {ciPath}, {Append(ciPath, Slash)}}
       \/ /\ PastNode(n, path) /\ n.wildChild
          /\ found \in {{ciPath \o value}, {ciPath \o value \o <<Slash>>}, {ciPath \o rest}}
       \/ PastNode(n, path) /\ ~n.wildChild /\ \E b : ChildFor(n, b) # 0 /\ found = find[ByteSearch(n, path, out, b)]
       \/ /\ PastNode(n, path) /\ n.wildChild /\ t[n.children[1]].nType # "catchAll"
          /\ t[n.children[1]].children # <<>> /\ found = find[WildSearch(t, n, path, out, rb)]
  BY <1>4, Zenon DEF SearchIs, SlashToggled
<1>11. found \in SUBSET Seq(STRING)
  <2> HIDE DEF n, rest, ciPath, value
  <2> QED BY <1>2, <1>6, <1>7, <1>8, <1>9, <1>10
<1> QED BY <1>11 DEF found

\* The searches of a tree: what every turn yields is what its turn says.
SearchesAre(t, fixSlash, find) ==
    \A at \in 1..Len(t), path \in Seq(STRING), out \in Seq(STRING), rb \in Seq(STRING) :
        /\ find[<<at, path, out, rb>>] = SearchTurn(t, fixSlash, find, at, path, out, rb)
        /\ find[<<at, path, out, rb>>] \in SUBSET Seq(STRING)

(* The recursion of a search is well founded. *)
LEMMA SearchIsDefined ==
    ASSUME NEW t, NEW d, NEW v, NEW H, Telling(t, d, v, H), NEW fixSlash \in BOOLEAN,
           Slash \in STRING
    PROVE  \E find : /\ SearchesAre(t, fixSlash, find)
                     /\ \A request : FindCaseInsensitivePath(t, request, fixSlash) =
                                         find[<<1, request, <<>>, <<>>>>]
<1> DEFINE D == Searches(t)
           C == SUBSET Seq(STRING)
           OneTurn(g, x) == SearchTurn(t, fixSlash, g, x[1], x[2], x[3], x[4])
           B == [gx \in [D -> C] \X D |-> OneTurn(gx[1], gx[2])]
           m == [x \in D |-> Remaining(t[x[1]], x[2])]
           Body(g) == [x \in (DOMAIN t) \X Seq(STRING) \X Seq(STRING) \X Seq(STRING) |->
                          SearchTurn(t, fixSlash, g, x[1], x[2], x[3], x[4])]
<1>1. DOMAIN t = 1..Len(t) /\ D = (DOMAIN t) \X Seq(STRING) \X Seq(STRING) \X Seq(STRING)
  <2>1. DOMAIN t = 1..Len(t)
    BY Places DEF Telling, InShape
  <2> QED BY <2>1 DEF Searches
<1>2. \A x \in D : /\ x[1] \in 1..Len(t) /\ x[2] \in Seq(STRING)
                   /\ x[3] \in Seq(STRING) /\ x[4] \in Seq(STRING)
                   /\ x = <<x[1], x[2], x[3], x[4]>>
  BY DEF Searches
<1>3. m \in [D -> Nat] /\ \A x \in D : m[x] = Remaining(t[x[1]], x[2])
  <2>1. \A x \in D : Remaining(t[x[1]], x[2]) \in Nat
    <3>1. \A n, p : p \in Seq(STRING) => Remaining(n, p) \in Nat
      BY DEF Remaining
    <3> QED BY <1>2, <3>1, Zenon
  <2> HIDE DEF D
  <2> QED BY <2>1
<1>4. \A g \in [D -> C], x \in D : B[<<g, x>>] = OneTurn(g, x)
  <2> HIDE DEF D, C, OneTurn
  <2> QED OBVIOUS
<1> HIDE DEF D, C, B, m
<1>5. ASSUME NEW x \in D, PastNode(t[x[1]], x[2])
      PROVE  /\ ~t[x[1]].wildChild => \A b : ChildFor(t[x[1]], b) # 0 =>
                    LET y == ByteSearch(t[x[1]], x[2], x[3], b) IN y \in D /\ m[y] < m[x]
             /\ t[x[1]].wildChild => (t[t[x[1]].children[1]].nType # "catchAll" =>
                    (t[t[x[1]].children[1]].children # <<>> =>
                        LET y == WildSearch(t, t[x[1]], x[2], x[3], x[4])
                        IN  y \in D /\ m[y] < m[x]))
  <2>1. /\ x[1] \in 1..Len(t) /\ x[2] \in Seq(STRING) /\ x[3] \in Seq(STRING) /\ x[4] \in Seq(STRING)
    BY <1>2
  <2>2. ASSUME ~t[x[1]].wildChild, NEW b, ChildFor(t[x[1]], b) # 0
        PROVE  LET g == ByteSearch(t[x[1]], x[2], x[3], b)
               IN  g \in D /\ Remaining(t[g[1]], g[2]) < Remaining(t[x[1]], x[2])
    BY <1>5, <2>1, <2>2, SearchGoesDown DEF D
  <2>3. ASSUME t[x[1]].wildChild, t[t[x[1]].children[1]].nType # "catchAll",
               t[t[x[1]].children[1]].children # <<>>
        PROVE  LET g == WildSearch(t, t[x[1]], x[2], x[3], x[4])
               IN  g \in D /\ Remaining(t[g[1]], g[2]) < Remaining(t[x[1]], x[2])
    BY <1>5, <2>1, <2>3, SearchGoesDown DEF D
  <2> QED BY <1>3, <2>2, <2>3
<1>6. Yields(D, C, B)
  <2> SUFFICES ASSUME NEW g \in [D -> C], NEW x \in D PROVE B[<<g, x>>] \in C
    BY DEF Yields
  <2>1. x[1] \in 1..Len(t) /\ x[2] \in Seq(STRING) /\ x[3] \in Seq(STRING) /\ x[4] \in Seq(STRING)
    BY <1>2
  <2>2. \A y \in Searches(t) : g[y] \in SUBSET Seq(STRING)
    BY DEF D, C
  <2>3. SearchTurn(t, fixSlash, g, x[1], x[2], x[3], x[4]) \in C
    BY <2>1, <2>2, SearchYields DEF C
  <2> QED BY <1>4, <2>3
<1>7. LooksBelow(D, C, m, B)
  <2> SUFFICES ASSUME NEW g \in [D -> C], NEW h \in [D -> C], NEW x \in D,
                      \A y \in D : m[y] < m[x] => g[y] = h[y]
               PROVE  B[<<g, x>>] = B[<<h, x>>]
    BY DEF LooksBelow
  <2>1. SameAhead(t, t[x[1]], x[2], x[3], x[4], g, h)
    BY <1>5 DEF SameAhead
  <2>2. Len(t[x[1]].path) \in Nat /\ Len(x[2]) \in Nat
    <3>1. t[x[1]] \in Node /\ x[2] \in Seq(STRING)
      BY <1>2, Places DEF Telling, InShape
    <3>2. t[x[1]].path \in Seq(STRING)
      BY <3>1, FieldTypes
    <3> QED BY <3>1, <3>2
  <2>3. SearchTurn(t, fixSlash, g, x[1], x[2], x[3], x[4]) =
        SearchTurn(t, fixSlash, h, x[1], x[2], x[3], x[4])
    BY <2>1, <2>2, SearchGoesOn
  <2> QED BY <1>4, <2>3
<1>8. {} \in C
  BY DEF C
<1>9. PICK f \in [D -> C] : \A x \in D : f[x] = B[<<f, x>>]
  <2>1. Satisfiable(D, C, B)
    BY <1>3, <1>6, <1>7, <1>8, WellDefined, Zenon
  <2> QED BY <2>1 DEF Satisfiable
<1>10. f = Body(f) /\ f \in [D -> C]
  <2>1. \A x \in D : f[x] = SearchTurn(t, fixSlash, f, x[1], x[2], x[3], x[4])
    BY <1>4, <1>9
  <2> QED BY <1>1, <1>9, <2>1
<1> DEFINE find == CHOOSE g : g = Body(g)
<1>11. find = Body(find)
  <2> HIDE DEF Body
  <2> QED BY <1>10
<1>12. \A request : FindCaseInsensitivePath(t, request, fixSlash) = find[<<1, request, <<>>, <<>>>>]
  BY DEF FindCaseInsensitivePath
<1>13. \A x \in D : find[x] = SearchTurn(t, fixSlash, find, x[1], x[2], x[3], x[4])
  <2> HIDE DEF find
  <2> SUFFICES ASSUME NEW x \in D PROVE find[x] = SearchTurn(t, fixSlash, find, x[1], x[2], x[3], x[4])
    OBVIOUS
  <2>1. Body(find)[x] = SearchTurn(t, fixSlash, find, x[1], x[2], x[3], x[4])
    BY <1>1, Zenon
  <2> HIDE DEF Body
  <2> QED BY <1>11, <2>1
<1>14. \A x \in D : find[x] \in C
  <2> HIDE DEF find
  <2> DEFINE T == {k \in Nat : \E x \in D : m[x] = k /\ find[x] \notin C}
  <2>1. T = {}
    <3> SUFFICES ASSUME T # {} PROVE FALSE
      OBVIOUS
    <3>1. PICK k \in T : \A j \in T : k <= j
      <4>1. T \subseteq Nat
        OBVIOUS
      <4> HIDE DEF T
      <4> QED BY <4>1, SmallestOf
    <3>2. PICK x \in D : m[x] = k /\ find[x] \notin C
      BY <3>1
    <3>3. ASSUME NEW y \in D, m[y] < m[x] PROVE find[y] \in C
      <4>1. m[y] \in Nat /\ m[x] \in Nat
        BY <1>3
      <4>2. m[y] \in T => k <= m[y]
        BY <3>1
      <4> QED BY <3>2, <3>3, <4>1, <4>2
    <3>4. x[1] \in 1..Len(t) /\ x[2] \in Seq(STRING) /\ x[3] \in Seq(STRING) /\ x[4] \in Seq(STRING)
      BY <1>2
    <3>5. \A g \in Searches(t) : Remaining(t[g[1]], g[2]) < Remaining(t[x[1]], x[2]) =>
              find[g] \in SUBSET Seq(STRING)
      BY <1>3, <3>3 DEF D, C
    <3>6. SearchTurn(t, fixSlash, find, x[1], x[2], x[3], x[4]) \in C
      BY <3>4, <3>5, SearchYields DEF C
    <3> QED BY <1>13, <3>2, <3>6, Zenon
  <2> HIDE DEF T
  <2>2. \A x \in D : m[x] \in Nat
    BY <1>3
  <2> QED BY <2>1, <2>2 DEF T
<1>15. SearchesAre(t, fixSlash, find)
  <2> HIDE DEF find
  <2> SUFFICES ASSUME NEW at \in 1..Len(t), NEW path \in Seq(STRING), NEW out \in Seq(STRING),
                      NEW rb \in Seq(STRING)
               PROVE  /\ find[<<at, path, out, rb>>] = SearchTurn(t, fixSlash, find, at, path, out, rb)
                      /\ find[<<at, path, out, rb>>] \in SUBSET Seq(STRING)
    BY DEF SearchesAre
  <2> DEFINE x == <<at, path, out, rb>>
  <2>1. x \in D /\ x[1] = at /\ x[2] = path /\ x[3] = out /\ x[4] = rb
    BY DEF D, Searches
  <2> HIDE DEF x
  <2>2. find[x] = SearchTurn(t, fixSlash, find, at, path, out, rb) /\ find[x] \in SUBSET Seq(STRING)
    BY <1>13, <1>14, <2>1 DEF C
  <2> QED BY <2>2 DEF x
<1> QED BY <1>12, <1>15

-----------------------------------------------------------------------------
(* Paths up to the case of their letters *)

\* The case of a byte makes no other letter of it, nor a '/'.
Folding == \A b \in DOMAIN Lower : /\ Lower[Lower[b]] = Lower[b] /\ Lower[Upper[b]] = Lower[b]
                                   /\ Lower[b] = Lower[Slash] => b = Slash
Spellable(p) == \A k \in 1..Len(p) : p[k] \in DOMAIN Lower

\* Paths that spell the same, and that do but for a slash at the end.
Alike(p, q) == Len(q) = Len(p) /\ \A k \in 1..Len(p) : Lower[q[k]] = Lower[p[k]]
Near(fixSlash, p, q) ==
    Alike(p, q) \/ (fixSlash /\ (Alike(p, Append(q, Slash)) \/ Alike(Append(p, Slash), q)))

\* A path that begins, up to case, with the bytes of another.
Starts(q, p) == Len(q) <= Len(p) /\ \A k \in 1..Len(q) : Lower[q[k]] = Lower[p[k]]

LEMMA AppendIs ==
    ASSUME NEW p \in Seq(STRING), NEW c, c \in STRING
    PROVE  /\ Append(p, c) \in Seq(STRING) /\ Len(Append(p, c)) = Len(p) + 1
           /\ \A k \in 1..Len(p) : Append(p, c)[k] = p[k]
           /\ Append(p, c)[Len(p) + 1] = c
<1>1. \A S : \A q \in Seq(S), e \in S :
          /\ Append(q, e) \in Seq(S) /\ Len(Append(q, e)) = Len(q) + 1
          /\ \A k \in 1..Len(q) : Append(q, e)[k] = q[k]
          /\ Append(q, e)[Len(q) + 1] = e
  BY AppendProperties
<1> QED BY <1>1, Zenon

\* The same, with what it says of the longer sequence under one name.
Longer(u, p, c) ==
    /\ u \in Seq(STRING) /\ Len(u) = Len(p) + 1
    /\ \A k \in 1..Len(p) : u[k] = p[k]
    /\ u[Len(p) + 1] = c

LEMMA AppendLonger ==
    ASSUME NEW p \in Seq(STRING), NEW c, c \in STRING
    PROVE  Longer(Append(p, c), p, c)
<1> DEFINE u == Append(p, c)
<1>1. /\ u \in Seq(STRING) /\ Len(u) = Len(p) + 1
      /\ \A k \in 1..Len(p) : u[k] = p[k]
      /\ u[Len(p) + 1] = c
  BY AppendIs
<1> HIDE DEF u
<1> QED BY <1>1 DEF Longer, u

LEMMA AlikeBehind ==
    ASSUME NEW p \in Seq(STRING), NEW q \in Seq(STRING), Starts(q, p), NEW w \in Seq(STRING),
           Alike(From(p, Len(q) + 1), w)
    PROVE  Alike(p, q \o w)
<1> DEFINE s == From(p, Len(q) + 1)
           u == q \o w
<1>1. Len(p) \in Nat /\ Len(q) \in Nat /\ Len(w) \in Nat /\ Len(q) <= Len(p)
  BY DEF Starts
<1>2. /\ Len(s) = Len(p) - (Len(q) + 1) + 1
      /\ \A k \in 1..Len(p) - (Len(q) + 1) + 1 : s[k] = p[(Len(q) + 1) + k - 1]
  <2>1. Len(q) + 1 \in 1..Len(p) + 1
    BY <1>1
  <2> QED BY <2>1, TailOf
<1>3. /\ u \in Seq(STRING) /\ Len(u) = Len(q) + Len(w)
      /\ \A k \in 1..Len(q) + Len(w) : u[k] = IF k <= Len(q) THEN q[k] ELSE w[k - Len(q)]
  BY ConcatProperties
<1>4. Len(w) = Len(s) /\ \A k \in 1..Len(s) : Lower[w[k]] = Lower[s[k]]
  BY DEF Alike
<1> HIDE DEF s, u
<1>5. Len(s) = Len(p) - Len(q) /\ Len(u) = Len(p)
  BY <1>1, <1>2, <1>3, <1>4
<1>6. ASSUME NEW k \in 1..Len(p) PROVE Lower[u[k]] = Lower[p[k]]
  <2>1. CASE k <= Len(q)
    <3>1. u[k] = q[k] /\ k \in 1..Len(q)
      BY <1>1, <1>3, <1>5, <2>1
    <3> QED BY <3>1 DEF Starts
  <2>2. CASE k > Len(q)
    <3> DEFINE j == k - Len(q)
    <3>1. j \in 1..Len(s) /\ (Len(q) + 1) + j - 1 = k /\ j \in 1..Len(p) - (Len(q) + 1) + 1
      BY <1>1, <1>5, <2>2
    <3>2. u[k] = w[j]
      BY <1>1, <1>3, <1>5, <2>2
    <3> HIDE DEF j
    <3>3. s[j] = p[k]
      BY <1>2, <3>1
    <3> QED BY <1>4, <3>1, <3>2, <3>3
  <2> QED BY <1>1, <2>1, <2>2
<1> QED BY <1>5, <1>6 DEF Alike, u

LEMMA AppendBehind ==
    ASSUME NEW p \in Seq(STRING), NEW n \in 0..Len(p), NEW c, c \in STRING
    PROVE  From(Append(p, c), n + 1) = Append(From(p, n + 1), c)
<1> DEFINE u == Append(p, c)
           s == From(p, n + 1)
           a == From(u, n + 1)
           b == Append(s, c)
<1>1. Len(p) \in Nat /\ n \in Nat /\ n <= Len(p)
  OBVIOUS
<1>2. u \in Seq(STRING) /\ Len(u) = Len(p) + 1 /\ (\A k \in 1..Len(p) : u[k] = p[k]) /\ u[Len(p) + 1] = c
  <2>1. Longer(u, p, c)
    BY AppendLonger
  <2> HIDE DEF u
  <2> QED BY <2>1 DEF Longer
<1>3. /\ s \in Seq(STRING) /\ Len(s) = Len(p) - (n + 1) + 1
      /\ \A k \in 1..Len(p) - (n + 1) + 1 : s[k] = p[(n + 1) + k - 1]
  <2>1. n + 1 \in 1..Len(p) + 1
    BY <1>1
  <2> QED BY <2>1, TailOf
<1> HIDE DEF u
<1>4. /\ a \in Seq(STRING) /\ Len(a) = Len(u) - (n + 1) + 1
      /\ \A k \in 1..Len(u) - (n + 1) + 1 : a[k] = u[(n + 1) + k - 1]
  <2>1. n + 1 \in 1..Len(u) + 1
    BY <1>1, <1>2
  <2> QED BY <1>2, <2>1, TailOf
<1> HIDE DEF s
<1>5. b \in Seq(STRING) /\ Len(b) = Len(s) + 1 /\ (\A k \in 1..Len(s) : b[k] = s[k]) /\ b[Len(s) + 1] = c
  <2>1. s \in Seq(STRING)
    BY <1>3
  <2>2. Longer(b, s, c)
    BY <2>1, AppendLonger
  <2> HIDE DEF b
  <2> QED BY <2>2 DEF Longer
<1>9. Len(s) \in Nat
  BY <1>3
<1> HIDE DEF a, b
<1>6. Len(a) = Len(b)
  BY <1>1, <1>2, <1>3, <1>4, <1>5
<1>7. ASSUME NEW k \in 1..Len(b) PROVE a[k] = b[k]
  <2>1. a[k] = u[(n + 1) + k - 1] /\ (n + 1) + k - 1 = n + k
    BY <1>1, <1>4, <1>6
  <2>2. CASE k <= Len(s)
    <3>1. k \in 1..Len(s) /\ n + k \in 1..Len(p) /\ k \in 1..Len(p) - (n + 1) + 1
      BY <1>1, <1>3, <1>5, <2>2
    <3> QED BY <1>2, <1>3, <1>5, <2>1, <3>1
  <2>3. CASE k > Len(s)
    <3>1. k = Len(s) + 1
      BY <1>5, <1>9, <2>3
    <3>2. n + k = Len(p) + 1
      BY <1>1, <1>3, <3>1
    <3> QED BY <1>2, <1>5, <2>1, <3>1, <3>2
  <2> QED BY <1>5, <1>9, <2>2, <2>3
<1>8. a = b
  BY <1>4, <1>5, <1>6, <1>7, SeqEqual
<1> QED BY <1>8 DEF a, b, s, u

LEMMA AppendAfter ==
    ASSUME NEW p \in Seq(STRING), NEW q \in Seq(STRING), NEW c, c \in STRING
    PROVE  Append(q, c) \in Seq(STRING) /\ p \o Append(q, c) = Append(p \o q, c)
<1>1. <<c>> \in Seq(STRING) /\ Append(q, c) = q \o <<c>> /\ Append(q, c) \in Seq(STRING)
  BY SingletonSeq, AppendIsConcat, AppendIs
<1>2. p \o q \in Seq(STRING)
  BY ConcatProperties
<1>3. Append(p \o q, c) = (p \o q) \o <<c>>
  <2> DEFINE u == p \o q
  <2> HIDE DEF u
  <2>1. Append(u, c) = u \o <<c>>
    BY <1>2, AppendIsConcat DEF u
  <2> QED BY <2>1 DEF u
<1>4. (p \o q) \o <<c>> = p \o (q \o <<c>>)
  BY <1>1, ConcatAssociative
<1> QED BY <1>1, <1>3, <1>4

LEMMA ExtendedBehind ==
    ASSUME NEW p \in Seq(STRING), NEW q \in Seq(STRING), Starts(q, p), NEW w \in Seq(STRING),
           NEW c, c \in STRING, Alike(Append(From(p, Len(q) + 1), c), w)
    PROVE  Alike(Append(p, c), q \o w)
<1> DEFINE u == Append(p, c)
<1>1. u \in Seq(STRING) /\ Len(u) = Len(p) + 1 /\ \A k \in 1..Len(p) : u[k] = p[k]
  <2>1. Longer(u, p, c)
    BY AppendLonger
  <2> HIDE DEF u
  <2> QED BY <2>1 DEF Longer
<1>2. Len(p) \in Nat /\ Len(q) \in Nat /\ Len(q) <= Len(p)
  BY DEF Starts
<1>3. From(u, Len(q) + 1) = Append(From(p, Len(q) + 1), c)
  <2>1. Len(q) \in 0..Len(p)
    BY <1>2
  <2> DEFINE k == Len(q)
  <2> HIDE DEF k
  <2>2. From(Append(p, c), k + 1) = Append(From(p, k + 1), c)
    BY <2>1, AppendBehind DEF k
  <2> QED BY <2>2 DEF k
<1> HIDE DEF u
<1>4. Starts(q, u)
  BY <1>1, <1>2 DEF Starts
<1>5. Alike(From(u, Len(q) + 1), w)
  BY <1>3
<1>6. Alike(u, q \o w)
  BY <1>1, <1>4, <1>5, AlikeBehind
<1> QED BY <1>6 DEF u

LEMMA NearBehind ==
    ASSUME NEW p \in Seq(STRING), NEW q \in Seq(STRING), Starts(q, p), NEW w \in Seq(STRING),
           NEW fixSlash, Near(fixSlash, From(p, Len(q) + 1), w), Slash \in STRING
    PROVE  Near(fixSlash, p, q \o w)
<1> DEFINE s == From(p, Len(q) + 1)
<1>1. CASE Alike(s, w)
  BY <1>1, AlikeBehind DEF Near
<1>2. CASE fixSlash /\ Alike(s, Append(w, Slash))
  <2>1. Append(w, Slash) \in Seq(STRING) /\ q \o Append(w, Slash) = Append(q \o w, Slash)
    BY AppendAfter
  <2> DEFINE u == Append(w, Slash)
  <2> HIDE DEF u
  <2>2. Alike(p, q \o u)
    BY <1>2, <2>1, AlikeBehind DEF u
  <2> QED BY <1>2, <2>1, <2>2 DEF Near, u
<1>3. CASE fixSlash /\ Alike(Append(s, Slash), w)
  <2>1. Alike(Append(p, Slash), q \o w)
    BY <1>3, ExtendedBehind
  <2> QED BY <1>3, <2>1 DEF Near
<1> QED BY <1>1, <1>2, <1>3 DEF Near

LEMMA FoldedBytes ==
    ASSUME NEW p \in Seq(STRING), NEW q \in Seq(STRING), NEW m \in Nat, m <= Len(p), m <= Len(q),
           Fold(SubSeq(p, 2, m)) = Fold(SubSeq(q, 2, m))
    PROVE  \A k \in 2..m : Lower[q[k]] = Lower[p[k]]
<1> DEFINE a == SubSeq(p, 2, m)
           b == SubSeq(q, 2, m)
<1>1. Len(p) \in Nat /\ Len(q) \in Nat
  OBVIOUS
<1>2. SUFFICES ASSUME NEW k \in 2..m PROVE Lower[q[k]] = Lower[p[k]]
  OBVIOUS
<1>3. DOMAIN a = 1..m - 1 /\ DOMAIN b = 1..m - 1
  BY <1>1, <1>2
<1>4. k - 1 \in 1..m - 1
  BY <1>2
<1>5. a[k - 1] = p[k] /\ b[k - 1] = q[k]
  BY <1>1, <1>2
<1> HIDE DEF a, b
<1>6. Fold(a)[k - 1] = Lower[a[k - 1]] /\ Fold(b)[k - 1] = Lower[b[k - 1]]
  BY <1>3, <1>4 DEF Fold
<1>7. Fold(a) = Fold(b)
  BY DEF a, b
<1> QED BY <1>5, <1>6, <1>7

\* What is behind a path that another goes on from.
LEMMA GoneOn ==
    ASSUME NEW q \in Seq(STRING), NEW w \in Seq(STRING)
    PROVE  /\ q \o w \in Seq(STRING) /\ IsPrefix(q, q \o w) /\ From(q \o w, Len(q) + 1) = w
           /\ q \o w = q => w = <<>>
<1> DEFINE u == q \o w
           f == From(u, Len(q) + 1)
<1>1. Len(q) \in Nat /\ Len(w) \in Nat
  OBVIOUS
<1>2. /\ u \in Seq(STRING) /\ Len(u) = Len(q) + Len(w)
      /\ \A k \in 1..Len(q) + Len(w) : u[k] = IF k <= Len(q) THEN q[k] ELSE w[k - Len(q)]
  BY ConcatProperties
<1> HIDE DEF u
<1>3. IsPrefix(q, u)
  <2>1. Len(q) <= Len(u)
    BY <1>1, <1>2
  <2>2. SubSeq(q, 1, Len(q)) = SubSeq(u, 1, Len(q))
    <3> DEFINE a == SubSeq(q, 1, Len(q))
               b == SubSeq(u, 1, Len(q))
    <3>1. a \in Seq(STRING) /\ Len(a) = Len(q) /\ \A k \in 1..Len(q) : a[k] = q[k]
      BY <1>1
    <3>2. b \in Seq(STRING) /\ Len(b) = Len(q) /\ \A k \in 1..Len(q) : b[k] = u[k]
      BY <1>1, <1>2, <2>1
    <3> HIDE DEF a, b
    <3>3. \A k \in 1..Len(a) : a[k] = b[k]
      BY <1>1, <1>2, <3>1, <3>2
    <3>4. a = b
      BY <3>1, <3>2, <3>3, SeqEqual
    <3> QED BY <3>4 DEF a, b
  <2> QED BY <2>1, <2>2 DEF IsPrefix
<1>4. /\ f \in Seq(STRING) /\ Len(f) = Len(u) - (Len(q) + 1) + 1
      /\ \A k \in 1..Len(u) - (Len(q) + 1) + 1 : f[k] = u[(Len(q) + 1) + k - 1]
  <2>1. Len(q) + 1 \in 1..Len(u) + 1
    BY <1>1, <1>2
  <2> QED BY <1>2, <2>1, TailOf
<1> HIDE DEF f
<1>5. Len(f) = Len(w)
  BY <1>1, <1>2, <1>4
<1>6. ASSUME NEW k \in 1..Len(w) PROVE f[k] = w[k]
  <2> DEFINE j == (Len(q) + 1) + k - 1
  <2>1. j \in 1..Len(q) + Len(w) /\ j > Len(q) /\ j - Len(q) = k /\ k \in 1..Len(u) - (Len(q) + 1) + 1
    BY <1>1, <1>2
  <2> HIDE DEF j
  <2>2. f[k] = u[j]
    BY <1>4, <2>1 DEF j
  <2>3. u[j] = w[k]
    BY <1>1, <1>2, <2>1
  <2> QED BY <2>2, <2>3
<1>7. f = w
  BY <1>4, <1>5, <1>6, SeqEqual
<1>8. ASSUME u = q PROVE w = <<>>
  <2>1. Len(w) = 0
    BY <1>1, <1>2, <1>8
  <2> QED BY <2>1
<1> QED BY <1>2, <1>3, <1>7, <1>8 DEF u, f

\* A search comes to a node with a path that begins, up to case, with the byte
\* that the routes through the node have next.
Arrives(t, d, v, at, path) ==
    /\ Reachable(t[at]) /\ path # <<>> /\ v[at] # {}
    /\ \A r \in v[at] : Lower[path[1]] = Lower[r[d[at] + 1]]

\* What a search finds at a node spells the path up to case and, where slashes
\* are fixed, up to a slash at the end; otherwise a route through it matches.
Respells(v, d, at, fixSlash, path, out, found) ==
    \A q \in found : \E w \in Seq(STRING) :
        /\ q = out \o w /\ Near(fixSlash, path, w)
        /\ ~fixSlash => \E r \in v[at] : Matched(r, d[at], w) # {}

LEMMA PathBegins ==
    ASSUME NEW t, NEW d, NEW v, NEW H, Telling(t, d, v, H), NEW at \in 1..Len(t),
           NEW path \in Seq(STRING), Arrives(t, d, v, at, path)
    PROVE  t[at].path # <<>> => Lower[t[at].path[1]] = Lower[path[1]]
<1> SUFFICES ASSUME t[at].path # <<>> PROVE Lower[t[at].path[1]] = Lower[path[1]]
  OBVIOUS
<1>1. PICK r \in v[at] : Lower[path[1]] = Lower[r[d[at] + 1]]
  BY DEF Arrives
<1>2. t[at] \in Node /\ Spelt(t[at].path, d[at], r)
  BY NodeReached DEF Arrives
<1>3. 1 \in 1..Len(t[at].path)
  <2> DEFINE q == t[at].path
  <2>1. q \in Seq(STRING) /\ q # <<>>
    BY <1>2, FieldTypes
  <2> HIDE DEF q
  <2>2. 1 \in 1..Len(q)
    BY <2>1
  <2> QED BY <2>2 DEF q
<1> QED BY <1>1, <1>2, <1>3 DEF Spelt

\* A search gets past the path of a node that spells what is left, up to case.
LEMMA PathSpeltAlike ==
    ASSUME NEW t, NEW d, NEW v, NEW H, Telling(t, d, v, H), NEW at \in 1..Len(t),
           NEW path \in Seq(STRING), Arrives(t, d, v, at, path),
           Len(t[at].path) <= Len(path),
           Fold(SubSeq(path, 2, Len(t[at].path))) = Fold(From(t[at].path, 2))
    PROVE  Starts(t[at].path, path)
<1> DEFINE q == t[at].path
<1>1. q \in Seq(STRING)
  <2>1. t[at] \in Node
    BY NodeReached DEF Arrives
  <2> QED BY <2>1, FieldTypes
<1>2. q # <<>> => Lower[q[1]] = Lower[path[1]]
  BY PathBegins
<1> HIDE DEF q
<1>3. Len(q) \in Nat /\ Len(path) \in Nat /\ Len(q) <= Len(path)
  BY <1>1 DEF q
<1>4. Fold(SubSeq(path, 2, Len(q))) = Fold(SubSeq(q, 2, Len(q)))
  BY DEF q, From
<1>5. \A k \in 2..Len(q) : Lower[q[k]] = Lower[path[k]]
  <2> DEFINE m == Len(q)
  <2>1. m \in Nat /\ m <= Len(path) /\ m <= Len(q) /\ Fold(SubSeq(path, 2, m)) = Fold(SubSeq(q, 2, m))
    BY <1>3, <1>4
  <2> HIDE DEF m
  <2>2. \A k \in 2..m : Lower[q[k]] = Lower[path[k]]
    BY <1>1, <2>1, FoldedBytes
  <2> QED BY <2>2 DEF m
<1>6. ASSUME NEW k \in 1..Len(q) PROVE Lower[q[k]] = Lower[path[k]]
  <2>1. CASE k = 1
    <3>1. q # <<>>
      BY <1>6, <2>1
    <3> QED BY <1>2, <2>1, <3>1
  <2>2. CASE k # 1
    <3>1. k \in 2..Len(q)
      BY <1>3, <2>2
    <3> QED BY <1>5, <3>1
  <2> QED BY <2>1, <2>2
<1>7. Starts(q, path)
  BY <1>3, <1>6 DEF Starts
<1> QED BY <1>7, Zenon DEF q

\* Behind the path of a node a request matches the routes as it does from there.
LEMMA MatchedOn ==
    ASSUME NEW t, NEW d, NEW v, NEW H, Telling(t, d, v, H), NEW at \in 1..Len(t),
           Reachable(t[at]), NEW e, e = d[at] + Len(t[at].path), NEW w \in Seq(STRING),
           NEW r \in v[at]
    PROVE  Matched(r, d[at], t[at].path \o w) = Matched(r, e, w)
<1> DEFINE q == t[at].path
           u == q \o w
<1>1. q \in Seq(STRING)
  <2>1. t[at] \in Node
    BY NodeReached
  <2> QED BY <2>1, FieldTypes
<1> HIDE DEF q
<1>2. u \in Seq(STRING) /\ IsPrefix(q, u) /\ From(u, Len(q) + 1) = w
  BY <1>1, GoneOn
<1> HIDE DEF u
<1>3. Matched(r, d[at], u) = IF IsPrefix(t[at].path, u) THEN Matched(r, e, Left(t[at], u)) ELSE {}
  BY <1>2, MatchedThere
<1>4. Left(t[at], u) = w /\ IsPrefix(t[at].path, u)
  BY <1>2 DEF Left, q
<1> QED BY <1>3, <1>4 DEF u, q

\* A byte leads to the routes that have it next.
BehindByte(t, d, v, at, b) ==
    \A c, e : c = ChildFor(t[at], b) /\ c # 0 /\ e = d[at] + Len(t[at].path) =>
        /\ c \in 1..Len(t) /\ Reachable(t[c]) /\ d[c] = e /\ v[c] \subseteq v[at]
        /\ \A r \in v[c] : r[e + 1] = b
LEMMA RoutesBehindByte ==
    ASSUME NEW t, NEW d, NEW v, NEW H, Telling(t, d, v, H), NEW at \in 1..Len(t),
           Reachable(t[at]), ~t[at].wildChild, NEW b
    PROVE  BehindByte(t, d, v, at, b)
<1> SUFFICES ASSUME NEW c, c = ChildFor(t[at], b), c # 0, NEW e, e = d[at] + Len(t[at].path)
             PROVE  /\ c \in 1..Len(t) /\ Reachable(t[c]) /\ d[c] = e /\ v[c] \subseteq v[at]
                    /\ \A r \in v[c] : r[e + 1] = b
  BY DEF BehindByte
<1>1. /\ c \in 1..Len(t)
      /\ \E k \in 1..Len(t[at].children) : c = t[at].children[k] /\ Key(t[at], k) = b
  <2>1. ChildFor(t[at], b) # 0 /\ t[at].nType # "param"
    BY DEF Reachable
  <2>2. /\ ChildFor(t[at], b) \in 1..Len(t)
        /\ \E k \in 1..Len(t[at].children) :
               ChildFor(t[at], b) = t[at].children[k] /\ Key(t[at], k) = b
    BY <2>1, ByteLeads
  <2> QED BY <2>2
<1>2. PICK k \in 1..Len(t[at].children) : c = t[at].children[k] /\ Key(t[at], k) = b
  BY <1>1
<1>3. InShape(t) /\ t \in Seq(Node) /\ NodeSpells(t, d, v, H, 0, 0, at) /\ Kinds(t, t[at])
  BY DEF Telling, InShape, Spells
<1>4. Fits(t, t[at]) /\ k \in DOMAIN t[at].children
  <2>1. t[at] \in Node
    BY <1>3, Places
  <2>2. t[at].children \in Seq(Nat)
    BY <2>1, FieldTypes
  <2>3. k \in DOMAIN t[at].children
    BY <2>2
  <2> QED BY <1>3, <2>3, Places DEF InShape
<1>5. t[c].nType # "param"
  BY <1>2, <1>4 DEF Fits
<1>6. t[c].nType = "catchAll" => t[c].wildChild
  BY <1>2, <1>3 DEF Kinds
<1>7. d[c] = e /\ v[c] \subseteq v[at] /\ \A r \in v[c] : r[e + 1] = b
  BY <1>2, <1>3 DEF NodeSpells, Hangs
<1> QED BY <1>1, <1>5, <1>6, <1>7 DEF Reachable

\* What is found behind a byte, found from above.
LEMMA RespelledAbove ==
    ASSUME NEW t, NEW d, NEW v, NEW H, Telling(t, d, v, H), NEW at \in 1..Len(t),
           Reachable(t[at]), NEW path \in Seq(STRING), Starts(t[at].path, path),
           NEW out \in Seq(STRING), NEW fixSlash, NEW found, NEW c, Slash \in STRING,
           d[c] = d[at] + Len(t[at].path), v[c] \subseteq v[at],
           Respells(v, d, c, fixSlash, Left(t[at], path), out \o t[at].path, found)
    PROVE  Respells(v, d, at, fixSlash, path, out, found)
<1> DEFINE q == t[at].path
<1>1. q \in Seq(STRING)
  <2>1. t[at] \in Node
    BY NodeReached
  <2> QED BY <2>1, FieldTypes
<1>2. SUFFICES ASSUME NEW s \in found
               PROVE  \E w \in Seq(STRING) :
                          /\ s = out \o w /\ Near(fixSlash, path, w)
                          /\ ~fixSlash => \E r \in v[at] : Matched(r, d[at], w) # {}
  BY DEF Respells
<1>3. PICK w \in Seq(STRING) :
          /\ s = (out \o q) \o w /\ Near(fixSlash, From(path, Len(q) + 1), w)
          /\ ~fixSlash => \E r \in v[c] : Matched(r, d[c], w) # {}
  BY DEF Respells, Left
<1>4. ~fixSlash => \E r \in v[at] : Matched(r, d[at], q \o w) # {}
  <2> SUFFICES ASSUME ~fixSlash PROVE \E r \in v[at] : Matched(r, d[at], q \o w) # {}
    OBVIOUS
  <2>1. PICK r \in v[c] : Matched(r, d[c], w) # {}
    BY <1>3
  <2>2. Matched(r, d[at], t[at].path \o w) = Matched(r, d[c], w)
    BY MatchedOn
  <2> QED BY <2>1, <2>2
<1>5. Starts(q, path)
  OBVIOUS
<1> HIDE DEF q
<1>6. q \o w \in Seq(STRING)
  BY <1>1, ConcatProperties
<1>7. s = out \o (q \o w)
  <2>1. (out \o q) \o w = out \o (q \o w)
    BY <1>1, ConcatAssociative
  <2> QED BY <1>3, <2>1
<1>8. Near(fixSlash, path, q \o w)
  BY <1>1, <1>3, <1>5, NearBehind
<1> QED BY <1>4, <1>6, <1>7, <1>8

LEMMA Regrouped ==
    ASSUME NEW a \in Seq(STRING), NEW b \in Seq(STRING), NEW c \in Seq(STRING)
    PROVE  (a \o b) \o c = a \o (b \o c)
BY ConcatAssociative

\* The same, under a name.
Regroups(a, b, c) == (a \o b) \o c = a \o (b \o c)

LEMMA AllRegroup ==
    ASSUME NEW a \in Seq(STRING), NEW b \in Seq(STRING), NEW c \in Seq(STRING)
    PROVE  Regroups(a, b, c)
BY Regrouped DEF Regroups

\* The first segment of a path and what is behind it.
LEMMA SegmentSplits ==
    ASSUME NEW rest \in Seq(STRING)
    PROVE  LET value == SegmentOfRest(rest)
               later == SegmentRest(rest)
           IN  /\ value \in Seq(STRING) /\ later \in Seq(STRING) /\ Starts(value, rest)
               /\ From(rest, Len(value) + 1) = later /\ \A k \in 1..Len(value) : value[k] # Slash
               /\ later # <<>> => later[1] = Slash
               /\ later = <<>> => value = rest
<1> DEFINE i == SegmentEnd(rest)
           value == SegmentOfRest(rest)
           later == SegmentRest(rest)
<1>1. /\ i \in 0..Len(rest) /\ Len(rest) \in Nat
      /\ \A k \in 1..i : rest[k] # Slash
      /\ i < Len(rest) => rest[i + 1] = Slash
  <2>1. Len(rest) \in Nat
    OBVIOUS
  <2>2. /\ SegmentEnd(rest) \in 0..Len(rest) /\ \A k \in 1..SegmentEnd(rest) : rest[k] # Slash
        /\ SegmentEnd(rest) < Len(rest) => rest[SegmentEnd(rest) + 1] = Slash
    BY SegmentOf, Zenon
  <2> QED BY <2>1, <2>2, Zenon
<1>2. value = UpTo(rest, i) /\ later = From(rest, i + 1)
  BY DEF SegmentOfRest, SegmentRest
<1> HIDE DEF i, value, later
<1>3. value \in Seq(STRING) /\ Len(value) = i /\ \A k \in 1..i : value[k] = rest[k]
  BY <1>1, <1>2, HeadOf
<1>4. /\ later \in Seq(STRING) /\ Len(later) = Len(rest) - (i + 1) + 1
      /\ \A k \in 1..Len(rest) - (i + 1) + 1 : later[k] = rest[(i + 1) + k - 1]
  <2>1. i + 1 \in 1..Len(rest) + 1
    BY <1>1
  <2> QED BY <1>2, <2>1, TailOf
<1>5. Starts(value, rest)
  BY <1>1, <1>3 DEF Starts
<1>6. \A k \in 1..Len(value) : value[k] # Slash
  BY <1>1, <1>3
<1>7. ASSUME later # <<>> PROVE later[1] = Slash
  <2>1. Len(later) > 0
    BY <1>4, <1>7
  <2>2. i < Len(rest) /\ 1 \in 1..Len(rest) - (i + 1) + 1 /\ (i + 1) + 1 - 1 = i + 1
    BY <1>1, <1>4, <2>1
  <2> QED BY <1>1, <1>4, <2>2
<1>8. ASSUME later = <<>> PROVE value = rest
  <2>1. Len(later) = 0
    BY <1>8
  <2>2. i = Len(rest)
    BY <1>1, <1>4, <2>1
  <2>3. \A k \in 1..Len(value) : value[k] = rest[k]
    BY <1>3
  <2> QED BY <1>3, <2>2, <2>3, SeqEqual
<1>9. From(rest, Len(value) + 1) = later
  BY <1>2, <1>3
<1> QED BY <1>3, <1>4, <1>5, <1>6, <1>7, <1>8, <1>9 DEF value, later

LEMMA SegmentWas ==
    ASSUME NEW value \in Seq(STRING), \A k \in 1..Len(value) : value[k] # Slash,
           NEW w \in Seq(STRING), w # <<>> => w[1] = Slash
    PROVE  SegmentEnd(value \o w) = Len(value) /\ OtherSegments(value \o w) = w
<1> DEFINE u == value \o w
           i == SegmentEnd(u)
<1>1. Len(value) \in Nat /\ Len(w) \in Nat
  OBVIOUS
<1>2. /\ u \in Seq(STRING) /\ Len(u) = Len(value) + Len(w)
      /\ \A k \in 1..Len(value) + Len(w) : u[k] = IF k <= Len(value) THEN value[k] ELSE w[k - Len(value)]
  BY ConcatProperties
<1>3. From(u, Len(value) + 1) = w
  BY GoneOn
<1> HIDE DEF u
<1>4. i \in 0..Len(u) /\ (\A k \in 1..i : u[k] # Slash) /\ (i < Len(u) => u[i + 1] = Slash)
  BY <1>2, SegmentOf
<1> HIDE DEF i
<1>5. ~(i < Len(value))
  <2> SUFFICES ASSUME i < Len(value) PROVE FALSE
    OBVIOUS
  <2>1. i + 1 \in 1..Len(value) /\ i < Len(u) /\ i + 1 \in 1..Len(value) + Len(w) /\ i + 1 <= Len(value)
    BY <1>1, <1>2, <1>4
  <2>2. u[i + 1] = value[i + 1]
    BY <1>2, <2>1
  <2> QED BY <1>4, <2>1, <2>2
<1>6. ~(i > Len(value))
  <2> SUFFICES ASSUME i > Len(value) PROVE FALSE
    OBVIOUS
  <2> DEFINE j == Len(value) + 1
  <2>1. /\ j \in 1..i /\ j \in 1..Len(value) + Len(w) /\ ~(j <= Len(value)) /\ j - Len(value) = 1
        /\ Len(w) # 0
    BY <1>1, <1>2, <1>4
  <2> HIDE DEF j
  <2>2. u[j] = w[1]
    BY <1>2, <2>1
  <2>3. w # <<>>
    BY <2>1
  <2> QED BY <1>4, <2>1, <2>2, <2>3
<1>7. i = Len(value)
  BY <1>1, <1>4, <1>5, <1>6
<1>8. OtherSegments(u) = w
  <2>1. OtherSegments(u) = From(u, i + 1)
    BY DEF OtherSegments, i
  <2> QED BY <1>3, <1>7, <2>1
<1> QED BY <1>7, <1>8 DEF i, u

\* A path and nothing, and a slash, are near where slashes are fixed.
LEMMA SlashApart ==
    ASSUME Slash \in STRING
    PROVE  /\ <<>> \in Seq(STRING) /\ <<Slash>> \in Seq(STRING) /\ \A fix : Near(fix, <<>>, <<>>)
           /\ Near(TRUE, <<Slash>>, <<>>) /\ Near(TRUE, <<>>, <<Slash>>)
<1>1. <<>> \in Seq(STRING) /\ <<Slash>> \in Seq(STRING)
  <2>1. <<>> \in Seq(STRING)
    OBVIOUS
  <2> QED BY <2>1, SingletonSeq, Zenon
<1>2. Append(<<>>, Slash) = <<Slash>>
  OBVIOUS
<1>3. Alike(<<>>, <<>>) /\ Alike(<<Slash>>, <<Slash>>)
  BY DEF Alike
<1> QED BY <1>1, <1>2, <1>3 DEF Near

\* What is found where a search ends with the path of a node.
LEMMA EndRespells ==
    ASSUME NEW t, NEW d, NEW v, NEW H, Telling(t, d, v, H), NEW at \in 1..Len(t),
           NEW path \in Seq(STRING), Arrives(t, d, v, at, path), Starts(t[at].path, path),
           Left(t[at], path) = <<>>, t[at].handle # NoHandle, NEW out, NEW fixSlash, Slash \in STRING
    PROVE  Respells(v, d, at, fixSlash, path, out, {out \o t[at].path})
<1> DEFINE q == t[at].path
           e == d[at] + Len(q)
           r == t[at].handle
<1>1. q \in Seq(STRING) /\ r \in v[at] /\ r \in Seq(STRING) /\ Len(r) = e
  <2> DEFINE f == e
  <2> HIDE DEF f
  <2>1. f = d[at] + Len(t[at].path)
    BY DEF f
  <2>2. /\ t[at] \in Node /\ t[at].handle \in v[at] /\ Len(t[at].handle) = f
        /\ \A s \in v[at] : s \in Seq(STRING)
    BY <2>1, NodeReached DEF Arrives
  <2>3. q \in Seq(STRING)
    BY <2>2, FieldTypes
  <2> QED BY <2>2, <2>3 DEF f
<1> DEFINE z == <<>>
<1>5. z \in Seq(STRING) /\ z = <<>> /\ q \o z = q /\ \A fix : Near(fix, z, z)
  <2>1. q \o z = q
    <3> HIDE DEF q
    <3> QED BY <1>1
  <2> QED BY <2>1, SlashApart
<1> HIDE DEF z
<1>2. Matched(r, d[at], q) # {}
  <2>1. Matched(r, d[at], q \o z) = Matched(r, e, z)
    <3> DEFINE f == e
               x == r
    <3>1. f = d[at] + Len(t[at].path) /\ Reachable(t[at]) /\ x \in v[at]
      BY <1>1 DEF Arrives
    <3> HIDE DEF f, x
    <3>2. Matched(x, d[at], t[at].path \o z) = Matched(x, f, z)
      <4>1. z \in Seq(STRING)
        BY <1>5
      <4> HIDE DEF q, e, r
      <4> QED BY <3>1, <4>1, MatchedOn
    <3> QED BY <3>2 DEF f, x
  <2>2. Matched(r, e, z) = {<<>>}
    <3> HIDE DEF r, e
    <3> QED BY <1>1, <1>5, MatchedAtEnd
  <2> QED BY <1>5, <2>1, <2>2
<1>3. Near(fixSlash, path, q)
  <2>1. Near(fixSlash, From(path, Len(q) + 1), z)
    <3>1. From(path, Len(q) + 1) = z
      BY <1>5 DEF Left
    <3> QED BY <1>5, <3>1
  <2> DEFINE p == q
  <2>2. p \in Seq(STRING) /\ Starts(p, path) /\ Near(fixSlash, From(path, Len(p) + 1), z)
    BY <1>1, <2>1
  <2> HIDE DEF p
  <2>3. Near(fixSlash, path, p \o z)
    BY <1>5, <2>2, NearBehind
  <2> QED BY <1>5, <2>3 DEF p
<1> HIDE DEF q, r
<1>4. \A s \in {out \o q} : \E w \in Seq(STRING) :
          /\ s = out \o w /\ Near(fixSlash, path, w)
          /\ ~fixSlash => \E x \in v[at] : Matched(x, d[at], w) # {}
  BY <1>1, <1>2, <1>3
<1> QED BY <1>4, Zenon DEF Respells, q

\* What is found below a parameter, found from above.
LEMMA RespelledBehindParam ==
    ASSUME NEW t, NEW d, NEW v, NEW H, Telling(t, d, v, H), NEW at \in 1..Len(t),
           Reachable(t[at]), t[at].wildChild, t[at].nType # "catchAll", NEW path \in Seq(STRING),
           Starts(t[at].path, path), Len(t[at].path) <= Len(path), NEW out \in Seq(STRING), NEW fixSlash, NEW found,
           Slash \in STRING, NEW value, value = SegmentOfRest(Left(t[at], path)),
           NEW later, later = SegmentRest(Left(t[at], path)), NEW g,
           g = t[t[at].children[1]].children[1], t[t[at].children[1]].children # <<>>,
           Respells(v, d, g, fixSlash, later, (out \o t[at].path) \o value, found)
    PROVE  Respells(v, d, at, fixSlash, path, out, found)
<1> DEFINE q == t[at].path
           rest == Left(t[at], path)
           e == d[at] + Len(q)
           c == t[at].children[1]
<1>1. q \in Seq(STRING) /\ rest \in Seq(STRING)
  <2>1. t[at] \in Node
    BY NodeReached
  <2>2. q \in Seq(STRING)
    BY <2>1, FieldTypes
  <2> QED BY <2>1, <2>2, LeftBehind
<1>2. /\ value \in Seq(STRING) /\ later \in Seq(STRING) /\ Starts(value, rest)
      /\ From(rest, Len(value) + 1) = later /\ \A k \in 1..Len(value) : value[k] # Slash
  <2> DEFINE s == rest
  <2>1. value = SegmentOfRest(s) /\ later = SegmentRest(s)
    OBVIOUS
  <2> HIDE DEF s
  <2>2. /\ SegmentOfRest(s) \in Seq(STRING) /\ SegmentRest(s) \in Seq(STRING)
        /\ Starts(SegmentOfRest(s), s) /\ From(s, Len(SegmentOfRest(s)) + 1) = SegmentRest(s)
        /\ \A k \in 1..Len(SegmentOfRest(s)) : SegmentOfRest(s)[k] # Slash
    BY <1>1, SegmentSplits DEF s
  <2>3. /\ value \in Seq(STRING) /\ later \in Seq(STRING) /\ Starts(value, s)
        /\ From(s, Len(value) + 1) = later /\ \A k \in 1..Len(value) : value[k] # Slash
    BY <2>1, <2>2
  <2> QED BY <2>3 DEF s
<1>3. /\ e \in Nat /\ v[c] \subseteq v[at] /\ d[g] = e + 1 /\ v[g] \subseteq v[c]
      /\ \A r \in v[g] : /\ r \in Seq(STRING) /\ r[e + 2] = Slash /\ Len(r) > e + 1
                         /\ r[e + 1] \in ParamTokens
  <2> DEFINE f == e
             b == c
  <2>1. f = d[at] + Len(t[at].path) /\ b = t[at].children[1] /\ g = t[b].children[1] /\ t[b].children # <<>>
    OBVIOUS
  <2> HIDE DEF f, b
  <2>2. ToParam(t, d, v, at, b, f)
    BY <2>1, ParamReached
  <2>3. /\ f \in Nat /\ v[b] \subseteq v[at] /\ d[g] = f + 1 /\ v[g] \subseteq v[b]
        /\ \A r \in v[g] : r[f + 2] = Slash /\ Len(r) > f + 1
        /\ \A r \in v[at] : r \in Seq(STRING)
        /\ \A r \in v[b] : r[f + 1] = Last(t[b].path)
        /\ Last(t[b].path) \in ParamTokens
    BY <2>1, <2>2 DEF ToParam
  <2>4. \A r \in v[g] : r \in Seq(STRING) /\ r[f + 1] \in ParamTokens
    BY <2>3
  <2> QED BY <2>3, <2>4 DEF f, b
<1>4. Slash \notin ParamTokens
  BY DEF Telling, Distinct, Wildcards
<1>5. Starts(q, path) /\ rest = From(path, Len(q) + 1) /\ e = d[at] + Len(t[at].path)
  BY DEF Left
<1>6. SUFFICES ASSUME NEW s \in found
               PROVE  \E w \in Seq(STRING) :
                          /\ s = out \o w /\ Near(fixSlash, path, w)
                          /\ ~fixSlash => \E r \in v[at] : Matched(r, d[at], w) # {}
  BY DEF Respells
<1>7. PICK w \in Seq(STRING) :
          /\ s = ((out \o q) \o value) \o w /\ Near(fixSlash, later, w)
          /\ ~fixSlash => \E r \in v[g] : Matched(r, d[g], w) # {}
  BY DEF Respells
<1> DEFINE u == value \o w
<1>8. u \in Seq(STRING)
  BY <1>2, ConcatProperties
<1>9. ~fixSlash => \E r \in v[at] : Matched(r, d[at], q \o u) # {}
  <2> SUFFICES ASSUME ~fixSlash PROVE \E r \in v[at] : Matched(r, d[at], q \o u) # {}
    OBVIOUS
  <2>1. PICK r \in v[g] : Matched(r, d[g], w) # {}
    BY <1>7
  <2> HIDE DEF e
  <2>2. /\ r \in Seq(STRING) /\ r \in v[at] /\ e \in Nat /\ e + 1 \in Nat /\ e + 1 < Len(r) /\ e < Len(r)
        /\ r[(e + 1) + 1] = Slash /\ r[e + 1] \in ParamTokens /\ Matched(r, e + 1, w) # {}
    <3>1. /\ r \in Seq(STRING) /\ r[e + 2] = Slash /\ Len(r) > e + 1 /\ r[e + 1] \in ParamTokens
          /\ r \in v[at] /\ e \in Nat /\ Matched(r, e + 1, w) # {}
      BY <1>3, <2>1
    <3>2. Len(r) \in Nat
      BY <3>1
    <3>3. e + 1 \in Nat /\ e + 1 < Len(r) /\ e < Len(r) /\ (e + 1) + 1 = e + 2
      BY <3>1, <3>2
    <3> QED BY <3>1, <3>3
  <2>3. w # <<>> /\ w[1] = Slash
    <3> DEFINE f == e + 1
    <3>1. f \in Nat /\ f < Len(r) /\ r[f + 1] = Slash /\ Matched(r, f, w) # {}
      BY <2>2
    <3> HIDE DEF f
    <3> QED BY <1>4, <2>2, <3>1, MatchedNext
  <2>4. OtherSegments(u) = w
    BY <1>2, <2>3, SegmentWas
  <2>5. u # <<>>
    <3>1. Len(u) = Len(value) + Len(w) /\ Len(value) \in Nat /\ Len(w) \in Nat
      BY <1>2, ConcatProperties
    <3>2. Len(w) # 0
      BY <2>3
    <3> HIDE DEF u
    <3>3. Len(u) # 0
      BY <3>1, <3>2
    <3> QED BY <3>3
  <2>6. Matched(r, d[at], t[at].path \o u) = Matched(r, e, u)
    <3> HIDE DEF u
    <3> QED BY <1>5, <1>8, <2>2, MatchedOn
  <2>7. Matched(r, e, u) = Following(FirstSegment(r[e + 1], u), Matched(r, e + 1, w))
    <3> HIDE DEF u
    <3>1. Matched(r, e, u) = Following(FirstSegment(r[e + 1], u), Matched(r, e + 1, OtherSegments(u)))
      BY <1>8, <2>2, <2>5, MatchedParam
    <3> QED BY <2>4, <3>1
  <2>8. Matched(r, e, u) # {}
    BY <2>2, <2>7 DEF Following
  <2> QED BY <2>2, <2>6, <2>8
<1> HIDE DEF q, rest, e, u
<1>10. q \o u \in Seq(STRING)
  BY <1>1, <1>8, ConcatProperties
<1>11. s = out \o (q \o u)
  <2> DEFINE x == out \o q
  <2>1. x \in Seq(STRING)
    BY <1>1, ConcatProperties
  <2>2. x \o u = out \o (q \o u)
    <3>1. Regroups(out, q, u)
      BY <1>1, <1>8, AllRegroup
    <3> QED BY ONLY <3>1 DEF Regroups, x
  <2> HIDE DEF x
  <2>3. (x \o value) \o w = x \o (value \o w)
    <3>1. Regroups(x, value, w)
      BY <1>2, <2>1, AllRegroup
    <3> QED BY ONLY <3>1 DEF Regroups
  <2> QED BY <1>7, <2>2, <2>3 DEF u, x
<1>12. Near(fixSlash, path, q \o u)
  <2>1. Near(fixSlash, rest, u)
    <3>1. Near(fixSlash, From(rest, Len(value) + 1), w)
      BY <1>2, <1>7
    <3> QED BY <1>1, <1>2, <3>1, NearBehind DEF u
  <2> QED BY <1>1, <1>5, <1>8, <2>1, NearBehind
<1> QED BY <1>9, <1>10, <1>11, <1>12

LEMMA LeftType ==
    ASSUME NEW t, NEW d, NEW v, NEW H, Telling(t, d, v, H), NEW at \in 1..Len(t), Reachable(t[at]),
           NEW path \in Seq(STRING), Starts(t[at].path, path)
    PROVE  /\ t[at].path \in Seq(STRING) /\ Left(t[at], path) \in Seq(STRING)
           /\ Left(t[at], path) = From(path, Len(t[at].path) + 1)
           /\ Len(t[at].path) \in Nat /\ Len(path) \in Nat /\ Len(t[at].path) <= Len(path)
<1>1. t[at] \in Node /\ Len(t[at].path) <= Len(path)
  BY NodeReached DEF Starts
<1>2. t[at].path \in Seq(STRING)
  BY <1>1, FieldTypes
<1>3. Left(t[at], path) \in Seq(STRING) /\ Len(t[at].path) \in Nat /\ Len(path) \in Nat
  BY <1>1, LeftBehind
<1> QED BY <1>1, <1>2, <1>3 DEF Left

\* What is found near the rest is near the path.
LEMMA NearFromNode ==
    ASSUME NEW t, NEW d, NEW v, NEW H, Telling(t, d, v, H), NEW at \in 1..Len(t), Reachable(t[at]),
           NEW path \in Seq(STRING), Starts(t[at].path, path), NEW fixSlash, NEW w \in Seq(STRING),
           Near(fixSlash, Left(t[at], path), w), Slash \in STRING
    PROVE  t[at].path \o w \in Seq(STRING) /\ Near(fixSlash, path, t[at].path \o w)
<1> DEFINE q == t[at].path
<1>1. q \in Seq(STRING) /\ Starts(q, path) /\ Near(fixSlash, From(path, Len(q) + 1), w)
  BY LeftType
<1> HIDE DEF q
<1>2. Near(fixSlash, path, q \o w)
  BY <1>1, NearBehind
<1>3. q \o w \in Seq(STRING)
  BY <1>1, ConcatProperties
<1> QED BY <1>2, <1>3 DEF q

\* ... and what is found near what follows a segment is near the rest.
LEMMA NearFromSegment ==
    ASSUME NEW rest \in Seq(STRING), NEW fixSlash, NEW w \in Seq(STRING),
           Near(fixSlash, SegmentRest(rest), w), Slash \in STRING
    PROVE  /\ SegmentOfRest(rest) \o w \in Seq(STRING)
           /\ Near(fixSlash, rest, SegmentOfRest(rest) \o w)
<1> DEFINE q == SegmentOfRest(rest)
<1>1. q \in Seq(STRING) /\ Starts(q, rest) /\ Near(fixSlash, From(rest, Len(q) + 1), w)
  BY SegmentSplits
<1> HIDE DEF q
<1>2. Near(fixSlash, rest, q \o w)
  BY <1>1, NearBehind
<1>3. q \o w \in Seq(STRING)
  BY <1>1, ConcatProperties
<1> QED BY <1>2, <1>3 DEF q

\* What is found where a search ends with the value of a parameter.
LEMMA ValueRespells ==
    ASSUME NEW t, NEW d, NEW v, NEW H, Telling(t, d, v, H), NEW at \in 1..Len(t),
           Reachable(t[at]), t[at].wildChild, t[at].nType # "catchAll", NEW path \in Seq(STRING),
           Starts(t[at].path, path), Left(t[at], path) # <<>>, NEW out \in Seq(STRING), NEW fixSlash,
           Slash \in STRING, SegmentRest(Left(t[at], path)) = <<>>,
           t[t[at].children[1]].handle # NoHandle
    PROVE  Respells(v, d, at, fixSlash, path, out,
                    {(out \o t[at].path) \o SegmentOfRest(Left(t[at], path))})
<1> DEFINE q == t[at].path
           rest == Left(t[at], path)
           e == d[at] + Len(q)
           c == t[at].children[1]
           r == t[c].handle
           z == <<>>
<1>1. q \in Seq(STRING) /\ rest \in Seq(STRING)
  BY LeftType
<1>2. /\ r \in Seq(STRING) /\ r \in v[at] /\ Len(r) = e + 1 /\ r[e + 1] \in ParamTokens /\ e \in Nat
  <2> DEFINE f == e
             b == c
  <2>1. f = d[at] + Len(t[at].path) /\ b = t[at].children[1] /\ t[b].handle # NoHandle
    OBVIOUS
  <2> HIDE DEF f, b
  <2>2. ToParam(t, d, v, at, b, f)
    BY <2>1, ParamReached
  <2>3. /\ t[b].handle \in v[at] /\ Len(t[b].handle) = f + 1 /\ t[b].handle \in Seq(STRING)
        /\ t[b].handle[f + 1] \in ParamTokens /\ f \in Nat
    BY <2>1, <2>2 DEF ToParam
  <2> QED BY <2>3 DEF f, b
<1>3. /\ SegmentOfRest(rest) = rest /\ \A k \in 1..Len(rest) : rest[k] # Slash
  BY <1>1, SegmentSplits
<1>4. z \in Seq(STRING) /\ z = <<>> /\ rest \o z = rest /\ Near(fixSlash, SegmentRest(rest), z)
  <2>1. Near(fixSlash, SegmentRest(rest), z)
    BY SlashApart
  <2> HIDE DEF rest
  <2> QED BY <1>1, <2>1
<1>5. rest # <<>> /\ e = d[at] + Len(t[at].path) /\ Reachable(t[at])
  OBVIOUS
<1> HIDE DEF z, rest, e, r
<1>6. OtherSegments(rest) = <<>>
  BY <1>1, <1>3, <1>4, SegmentWas
<1>7. Matched(r, d[at], t[at].path \o rest) = Matched(r, e, rest)
  BY <1>1, <1>2, <1>5, MatchedOn
<1>8. Matched(r, e, rest) # {}
  <2>1. e < Len(r)
    BY <1>2
  <2>2. Matched(r, e, rest) = Following(FirstSegment(r[e + 1], rest), Matched(r, e + 1, OtherSegments(rest)))
    BY <1>1, <1>2, <1>5, <2>1, MatchedParam
  <2>3. Matched(r, e + 1, z) = {<<>>}
    BY <1>2, <1>4, MatchedAtEnd
  <2> QED BY <1>4, <1>6, <2>2, <2>3 DEF Following
<1>9. Near(fixSlash, path, q \o rest) /\ q \o rest \in Seq(STRING)
  <2>1. Near(fixSlash, rest, rest \o z)
    BY <1>1, <1>3, <1>4, NearFromSegment
  <2>2. Near(fixSlash, rest, rest)
    BY <1>4, <2>1
  <2> QED BY <1>1, <2>2, NearFromNode DEF rest
<1>10. (out \o q) \o rest = out \o (q \o rest)
  BY <1>1, Regrouped
<1> HIDE DEF q
<1>11. \A s \in {(out \o q) \o rest} : \E w \in Seq(STRING) :
          /\ s = out \o w /\ Near(fixSlash, path, w)
          /\ ~fixSlash => \E x \in v[at] : Matched(x, d[at], w) # {}
  BY <1>2, <1>7, <1>8, <1>9, <1>10 DEF q
<1>12. Respells(v, d, at, fixSlash, path, out, {(out \o q) \o rest})
  BY <1>11, Zenon DEF Respells
<1> QED BY <1>3, <1>12, Zenon DEF q, rest

\* What is found above a catch-all.
LEMMA CatchAllRespells ==
    ASSUME NEW t, NEW d, NEW v, NEW H, Telling(t, d, v, H), NEW at \in 1..Len(t),
           NEW path \in Seq(STRING), Arrives(t, d, v, at, path), t[at].wildChild,
           t[at].nType = "catchAll", NEW out \in Seq(STRING), NEW fixSlash, Folding, Spellable(path)
    PROVE  Respells(v, d, at, fixSlash, path, out, {(out \o t[at].path) \o Left(t[at], path)})
<1>1. /\ InShape(t) /\ Spells(t, d, v, H, 0, 0) /\ at # 0 /\ t \in Seq(Node)
  <2>1. InShape(t) /\ Spells(t, d, v, H, 0, 0) /\ t \in Seq(Node)
    BY DEF Telling, InShape
  <2> QED BY <2>1, Places
<1>2. t[at].path = <<>> /\ Len(<<>>) = 0
  BY <1>1 DEF Spells, Kinds
<1>3. PICK r \in v[at] : Lower[path[1]] = Lower[r[d[at] + 1]]
  BY DEF Arrives
<1>4. r[d[at] + 1] = Slash
  BY <1>1, SlashBehindMarker
<1>5. path[1] = Slash /\ path # <<>>
  <2>1. path # <<>> /\ 1 \in 1..Len(path)
    BY DEF Arrives
  <2> QED BY <1>3, <1>4, <2>1 DEF Folding, Spellable
<1>6. Matched(r, d[at], path) # {}
  <2>1. <<>> \in Seq(Param)
    OBVIOUS
  <2> QED BY <1>5, <2>1, CatchAllDecides
<1>7. Near(fixSlash, path, path)
  BY DEF Near, Alike
<1>8. Left(t[at], path) = path
  <2>1. Left(t[at], path) = From(path, 1)
    BY <1>2 DEF Left
  <2> QED BY <2>1 DEF From
<1>9. out \o t[at].path = out
  BY <1>2
<1>10. \A s \in {out \o path} : \E w \in Seq(STRING) :
          /\ s = out \o w /\ Near(fixSlash, path, w)
          /\ ~fixSlash => \E x \in v[at] : Matched(x, d[at], w) # {}
  BY <1>6, <1>7
<1>11. Respells(v, d, at, fixSlash, path, out, {out \o path})
  BY <1>10, Zenon DEF Respells
<1> QED BY <1>8, <1>9, <1>11

LEMMA OneRespelled ==
    ASSUME NEW v, NEW d, NEW at, NEW path, NEW out, NEW s, NEW w \in Seq(STRING), s = out \o w,
           Near(TRUE, path, w)
    PROVE  Respells(v, d, at, TRUE, path, out, {s})
BY DEF Respells

LEMMA OneByte ==
    ASSUME NEW p \in Seq(STRING), Len(p) = 1, NEW c, p[1] = c
    PROVE  p = <<c>>
OBVIOUS

\* A node whose path is one slash longer than what is left.
LEMMA LongerNear ==
    ASSUME NEW t, NEW d, NEW v, NEW H, Telling(t, d, v, H), NEW at \in 1..Len(t),
           NEW path \in Seq(STRING), Arrives(t, d, v, at, path), Slash \in STRING,
           Len(t[at].path) = Len(path) + 1, t[at].path[Len(t[at].path)] = Slash,
           Fold(Tail(path)) = Fold(SubSeq(t[at].path, 2, Len(t[at].path) - 1))
    PROVE  t[at].path \in Seq(STRING) /\ Near(TRUE, path, t[at].path)
<1> DEFINE q == t[at].path
           m == Len(path)
           u == Append(path, Slash)
<1>1. q \in Seq(STRING)
  <2>1. t[at] \in Node
    BY NodeReached DEF Arrives
  <2> QED BY <2>1, FieldTypes
<1>2. q # <<>> => Lower[q[1]] = Lower[path[1]]
  BY PathBegins
<1>3. /\ Len(q) = m + 1 /\ q[Len(q)] = Slash /\ path # <<>>
      /\ Fold(Tail(path)) = Fold(SubSeq(q, 2, Len(q) - 1))
  BY DEF Arrives
<1> HIDE DEF q
<1>4. m \in Nat /\ m > 0 /\ Len(q) - 1 = m /\ q # <<>> /\ m <= Len(path) /\ m <= Len(q)
  BY <1>1, <1>3
<1>5. Tail(path) = SubSeq(path, 2, m)
  BY <1>3
<1>6. \A k \in 2..m : Lower[q[k]] = Lower[path[k]]
  <2>1. Fold(SubSeq(path, 2, m)) = Fold(SubSeq(q, 2, m))
    BY <1>3, <1>4, <1>5
  <2> HIDE DEF m
  <2> QED BY <1>1, <1>4, <2>1, FoldedBytes
<1>7. /\ Len(u) = m + 1 /\ \A k \in 1..m : u[k] = path[k]
      /\ u[m + 1] = Slash
  <2>1. Longer(u, path, Slash)
    BY AppendLonger
  <2> HIDE DEF u
  <2> QED BY <2>1 DEF Longer
<1> HIDE DEF m, u
<1>8. ASSUME NEW k \in 1..Len(u) PROVE Lower[q[k]] = Lower[u[k]]
  <2>1. CASE k = 1
    BY <1>2, <1>4, <1>7, <2>1
  <2>2. CASE k = m + 1
    BY <1>3, <1>7, <2>2
  <2>3. CASE k # 1 /\ k # m + 1
    <3>1. k \in 2..m /\ k \in 1..m
      BY <1>4, <1>7, <2>3
    <3> QED BY <1>6, <1>7, <3>1
  <2> QED BY <2>1, <2>2, <2>3
<1>9. Alike(u, q)
  BY <1>3, <1>7, <1>8 DEF Alike
<1> QED BY <1>1, <1>9 DEF Near, u, q

LEMMA ToggledRespells ==
    ASSUME NEW t, NEW d, NEW v, NEW H, Telling(t, d, v, H), NEW at \in 1..Len(t),
           NEW path \in Seq(STRING), Arrives(t, d, v, at, path), Slash \in STRING,
           NEW out \in Seq(STRING), NEW found, SlashToggled(t, t[at], path, out, found)
    PROVE  Respells(v, d, at, TRUE, path, out, found)
<1> DEFINE n == t[at]
           q == n.path
           rest == Left(n, path)
           value == SegmentOfRest(rest)
           later == SegmentRest(rest)
           past == Len(q) <= Len(path) /\ Fold(SubSeq(path, 2, Len(q))) = Fold(From(q, 2))
           z == <<>>
           y == <<Slash>>
<1>1. \/ path = y /\ found = {out}
      \/ /\ Len(q) = Len(path) + 1 /\ q[Len(q)] = Slash
         /\ Fold(Tail(path)) = Fold(SubSeq(q, 2, Len(q) - 1)) /\ found = {out \o q}
      \/ past /\ rest = z /\ found = {Append(out \o q, Slash)}
      \/ past /\ rest = y /\ found = {out \o q}
      \/ past /\ later # z /\ Len(later) = 1 /\ found = {(out \o q) \o value} /\ rest # z
      \/ past /\ later = z /\ found = {((out \o q) \o value) \o y}
  BY Zenon DEF SlashToggled, PastNode
<1>2. past => Starts(q, path)
  BY PathSpeltAlike
<1>3. /\ z \in Seq(STRING) /\ y \in Seq(STRING) /\ Near(TRUE, y, z) /\ Near(TRUE, z, y)
  BY SlashApart
<1>4. \A a \in Seq(STRING) : a \o z = a /\ Append(a, Slash) = a \o y /\ Append(a, Slash) \in Seq(STRING)
  <2> SUFFICES ASSUME NEW a \in Seq(STRING)
               PROVE a \o z = a /\ Append(a, Slash) = a \o y /\ Append(a, Slash) \in Seq(STRING)
    OBVIOUS
  <2>1. Append(a, Slash) \in Seq(STRING)
    BY AppendIs
  <2>2. Append(a, Slash) = a \o <<Slash>>
    BY AppendIsConcat
  <2>3. a \o <<>> = a
    OBVIOUS
  <2> QED BY <2>1, <2>2, <2>3, Zenon
<1>5. n \in Node /\ q \in Seq(STRING) /\ Reachable(t[at])
  <2>1. t[at] \in Node /\ Reachable(t[at])
    BY NodeReached DEF Arrives
  <2> QED BY <2>1, FieldTypes
<1>6. past => rest \in Seq(STRING)
  BY <1>5, LeftBehind
<1>7. ASSUME past, NEW w \in Seq(STRING), Near(TRUE, rest, w)
      PROVE  q \o w \in Seq(STRING) /\ Near(TRUE, path, q \o w)
  BY <1>2, <1>5, <1>7, NearFromNode
<1>8. ASSUME past, NEW w \in Seq(STRING), Near(TRUE, later, w)
      PROVE  value \o w \in Seq(STRING) /\ q \o (value \o w) \in Seq(STRING) /\ Near(TRUE, path, q \o (value \o w))
  <2>1. value \o w \in Seq(STRING) /\ Near(TRUE, rest, value \o w)
    <3> HIDE DEF past, rest
    <3> QED BY <1>6, <1>8, NearFromSegment
  <2> DEFINE u == value \o w
  <2> HIDE DEF u, past
  <2>2. q \o u \in Seq(STRING) /\ Near(TRUE, path, q \o u)
    BY <1>7, <1>8, <2>1 DEF u
  <2> QED BY <2>1, <2>2 DEF u
<1>9. past => value \in Seq(STRING) /\ later \in Seq(STRING) /\ (later # z => later[1] = Slash)
  <2> HIDE DEF rest, past
  <2> QED BY <1>6, SegmentSplits DEF z
<1>10. CASE path = y /\ found = {out}
  <2>1. out = out \o z
    BY <1>4
  <2> HIDE DEF y, z
  <2> QED BY <1>3, <1>10, <2>1, OneRespelled
<1>11. CASE /\ Len(q) = Len(path) + 1 /\ q[Len(q)] = Slash
            /\ Fold(Tail(path)) = Fold(SubSeq(q, 2, Len(q) - 1)) /\ found = {out \o q}
  <2>1. Near(TRUE, path, q)
    BY <1>11, LongerNear
  <2> HIDE DEF q
  <2> QED BY <1>5, <1>11, <2>1, OneRespelled
<1> HIDE DEF past, rest, value, later
<1>12. CASE past /\ rest = z /\ found = {Append(out \o q, Slash)}
  <2>1. q \o y \in Seq(STRING) /\ Near(TRUE, path, q \o y)
    BY <1>3, <1>7, <1>12
  <2> HIDE DEF q, y, z
  <2>2. Append(out \o q, Slash) = out \o (q \o y)
    <3> DEFINE a == out \o q
    <3>1. a \in Seq(STRING)
      BY <1>5, ConcatProperties
    <3>2. (out \o q) \o y = out \o (q \o y)
      BY <1>3, <1>5, Regrouped
    <3> HIDE DEF a
    <3>3. Append(a, Slash) = a \o y
      BY <1>4, <3>1
    <3> QED BY <3>2, <3>3 DEF a
  <2>3. Respells(v, d, at, TRUE, path, out, {Append(out \o q, Slash)})
    <3> DEFINE w == q \o y
               s == Append(out \o q, Slash)
    <3>1. w \in Seq(STRING) /\ s = out \o w /\ Near(TRUE, path, w)
      BY <2>1, <2>2
    <3> HIDE DEF w, s
    <3>2. Respells(v, d, at, TRUE, path, out, {s})
      BY <3>1, OneRespelled
    <3> QED BY <3>2 DEF s
  <2> QED BY <1>12, <2>3
<1>13. CASE past /\ rest = y /\ found = {out \o q}
  <2>1. q \o z \in Seq(STRING) /\ Near(TRUE, path, q \o z)
    BY <1>3, <1>7, <1>13
  <2>2. q \o z = q
    BY <1>4, <1>5
  <2> HIDE DEF q, y, z
  <2>3. Near(TRUE, path, q)
    BY <2>1, <2>2
  <2> QED BY <1>5, <1>13, <2>3, OneRespelled
<1>14. CASE past /\ later # z /\ Len(later) = 1 /\ found = {(out \o q) \o value} /\ rest # z
  <2>1. later = y
    <3>1. later[1] = Slash /\ later \in Seq(STRING) /\ Len(later) = 1
      BY <1>9, <1>14
    <3> QED BY <3>1, OneByte
  <2>2. q \o (value \o z) \in Seq(STRING) /\ Near(TRUE, path, q \o (value \o z))
    BY <1>3, <1>8, <1>14, <2>1
  <2>3. value \o z = value
    BY <1>4, <1>9, <1>14
  <2>4. value \in Seq(STRING)
    BY <1>9, <1>14
  <2> HIDE DEF q, y, z
  <2>5. q \o value \in Seq(STRING) /\ Near(TRUE, path, q \o value)
    BY <2>2, <2>3
  <2>6. (out \o q) \o value = out \o (q \o value)
    BY <1>5, <2>4, Regrouped
  <2>7. Respells(v, d, at, TRUE, path, out, {(out \o q) \o value})
    <3> DEFINE w == q \o value
               s == (out \o q) \o value
    <3>1. w \in Seq(STRING) /\ s = out \o w /\ Near(TRUE, path, w)
      BY <2>5, <2>6
    <3> HIDE DEF w, s
    <3>2. Respells(v, d, at, TRUE, path, out, {s})
      BY <3>1, OneRespelled
    <3> QED BY <3>2 DEF s
  <2> QED BY <1>14, <2>7
<1>15. CASE past /\ later = z /\ found = {((out \o q) \o value) \o y}
  <2>1. value \o y \in Seq(STRING) /\ q \o (value \o y) \in Seq(STRING) /\ Near(TRUE, path, q \o (value \o y))
    BY <1>3, <1>8, <1>15
  <2>2. value \in Seq(STRING)
    BY <1>9, <1>15
  <2> HIDE DEF q, y, z
  <2>3. ((out \o q) \o value) \o y = out \o (q \o (value \o y))
    <3> DEFINE x == out \o q
               u == value \o y
    <3>2. x \in Seq(STRING) /\ u \in Seq(STRING)
      BY <1>5, <2>1, ConcatProperties
    <3>3. x \o u = out \o (q \o u)
      <4> HIDE DEF u
      <4>1. Regroups(out, q, u)
        BY <1>5, <3>2, AllRegroup
      <4> QED BY ONLY <4>1 DEF Regroups, x
    <3> HIDE DEF x
    <3>4. (x \o value) \o y = x \o (value \o y)
      <4> HIDE DEF u
      <4>1. x \in Seq(STRING) /\ value \in Seq(STRING) /\ y \in Seq(STRING)
        BY <1>3, <2>2, <3>2
      <4>2. Regroups(x, value, y)
        BY <4>1, AllRegroup
      <4> QED BY ONLY <4>2 DEF Regroups
    <3> QED BY <3>3, <3>4 DEF x, u
  <2>4. Respells(v, d, at, TRUE, path, out, {((out \o q) \o value) \o y})
    <3> DEFINE w == q \o (value \o y)
               s == ((out \o q) \o value) \o y
    <3>1. w \in Seq(STRING) /\ s = out \o w /\ Near(TRUE, path, w)
      BY <2>1, <2>3
    <3> HIDE DEF w, s
    <3>2. Respells(v, d, at, TRUE, path, out, {s})
      BY <3>1, OneRespelled
    <3> QED BY <3>2 DEF s
  <2> QED BY <1>15, <2>4
<1> QED BY <1>1, <1>10, <1>11, <1>12, <1>13, <1>14, <1>15

LEMMA SpellableFrom ==
    ASSUME NEW p \in Seq(STRING), Spellable(p), NEW k \in 1..Len(p) + 1
    PROVE  Spellable(From(p, k))
<1> DEFINE s == From(p, k)
<1>1. Len(p) \in Nat
  OBVIOUS
<1>2. Len(s) = Len(p) - k + 1 /\ \A j \in 1..Len(p) - k + 1 : s[j] = p[k + j - 1]
  BY TailOf
<1> HIDE DEF s
<1>3. ASSUME NEW j \in 1..Len(s) PROVE s[j] \in DOMAIN Lower
  <2>1. s[j] = p[k + j - 1] /\ k + j - 1 \in 1..Len(p)
    BY <1>1, <1>2
  <2> QED BY <2>1 DEF Spellable
<1>4. Spellable(s)
  BY <1>3 DEF Spellable
<1> QED BY <1>4 DEF s

\* What a search below a limit finds respells what it looks for.
RespellsBelow(t, d, v, fixSlash, find, limit) ==
    \A g \in 1..Len(t), p \in Seq(STRING), o \in Seq(STRING), b \in Seq(STRING) :
        Arrives(t, d, v, g, p) /\ Spellable(p) /\ Len(b) <= 1 /\ Remaining(t[g], p) < limit =>
            Respells(v, d, g, fixSlash, p, o, find[<<g, p, o, b>>])

\* What a search finds behind a byte.
LEMMA ByteRespells ==
    ASSUME NEW t, NEW d, NEW v, NEW H, Telling(t, d, v, H), NEW at \in 1..Len(t),
           \A i \in 1..Len(t) : v[i] # {},
           NEW path \in Seq(STRING), Arrives(t, d, v, at, path), Slash \in STRING, Folding,
           Spellable(path), NEW out \in Seq(STRING), NEW rb \in Seq(STRING), Len(rb) <= 1,
           NEW fixSlash, NEW find,
           RespellsBelow(t, d, v, fixSlash, find, Remaining(t[at], path)),
           PastNode(t[at], path), ~t[at].wildChild, NEW b, ChildFor(t[at], b) # 0,
           IF Len(rb) > Len(t[at].path) THEN b = rb[Len(t[at].path) + 1]
           ELSE t[at].path # <<>> => b \in {Lower[Left(t[at], path)[1]], Upper[Left(t[at], path)[1]]}
    PROVE  Respells(v, d, at, fixSlash, path, out, find[ByteSearch(t[at], path, out, b)])
<1> DEFINE n == t[at]
           q == n.path
           rest == Left(n, path)
           c == ChildFor(n, b)
           e == d[at] + Len(q)
           s == out \o q
<1>1. /\ n \in Node /\ q \in Seq(STRING) /\ d[at] \in Nat /\ Reachable(n) /\ Starts(q, path)
      /\ rest # <<>> /\ Len(q) <= Len(path)
  <2>1. n \in Node /\ d[at] \in Nat /\ Reachable(n)
    BY NodeReached DEF Arrives
  <2>2. Starts(q, path) /\ rest # <<>> /\ Len(q) <= Len(path)
    BY PathSpeltAlike DEF PastNode
  <2>3. q \in Seq(STRING)
    BY <2>1, FieldTypes
  <2> QED BY <2>1, <2>2, <2>3
<1>2. /\ rest \in Seq(STRING) /\ Len(q) \in Nat /\ Len(path) \in Nat /\ rest = From(path, Len(q) + 1)
      /\ Len(rest) > 0
  BY <1>1, LeftBehind DEF Left
<1>3. Spellable(rest)
  <2> DEFINE k == Len(q) + 1
  <2>1. k \in 1..Len(path) + 1 /\ rest = From(path, k)
    BY <1>1, <1>2
  <2> HIDE DEF k, rest
  <2> QED BY <2>1, SpellableFrom
<1>4. /\ c \in 1..Len(t) /\ Reachable(t[c]) /\ d[c] = e /\ v[c] \subseteq v[at]
      /\ \A r \in v[c] : r[e + 1] = b
  <2>1. BehindByte(t, d, v, at, b)
    BY <1>1, RoutesBehindByte
  <2> QED BY <2>1 DEF BehindByte
<1>5. ByteSearch(n, path, out, b) = <<c, rest, s, <<b>>>>
  BY DEF ByteSearch
<1>6. /\ ByteSearch(n, path, out, b) \in Searches(t)
      /\ Remaining(t[c], rest) < Remaining(n, path)
  <2>1. LET g == ByteSearch(n, path, out, b)
        IN  g \in Searches(t) /\ Remaining(t[g[1]], g[2]) < Remaining(t[at], path)
    BY SearchGoesDown
  <2> HIDE DEF c, rest, s, n
  <2> QED BY <1>5, <2>1 DEF n
<1>7. s \in Seq(STRING) /\ <<b>> \in Seq(STRING) /\ Len(<<b>>) <= 1
  <2> DEFINE w == <<b>>
  <2>1. Len(w) <= 1
    OBVIOUS
  <2>2. <<c, rest, s, w>> \in Searches(t)
    BY <1>5, <1>6, Zenon
  <2> HIDE DEF c, rest, s, w
  <2>3. s \in Seq(STRING) /\ w \in Seq(STRING)
    BY <2>2 DEF Searches
  <2> QED BY <2>1, <2>3 DEF w
<1>8. ASSUME NEW r \in v[c] PROVE Lower[rest[1]] = Lower[r[d[c] + 1]]
  <2>1. CASE q = <<>>
    <3>1. Len(q) = 0
      BY <2>1
    <3>2. rest = path /\ d[c] = d[at]
      <4>1. From(path, 1) = path
        BY DEF From
      <4> HIDE DEF rest, c, q
      <4> QED BY <1>1, <1>2, <1>4, <3>1, <4>1
    <3> HIDE DEF rest, c
    <3>3. r \in v[at]
      BY <1>4, <1>8
    <3> QED BY <3>2, <3>3 DEF Arrives
  <2>2. CASE q # <<>>
    <3>1. ~(Len(rb) > Len(q))
      <4>1. Len(q) # 0 /\ Len(rb) \in Nat
        <5> HIDE DEF q
        <5> QED BY <1>1, <2>2
      <4> QED BY <1>2, <4>1
    <3>2. b \in {Lower[rest[1]], Upper[rest[1]]}
      BY <2>2, <3>1
    <3>3. rest[1] \in DOMAIN Lower
      <4>1. 1 \in 1..Len(rest)
        BY <1>2
      <4> HIDE DEF rest
      <4> QED BY <1>3, <4>1 DEF Spellable
    <3> HIDE DEF rest, c, e
    <3>4. Lower[b] = Lower[rest[1]]
      BY <3>2, <3>3 DEF Folding
    <3> QED BY <1>4, <1>8, <3>4
  <2> QED BY <2>1, <2>2
<1>9. Arrives(t, d, v, c, rest)
  <2>1. v[c] # {} /\ Reachable(t[c]) /\ rest # <<>>
    BY <1>1, <1>4
  <2> HIDE DEF c, rest
  <2> QED BY <1>8, <2>1 DEF Arrives
<1> HIDE DEF c, e, s
<1>10. Respells(v, d, c, fixSlash, rest, s, find[<<c, rest, s, <<b>>>>])
  <2>1. Remaining(t[c], rest) < Remaining(t[at], path) /\ c \in 1..Len(t)
    BY <1>4, <1>6
  <2> HIDE DEF rest, n
  <2> QED BY <1>2, <1>3, <1>7, <1>9, <2>1 DEF RespellsBelow
<1> DEFINE found == find[<<c, rest, s, <<b>>>>]
<1>11. d[c] = d[at] + Len(t[at].path) /\ v[c] \subseteq v[at] /\ Reachable(t[at]) /\ Starts(t[at].path, path)
  BY <1>1, <1>4 DEF e
<1>12. Respells(v, d, c, fixSlash, Left(t[at], path), out \o t[at].path, found)
  BY <1>10 DEF s
<1> HIDE DEF found
<1>13. Respells(v, d, at, fixSlash, path, out, found)
  BY <1>11, <1>12, RespelledAbove
<1> QED BY <1>5, <1>13 DEF found

\* What a search finds behind the value of a parameter.
LEMMA WildRespells ==
    ASSUME NEW t, NEW d, NEW v, NEW H, Telling(t, d, v, H), NEW at \in 1..Len(t),
           \A i \in 1..Len(t) : v[i] # {},
           NEW path \in Seq(STRING), Arrives(t, d, v, at, path), Slash \in STRING,
           Spellable(path), NEW out \in Seq(STRING), NEW rb \in Seq(STRING), Len(rb) <= 1,
           NEW fixSlash, NEW find,
           RespellsBelow(t, d, v, fixSlash, find, Remaining(t[at], path)),
           PastNode(t[at], path), t[at].wildChild, t[at].nType # "catchAll",
           t[t[at].children[1]].nType # "catchAll", t[t[at].children[1]].children # <<>>,
           SegmentRest(Left(t[at], path)) # <<>>
    PROVE  Respells(v, d, at, fixSlash, path, out, find[WildSearch(t, t[at], path, out, rb)])
<1> DEFINE n == t[at]
           q == n.path
           rest == Left(n, path)
           value == SegmentOfRest(rest)
           later == SegmentRest(rest)
           c == n.children[1]
           g == t[c].children[1]
           e == d[at] + Len(q)
           s == (out \o q) \o value
           found == find[WildSearch(t, n, path, out, rb)]
<1>1. /\ n \in Node /\ q \in Seq(STRING) /\ d[at] \in Nat /\ Reachable(n) /\ Starts(q, path)
      /\ Len(q) <= Len(path)
  <2>1. n \in Node /\ d[at] \in Nat /\ Reachable(n)
    BY NodeReached DEF Arrives
  <2>2. Starts(q, path) /\ Len(q) <= Len(path)
    BY PathSpeltAlike DEF PastNode
  <2>3. q \in Seq(STRING)
    BY <2>1, FieldTypes
  <2> QED BY <2>1, <2>2, <2>3
<1>2. /\ rest \in Seq(STRING) /\ Len(q) \in Nat /\ Len(path) \in Nat /\ rest = From(path, Len(q) + 1)
  BY <1>1, LeftBehind DEF Left
<1>3. Spellable(rest)
  <2> DEFINE k == Len(q) + 1
  <2>1. k \in 1..Len(path) + 1 /\ rest = From(path, k)
    BY <1>1, <1>2
  <2> HIDE DEF k, rest
  <2> QED BY <2>1, SpellableFrom
<1>4. /\ value \in Seq(STRING) /\ later \in Seq(STRING) /\ later = From(rest, Len(value) + 1)
      /\ Len(value) <= Len(rest) /\ later # <<>> /\ later[1] = Slash
  <2> HIDE DEF rest
  <2> QED BY <1>2, SegmentSplits DEF Starts, rest
<1>5. Spellable(later)
  <2> DEFINE k == Len(value) + 1
  <2> HIDE DEF rest, value, later
  <2>1. k \in 1..Len(rest) + 1 /\ later = From(rest, k)
    BY <1>2, <1>4
  <2> HIDE DEF k
  <2> QED BY <1>2, <1>3, <2>1, SpellableFrom
<1>6. /\ g \in 1..Len(t) /\ Reachable(t[g])
      /\ \A r \in v[g] : r[d[g] + 1] = Slash
  <2> DEFINE f == e
             b == c
  <2>1. f = d[at] + Len(t[at].path) /\ b = t[at].children[1] /\ g = t[b].children[1] /\ t[b].children # <<>>
    OBVIOUS
  <2> HIDE DEF f, b
  <2>2. ToParam(t, d, v, at, b, f)
    BY <1>1, <2>1, ParamReached
  <2> HIDE DEF g
  <2>3. /\ f \in Nat /\ g \in 1..Len(t) /\ Reachable(t[g]) /\ d[g] = f + 1
        /\ \A r \in v[g] : r[f + 2] = Slash
    BY <2>1, <2>2 DEF ToParam
  <2>4. (f + 1) + 1 = f + 2
    BY <2>3
  <2> QED BY <2>3, <2>4
<1>7. WildSearch(t, n, path, out, rb) = <<g, later, s, rb>>
  BY DEF WildSearch
<1>8. Remaining(t[g], later) < Remaining(n, path)
  <2>1. LET x == WildSearch(t, n, path, out, rb)
        IN  Remaining(t[x[1]], x[2]) < Remaining(t[at], path)
    BY SearchGoesDown
  <2> HIDE DEF g, later, s, n
  <2> QED BY <1>7, <2>1 DEF n
<1>9. s \in Seq(STRING)
  <2> HIDE DEF value, q
  <2> QED BY <1>1, <1>4
<1>10. Arrives(t, d, v, g, later)
  <2> HIDE DEF later, g
  <2> QED BY <1>4, <1>6 DEF Arrives
<1>11. Respells(v, d, g, fixSlash, later, s, found)
  <2>1. g \in 1..Len(t) /\ Remaining(t[g], later) < Remaining(t[at], path)
    BY <1>6, <1>8
  <2>2. later \in Seq(STRING) /\ s \in Seq(STRING) /\ found = find[<<g, later, s, rb>>]
    BY <1>4, <1>7, <1>9
  <2>3. Arrives(t, d, v, g, later) /\ Spellable(later)
    BY <1>5, <1>10
  <2> HIDE DEF found, g, later, s, n
  <2>4. Respells(v, d, g, fixSlash, later, s, find[<<g, later, s, rb>>])
    BY <2>1, <2>2, <2>3 DEF RespellsBelow
  <2> QED BY <2>2, <2>4
<1> HIDE DEF found
<1>12. /\ value = SegmentOfRest(Left(t[at], path)) /\ later = SegmentRest(Left(t[at], path))
       /\ g = t[t[at].children[1]].children[1] /\ Reachable(t[at]) /\ Starts(t[at].path, path)
       /\ Len(t[at].path) <= Len(path)
       /\ Respells(v, d, g, fixSlash, later, (out \o t[at].path) \o value, found)
  BY <1>1, <1>11
<1> HIDE DEF value, later, g
<1>13. Respells(v, d, at, fixSlash, path, out, found)
  BY <1>12, RespelledBehindParam
<1> QED BY <1>13 DEF found

\* What kind of node is below one with a wildcard.
LEMMA BelowIs ==
    ASSUME NEW t, NEW d, NEW v, NEW H, Telling(t, d, v, H), NEW at \in 1..Len(t), t[at].wildChild
    PROVE  t[at].nType = "catchAll" <=> t[t[at].children[1]].nType = "catchAll"
<1>1. InShape(t) /\ Spells(t, d, v, H, 0, 0)
  BY DEF Telling
<1>2. Fits(t, t[at]) /\ Kinds(t, t[at])
  BY <1>1, Places DEF InShape, Spells
<1>3. Len(t[at].children) = 1 /\ 1 \in 1..Len(t[at].children)
  BY <1>2 DEF Fits
<1> QED BY <1>2, <1>3 DEF Kinds

\* A turn finds what respells its path, if what it goes on with does.
LEMMA TurnRespells ==
    ASSUME NEW t, NEW d, NEW v, NEW H, Telling(t, d, v, H), NEW at \in 1..Len(t),
           \A i \in 1..Len(t) : v[i] # {},
           NEW path \in Seq(STRING), Arrives(t, d, v, at, path), Slash \in STRING, Folding,
           Spellable(path), NEW out \in Seq(STRING), NEW rb \in Seq(STRING), Len(rb) <= 1,
           NEW fixSlash \in BOOLEAN, NEW find,
           RespellsBelow(t, d, v, fixSlash, find, Remaining(t[at], path))
    PROVE  Respells(v, d, at, fixSlash, path, out, SearchTurn(t, fixSlash, find, at, path, out, rb))
<1> DEFINE n == t[at]
           q == n.path
           rest == Left(n, path)
           below == t[n.children[1]]
           value == SegmentOfRest(rest)
           later == SegmentRest(rest)
           past == Len(q) <= Len(path) /\ Fold(SubSeq(path, 2, Len(q))) = Fold(From(q, 2))
           ciPath == out \o q
           found == SearchTurn(t, fixSlash, find, at, path, out, rb)
           byte(b) == IF Len(rb) > Len(q) THEN b = rb[Len(q) + 1]
                      ELSE q # <<>> => b \in {Lower[rest[1]], Upper[rest[1]]}
<1>1. n \in Node /\ q \in Seq(STRING) /\ Reachable(n)
  <2>1. n \in Node /\ Reachable(n)
    BY NodeReached DEF Arrives
  <2> QED BY <2>1, FieldTypes
<1>2. Len(q) \in Nat /\ Len(path) \in Nat /\ (q = <<>> <=> Len(q) = 0)
  <2> HIDE DEF q
  <2> QED BY <1>1
<1>3. SearchIs(t, fixSlash, find, n, path, out, rb, found)
  BY <1>2, SearchTurnIs
<1> SUFFICES Respells(v, d, at, fixSlash, path, out, found)
  OBVIOUS
<1> HIDE DEF found
<1>4. \/ found = {}
      \/ fixSlash /\ SlashToggled(t, n, path, out, found)
      \/ past /\ rest = <<>> /\ n.handle # NoHandle /\ found = {ciPath}
      \/ /\ PastNode(n, path) /\ ~n.wildChild
         /\ \E b : ChildFor(n, b) # 0 /\ found = find[ByteSearch(n, path, out, b)] /\ byte(b)
      \/ PastNode(n, path) /\ n.wildChild /\ below.nType = "catchAll" /\ found = {ciPath \o rest}
      \/ /\ PastNode(n, path) /\ n.wildChild /\ below.nType # "catchAll"
         /\ later # <<>> /\ below.children # <<>> /\ found = find[WildSearch(t, n, path, out, rb)]
      \/ /\ PastNode(n, path) /\ n.wildChild /\ below.nType # "catchAll"
         /\ later = <<>> /\ below.handle # NoHandle /\ found = {ciPath \o value}
  BY <1>3, Zenon DEF SearchIs
<1>5. past => Starts(q, path)
  BY PathSpeltAlike
<1>6. PastNode(n, path) => past /\ rest # <<>>
  BY DEF PastNode
<1>7. n.wildChild => (n.nType = "catchAll" <=> below.nType = "catchAll")
  BY BelowIs
<1>8. CASE found = {}
  BY <1>8 DEF Respells
<1>9. CASE fixSlash /\ SlashToggled(t, n, path, out, found)
  <2>1. fixSlash = TRUE
    BY <1>9
  <2>2. Respells(v, d, at, TRUE, path, out, found)
    BY <1>9, ToggledRespells
  <2> QED BY <2>1, <2>2
<1>10. CASE past /\ rest = <<>> /\ n.handle # NoHandle /\ found = {ciPath}
  BY <1>5, <1>10, EndRespells
<1>11. CASE /\ PastNode(n, path) /\ ~n.wildChild
            /\ \E b : ChildFor(n, b) # 0 /\ found = find[ByteSearch(n, path, out, b)] /\ byte(b)
  <2>1. PICK b : ChildFor(n, b) # 0 /\ found = find[ByteSearch(n, path, out, b)] /\ byte(b)
    BY <1>11
  <2>2. Respells(v, d, at, fixSlash, path, out, find[ByteSearch(t[at], path, out, b)])
    BY <1>11, <2>1, ByteRespells
  <2> QED BY <2>1, <2>2
<1>12. CASE PastNode(n, path) /\ n.wildChild /\ below.nType = "catchAll" /\ found = {ciPath \o rest}
  <2>1. t[at].nType = "catchAll" /\ t[at].wildChild
    BY <1>7, <1>12
  <2>2. Respells(v, d, at, fixSlash, path, out, {(out \o t[at].path) \o Left(t[at], path)})
    BY <2>1, CatchAllRespells
  <2> QED BY <1>12, <2>2
<1>13. CASE /\ PastNode(n, path) /\ n.wildChild /\ below.nType # "catchAll"
            /\ later # <<>> /\ below.children # <<>> /\ found = find[WildSearch(t, n, path, out, rb)]
  <2>1. n.nType # "catchAll"
    BY <1>7, <1>13
  <2>2. Respells(v, d, at, fixSlash, path, out, find[WildSearch(t, t[at], path, out, rb)])
    BY <1>13, <2>1, WildRespells
  <2> QED BY <1>13, <2>2
<1>14. CASE /\ PastNode(n, path) /\ n.wildChild /\ below.nType # "catchAll"
            /\ later = <<>> /\ below.handle # NoHandle /\ found = {ciPath \o value}
  <2>1. n.nType # "catchAll" /\ Starts(q, path) /\ rest # <<>>
    BY <1>5, <1>6, <1>7, <1>14
  <2>2. Respells(v, d, at, fixSlash, path, out, {(out \o t[at].path) \o SegmentOfRest(Left(t[at], path))})
    BY <1>1, <1>14, <2>1, ValueRespells
  <2> QED BY <1>14, <2>2
<1> HIDE DEF n, q, rest, below, value, later, past, ciPath, byte
<1> QED BY <1>4, <1>8, <1>9, <1>10, <1>11, <1>12, <1>13, <1>14, Zenon

LEMMA SearchesRespell ==
    ASSUME NEW t, NEW d, NEW v, NEW H, Telling(t, d, v, H), \A i \in 1..Len(t) : v[i] # {},
           Slash \in STRING, Folding, NEW fixSlash \in BOOLEAN, NEW find,
           SearchesAre(t, fixSlash, find), NEW limit \in Nat
    PROVE  RespellsBelow(t, d, v, fixSlash, find, limit)
<1> DEFINE P(k) == RespellsBelow(t, d, v, fixSlash, find, k)
           K == {k \in Nat : P(k)}
<1>1. \A n, p : p \in Seq(STRING) => Remaining(n, p) \in Nat
  BY DEF Remaining
<1>2. 0 \in K
  BY <1>1 DEF RespellsBelow
<1>3. ASSUME NEW k \in Nat, k \in K PROVE k + 1 \in K
  <2> SUFFICES ASSUME NEW g \in 1..Len(t), NEW p \in Seq(STRING), NEW o \in Seq(STRING),
                      NEW b \in Seq(STRING), Arrives(t, d, v, g, p), Spellable(p), Len(b) <= 1,
                      Remaining(t[g], p) < k + 1
               PROVE  Respells(v, d, g, fixSlash, p, o, find[<<g, p, o, b>>])
    BY <1>3 DEF RespellsBelow
  <2>1. RespellsBelow(t, d, v, fixSlash, find, Remaining(t[g], p))
    <3>1. P(k)
      BY <1>3
    <3>2. Remaining(t[g], p) <= k
      BY <1>1
    <3>3. \A f \in 1..Len(t), q \in Seq(STRING) : Remaining(t[f], q) < Remaining(t[g], p) => Remaining(t[f], q) < k
      BY <1>1, <3>2
    <3> QED BY <3>1, <3>3 DEF RespellsBelow
  <2>2. find[<<g, p, o, b>>] = SearchTurn(t, fixSlash, find, g, p, o, b)
    BY DEF SearchesAre
  <2>3. Respells(v, d, g, fixSlash, p, o, SearchTurn(t, fixSlash, find, g, p, o, b))
    BY <2>1, TurnRespells
  <2> QED BY <2>2, <2>3
<1> HIDE DEF K
<1>4. Nat \subseteq K
  BY <1>2, <1>3, NatSetInduction
<1> QED BY <1>4 DEF K

\* A tree in order tells of its routes, and every node is there for one.
LEMMA OrderedTold ==
    ASSUME NEW t, NEW H, Ordered(t), SpelledOut(t, H), Distinct
    PROVE  \E d, v : Telling(t, d, v, H) /\ \A i \in 1..Len(t) : v[i] # {}
<1>1. InShape(t) /\ Chained(t)
  <2>1. Tells(t, H)
    BY OrderedTells
  <2> QED BY <2>1 DEF Tells, Telling
<1>2. PICK d, v : Spells(t, d, v, H, 0, 0) /\ Through(v, Len(t), H)
  BY DEF SpelledOut
<1>3. Telling(t, d, v, H) /\ \A i \in 1..Len(t) : v[i] # {}
  BY <1>1, <1>2 DEF Telling, Through
<1> QED BY <1>3

(* The case-insensitive search finds only what the request spells, up to    *)
(* case and, where slashes are fixed, up to a slash at the end; where they  *)
(* are not, a held route matches it.                                        *)
LEMMA SearchRespells ==
    ASSUME NEW t, NEW H, Ordered(t), SpelledOut(t, H), Distinct, Held(H), Slash \in STRING, Folding,
           NEW fixSlash \in BOOLEAN, NEW request \in Seq(STRING), Spellable(request),
           request # <<>>, request[1] = Slash
    PROVE  \A q \in FindCaseInsensitivePath(t, request, fixSlash) :
               /\ q \in Seq(STRING) /\ Near(fixSlash, request, q)
               /\ ~fixSlash => \E r \in H : Match(r, q) # {}
<1>1. PICK d, v : Telling(t, d, v, H) /\ \A i \in 1..Len(t) : v[i] # {}
  BY OrderedTold
<1>2. PICK find : /\ SearchesAre(t, fixSlash, find)
                  /\ \A p : FindCaseInsensitivePath(t, p, fixSlash) = find[<<1, p, <<>>, <<>>>>]
  BY <1>1, SearchIsDefined
<1>3. 1 \in 1..Len(t) /\ Reachable(t[1]) /\ d[1] = 0 /\ v[1] = H
  <2>1. InShape(t) /\ t \in Seq(Node) /\ t # <<>> /\ t[1].nType \notin {"param", "catchAll"}
    BY <1>1 DEF Telling, InShape
  <2>2. 1 \in 1..Len(t)
    BY <2>1, Places
  <2> QED BY <1>1, <2>1, <2>2 DEF Telling, Spells, Reachable
<1>4. Arrives(t, d, v, 1, request)
  BY <1>1, <1>3 DEF Arrives, Held
<1> DEFINE found == FindCaseInsensitivePath(t, request, fixSlash)
           z == <<>>
<1>5. z \in Seq(STRING) /\ Len(z) <= 1 /\ \A q \in Seq(STRING) : z \o q = q
  OBVIOUS
<1>6. Respells(v, d, 1, fixSlash, request, z, found)
  <2>1. Remaining(t[1], request) \in Nat
    BY DEF Remaining
  <2> DEFINE limit == Remaining(t[1], request) + 1
  <2>2. limit \in Nat /\ Remaining(t[1], request) < limit
    BY <2>1
  <2>3. found = find[<<1, request, z, z>>]
    BY <1>2
  <2> HIDE DEF limit, z, found
  <2>4. RespellsBelow(t, d, v, fixSlash, find, limit)
    BY <1>1, <1>2, <2>2, SearchesRespell
  <2>5. Respells(v, d, 1, fixSlash, request, z, find[<<1, request, z, z>>])
    BY <1>3, <1>4, <1>5, <2>2, <2>4 DEF RespellsBelow
  <2> QED BY <2>3, <2>5
<1> HIDE DEF found, z
<1>7. \A q \in found : /\ q \in Seq(STRING) /\ Near(fixSlash, request, q)
                       /\ ~fixSlash => \E r \in H : Matched(r, 0, q) # {}
  <2> SUFFICES ASSUME NEW q \in found
               PROVE  /\ q \in Seq(STRING) /\ Near(fixSlash, request, q)
                      /\ ~fixSlash => \E r \in H : Matched(r, 0, q) # {}
    OBVIOUS
  <2>1. PICK w \in Seq(STRING) : /\ q = z \o w /\ Near(fixSlash, request, w)
                                 /\ ~fixSlash => \E r \in v[1] : Matched(r, d[1], w) # {}
    BY <1>6, Zenon DEF Respells
  <2>2. q = w
    BY <1>5, <2>1, Zenon
  <2> QED BY <1>3, <2>1, <2>2
<1>8. \A r \in H : \A q : Matched(r, 0, q) = Match(r, q)
  <2> SUFFICES ASSUME NEW r \in H, NEW q PROVE Matched(r, 0, q) = Match(r, q)
    OBVIOUS
  <2>1. r \in Seq(STRING)
    BY DEF Held
  <2>2. Rest(r, 0) = r
    BY <2>1 DEF Rest, From
  <2> QED BY <2>2 DEF Matched
<1> QED BY <1>7, <1>8 DEF found

\* What spells alike folds alike.
LEMMA AlikeFolds ==
    ASSUME NEW p \in Seq(STRING), NEW q \in Seq(STRING), Alike(p, q)
    PROVE  Fold(p) = Fold(q)
<1>1. DOMAIN p = 1..Len(p) /\ DOMAIN q = 1..Len(p)
  BY DEF Alike
<1>2. \A k \in 1..Len(p) : Lower[p[k]] = Lower[q[k]]
  BY DEF Alike
<1>3. Fold(p) = [k \in 1..Len(p) |-> Lower[p[k]]] /\ Fold(q) = [k \in 1..Len(p) |-> Lower[q[k]]]
  BY <1>1 DEF Fold
<1> DEFINE n == Len(p)
<1> HIDE DEF n
<1>4. [k \in 1..n |-> Lower[p[k]]] = [k \in 1..n |-> Lower[q[k]]]
  BY <1>2 DEF n
<1> QED BY <1>3, <1>4 DEF n

\* An empty tree finds nothing.
LEMMA NothingToFind ==
    ASSUME Distinct, Slash \in STRING, NEW request \in Seq(STRING)
    PROVE  FindCaseInsensitivePath(EmptyTree, request, FALSE) = {}
<1> DEFINE t == EmptyTree
           found == FindCaseInsensitivePath(t, request, FALSE)
           z == <<>>
<1>1. PICK d, v : Telling(t, d, v, {})
  BY EmptyTells DEF Tells
<1>2. PICK find : /\ SearchesAre(t, FALSE, find)
                  /\ \A p : FindCaseInsensitivePath(t, p, FALSE) = find[<<1, p, <<>>, <<>>>>]
  BY <1>1, SearchIsDefined
<1>3. Len(t) = 1 /\ t[1] = EmptyNode
  BY EmptyTreeInShape DEF EmptyTree
<1>4. /\ t[1].path = <<>> /\ t[1].indices = <<>> /\ t[1].children = <<>> /\ t[1].handle = NoHandle
      /\ Len(t[1].path) = 0 /\ ~t[1].wildChild /\ t[1].nType # "param" /\ Len(t[1].children) = 0
  BY <1>3, EmptyNodeIs DEF NoHandle
<1>5. found = SearchTurn(t, FALSE, find, 1, request, z, z)
  <2>1. 1 \in 1..Len(t) /\ z \in Seq(STRING)
    BY <1>3
  <2>2. found = find[<<1, request, z, z>>]
    BY <1>2
  <2> HIDE DEF z, t, found
  <2> QED BY <1>2, <2>1, <2>2 DEF SearchesAre
<1>6. \A b : ChildFor(t[1], b) = 0
  <2> SUFFICES ASSUME NEW b PROVE ChildFor(t[1], b) = 0
    OBVIOUS
  <2>1. t[1] \in Node
    BY <1>3, EmptyNodeIs
  <2> HIDE DEF t
  <2>2. IndexOf(t[1], b) \in 0..Len(t[1].indices)
    BY <2>1, IndexOfChild
  <2>3. Len(t[1].indices) = 0
    BY <1>4
  <2>4. IndexOf(t[1], b) = 0
    BY <2>2, <2>3
  <2> QED BY <2>4 DEF ChildFor
<1> HIDE DEF t, found, z
<1>7. SearchIs(t, FALSE, find, t[1], request, z, z, found)
  <2>1. Len(t[1].path) \in Nat /\ Len(request) \in Nat
    BY <1>4
  <2> QED BY <1>4, <1>5, <2>1, SearchTurnIs
<1>8. found = {}
  BY <1>4, <1>6, <1>7, Zenon DEF SearchIs
<1> QED BY <1>8 DEF found, t

-----------------------------------------------------------------------------
(* The bytes a search writes *)

\* The paths whose bytes all have a case; the static bytes of held routes do.
Spellings == {p \in Seq(STRING) : Spellable(p)}
Cased(H) == \A r \in H : \A k \in 1..Len(r) : r[k] \in Wildcards \cup DOMAIN Lower

LEMMA SpellingsJoin ==
    ASSUME NEW p \in Spellings, NEW q \in Spellings
    PROVE  p \o q \in Spellings
<1>1. p \in Seq(STRING) /\ q \in Seq(STRING) /\ Len(p) \in Nat /\ Len(q) \in Nat
  BY DEF Spellings
<1> DEFINE u == p \o q
<1>2. /\ u \in Seq(STRING) /\ Len(u) = Len(p) + Len(q)
      /\ \A k \in 1..Len(p) + Len(q) : u[k] = IF k <= Len(p) THEN p[k] ELSE q[k - Len(p)]
  BY <1>1, ConcatProperties
<1> HIDE DEF u
<1>3. ASSUME NEW k \in 1..Len(u) PROVE u[k] \in DOMAIN Lower
  <2>1. CASE k <= Len(p)
    <3>1. u[k] = p[k] /\ k \in 1..Len(p)
      BY <1>1, <1>2, <2>1
    <3> QED BY <3>1 DEF Spellings, Spellable
  <2>2. CASE ~(k <= Len(p))
    <3>1. u[k] = q[k - Len(p)] /\ k - Len(p) \in 1..Len(q)
      BY <1>1, <1>2, <2>2
    <3> QED BY <3>1 DEF Spellings, Spellable
  <2> QED BY <2>1, <2>2
<1>4. u \in Spellings
  BY <1>2, <1>3 DEF Spellings, Spellable
<1> QED BY <1>4 DEF u

LEMMA SpellingFrom ==
    ASSUME NEW p \in Spellings, NEW k \in 1..Len(p) + 1
    PROVE  From(p, k) \in Spellings
<1>1. p \in Seq(STRING) /\ Spellable(p)
  BY DEF Spellings
<1>2. From(p, k) \in Seq(STRING) /\ Spellable(From(p, k))
  BY <1>1, TailOf, SpellableFrom
<1> QED BY <1>2 DEF Spellings

LEMMA SlashIsASpelling ==
    ASSUME Slash \in STRING, Slash \in DOMAIN Lower
    PROVE  <<Slash>> \in Spellings /\ \A p \in Spellings : Append(p, Slash) \in Spellings
<1> DEFINE s == <<Slash>>
<1>1. s \in Seq(STRING) /\ Len(s) = 1 /\ s[1] = Slash
  BY SingletonSeq
<1>2. s \in Spellings
  <2> HIDE DEF s
  <2>1. ASSUME NEW k \in 1..Len(s) PROVE s[k] \in DOMAIN Lower
    <3>1. k = 1
      BY <1>1
    <3>2. s[k] = Slash
      BY <1>1, <3>1
    <3> QED BY <3>2, Zenon
  <2> QED BY <1>1, <2>1 DEF Spellings, Spellable
<1>3. ASSUME NEW p \in Spellings PROVE Append(p, Slash) \in Spellings
  <2>1. Append(p, Slash) = p \o s
    BY AppendIsConcat DEF Spellings
  <2> HIDE DEF s
  <2> QED BY <1>2, <2>1, SpellingsJoin
<1> QED BY <1>2, <1>3

\* A segment of a path and what is behind it.
LEMMA SegmentSpellings ==
    ASSUME NEW rest \in Spellings
    PROVE  SegmentOfRest(rest) \in Spellings /\ SegmentRest(rest) \in Spellings
<1> DEFINE i == SegmentEnd(rest)
           value == UpTo(rest, i)
<1>1. rest \in Seq(STRING) /\ Len(rest) \in Nat
  BY DEF Spellings
<1>2. i \in 0..Len(rest) /\ value \in Seq(STRING) /\ Len(value) = i
  BY <1>1, SegmentOf
<1> HIDE DEF i
<1>3. i + 1 \in 1..Len(rest) + 1
  BY <1>1, <1>2
<1>4. From(rest, i + 1) \in Spellings
  BY <1>3, SpellingFrom
<1>5. \A k \in 1..i : value[k] = rest[k]
  BY <1>1, <1>2 DEF UpTo
<1> HIDE DEF value
<1>6. value \in Spellings
  <2>1. \A k \in 1..i : k \in 1..Len(rest)
    BY <1>1, <1>2
  <2> QED BY <1>2, <1>5, <2>1 DEF Spellings, Spellable
<1> QED BY <1>4, <1>6 DEF SegmentOfRest, SegmentRest, i, value

\* The path of a node on which a search goes on is static, so its bytes are
\* those of a route through the node.
LEMMA NodeSpelling ==
    ASSUME NEW t, NEW d, NEW v, NEW H, Telling(t, d, v, H), Cased(H), NEW at \in 1..Len(t),
           v[at] # {}, Reachable(t[at])
    PROVE  t[at].path \in Spellings
<1> DEFINE q == t[at].path
           e == d[at] + Len(q)
<1>1. /\ t[at] \in Node /\ Plain(q) /\ d[at] \in Nat
      /\ \A r \in v[at] : r \in Seq(STRING) /\ Spelt(q, d[at], r)
  BY NodeReached
<1>2. q \in Seq(STRING)
  BY <1>1, FieldTypes
<1>3. PICK r : r \in v[at] /\ r \in H
  <2>1. v[at] \subseteq H
    BY DEF Telling
  <2> QED BY <2>1
<1> HIDE DEF q
<1>4. /\ Len(r) \in Nat /\ Len(q) \in Nat /\ Len(r) >= d[at] + Len(q)
      /\ \A k \in 1..Len(q) : r[d[at] + k] = q[k]
  BY <1>1, <1>2, <1>3 DEF Spelt
<1>5. ASSUME NEW k \in 1..Len(q) PROVE q[k] \in DOMAIN Lower
  <2>1. d[at] + k \in 1..Len(r)
    BY <1>1, <1>4
  <2>2. q[k] \in Wildcards \cup DOMAIN Lower
    BY <1>3, <1>4, <2>1 DEF Cased
  <2>3. q[k] \notin Wildcards
    BY <1>1 DEF Plain
  <2> QED BY <2>2, <2>3
<1> QED BY <1>2, <1>5 DEF Spellings, Spellable, q

\* What the searches below a limit find is spelled in bytes that have a case.
SpellsBelow(t, find, limit) ==
    \A g \in 1..Len(t), p \in Spellings, o \in Spellings, b \in Seq(STRING) :
        Reachable(t[g]) /\ Remaining(t[g], p) < limit => find[<<g, p, o, b>>] \in SUBSET Spellings

LEMMA TurnSpells ==
    ASSUME NEW t, NEW d, NEW v, NEW H, Telling(t, d, v, H), Cased(H), NEW at \in 1..Len(t),
           \A i \in 1..Len(t) : v[i] # {}, Reachable(t[at]), Slash \in STRING, Slash \in DOMAIN Lower,
           NEW path \in Spellings, NEW out \in Spellings, NEW rb \in Seq(STRING),
           NEW fixSlash \in BOOLEAN, NEW find, SpellsBelow(t, find, Remaining(t[at], path))
    PROVE  SearchTurn(t, fixSlash, find, at, path, out, rb) \in SUBSET Spellings
<1> DEFINE n == t[at]
           found == SearchTurn(t, fixSlash, find, at, path, out, rb)
           rest == Left(n, path)
           ciPath == out \o n.path
           value == SegmentOfRest(rest)
           later == SegmentRest(rest)
           c == n.children[1]
           g == t[c].children[1]
<1>1. n \in Node /\ n.path \in Spellings /\ n.path \in Seq(STRING)
  <2>1. n.path \in Spellings
    BY NodeSpelling
  <2>2. n \in Node
    BY Places DEF Telling, InShape
  <2> HIDE DEF n
  <2> QED BY <2>1, <2>2 DEF Spellings
<1>2. path \in Seq(STRING) /\ out \in Seq(STRING)
  BY DEF Spellings
<1>3. ciPath \in Spellings /\ Append(ciPath, Slash) \in Spellings /\ <<Slash>> \in Spellings
  <2>1. ciPath \in Spellings
    BY <1>1, SpellingsJoin
  <2> HIDE DEF ciPath
  <2> QED BY <2>1, SlashIsASpelling
<1>4. Len(n.path) \in Nat /\ Len(path) \in Nat /\ (n.path = <<>> <=> Len(n.path) = 0)
  <2> HIDE DEF n
  <2> QED BY <1>1, <1>2
<1>5. SearchIs(t, fixSlash, find, n, path, out, rb, found)
  BY <1>4, SearchTurnIs
<1>6. PastNode(n, path) =>
         /\ rest \in Spellings /\ value \in Spellings /\ later \in Spellings
         /\ ciPath \o rest \in Spellings
         /\ ciPath \o value \in Spellings /\ (ciPath \o value) \o <<Slash>> \in Spellings
  <2> SUFFICES ASSUME PastNode(n, path)
               PROVE  /\ rest \in Spellings /\ value \in Spellings /\ later \in Spellings
                      /\ ciPath \o rest \in Spellings
                      /\ ciPath \o value \in Spellings /\ (ciPath \o value) \o <<Slash>> \in Spellings
    OBVIOUS
  <2> DEFINE k == Len(n.path) + 1
  <2>1. k \in 1..Len(path) + 1 /\ rest = From(path, k)
    BY <1>4 DEF PastNode, Left
  <2> HIDE DEF k, rest
  <2>2. rest \in Spellings
    BY <2>1, SpellingFrom
  <2>3. value \in Spellings /\ later \in Spellings
    BY <2>2, SegmentSpellings
  <2> HIDE DEF value, ciPath, later
  <2>4. ciPath \o rest \in Spellings /\ ciPath \o value \in Spellings
    BY <1>3, <2>2, <2>3, SpellingsJoin
  <2> DEFINE u == ciPath \o value
             s == <<Slash>>
  <2>5. u \in Spellings /\ s \in Spellings
    BY <1>3, <2>4
  <2> HIDE DEF u, s
  <2>6. u \o s \in Spellings
    BY <2>5, SpellingsJoin
  <2> QED BY <2>2, <2>3, <2>4, <2>6 DEF u, s
<1>7. ASSUME PastNode(n, path), ~n.wildChild, NEW b, ChildFor(n, b) # 0
      PROVE  find[ByteSearch(n, path, out, b)] \in SUBSET Spellings
  <2> DEFINE f == ChildFor(n, b)
             w == <<b>>
  <2>1. f \in 1..Len(t) /\ Reachable(t[f])
    <3>1. BehindByte(t, d, v, at, b)
      BY <1>7, RoutesBehindByte
    <3> QED BY <1>7, <3>1 DEF BehindByte
  <2>2. LET x == ByteSearch(n, path, out, b)
        IN  x \in Searches(t) /\ Remaining(t[x[1]], x[2]) < Remaining(n, path)
    BY <1>2, <1>7, SearchGoesDown
  <2>3. ByteSearch(n, path, out, b) = <<f, rest, ciPath, w>>
    BY DEF ByteSearch
  <2> HIDE DEF f, rest, ciPath, w
  <2>4. w \in Seq(STRING) /\ Remaining(t[f], rest) < Remaining(n, path)
    BY <2>2, <2>3 DEF Searches
  <2>5. find[<<f, rest, ciPath, w>>] \in SUBSET Spellings
    BY <1>3, <1>6, <1>7, <2>1, <2>4 DEF SpellsBelow
  <2> QED BY <2>3, <2>5
<1>8. ASSUME PastNode(n, path), n.wildChild, t[c].nType # "catchAll", t[c].children # <<>>
      PROVE  find[WildSearch(t, n, path, out, rb)] \in SUBSET Spellings
  <2>1. g \in 1..Len(t) /\ Reachable(t[g])
    <3> DEFINE e == d[at] + Len(t[at].path)
               f == c
    <3>1. t[at].nType # "catchAll"
      BY <1>8, BelowIs
    <3>2. e = d[at] + Len(t[at].path) /\ f = t[at].children[1]
      OBVIOUS
    <3> HIDE DEF e, f
    <3>3. ToParam(t, d, v, at, f, e)
      BY <1>8, <3>1, <3>2, ParamReached
    <3> QED BY <1>8, <3>3 DEF ToParam, f
  <2>2. LET x == WildSearch(t, n, path, out, rb)
        IN  x \in Searches(t) /\ Remaining(t[x[1]], x[2]) < Remaining(n, path)
    BY <1>2, <1>8, SearchGoesDown
  <2> DEFINE u == ciPath \o value
  <2>3. WildSearch(t, n, path, out, rb) = <<g, later, u, rb>>
    BY DEF WildSearch
  <2>4. u \in Spellings /\ later \in Spellings
    BY <1>6, <1>8
  <2> HIDE DEF g, later, u
  <2>5. Remaining(t[g], later) < Remaining(n, path)
    BY <2>2, <2>3
  <2>6. find[<<g, later, u, rb>>] \in SUBSET Spellings
    BY <2>1, <2>4, <2>5 DEF SpellsBelow
  <2> QED BY <2>3, <2>6
<1> HIDE DEF found
<1>9. \/ found \in {{}, {out}, {ciPath}, {Append(ciPath, Slash)}}
      \/ PastNode(n, path) /\ found \in {{ciPath \o value}, {ciPath \o value \o <<Slash>>}, {ciPath \o rest}}
      \/ PastNode(n, path) /\ ~n.wildChild /\ \E b : ChildFor(n, b) # 0 /\ found = find[ByteSearch(n, path, out, b)]
      \/ /\ PastNode(n, path) /\ n.wildChild /\ t[c].nType # "catchAll" /\ t[c].children # <<>>
         /\ found = find[WildSearch(t, n, path, out, rb)]
  BY <1>5, Zenon DEF SearchIs, SlashToggled
<1>10. found \in SUBSET Spellings
  <2> HIDE DEF n, rest, ciPath, value, later, c
  <2> QED BY <1>3, <1>6, <1>7, <1>8, <1>9
<1> QED BY <1>10 DEF found

LEMMA SearchesSpell ==
    ASSUME NEW t, NEW d, NEW v, NEW H, Telling(t, d, v, H), Cased(H),
           \A i \in 1..Len(t) : v[i] # {}, Slash \in STRING, Slash \in DOMAIN Lower,
           NEW fixSlash \in BOOLEAN, NEW find, SearchesAre(t, fixSlash, find), NEW limit \in Nat
    PROVE  SpellsBelow(t, find, limit)
<1> DEFINE K == {k \in Nat : SpellsBelow(t, find, k)}
<1>1. \A n : \A p \in Spellings : Remaining(n, p) \in Nat
  BY DEF Remaining, Spellings
<1>2. 0 \in K
  BY <1>1 DEF SpellsBelow
<1>3. ASSUME NEW k \in Nat, k \in K PROVE k + 1 \in K
  <2> SUFFICES ASSUME NEW g \in 1..Len(t), NEW p \in Spellings, NEW o \in Spellings,
                      NEW b \in Seq(STRING), Reachable(t[g]), Remaining(t[g], p) < k + 1
               PROVE  find[<<g, p, o, b>>] \in SUBSET Spellings
    BY <1>3 DEF SpellsBelow
  <2>1. SpellsBelow(t, find, Remaining(t[g], p))
    <3>1. SpellsBelow(t, find, k)
      BY <1>3
    <3>2. Remaining(t[g], p) <= k
      BY <1>1
    <3>3. \A f \in 1..Len(t), q \in Spellings : Remaining(t[f], q) < Remaining(t[g], p) => Remaining(t[f], q) < k
      BY <1>1, <3>2
    <3> QED BY <3>1, <3>3 DEF SpellsBelow
  <2>2. find[<<g, p, o, b>>] = SearchTurn(t, fixSlash, find, g, p, o, b)
    <3>1. p \in Seq(STRING) /\ o \in Seq(STRING)
      BY DEF Spellings
    <3> QED BY <3>1 DEF SearchesAre
  <2>3. SearchTurn(t, fixSlash, find, g, p, o, b) \in SUBSET Spellings
    BY <2>1, TurnSpells
  <2> QED BY <2>2, <2>3
<1> HIDE DEF K
<1>4. Nat \subseteq K
  BY <1>2, <1>3, NatSetInduction
<1> QED BY <1>4 DEF K

(* The case-insensitive search finds paths whose bytes have a case, if the  *)
(* request's and the static bytes of the routes do.                         *)
LEMMA SearchSpells ==
    ASSUME NEW t, NEW H, Ordered(t), SpelledOut(t, H), Distinct, Cased(H), Slash \in STRING,
           Slash \in DOMAIN Lower, NEW fixSlash \in BOOLEAN, NEW request \in Spellings
    PROVE  FindCaseInsensitivePath(t, request, fixSlash) \in SUBSET Spellings
<1>1. PICK d, v : Telling(t, d, v, H) /\ \A i \in 1..Len(t) : v[i] # {}
  BY OrderedTold
<1>2. PICK find : /\ SearchesAre(t, fixSlash, find)
                  /\ \A p : FindCaseInsensitivePath(t, p, fixSlash) = find[<<1, p, <<>>, <<>>>>]
  BY <1>1, SearchIsDefined
<1>3. 1 \in 1..Len(t) /\ Reachable(t[1])
  <2>1. InShape(t) /\ t \in Seq(Node) /\ t # <<>> /\ t[1].nType \notin {"param", "catchAll"}
    BY <1>1 DEF Telling, InShape
  <2>2. 1 \in 1..Len(t)
    BY <2>1, Places
  <2> QED BY <2>1, <2>2 DEF Reachable
<1> DEFINE z == <<>>
           limit == Remaining(t[1], request) + 1
<1>4. z \in Spellings /\ z \in Seq(STRING)
  BY DEF Spellings, Spellable
<1>5. limit \in Nat /\ Remaining(t[1], request) < limit
  <2>1. Remaining(t[1], request) \in Nat
    BY DEF Remaining, Spellings
  <2> QED BY <2>1
<1>6. FindCaseInsensitivePath(t, request, fixSlash) = find[<<1, request, z, z>>]
  BY <1>2
<1> HIDE DEF z, limit
<1>7. SpellsBelow(t, find, limit)
  BY <1>1, <1>2, <1>5, SearchesSpell
<1>8. find[<<1, request, z, z>>] \in SUBSET Spellings
  BY <1>3, <1>4, <1>5, <1>7 DEF SpellsBelow
<1> QED BY <1>6, <1>8
=============================================================================
