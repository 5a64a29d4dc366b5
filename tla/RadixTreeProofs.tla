-------------------------- MODULE RadixTreeProofs ---------------------------
(***************************************************************************)
(* What registrations do to a radix tree, for all routes and wildcards.    *)
(*                                                                         *)
(* The proof follows addRoute turn by turn.  Ordered is the tree between   *)
(* registrations; Ready is the tree while a route is being inserted: one   *)
(* node in it is still empty, and its parent already has the byte that     *)
(* leads to it.  Each operator that rearranges the tree (a raised          *)
(* priority, a split edge, a new child, the nodes of a wildcard) has a     *)
(* lemma that says what it keeps; Good says what is known of a             *)
(* registration under way, and RouteAdded of one that has ended.           *)
(*                                                                         *)
(* Whether a route is refused the tree decides by the paths of a few       *)
(* nodes, although it is a matter of all routes.  What brings the two      *)
(* together is what the tree spells: with d, how many tokens are above     *)
(* each node, and v, the set of routes that go through each node, the      *)
(* tokens from the root to a node are those that the routes through it     *)
(* begin with, every such route ends at the node or goes on with one       *)
(* child, and the node's handle is the route that ends there.  Where a     *)
(* route leaves the tree it parts with the routes through that node there, *)
(* and with all others above.  Spells says so of a tree, in which one      *)
(* route may still be on its way: it has come to `stop' and may have to    *)
(* pass the path of `start'.  Each operator that rearranges the tree has a *)
(* second lemma that says what the new tree spells.  Told says what        *)
(* follows for the answer: at every turn, only routes that go through the  *)
(* node it is at may still be in conflict with the one being added, and    *)
(* RouteTold that it is refused exactly when one is, or when the route is  *)
(* not one the router can hold.                                            *)
(***************************************************************************)
EXTENDS RadixTree, Integers, SequenceTheorems, FiniteSetTheorems, WellFoundedInduction, TLAPS

-----------------------------------------------------------------------------
(* Induction and iteration, stated with sets and functions *)

(* A set of natural numbers that is not empty has a smallest member. *)
LEMMA SmallestOf == ASSUME NEW T, T \subseteq Nat, T # {} PROVE \E m \in T : \A k \in T : m <= k
<1> DEFINE R == OpToRel(<, Nat)
<1>0. IsWellFoundedOn(R, Nat)
  BY NatLessThanWellFounded
<1>2. \A x,y \in Nat : y < x => <<y, x>> \in R
  BY DEF OpToRel
<1> HIDE DEF R
<1>1. PICK x \in T : \A y \in T : <<y, x>> \notin R
  BY <1>0, WFMin
<1>3. \A y \in T : ~(y < x)
  BY <1>1, <1>2
<1> QED BY <1>3

(* A set that has 0 and is closed under +1 has every natural number. *)
LEMMA NatSetInduction ==
    ASSUME NEW S, 0 \in S, \A k \in Nat : k \in S => k + 1 \in S
    PROVE  Nat \subseteq S
<1> DEFINE T == {k \in Nat : k \notin S}
<1> SUFFICES ASSUME T # {} PROVE FALSE
  OBVIOUS
<1>1. T \subseteq Nat
  OBVIOUS
<1>2. PICK m \in T : \A k \in T : m <= k
  <2> HIDE DEF T
  <2> QED BY <1>1, SmallestOf
<1>3. m # 0 /\ m - 1 \in Nat /\ m - 1 \notin T
  BY <1>2
<1>4. m - 1 \in S /\ (m - 1) + 1 = m
  BY <1>3
<1> QED BY <1>2, <1>3, <1>4

\* The iteration of `step' from c exists.
Iterable(C, c, step) ==
    \E f \in [Nat -> C] : f[0] = c /\ \A k \in Nat : k # 0 => f[k] = step[f[k - 1]]

\* Its first n steps.
FirstSteps(n, C, c, step, g) ==
    g \in [0..n -> C] /\ g[0] = c /\ \A k \in 1..n : g[k] = step[g[k - 1]]

(* Iteration: a start and a step define a sequence without end.             *)
LEMMA Iteration ==
    ASSUME NEW C, NEW c \in C, NEW step \in [C -> C]
    PROVE  Iterable(C, c, step)
<1> DEFINE Steps(n, g) == FirstSteps(n, C, c, step, g)
<1>1. ASSUME NEW i \in Nat, NEW j \in Nat, i <= j, NEW g, NEW h, Steps(i, g), Steps(j, h)
      PROVE  g[i] = h[i]
  <2> DEFINE S == {k \in Nat : k <= i => g[k] = h[k]}
  <2>1. 0 \in S
    BY <1>1 DEF FirstSteps
  <2>2. ASSUME NEW k \in Nat, k \in S PROVE k + 1 \in S
    <3> SUFFICES ASSUME k + 1 <= i PROVE g[k + 1] = h[k + 1]
      OBVIOUS
    <3>1. k + 1 \in 1..i /\ k + 1 \in 1..j /\ (k + 1) - 1 = k /\ g[k] = h[k]
      BY <1>1, <2>2
    <3> QED BY <1>1, <3>1 DEF FirstSteps
  <2>3. Nat \subseteq S
    <3> HIDE DEF S
    <3> QED BY <2>1, <2>2, NatSetInduction
  <2> QED BY <2>3
<1>2. ASSUME NEW n \in Nat PROVE \E g : Steps(n, g)
  <2> DEFINE S == {k \in Nat : \E g : Steps(k, g)}
  <2>1. 0 \in S
    <3>1. Steps(0, [k \in 0..0 |-> c])
      BY DEF FirstSteps
    <3> QED BY <3>1
  <2>2. ASSUME NEW k \in Nat, k \in S PROVE k + 1 \in S
    <3>1. PICK g : Steps(k, g)
      BY <2>2
    <3> DEFINE h == [i \in 0..k + 1 |-> IF i = k + 1 THEN step[g[k]] ELSE g[i]]
    <3>2. g[k] \in C /\ \A i \in 0..k : h[i] = g[i] /\ g[i] \in C
      BY <3>1 DEF FirstSteps
    <3>3. h \in [0..k + 1 -> C] /\ h[0] = c
      BY <3>1, <3>2 DEF FirstSteps
    <3>4. ASSUME NEW i \in 1..k + 1 PROVE h[i] = step[h[i - 1]]
      <4>1. i - 1 \in 0..k /\ h[i - 1] = g[i - 1]
        BY <3>2
      <4>2. CASE i = k + 1
        BY <4>1, <4>2
      <4>3. CASE i # k + 1
        <5>1. i \in 1..k /\ h[i] = g[i]
          BY <4>3
        <5> QED BY <3>1, <4>1, <5>1 DEF FirstSteps
      <4> QED BY <4>2, <4>3
    <3>5. Steps(k + 1, h)
      <4> HIDE DEF h
      <4> QED BY <3>3, <3>4 DEF FirstSteps
    <3> QED BY <3>5
  <2>3. Nat \subseteq S
    <3> HIDE DEF S
    <3> QED BY <2>1, <2>2, NatSetInduction
  <2> QED BY <2>3
<1> DEFINE G(n) == CHOOSE g : Steps(n, g)
           f == [n \in Nat |-> G(n)[n]]
<1>3. \A n \in Nat : Steps(n, G(n))
  BY <1>2
<1> HIDE DEF G
<1>4. f \in [Nat -> C] /\ f[0] = c
  BY <1>3 DEF FirstSteps
<1>5. ASSUME NEW k \in Nat, k # 0 PROVE f[k] = step[f[k - 1]]
  <2>1. k - 1 \in Nat /\ k - 1 <= k /\ k \in 1..k /\ Steps(k - 1, G(k - 1)) /\ Steps(k, G(k))
    BY <1>3, <1>5
  <2>2. G(k - 1)[k - 1] = G(k)[k - 1]
    <3> HIDE DEF Steps
    <3> QED BY <1>1, <2>1
  <2>3. G(k)[k] = step[G(k)[k - 1]]
    BY <2>1 DEF FirstSteps
  <2> QED BY <2>1, <2>2, <2>3
<1> QED BY <1>4, <1>5 DEF Iterable

-----------------------------------------------------------------------------
(* Sequences *)

\* The first position that satisfies a test, seen as a set.
LEMMA FirstOf ==
    ASSUME NEW m \in Nat, NEW I, I \subseteq 1..m
    PROVE  /\ (IF I # {} THEN Min(I) ELSE 0) \in 0..m
           /\ I # {} => Min(I) \in I /\ Min(I) \in 1..m /\ \A k \in I : Min(I) <= k
<1>1. CASE I = {}
  BY <1>1
<1>2. CASE I # {}
  <2>0. I \subseteq Nat
    OBVIOUS
  <2>1. \E x \in I : \A y \in I : x <= y
    BY <1>2, <2>0, SmallestOf, Zenon
  <2> DEFINE least == Min(I)
  <2>2. least \in I /\ \A y \in I : least <= y
    BY <2>1 DEF Min
  <2> HIDE DEF least
  <2>3. least \in 1..m /\ least \in 0..m
    BY <2>2
  <2> QED BY <1>2, <2>2, <2>3 DEF least
<1> QED BY <1>1, <1>2

\* IndexOf finds the position of an index byte, 0 if it is not there.
LEMMA IndexOfChild ==
    ASSUME NEW n \in Node, NEW c
    PROVE  /\ IndexOf(n, c) \in 0..Len(n.indices)
           /\ IndexOf(n, c) # 0 => n.indices[IndexOf(n, c)] = c
           /\ IndexOf(n, c) = 0 => \A k \in 1..Len(n.indices) : n.indices[k] # c
<1> DEFINE I == {k \in 1..Len(n.indices) : n.indices[k] = c}
<1>1. IndexOf(n, c) = IF I # {} THEN Min(I) ELSE 0
  BY DEF IndexOf, SelectInSeq
<1>2. Len(n.indices) \in Nat
  BY DEF Node
<1>3. I \subseteq 1..Len(n.indices)
  OBVIOUS
<1>4. /\ (IF I # {} THEN Min(I) ELSE 0) \in 0..Len(n.indices)
      /\ I # {} => Min(I) \in I /\ Min(I) \in 1..Len(n.indices)
  <2> HIDE DEF I
  <2> QED BY <1>2, <1>3, FirstOf
<1> QED BY <1>1, <1>4

FirstWildcard(path) == SelectInSeq(path, LAMBDA c : c \in Wildcards)

\* FirstWildcard finds the first wildcard of a path, 0 if it has none.
LEMMA FirstWildcardOf ==
    ASSUME NEW path \in Seq(STRING)
    PROVE  /\ FirstWildcard(path) \in 0..Len(path)
           /\ FirstWildcard(path) # 0 => path[FirstWildcard(path)] \in Wildcards
           /\ \A k \in 1..Len(path) : path[k] \in Wildcards =>
                  FirstWildcard(path) # 0 /\ FirstWildcard(path) <= k
<1> DEFINE I == {k \in 1..Len(path) : path[k] \in Wildcards}
<1>1. FirstWildcard(path) = IF I # {} THEN Min(I) ELSE 0
  BY DEF FirstWildcard, SelectInSeq
<1>2. Len(path) \in Nat
  OBVIOUS
<1>3. I \subseteq 1..Len(path)
  OBVIOUS
<1>4. /\ (IF I # {} THEN Min(I) ELSE 0) \in 0..Len(path)
      /\ I # {} => Min(I) \in I /\ Min(I) \in 1..Len(path) /\ \A k \in I : Min(I) <= k
  <2> HIDE DEF I
  <2> QED BY <1>2, <1>3, FirstOf
<1>5. FirstWildcard(path) \in 0..Len(path)
  BY <1>1, <1>4
<1>6. I # {} => /\ FirstWildcard(path) \in I /\ FirstWildcard(path) # 0
                /\ \A k \in I : FirstWildcard(path) <= k
  <2> HIDE DEF I
  <2> QED BY <1>1, <1>2, <1>4
<1>7. I = {} => FirstWildcard(path) = 0
  BY <1>1
<1> QED BY <1>5, <1>6, <1>7

\* The rest of a path from a position on.
LEMMA TailOf ==
    ASSUME NEW path \in Seq(STRING), NEW i \in 1..Len(path) + 1
    PROVE  /\ From(path, i) \in Seq(STRING) /\ Len(From(path, i)) = Len(path) - i + 1
           /\ \A k \in 1..Len(path) - i + 1 : From(path, i)[k] = path[i + k - 1]
BY DEF From

\* The start of a path up to a position.
LEMMA HeadOf ==
    ASSUME NEW path \in Seq(STRING), NEW i \in 0..Len(path)
    PROVE  /\ UpTo(path, i) \in Seq(STRING) /\ Len(UpTo(path, i)) = i
           /\ \A k \in 1..i : UpTo(path, i)[k] = path[k]
BY DEF UpTo

\* The rest of a tokenised path is tokenised.
LEMMA TokenisedTail ==
    ASSUME NEW path \in Seq(STRING), Tokenised(path), NEW i \in 1..Len(path) + 1
    PROVE  Tokenised(From(path, i))
<1> DEFINE q == From(path, i)
<1>1. Len(q) = Len(path) - i + 1 /\ \A k \in 1..Len(path) - i + 1 : q[k] = path[i + k - 1]
  BY TailOf
<1> HIDE DEF q
<1>2. ASSUME NEW k \in 1..Len(q) - 1, q[k] \in Wildcards
      PROVE  q[k + 1] \in Wildcards \cup {Slash}
  <2>1. /\ Len(path) \in Nat /\ k \in 1..Len(path) - i + 1 /\ k + 1 \in 1..Len(path) - i + 1
        /\ i + k - 1 \in 1..Len(path) - 1 /\ i + (k + 1) - 1 = (i + k - 1) + 1
    BY <1>1
  <2>2. q[k] = path[i + k - 1] /\ q[k + 1] = path[(i + k - 1) + 1]
    BY <1>1, <2>1
  <2> QED BY <1>2, <2>1, <2>2 DEF Tokenised
<1>3. ASSUME NEW k \in 1..Len(q), q[k] \in Unnamed PROVE q[k] \in Wildcards
  <2>1. k \in 1..Len(path) - i + 1 /\ i + k - 1 \in 1..Len(path)
    BY <1>1
  <2>2. q[k] = path[i + k - 1]
    BY <1>1, <2>1
  <2> QED BY <1>3, <2>1, <2>2 DEF Tokenised
<1>4. Tokenised(q)
  BY <1>2, <1>3 DEF Tokenised
<1> QED BY <1>4 DEF q

\* The length up to which two paths agree.
LEMMA CommonLength ==
    ASSUME NEW a \in Seq(STRING), NEW b \in Seq(STRING)
    PROVE  LET i == Len(LongestCommonPrefix({a, b}))
           IN  /\ i \in 0..Len(a) /\ i <= Len(b)
               /\ \A k \in 1..i : a[k] = b[k]
               /\ \A d \in 0..Len(a) : d <= Len(b) /\ (\A k \in 1..d : a[k] = b[k]) => d <= i
               /\ a # <<>> /\ b # <<>> /\ a[1] = b[1] => i >= 1
<1> DEFINE P == CommonPrefixes({a, b})
<1>1. ASSUME NEW x \in P
      PROVE  /\ x \in Seq(STRING) /\ Len(x) \in 0..Len(a) /\ Len(x) <= Len(b)
             /\ \A k \in 1..Len(x) : a[k] = b[k]
  <2>1. IsPrefix(x, a) /\ IsPrefix(x, b) /\ \E s \in {a, b} : x \in Prefixes(s)
    BY DEF CommonPrefixes
  <2>2. PICK s \in {a, b} : \E l \in 0..Len(s) : x = SubSeq(s, 1, l)
    BY <2>1 DEF Prefixes
  <2>3. x \in Seq(STRING) /\ Len(x) \in Nat
    BY <2>2
  <2>4. Len(x) <= Len(a) /\ Len(x) <= Len(b) /\ SubSeq(a, 1, Len(x)) = SubSeq(b, 1, Len(x))
    BY <2>1, <2>3 DEF IsPrefix
  <2>5. \A k \in 1..Len(x) : SubSeq(a, 1, Len(x))[k] = a[k] /\ SubSeq(b, 1, Len(x))[k] = b[k]
    BY <2>3, <2>4
  <2> QED BY <2>3, <2>4, <2>5
<1>2. ASSUME NEW d \in 0..Len(a), d <= Len(b), \A k \in 1..d : a[k] = b[k]
      PROVE  UpTo(a, d) \in P /\ Len(UpTo(a, d)) = d
  <2> DEFINE x == UpTo(a, d)
  <2>1. x \in Seq(STRING) /\ Len(x) = d /\ \A k \in 1..d : x[k] = a[k]
    BY HeadOf
  <2>2. x \in Prefixes(a)
    BY DEF Prefixes, UpTo
  <2> HIDE DEF x
  <2>3. SubSeq(x, 1, d) = SubSeq(a, 1, d) /\ SubSeq(x, 1, d) = SubSeq(b, 1, d)
    BY <1>2, <2>1
  <2>4. IsPrefix(x, a) /\ IsPrefix(x, b)
    BY <1>2, <2>1, <2>3 DEF IsPrefix
  <2> QED BY <2>1, <2>2, <2>4 DEF CommonPrefixes, x
<1>3. P # {}
  <2>1. 0 \in 0..Len(a) /\ 0 <= Len(b) /\ \A k \in 1..0 : a[k] = b[k]
    OBVIOUS
  <2> QED BY <1>2, <2>1
<1> DEFINE D == {Len(a) - Len(x) : x \in P}
<1> HIDE DEF P, D
<1>4. \E x \in P : \A y \in P : Len(y) <= Len(x)
  <2>1. D \subseteq Nat /\ D # {}
    BY <1>1, <1>3 DEF D
  <2>2. PICK m \in D : \A k \in D : m <= k
    <3> HIDE DEF D
    <3> QED BY <2>1, SmallestOf
  <2>3. PICK x \in P : m = Len(a) - Len(x)
    BY <2>2 DEF D
  <2>4. \A y \in P : Len(a) - Len(x) <= Len(a) - Len(y)
    BY <2>2, <2>3 DEF D
  <2> QED BY <1>1, <2>3, <2>4
<1> DEFINE l == LongestCommonPrefix({a, b})
<1>5. l \in P /\ \A y \in P : Len(y) <= Len(l)
  BY <1>4 DEF LongestCommonPrefix, P
<1> HIDE DEF l
<1>6. /\ Len(l) \in 0..Len(a) /\ Len(l) <= Len(b)
      /\ \A k \in 1..Len(l) : a[k] = b[k]
  BY <1>1, <1>5
<1>7. \A d \in 0..Len(a) : d <= Len(b) /\ (\A k \in 1..d : a[k] = b[k]) => d <= Len(l)
  BY <1>2, <1>5
<1>8. a # <<>> /\ b # <<>> /\ a[1] = b[1] => Len(l) >= 1
  <2>1. a # <<>> /\ b # <<>> => 1 \in 0..Len(a) /\ 1 <= Len(b)
    OBVIOUS
  <2> QED BY <1>7, <2>1
<1> QED BY <1>6, <1>7, <1>8 DEF l

\* Where the elements of a sequence come from when one is moved forward.
Origin(from, to, k) ==
    IF k = to THEN from ELSE IF to < k /\ k <= from THEN k - 1 ELSE k

\* What Moved makes of a sequence, element by element.
LEMMA MovedElements ==
    ASSUME NEW A, NEW s \in Seq(A), NEW from \in 1..Len(s), NEW to \in 1..from
    PROVE  /\ Moved(s, from, to) \in Seq(A) /\ Len(Moved(s, from, to)) = Len(s)
           /\ \A k \in 1..Len(s) : Moved(s, from, to)[k] = s[Origin(from, to, k)]
<1> DEFINE r == RemoveAt(s, from)
           u == Moved(s, from, to)
<1>1. /\ Len(s) \in Nat /\ from \in Nat /\ to \in Nat /\ 1 <= to /\ to <= from /\ from <= Len(s)
      /\ s[from] \in A
  OBVIOUS
<1>2. /\ r \in Seq(A) /\ Len(r) = Len(s) - 1
      /\ \A k \in 1..Len(s) - 1 : r[k] = IF k < from THEN s[k] ELSE s[k + 1]
  <2> DEFINE x == SubSeq(s, 1, from - 1)
             y == SubSeq(s, from + 1, Len(s))
  <2>1. x \in Seq(A) /\ Len(x) = from - 1 /\ \A k \in 1..from - 1 : x[k] = s[k]
    BY <1>1
  <2>2. /\ y \in Seq(A) /\ Len(y) = Len(s) - from
        /\ \A k \in 1..Len(s) - from : y[k] = s[from + k]
    BY <1>1
  <2>3. r = x \o y
    BY DEF RemoveAt
  <2> HIDE DEF x, y, r
  <2>4. r \in Seq(A) /\ Len(r) = Len(s) - 1
    <3>1. r \in Seq(A) /\ Len(r) = Len(x) + Len(y)
      BY <2>1, <2>2, <2>3, ConcatProperties
    <3> QED BY <1>1, <2>1, <2>2, <3>1
  <2>5. ASSUME NEW k \in 1..Len(s) - 1 PROVE r[k] = IF k < from THEN s[k] ELSE s[k + 1]
    <3>1. CASE k < from
      <4>1. k \in 1..Len(x)
        BY <1>1, <2>1, <3>1
      <4> QED BY <1>1, <2>1, <2>2, <2>3, <3>1, <4>1
    <3>2. CASE k >= from
      <4>1. k - Len(x) \in 1..Len(y) /\ ~(k \in 1..Len(x)) /\ from + (k - Len(x)) = k + 1
        BY <1>1, <2>1, <2>2, <3>2
      <4>2. r[k] = y[k - Len(x)]
        <5>1. k \in 1..Len(x) + Len(y) /\ ~(k <= Len(x))
          BY <2>1, <2>2, <4>1
        <5>2. x \in Seq(A) /\ y \in Seq(A)
          BY <2>1, <2>2
        <5> QED BY <2>3, <5>1, <5>2, ConcatProperties
      <4>3. y[k - Len(x)] = s[from + (k - Len(x))]
        BY <2>2, <4>1
      <4> QED BY <1>1, <3>2, <4>1, <4>2, <4>3
    <3> QED BY <1>1, <3>1, <3>2
  <2> QED BY <2>4, <2>5
<1> HIDE DEF r
<1> DEFINE x == SubSeq(r, 1, to - 1)
           y == SubSeq(r, to, Len(r))
<1>3. x \in Seq(A) /\ Len(x) = to - 1 /\ \A k \in 1..to - 1 : x[k] = r[k]
  BY <1>1, <1>2
<1>4. /\ y \in Seq(A) /\ Len(y) = Len(s) - to
      /\ \A k \in 1..Len(s) - to : y[k] = r[to + k - 1]
  BY <1>1, <1>2
<1>5. u = x \o <<s[from]>> \o y
  BY DEF Moved, InsertAt, r
<1> HIDE DEF x, y, u
<1>6. /\ u \in Seq(A) /\ Len(u) = Len(s)
      /\ \A k \in 1..to - 1 : u[k] = x[k]
      /\ u[to] = s[from]
      /\ \A k \in to + 1..Len(s) : u[k] = y[k - to]
  <2> DEFINE z == x \o <<s[from]>>
  <2>1. z \in Seq(A) /\ Len(z) = to /\ (\A k \in 1..to - 1 : z[k] = x[k]) /\ z[to] = s[from]
    BY <1>1, <1>3
  <2>2. u = z \o y
    BY <1>5
  <2> HIDE DEF z
  <2>3. /\ u \in Seq(A) /\ Len(u) = Len(z) + Len(y)
        /\ \A k \in 1..Len(z) + Len(y) : u[k] = IF k <= Len(z) THEN z[k] ELSE y[k - Len(z)]
    BY <1>4, <2>1, <2>2, ConcatProperties, Zenon
  <2>4. Len(u) = Len(s)
    BY <1>1, <1>4, <2>1, <2>3
  <2>5. \A k \in 1..Len(s) : u[k] = IF k <= to THEN z[k] ELSE y[k - to]
    BY <1>1, <1>4, <2>1, <2>3
  <2>6. \A k \in 1..to - 1 : k \in 1..Len(s) /\ k <= to
    BY <1>1
  <2>7. to \in 1..Len(s) /\ to <= to
    BY <1>1
  <2>8. \A k \in to + 1..Len(s) : k \in 1..Len(s) /\ ~(k <= to)
    BY <1>1
  <2> QED BY <2>1, <2>3, <2>4, <2>5, <2>6, <2>7, <2>8
<1>7. ASSUME NEW k \in 1..Len(s) PROVE u[k] = s[Origin(from, to, k)]
  <2>1. CASE k < to
    <3>1. k \in 1..to - 1 /\ k \in 1..Len(s) - 1 /\ k < from
      BY <1>1, <2>1
    <3>2. Origin(from, to, k) = k
      BY <1>1, <2>1 DEF Origin
    <3> QED BY <1>2, <1>3, <1>6, <3>1, <3>2
  <2>2. CASE k = to
    BY <1>6, <2>2 DEF Origin
  <2>3. CASE k > to
    <3>1. /\ k \in to + 1..Len(s) /\ k - to \in 1..Len(s) - to /\ to + (k - to) - 1 = k - 1
          /\ k - 1 \in 1..Len(s) - 1 /\ (k - 1) + 1 = k
      BY <1>1, <2>3
    <3>2. u[k] = r[k - 1]
      BY <1>4, <1>6, <3>1
    <3>3. r[k - 1] = IF k - 1 < from THEN s[k - 1] ELSE s[k]
      BY <1>2, <3>1
    <3>4. Origin(from, to, k) = IF k <= from THEN k - 1 ELSE k
      BY <1>1, <2>3 DEF Origin
    <3> QED BY <1>1, <3>1, <3>2, <3>3, <3>4
  <2> QED BY <1>1, <2>1, <2>2, <2>3
<1> QED BY <1>6, <1>7 DEF u

\* No two places have the same origin, and every place is one.
Shuffles(m, from, to) ==
    /\ \A k \in 1..m : Origin(from, to, k) \in 1..m
    /\ \A k, l \in 1..m : Origin(from, to, k) = Origin(from, to, l) => k = l
    /\ \A j \in 1..m : \E k \in 1..m : Origin(from, to, k) = j

\* No element is lost or doubled by the move.
LEMMA OriginBijects ==
    ASSUME NEW m \in Nat, NEW from \in 1..m, NEW to \in 1..from
    PROVE  Shuffles(m, from, to)
<1>1. \A k \in 1..m : Origin(from, to, k) \in 1..m
  BY DEF Origin
<1>2. \A k, l \in 1..m : Origin(from, to, k) = Origin(from, to, l) => k = l
  BY DEF Origin
<1>3. ASSUME NEW j \in 1..m PROVE \E k \in 1..m : Origin(from, to, k) = j
  <2> DEFINE k == IF j = from THEN to ELSE IF to <= j /\ j < from THEN j + 1 ELSE j
  <2>1. k \in 1..m /\ Origin(from, to, k) = j
    BY DEF Origin
  <2> QED BY <2>1
<1> QED BY <1>1, <1>2, <1>3 DEF Shuffles

-----------------------------------------------------------------------------
(* Trees *)

\* The byte that leads to the child in position k.
Key(n, k) == IF n.nType = "param" THEN Slash ELSE n.indices[k]

\* What the children of a node are, with their index bytes.
Fits(tree, n) ==
    IF n.wildChild
    THEN /\ Len(n.children) = 1 /\ tree[n.children[1]].nType \in {"param", "catchAll"}
         /\ n.nType # "param" /\ (n.path = <<>> => tree[n.children[1]].nType = "catchAll")
    ELSE /\ \A k \in DOMAIN n.children : tree[n.children[k]].nType # "param"
         /\ IF n.nType = "param"
            THEN /\ Len(n.children) <= 1 /\ Len(n.indices) <= Len(n.children)
                 /\ n.children = <<>> => n.indices = <<>>
            ELSE Len(n.indices) = Len(n.children) /\ IsInjective(n.indices)

InShape(tree) ==
    /\ tree \in Seq(Node) /\ tree # <<>> /\ Hung(tree)
    /\ tree[1].nType \notin {"param", "catchAll"}
    /\ \A i \in DOMAIN tree : /\ Fits(tree, tree[i])
                              /\ tree[i].nType = "param" => Len(tree[i].path) = 1

\* The node that only says that a catch-all follows.
Marks(n) == n.path = <<>> /\ n.wildChild

\* The children of a node begin with their bytes, but for a node still empty;
\* below a node without a path they only mark a catch-all.
LinkedAt(tree, n, fresh, c) == ~n.wildChild =>
    \A k \in DOMAIN n.children : /\ \/ n.children[k] = fresh /\ Key(n, k) = c
                                    \/ Begins(tree[n.children[k]], Key(n, k))
                                 /\ n.path = <<>> => Marks(tree[n.children[k]])
Linked(tree, fresh, c) == \A i \in DOMAIN tree : LinkedAt(tree, tree[i], fresh, c)

Fresh(n) == /\ n.path = <<>> /\ n.indices = <<>> /\ n.children = <<>> /\ ~n.wildChild
            /\ n.nType = "static" /\ n.handle = NoHandle

Ordered(tree) == InShape(tree) /\ Linked(tree, 0, Slash) /\ Begins(tree[1], Slash)

\* The types of the fields of a node.
LEMMA FieldTypes ==
    ASSUME NEW n \in Node
    PROVE  /\ n.path \in Seq(STRING) /\ n.indices \in Seq(STRING) /\ n.wildChild \in BOOLEAN
           /\ n.nType \in NodeType /\ n.priority \in Nat /\ n.children \in Seq(Nat)
           /\ n.handle \in Seq(STRING)
BY DEF Node

\* The empty node is a node.
LEMMA EmptyNodeIs ==
    /\ EmptyNode \in Node /\ Fresh(EmptyNode) /\ EmptyNode.priority = 0
    /\ EmptyNode.path = <<>> /\ EmptyNode.indices = <<>> /\ EmptyNode.children = <<>>
    /\ EmptyNode.wildChild = FALSE /\ EmptyNode.nType = "static" /\ EmptyNode.handle = <<>>
BY DEF EmptyNode, Node, NodeType, Fresh, NoHandle

\* The nodes of a heap.
LEMMA Places ==
    ASSUME NEW t \in Seq(Node)
    PROVE  /\ Len(t) \in Nat /\ DOMAIN t = 1..Len(t) /\ \A i \in 1..Len(t) : t[i] \in Node
           /\ t # <<>> <=> 1 \in 1..Len(t)
OBVIOUS

\* A node replaced in a heap.
LEMMA Put ==
    ASSUME NEW t \in Seq(Node), NEW at \in 1..Len(t), NEW m \in Node
    PROVE  LET u == [t EXCEPT ![at] = m]
           IN  /\ u \in Seq(Node) /\ Len(u) = Len(t) /\ u[at] = m
               /\ \A i \in 1..Len(t) : i # at => u[i] = t[i]
OBVIOUS

\* A node added to a heap.
LEMMA PutLast ==
    ASSUME NEW t \in Seq(Node), NEW m \in Node
    PROVE  LET u == Append(t, m)
           IN  /\ u \in Seq(Node) /\ Len(u) = Len(t) + 1 /\ u[Len(t) + 1] = m
               /\ \A i \in 1..Len(t) : u[i] = t[i]
OBVIOUS

\* The two numbers behind a range.
LEMMA TwoBehind ==
    ASSUME NEW N \in Nat
    PROVE  /\ N <= N + 2 /\ N + 2 = N + 1 + 1 /\ N + 2 \in 1..N + 2
           /\ \A i \in 1..N + 2 : i > N => i = N + 1 \/ i = N + 2
OBVIOUS

\* Two nodes added to a heap.
LEMMA PutTwo ==
    ASSUME NEW t \in Seq(Node), NEW m \in Node, NEW o \in Node
    PROVE  LET u == t \o <<m, o>>
           IN  /\ u \in Seq(Node) /\ Len(u) = Len(t) + 2
               /\ u[Len(t) + 1] = m /\ u[Len(t) + 2] = o
               /\ \A i \in 1..Len(t) : u[i] = t[i]
<1> DEFINE two == <<m, o>>
           u == t \o two
<1>1. two \in Seq(Node) /\ Len(two) = 2 /\ two[1] = m /\ two[2] = o
  OBVIOUS
<1> HIDE DEF two
<1>2. /\ u \in Seq(Node) /\ Len(u) = Len(t) + Len(two)
      /\ \A i \in 1..Len(t) + Len(two) :
             u[i] = IF i <= Len(t) THEN t[i] ELSE two[i - Len(t)]
  BY <1>1, ConcatProperties, Zenon
<1> HIDE DEF u
<1>3. Len(t) \in Nat
  OBVIOUS
<1>4. u[Len(t) + 1] = two[1] /\ u[Len(t) + 2] = two[2]
  BY <1>1, <1>2, <1>3
<1>5. \A i \in 1..Len(t) : u[i] = t[i]
  BY <1>1, <1>2, <1>3
<1> QED BY <1>1, <1>2, <1>4, <1>5 DEF u, two

\* A tree that grew: the types stay, and what began with a byte still does.
Keeps(t, u, except) ==
    /\ Len(t) <= Len(u)
    /\ \A i \in 1..Len(t) :
           /\ u[i].nType = t[i].nType
           /\ i # except => \A c : Begins(t[i], c) => Begins(u[i], c)
           /\ Marks(t[i]) => Marks(u[i])

SameLinks(n, m) == /\ m.children = n.children /\ m.indices = n.indices
                   /\ m.wildChild = n.wildChild /\ m.nType = n.nType
                   /\ m.path = <<>> => n.path = <<>>

\* A node fits its children as long as their types stay.
LEMMA StillFits ==
    ASSUME NEW t \in Seq(Node), NEW u \in Seq(Node), NEW except, Keeps(t, u, except),
           NEW n \in Node, NEW m \in Node, SameLinks(n, m), Fits(t, n),
           \A k \in DOMAIN n.children : n.children[k] \in 1..Len(t)
    PROVE  Fits(u, m)
<1>1. \A k \in DOMAIN n.children : u[n.children[k]].nType = t[n.children[k]].nType
  BY DEF Keeps
<1>2. Len(n.children) = 1 => 1 \in DOMAIN n.children
  BY FieldTypes
<1> QED BY <1>1, <1>2 DEF Fits, SameLinks

\* A node is linked as long as its children begin as before.
LEMMA StillLinked ==
    ASSUME NEW t \in Seq(Node), NEW u \in Seq(Node), Keeps(t, u, 0),
           NEW n \in Node, NEW m \in Node, SameLinks(n, m),
           \A k \in DOMAIN n.children : n.children[k] \in 1..Len(t),
           NEW fresh, NEW c, LinkedAt(t, n, fresh, c)
    PROVE  LinkedAt(u, m, fresh, c)
<1>1. \A k \in DOMAIN n.children : n.children[k] # 0 /\ Key(n, k) = Key(m, k)
  BY DEF SameLinks, Key
<1>2. \A k \in DOMAIN n.children :
          /\ Begins(t[n.children[k]], Key(n, k)) => Begins(u[n.children[k]], Key(n, k))
          /\ Marks(t[n.children[k]]) => Marks(u[n.children[k]])
  BY <1>1 DEF Keeps
<1> QED BY <1>1, <1>2 DEF LinkedAt, SameLinks

\* A node still empty begins with no byte.
LEMMA FreshBeginsNothing == ASSUME NEW n, Fresh(n), NEW c PROVE ~Begins(n, c)
<1>1. <<>> # <<c>>
  BY Len(<<>>) = 0, Len(<<c>>) = 1
<1> QED BY <1>1 DEF Fresh, Begins

\* The node that was still empty has been given its path.
LEMMA NowLinked ==
    ASSUME NEW t \in Seq(Node), NEW u \in Seq(Node), NEW fresh, Keeps(t, u, fresh),
           NEW c, fresh \in 1..Len(t) => Fresh(t[fresh]) /\ Begins(u[fresh], c),
           NEW n \in Node, NEW m \in Node, SameLinks(n, m),
           \A k \in DOMAIN n.children : n.children[k] \in 1..Len(t),
           LinkedAt(t, n, fresh, c), NEW other, NEW d
    PROVE  LinkedAt(u, m, other, d)
<1>1. \A k \in DOMAIN n.children : Key(n, k) = Key(m, k)
  BY DEF SameLinks, Key
<1>2. \A k \in DOMAIN n.children : n.children[k] # fresh =>
          (Begins(t[n.children[k]], Key(n, k)) => Begins(u[n.children[k]], Key(n, k)))
  BY <1>1 DEF Keeps
<1>3. \A k \in DOMAIN n.children : n.children[k] = fresh =>
          Begins(u[n.children[k]], c)
  OBVIOUS
<1>4. ASSUME ~n.wildChild, NEW k \in DOMAIN n.children
      PROVE  Begins(u[n.children[k]], Key(m, k))
  <2>1. \/ n.children[k] = fresh /\ Key(n, k) = c
        \/ Begins(t[n.children[k]], Key(n, k))
    BY <1>4 DEF LinkedAt
  <2>2. CASE n.children[k] = fresh /\ Key(n, k) = c
    BY <1>1, <1>3, <2>2
  <2>3. CASE Begins(t[n.children[k]], Key(n, k)) /\ n.children[k] # fresh
    BY <1>1, <1>2, <2>3
  <2>4. CASE Begins(t[n.children[k]], Key(n, k)) /\ n.children[k] = fresh
    <3>1. ~Begins(t[fresh], Key(n, k))
      BY <2>4, FreshBeginsNothing
    <3> QED BY <2>4, <3>1
  <2> QED BY <2>1, <2>2, <2>3, <2>4
<1>5. ASSUME ~n.wildChild, NEW k \in DOMAIN n.children, m.path = <<>>
      PROVE  Marks(u[n.children[k]])
  <2>1. Marks(t[n.children[k]])
    BY <1>5 DEF LinkedAt, SameLinks
  <2> QED BY <2>1 DEF Keeps
<1> QED BY <1>4, <1>5 DEF LinkedAt, SameLinks

\* Children are nodes of the heap other than the root.
LEMMA ChildrenInRange ==
    ASSUME NEW t \in Seq(Node), Hung(t), NEW i \in 1..Len(t)
    PROVE  /\ \A k \in DOMAIN t[i].children :
                  t[i].children[k] \in 2..Len(t) /\ t[i].children[k] \in 1..Len(t)
           /\ DOMAIN t[i].children = 1..Len(t[i].children)
<1>1. Len(t) \in Nat /\ i \in DOMAIN t /\ t[i] \in Node
  BY Places
<1>2. \A k \in DOMAIN t[i].children : t[i].children[k] \in 2..Len(t)
  BY <1>1, Zenon DEF Hung, ChildrenAreNodes
<1>3. \A j \in 2..Len(t) : j \in 1..Len(t)
  BY <1>1
<1> QED BY <1>1, <1>2, <1>3, FieldTypes

-----------------------------------------------------------------------------
(* Steps that leave the links alone *)

\* The heap hangs together as long as no children change.
LEMMA SameChildren ==
    ASSUME NEW t \in Seq(Node), NEW u \in Seq(Node), Len(u) = Len(t), Hung(t),
           \A i \in 1..Len(t) : u[i].children = t[i].children
    PROVE  Hung(u)
<1>1. DOMAIN t = 1..Len(t) /\ DOMAIN u = 1..Len(t)
  BY Places
<1>2. ChildrenAreNodes(u)
  BY <1>1 DEF Hung, ChildrenAreNodes
<1>3. NoneIsShared(u)
  BY <1>1 DEF Hung, NoneIsShared
<1>4. NoneIsLost(u)
  BY <1>1 DEF Hung, NoneIsLost
<1> QED BY <1>2, <1>3, <1>4 DEF Hung

\* A change of priorities and handles only keeps the shape.
LEMMA Relabelled ==
    ASSUME NEW t \in Seq(Node), NEW u \in Seq(Node), Len(u) = Len(t), InShape(t),
           \A i \in 1..Len(t) : SameLinks(t[i], u[i]) /\ u[i].path = t[i].path
    PROVE  /\ InShape(u)
           /\ \A fresh, c : Linked(t, fresh, c) => Linked(u, fresh, c)
           /\ \A i \in 1..Len(t) : \A c : Begins(u[i], c) <=> Begins(t[i], c)
<1>1. /\ Len(t) \in Nat /\ DOMAIN t = 1..Len(t) /\ DOMAIN u = 1..Len(t) /\ 1 \in 1..Len(t)
      /\ \A i \in 1..Len(t) : t[i] \in Node /\ u[i] \in Node
  BY Places DEF InShape
<1>2. \A i \in 1..Len(t) : \A c : Begins(u[i], c) <=> Begins(t[i], c)
  BY DEF Begins, SameLinks
<1>3. Keeps(t, u, 0)
  BY <1>1, <1>2 DEF Keeps, SameLinks, Marks
<1>4. \A i \in 1..Len(t) : u[i].children = t[i].children
  BY DEF SameLinks
<1>5. Hung(u)
  BY <1>4, SameChildren DEF InShape
<1>6. \A i \in 1..Len(t) : Fits(u, u[i])
  <2> SUFFICES ASSUME NEW i \in 1..Len(t) PROVE Fits(u, u[i])
    OBVIOUS
  <2>1. Fits(t, t[i]) /\ \A k \in DOMAIN t[i].children : t[i].children[k] \in 1..Len(t)
    BY <1>1, ChildrenInRange DEF InShape
  <2> QED BY <1>1, <1>3, <2>1, StillFits
<1>7. \A i \in 1..Len(t) : u[i].nType = "param" => Len(u[i].path) = 1
  BY <1>1 DEF InShape, SameLinks
<1>8. u # <<>> /\ u[1].nType \notin {"param", "catchAll"}
  BY <1>1 DEF InShape, SameLinks
<1>9. ASSUME NEW fresh, NEW c, Linked(t, fresh, c) PROVE Linked(u, fresh, c)
  <2> SUFFICES ASSUME NEW i \in 1..Len(t) PROVE LinkedAt(u, u[i], fresh, c)
    BY <1>1 DEF Linked
  <2>1. LinkedAt(t, t[i], fresh, c) /\ \A k \in DOMAIN t[i].children : t[i].children[k] \in 1..Len(t)
    BY <1>1, <1>9, ChildrenInRange DEF InShape, Linked
  <2> QED BY <1>1, <1>3, <2>1, StillLinked
<1>10. InShape(u)
  BY <1>1, <1>5, <1>6, <1>7, <1>8 DEF InShape
<1> QED BY <1>2, <1>9, <1>10

\* Only the handles tell what a tree holds.
LEMMA SameHandles ==
    ASSUME NEW t \in Seq(Node), NEW u \in Seq(Node), Len(u) = Len(t),
           \A i \in 1..Len(t) : u[i].handle = t[i].handle
    PROVE  Handles(u) = Handles(t)
<1>1. DOMAIN t = 1..Len(t) /\ DOMAIN u = 1..Len(t)
  BY Places
<1> QED BY <1>1 DEF Handles

\* A raised priority keeps everything else.
LEMMA Bumped ==
    ASSUME NEW t, InShape(t), NEW at \in 1..Len(t)
    PROVE  LET u == Bump(t, at)
           IN  /\ u \in Seq(Node) /\ Len(u) = Len(t) /\ InShape(u)
               /\ \A fresh, c : Linked(t, fresh, c) => Linked(u, fresh, c)
               /\ \A i \in 1..Len(t) : \A c : Begins(u[i], c) <=> Begins(t[i], c)
               /\ \A i \in 1..Len(t) : /\ SameLinks(t[i], u[i]) /\ u[i].path = t[i].path
                                       /\ u[i].handle = t[i].handle
               /\ u[at].priority >= 1 /\ Handles(u) = Handles(t)
<1> DEFINE m == [t[at] EXCEPT !.priority = @ + 1]
           u == Bump(t, at)
<1>1. t \in Seq(Node) /\ t[at] \in Node
  BY Places DEF InShape
<1>2. m \in Node /\ m.priority >= 1 /\ SameLinks(t[at], m) /\ m.path = t[at].path /\ m.handle = t[at].handle
  <2> DEFINE p == t[at].priority + 1
  <2>1. t[at].priority \in Nat
    BY <1>1, FieldTypes
  <2>2. p \in Nat /\ p >= 1
    BY <2>1
  <2> HIDE DEF p
  <2> QED BY <1>1, <2>2 DEF Node, SameLinks, p
<1>3. u = [t EXCEPT ![at] = m]
  BY <1>1 DEF Bump
<1> HIDE DEF m, u
<1>4. /\ u \in Seq(Node) /\ Len(u) = Len(t) /\ u[at] = m
      /\ \A i \in 1..Len(t) : i # at => u[i] = t[i]
  BY <1>1, <1>2, <1>3, Put
<1>5. \A i \in 1..Len(t) : SameLinks(t[i], u[i]) /\ u[i].path = t[i].path /\ u[i].handle = t[i].handle
  BY <1>2, <1>4 DEF SameLinks
<1>6. Handles(u) = Handles(t)
  BY <1>1, <1>4, <1>5, SameHandles
<1>7. /\ InShape(u)
      /\ \A fresh, c : Linked(t, fresh, c) => Linked(u, fresh, c)
      /\ \A i \in 1..Len(t) : \A c : Begins(u[i], c) <=> Begins(t[i], c)
  BY <1>1, <1>4, <1>5, Relabelled
<1>8. u[at].priority >= 1
  BY <1>2, <1>4
<1> QED BY <1>4, <1>5, <1>6, <1>7, <1>8 DEF u

\* A handle is set where there was none.
LEMMA HandlesOf ==
    ASSUME NEW t \in Seq(Node), NEW u \in Seq(Node), NEW at \in 1..Len(t), NEW route,
           Len(u) = Len(t), t[at].handle = NoHandle, u[at].handle = route, route # NoHandle,
           \A i \in 1..Len(t) : i # at => u[i].handle = t[i].handle
    PROVE  Handles(u) = Handles(t) \cup {route}
<1>1. DOMAIN t = 1..Len(t) /\ DOMAIN u = 1..Len(t)
  BY Places
<1>2. ASSUME NEW h PROVE h \in Handles(u) <=> h \in Handles(t) \cup {route}
  <2>1. h \in Handles(u) <=> h # NoHandle /\ \E i \in 1..Len(t) : h = u[i].handle
    BY <1>1 DEF Handles
  <2>2. h \in Handles(t) <=> h # NoHandle /\ \E i \in 1..Len(t) : h = t[i].handle
    BY <1>1 DEF Handles
  <2> QED BY <2>1, <2>2
<1> QED BY <1>2

\* A handle given to a node that has none.
LEMMA HandleAdded ==
    ASSUME NEW t, Ordered(t), NEW at \in 1..Len(t), NEW route \in Seq(STRING), route # <<>>,
           t[at].handle = NoHandle
    PROVE  LET u == [t EXCEPT ![at].handle = route]
           IN  Ordered(u) /\ Handles(u) = Handles(t) \cup {route}
<1> DEFINE m == [t[at] EXCEPT !.handle = route]
           u == [t EXCEPT ![at].handle = route]
<1>1. t \in Seq(Node) /\ t[at] \in Node /\ InShape(t) /\ Linked(t, 0, Slash) /\ Begins(t[1], Slash)
  BY Places DEF Ordered, InShape
<1>2. m \in Node /\ SameLinks(t[at], m) /\ m.path = t[at].path /\ m.handle = route
  BY <1>1 DEF Node, SameLinks
<1>3. u = [t EXCEPT ![at] = m]
  BY <1>1
<1> HIDE DEF m, u
<1>4. /\ u \in Seq(Node) /\ Len(u) = Len(t) /\ u[at] = m
      /\ \A i \in 1..Len(t) : i # at => u[i] = t[i]
  BY <1>1, <1>2, <1>3, Put
<1>5. \A i \in 1..Len(t) : SameLinks(t[i], u[i]) /\ u[i].path = t[i].path
  BY <1>2, <1>4 DEF SameLinks
<1>6. Handles(u) = Handles(t) \cup {route}
  BY <1>1, <1>2, <1>4, HandlesOf DEF NoHandle
<1>7. /\ InShape(u)
      /\ \A fresh, c : Linked(t, fresh, c) => Linked(u, fresh, c)
      /\ \A i \in 1..Len(t) : \A c : Begins(u[i], c) <=> Begins(t[i], c)
  BY <1>1, <1>4, <1>5, Relabelled
<1>8. 1 \in 1..Len(t)
  BY <1>1, Places DEF InShape
<1>9. Ordered(u)
  BY <1>1, <1>7, <1>8 DEF Ordered
<1> QED BY <1>6, <1>9 DEF u

\* The first registration names the root.
LEMMA RootNamed ==
    ASSUME NEW t, Ordered(t)
    PROVE  LET u == [t EXCEPT ![1].nType = "root"]
           IN  Ordered(u) /\ Handles(u) = Handles(t)
<1> DEFINE m == [t[1] EXCEPT !.nType = "root"]
           u == [t EXCEPT ![1].nType = "root"]
<1>1. /\ t \in Seq(Node) /\ InShape(t) /\ Linked(t, 0, Slash) /\ Begins(t[1], Slash)
      /\ 1 \in 1..Len(t) /\ t[1] \in Node /\ Len(t) \in Nat /\ DOMAIN t = 1..Len(t)
      /\ \A i \in 1..Len(t) : t[i] \in Node
  BY Places DEF Ordered, InShape
<1>2. /\ m \in Node /\ m.children = t[1].children /\ m.indices = t[1].indices
      /\ m.wildChild = t[1].wildChild /\ m.path = t[1].path /\ m.handle = t[1].handle
      /\ m.nType = "root"
  BY <1>1 DEF Node, NodeType
<1>3. u = [t EXCEPT ![1] = m]
  BY <1>1
<1> HIDE DEF m, u
<1>4. /\ u \in Seq(Node) /\ Len(u) = Len(t) /\ u[1] = m
      /\ \A i \in 1..Len(t) : i # 1 => u[i] = t[i]
  BY <1>1, <1>2, <1>3, Put
<1>5. DOMAIN u = 1..Len(t) /\ \A i \in 1..Len(t) : u[i].children = t[i].children
  BY <1>2, <1>4, Places
<1>6. Hung(u)
  BY <1>1, <1>4, <1>5, SameChildren DEF InShape
<1>7. \A i \in 1..Len(t) : u[i].handle = t[i].handle
  BY <1>2, <1>4
<1>8. Handles(u) = Handles(t)
  BY <1>1, <1>4, <1>7, SameHandles
<1>9. ASSUME NEW i \in 1..Len(t)
      PROVE  /\ Fits(u, u[i]) /\ LinkedAt(u, u[i], 0, Slash)
             /\ u[i].nType = "param" => Len(u[i].path) = 1
  <2>1. /\ Fits(t, t[i]) /\ LinkedAt(t, t[i], 0, Slash)
        /\ t[i].nType = "param" => Len(t[i].path) = 1
    BY <1>1 DEF InShape, Linked
  <2>2. /\ \A k \in DOMAIN t[i].children : t[i].children[k] \in 1..Len(t) /\ t[i].children[k] # 1
        /\ DOMAIN t[i].children = 1..Len(t[i].children)
    <3>1. \A k \in DOMAIN t[i].children : t[i].children[k] \in 2..Len(t) /\ t[i].children[k] \in 1..Len(t)
      BY <1>1, ChildrenInRange DEF InShape
    <3> QED BY <1>1, <3>1, ChildrenInRange DEF InShape
  <2>3. \A k \in DOMAIN t[i].children : u[t[i].children[k]] = t[t[i].children[k]]
    BY <1>4, <2>2
  <2>4. /\ u[i].children = t[i].children /\ u[i].indices = t[i].indices
        /\ u[i].wildChild = t[i].wildChild /\ u[i].path = t[i].path
        /\ u[i].nType = "param" <=> t[i].nType = "param"
    BY <1>1, <1>2, <1>4 DEF InShape
  <2>5. Len(t[i].children) = 1 => 1 \in DOMAIN t[i].children
    BY <2>2
  <2>6. Fits(u, u[i])
    BY <2>1, <2>3, <2>4, <2>5 DEF Fits
  <2>7. LinkedAt(u, u[i], 0, Slash)
    <3>1. \A k \in DOMAIN t[i].children : Key(u[i], k) = Key(t[i], k)
      BY <2>4 DEF Key
    <3> QED BY <2>1, <2>3, <2>4, <3>1 DEF LinkedAt
  <2> QED BY <2>1, <2>4, <2>6, <2>7
<1>10. u # <<>> /\ u[1].nType \notin {"param", "catchAll"} /\ Begins(u[1], Slash)
  <2>1. u # <<>> /\ u[1].nType \notin {"param", "catchAll"} /\ t[1].nType # "catchAll"
    BY <1>1, <1>2, <1>4 DEF InShape
  <2> QED BY <1>1, <1>2, <1>4, <2>1 DEF Begins
<1>11. InShape(u)
  BY <1>4, <1>5, <1>6, <1>9, <1>10 DEF InShape
<1>12. Linked(u, 0, Slash)
  BY <1>5, <1>9 DEF Linked
<1> QED BY <1>8, <1>10, <1>11, <1>12 DEF u, Ordered

-----------------------------------------------------------------------------
(* An edge is split *)

\* A new node takes over the children of another and becomes its only child.
LEMMA HungBetween ==
    ASSUME NEW t \in Seq(Node), NEW u \in Seq(Node), Len(u) = Len(t) + 1, Hung(t),
           NEW at \in 1..Len(t),
           u[at].children = <<Len(t) + 1>>, u[Len(t) + 1].children = t[at].children,
           \A i \in 1..Len(t) : i # at => u[i].children = t[i].children
    PROVE  Hung(u)
<1> DEFINE N == Len(t)
           below(i) == IF i = N + 1 THEN at ELSE i
<1>1. /\ N \in Nat /\ at \in Nat /\ 1 <= at /\ at <= N
      /\ DOMAIN t = 1..N /\ DOMAIN u = 1..N + 1
  BY Places
<1>2. ChildrenAreNodes(t) /\ NoneIsShared(t) /\ NoneIsLost(t)
  BY DEF Hung
<1>3. \A i \in 1..N + 1 : i # at =>
          below(i) \in 1..N /\ u[i].children = t[below(i)].children
  BY <1>1
<1>4. DOMAIN u[at].children = {1} /\ u[at].children[1] = N + 1
  OBVIOUS
<1>5. \A i \in 1..N + 1 : i # at =>
          \A k \in DOMAIN u[i].children : u[i].children[k] \in 2..N
  BY <1>1, <1>2, <1>3 DEF ChildrenAreNodes
<1>6. ChildrenAreNodes(u)
  <2> SUFFICES ASSUME NEW i \in 1..N + 1, NEW k \in DOMAIN u[i].children
               PROVE  u[i].children[k] \in 2..N + 1
    BY <1>1 DEF ChildrenAreNodes
  <2>1. CASE i = at
    BY <1>1, <1>4, <2>1
  <2>2. CASE i # at
    <3>1. u[i].children[k] \in 2..N
      BY <1>5, <2>2
    <3> QED BY <1>1, <3>1
  <2> QED BY <2>1, <2>2
<1>7. NoneIsShared(u)
  <2> SUFFICES ASSUME NEW i \in 1..N + 1, NEW j \in 1..N + 1,
                      NEW k \in DOMAIN u[i].children, NEW l \in DOMAIN u[j].children,
                      u[i].children[k] = u[j].children[l]
               PROVE  i = j /\ k = l
    BY <1>1 DEF NoneIsShared
  <2>1. CASE i = at /\ j = at
    BY <1>4, <2>1
  <2>2. CASE i = at /\ j # at
    <3>1. u[j].children[l] \in 2..N
      BY <1>5, <2>2
    <3> QED BY <1>1, <1>4, <2>2, <3>1
  <2>3. CASE i # at /\ j = at
    <3>1. u[i].children[k] \in 2..N
      BY <1>5, <2>3
    <3> QED BY <1>1, <1>4, <2>3, <3>1
  <2>4. CASE i # at /\ j # at
    <3>1. /\ below(i) \in 1..N /\ u[i].children = t[below(i)].children
          /\ below(j) \in 1..N /\ u[j].children = t[below(j)].children
      BY <1>3, <2>4
    <3> HIDE DEF below
    <3>2. below(i) = below(j) /\ k = l
      BY <1>1, <1>2, <3>1 DEF NoneIsShared
    <3> QED BY <2>4, <3>2 DEF below
  <2> QED BY <2>1, <2>2, <2>3, <2>4
<1>8. NoneIsLost(u)
  <2> SUFFICES ASSUME NEW c \in 2..N + 1
               PROVE  \E i \in 1..N + 1 : \E k \in DOMAIN u[i].children : u[i].children[k] = c
    BY <1>1 DEF NoneIsLost
  <2>1. CASE c = N + 1
    <3>1. at \in 1..N + 1
      BY <1>1
    <3> QED BY <1>4, <2>1, <3>1
  <2>2. CASE c # N + 1
    <3>1. c \in 2..N
      BY <1>1, <2>2
    <3>2. PICK i \in 1..N : \E k \in DOMAIN t[i].children : t[i].children[k] = c
      BY <1>1, <1>2, <3>1 DEF NoneIsLost
    <3>3. CASE i = at
      <4>1. N + 1 \in 1..N + 1
        BY <1>1
      <4> QED BY <3>2, <3>3, <4>1
    <3>4. CASE i # at
      <4>1. i \in 1..N + 1 /\ u[i].children = t[i].children
        BY <1>1, <3>4
      <4> QED BY <3>2, <4>1
    <3> QED BY <3>3, <3>4
  <2> QED BY <2>1, <2>2
<1> QED BY <1>6, <1>7, <1>8 DEF Hung

\* What the two halves of a split edge are.
LEMMA HalvesOf ==
    ASSUME NEW n \in Node, n.priority >= 1, NEW i \in 1..Len(n.path) - 1, NEW child \in Nat
    PROVE  LET up == UpperHalf(n, i, child)
               low == LowerHalf(n, i)
           IN  /\ up \in Node /\ up.children = <<child>> /\ up.indices = <<n.path[i + 1]>>
               /\ up.wildChild = FALSE /\ up.nType = n.nType /\ up.priority = n.priority
               /\ up.path \in Seq(STRING) /\ up.path # <<>> /\ up.path[1] = n.path[1]
               /\ up.handle = NoHandle
               /\ low \in Node /\ low.children = n.children /\ low.indices = n.indices
               /\ low.wildChild = n.wildChild /\ low.nType = "static" /\ low.handle = n.handle
               /\ low.path # <<>> /\ low.path[1] = n.path[i + 1]
<1> DEFINE a == UpTo(n.path, i)
           b == From(n.path, i + 1)
           p == n.priority - 1
           c == n.path[i + 1]
           up == UpperHalf(n, i, child)
           low == LowerHalf(n, i)
<1>1. n.path \in Seq(STRING) /\ Len(n.path) \in Nat /\ i \in 0..Len(n.path) /\ i >= 1
      /\ i + 1 \in 1..Len(n.path) /\ i + 1 \in 1..Len(n.path) + 1
  BY FieldTypes
<1>2. a \in Seq(STRING) /\ a # <<>> /\ a[1] = n.path[1]
  <2>1. a \in Seq(STRING) /\ Len(a) = i /\ \A k \in 1..i : a[k] = n.path[k]
    BY <1>1, HeadOf
  <2> HIDE DEF a
  <2> QED BY <1>1, <2>1
<1>3. b \in Seq(STRING) /\ b # <<>> /\ b[1] = c
  <2>1. /\ b \in Seq(STRING) /\ Len(b) = Len(n.path) - (i + 1) + 1
        /\ \A k \in 1..Len(n.path) - (i + 1) + 1 : b[k] = n.path[(i + 1) + k - 1]
    BY <1>1, TailOf
  <2> HIDE DEF b
  <2>2. 1 \in 1..Len(n.path) - (i + 1) + 1 /\ (i + 1) + 1 - 1 = i + 1
    BY <1>1
  <2> QED BY <1>1, <2>1, <2>2
<1>4. p \in Nat /\ c \in STRING
  BY <1>1, FieldTypes
<1>5. up = [n EXCEPT !.children = <<child>>, !.indices = <<c>>, !.path = a,
                     !.handle = NoHandle, !.wildChild = FALSE]
  BY DEF UpperHalf
<1>6. low = [n EXCEPT !.path = b, !.nType = "static", !.priority = p]
  BY DEF LowerHalf
<1> HIDE DEF a, b, p, c, up, low
<1>7. /\ up \in Node /\ up.children = <<child>> /\ up.indices = <<c>>
      /\ up.wildChild = FALSE /\ up.nType = n.nType /\ up.priority = n.priority
      /\ up.path = a /\ up.handle = NoHandle
  <2> DEFINE ch == <<child>>
             ix == <<c>>
             none == <<>>
  <2>1. ch \in Seq(Nat) /\ ix \in Seq(STRING) /\ none \in Seq(STRING)
    BY <1>4
  <2>2. up = [n EXCEPT !.children = ch, !.indices = ix, !.path = a,
                       !.handle = none, !.wildChild = FALSE]
    BY <1>5 DEF NoHandle
  <2> HIDE DEF ch, ix, none
  <2>3. /\ up.children = ch /\ up.indices = ix /\ up.wildChild = FALSE /\ up.nType = n.nType
        /\ up.priority = n.priority /\ up.path = a /\ up.handle = none
    BY <2>2 DEF Node
  <2>4. up \in Node
    BY <1>2, <2>1, <2>2 DEF Node
  <2> QED BY <2>3, <2>4 DEF ch, ix, none, NoHandle
<1>8. /\ low \in Node /\ low.children = n.children /\ low.indices = n.indices
      /\ low.wildChild = n.wildChild /\ low.nType = "static" /\ low.handle = n.handle
      /\ low.path = b
  BY <1>3, <1>4, <1>6 DEF Node, NodeType
<1> QED BY <1>2, <1>3, <1>7, <1>8 DEF up, low, c

\* A split keeps the tree in order and what it holds.
LEMMA EdgeSplit ==
    ASSUME NEW t, Ordered(t), NEW at \in 1..Len(t), t[at].priority >= 1,
           NEW i \in 1..Len(t[at].path) - 1
    PROVE  LET u == SplitEdge(t, at, i)
           IN  /\ Ordered(u) /\ Len(u) = Len(t) + 1 /\ Handles(u) = Handles(t)
               /\ u[at].nType # "param" /\ u[at].wildChild = FALSE /\ u[at].priority >= 1
               /\ u[at].handle = NoHandle /\ u[at].path # <<>>
               /\ \A c : Begins(t[at], c) => Begins(u[at], c)
<1> DEFINE n == t[at]
           N == Len(t)
           up == UpperHalf(n, i, N + 1)
           low == LowerHalf(n, i)
           u == SplitEdge(t, at, i)
<1>1. /\ t \in Seq(Node) /\ InShape(t) /\ Linked(t, 0, Slash) /\ Begins(t[1], Slash)
      /\ 1 \in 1..N /\ n \in Node /\ N \in Nat /\ DOMAIN t = 1..N
      /\ at \in Nat /\ at >= 1 /\ at <= N
      /\ \A j \in 1..N : t[j] \in Node
  BY Places DEF Ordered, InShape
<1>2. /\ up \in Node /\ up.children = <<N + 1>> /\ up.indices = <<n.path[i + 1]>>
      /\ up.wildChild = FALSE /\ up.nType = n.nType /\ up.priority = n.priority
      /\ up.path # <<>> /\ up.path[1] = n.path[1] /\ up.handle = NoHandle
      /\ low \in Node /\ low.children = n.children /\ low.indices = n.indices
      /\ low.wildChild = n.wildChild /\ low.nType = "static" /\ low.handle = n.handle
      /\ low.path # <<>> /\ low.path[1] = n.path[i + 1]
  <2>1. N + 1 \in Nat
    BY <1>1
  <2> QED BY <1>1, <2>1, HalvesOf
<1>3. n.nType # "param" /\ n.path # <<>>
  <2>1. Len(n.path) # 1 /\ Len(n.path) > 1
    <3>1. Len(n.path) \in Nat
      BY <1>1, FieldTypes
    <3> DEFINE l == Len(n.path)
    <3>2. l \in Nat /\ i \in 1..l - 1
      BY <3>1
    <3> HIDE DEF l
    <3>3. l # 1 /\ l > 1
      BY <3>2
    <3> QED BY <3>3, Zenon DEF l
  <2>2. n.nType = "param" => Len(n.path) = 1
    BY <1>1 DEF InShape
  <2> QED BY <1>1, <2>1, <2>2, FieldTypes
<1>4. u = Append([t EXCEPT ![at] = up], low)
  BY DEF SplitEdge
<1> HIDE DEF up, low, u
<1>5. /\ u \in Seq(Node) /\ Len(u) = N + 1 /\ u[at] = up /\ u[N + 1] = low
      /\ \A j \in 1..N : j # at => u[j] = t[j]
  <2> DEFINE v == [t EXCEPT ![at] = up]
  <2>1. /\ v \in Seq(Node) /\ Len(v) = N /\ v[at] = up
        /\ \A j \in 1..N : j # at => v[j] = t[j]
    BY <1>1, <1>2, Put
  <2> HIDE DEF v
  <2>2. /\ u \in Seq(Node) /\ Len(u) = Len(v) + 1 /\ u[Len(v) + 1] = low
        /\ \A j \in 1..Len(v) : u[j] = v[j]
    BY <1>2, <1>4, <2>1, PutLast DEF v
  <2> QED BY <1>1, <2>1, <2>2
<1>6. DOMAIN u = 1..N + 1
  BY <1>5, Places
<1>7. Hung(u)
  <2>1. u[at].children = <<N + 1>> /\ u[N + 1].children = t[at].children
    BY <1>2, <1>5
  <2>2. \A j \in 1..N : j # at => u[j].children = t[j].children
    BY <1>5
  <2> QED BY <1>1, <1>5, <2>1, <2>2, HungBetween DEF InShape
<1>8. \A c : Begins(t[at], c) => Begins(u[at], c)
  BY <1>2, <1>3, <1>5 DEF Begins
<1>9. Keeps(t, u, 0)
  <2>1. Len(t) <= Len(u) /\ ~Marks(t[at])
    BY <1>1, <1>3, <1>5 DEF Marks
  <2> QED BY <1>2, <1>5, <1>8, <2>1 DEF Keeps
<1>10. \A j \in 1..N : \A k \in DOMAIN t[j].children : t[j].children[k] \in 1..N
  BY <1>1, ChildrenInRange DEF InShape
<1>11. ASSUME NEW j \in 1..N + 1
       PROVE  /\ Fits(u, u[j]) /\ LinkedAt(u, u[j], 0, Slash)
              /\ u[j].nType = "param" => Len(u[j].path) = 1
  <2>1. CASE j # at /\ j # N + 1
    <3>1. j \in 1..N /\ u[j] = t[j]
      BY <1>1, <1>5, <2>1
    <3>2. /\ Fits(t, t[j]) /\ LinkedAt(t, t[j], 0, Slash)
          /\ t[j].nType = "param" => Len(t[j].path) = 1
      BY <1>1, <3>1 DEF InShape, Linked
    <3>3. SameLinks(t[j], u[j])
      BY <3>1 DEF SameLinks
    <3>4. Fits(u, u[j])
      BY <1>1, <1>5, <1>9, <1>10, <3>1, <3>2, <3>3, StillFits
    <3>5. LinkedAt(u, u[j], 0, Slash)
      BY <1>1, <1>5, <1>9, <1>10, <3>1, <3>2, <3>3, StillLinked
    <3> QED BY <3>1, <3>2, <3>4, <3>5
  <2>2. CASE j = at
    <3>1. DOMAIN up.children = {1} /\ up.children[1] = N + 1 /\ Len(up.children) = 1
      BY <1>2
    <3>2. Len(up.indices) = 1 /\ up.indices[1] = n.path[i + 1] /\ IsInjective(up.indices)
      BY <1>2 DEF IsInjective
    <3>3. u[N + 1].nType = "static" /\ up.nType # "param"
      BY <1>2, <1>3, <1>5
    <3>4. Fits(u, up)
      BY <1>2, <3>1, <3>2, <3>3 DEF Fits
    <3>5. LinkedAt(u, up, 0, Slash)
      <4>1. Begins(low, n.path[i + 1])
        BY <1>2 DEF Begins
      <4> QED BY <1>2, <1>5, <3>1, <3>2, <3>3, <4>1 DEF LinkedAt, Key
    <3> QED BY <1>5, <2>2, <3>3, <3>4, <3>5
  <2>3. CASE j = N + 1
    <3>1. Fits(t, n) /\ LinkedAt(t, n, 0, Slash)
      BY <1>1 DEF InShape, Linked
    <3>2. \A k \in DOMAIN n.children : u[n.children[k]].nType = t[n.children[k]].nType
      BY <1>9, <1>10 DEF Keeps
    <3>3. Len(n.children) = 1 => 1 \in DOMAIN n.children
      BY <1>1, FieldTypes
    <3>4. Fits(u, low)
      BY <1>2, <1>3, <3>1, <3>2, <3>3 DEF Fits
    <3>5. \A k \in DOMAIN n.children : Key(low, k) = Key(n, k)
      BY <1>2, <1>3 DEF Key
    <3>6. \A k \in DOMAIN n.children :
              n.children[k] # 0 /\ (Begins(t[n.children[k]], Key(n, k))
                                     => Begins(u[n.children[k]], Key(n, k)))
      <4>1. \A k \in DOMAIN n.children : n.children[k] \in 1..N /\ n.children[k] # 0
        BY <1>1, <1>10
      <4> HIDE DEF n
      <4> QED BY <1>9, <4>1 DEF Keeps
    <3>7. LinkedAt(u, low, 0, Slash)
      BY <1>2, <3>1, <3>5, <3>6 DEF LinkedAt
    <3> QED BY <1>2, <1>5, <2>3, <3>4, <3>7
  <2> QED BY <2>1, <2>2, <2>3
<1>12. u # <<>> /\ u[1].nType \notin {"param", "catchAll"}
  <2>1. u[1].nType = t[1].nType
    BY <1>1, <1>2, <1>5
  <2> QED BY <1>1, <1>5, <2>1 DEF InShape
<1>13. Begins(u[1], Slash)
  BY <1>1, <1>5, <1>8
<1>14. Ordered(u)
  BY <1>5, <1>6, <1>7, <1>11, <1>12, <1>13 DEF Ordered, InShape, Linked
<1>15. Handles(u) = Handles(t)
  <2>1. ASSUME NEW h, h # NoHandle
        PROVE  (\E j \in 1..N + 1 : h = u[j].handle) <=> (\E j \in 1..N : h = t[j].handle)
    <3>1. ASSUME NEW j \in 1..N + 1, h = u[j].handle
          PROVE  \E k \in 1..N : h = t[k].handle
      <4>1. CASE j = N + 1
        BY <1>2, <1>5, <3>1, <4>1
      <4>2. CASE j = at
        BY <1>2, <1>5, <2>1, <3>1, <4>2
      <4>3. CASE j # at /\ j # N + 1
        <5>1. j \in 1..N
          BY <1>1, <4>3
        <5> QED BY <1>5, <3>1, <4>3, <5>1
      <4> QED BY <4>1, <4>2, <4>3
    <3>2. ASSUME NEW j \in 1..N, h = t[j].handle
          PROVE  \E k \in 1..N + 1 : h = u[k].handle
      <4>1. N + 1 \in 1..N + 1 /\ j \in 1..N + 1
        BY <1>1
      <4>2. CASE j = at
        BY <1>2, <1>5, <3>2, <4>1, <4>2
      <4>3. CASE j # at
        BY <1>5, <3>2, <4>1, <4>3
      <4> QED BY <4>2, <4>3
    <3> QED BY <3>1, <3>2
  <2>2. \A h : h \in Handles(u) <=> h \in Handles(t)
    BY <1>1, <1>6, <2>1 DEF Handles
  <2> QED BY <2>2 DEF Handles
<1>16. /\ u[at].nType # "param" /\ u[at].wildChild = FALSE /\ u[at].priority >= 1
       /\ u[at].handle = NoHandle /\ u[at].path # <<>>
  BY <1>2, <1>3, <1>5
<1> QED BY <1>5, <1>8, <1>14, <1>15, <1>16 DEF u

-----------------------------------------------------------------------------
(* Siblings are reordered *)

\* There is a position for a child among its siblings.
LEMMA NewPosition ==
    ASSUME NEW t \in Seq(Node), NEW cs \in Seq(Nat), NEW pos \in 1..Len(cs),
           \A k \in 1..Len(cs) : cs[k] \in 1..Len(t)
    PROVE  LET p == NewPos(t, cs, pos)
           IN  /\ p \in 1..pos
               /\ \A q \in p..pos - 1 : t[cs[q]].priority < t[cs[pos]].priority
               /\ p = 1 \/ t[cs[p - 1]].priority >= t[cs[pos]].priority
<1> DEFINE prio(q) == t[cs[q]].priority
           Passes(p) == \A q \in p..pos - 1 : prio(q) < prio(pos)
           G == {p \in 1..pos : Passes(p)}
<1>1. Len(cs) \in Nat /\ pos \in Nat /\ pos >= 1 /\ pos <= Len(cs)
  OBVIOUS
<1>2. \A q \in 1..pos : prio(q) \in Nat
  <2>1. \A q \in 1..pos : q \in 1..Len(cs)
    BY <1>1
  <2>2. \A q \in 1..pos : t[cs[q]] \in Node
    BY <2>1, Places
  <2> QED BY <2>2, FieldTypes
<1> HIDE DEF prio
<1>3. pos \in G
  BY <1>1
<1>4. G \subseteq Nat /\ G # {}
  <2>1. 1..pos \subseteq Nat
    BY <1>1
  <2>2. G \subseteq 1..pos
    OBVIOUS
  <2> QED BY <1>3, <2>1, <2>2
<1>5. PICK p \in G : \A q \in G : p <= q
  <2> HIDE DEF G
  <2> QED BY <1>4, SmallestOf
<1>6. p \in 1..pos /\ Passes(p)
  BY <1>5
<1>7. p = 1 \/ prio(p - 1) >= prio(pos)
  <2> SUFFICES ASSUME p # 1, ~(prio(p - 1) >= prio(pos)) PROVE FALSE
    OBVIOUS
  <2>1. p - 1 \in 1..pos /\ p - 1 < p /\ pos \in 1..pos
    BY <1>1, <1>6
  <2>2. prio(p - 1) < prio(pos)
    BY <1>2, <2>1
  <2>3. \A q \in p - 1..pos - 1 : q = p - 1 \/ q \in p..pos - 1
    BY <1>1, <1>6
  <2>4. p - 1 \in G
    BY <1>6, <2>1, <2>2, <2>3
  <2>5. p <= p - 1
    BY <1>5, <2>4
  <2> QED BY <2>1, <2>5
<1> DEFINE There(r) == /\ \A q \in r..pos - 1 : prio(q) < prio(pos)
                       /\ r = 1 \/ prio(r - 1) >= prio(pos)
<1>8. There(p)
  BY <1>6, <1>7
<1>9. NewPos(t, cs, pos) = CHOOSE r \in 1..pos : There(r)
  BY DEF NewPos, prio
<1> DEFINE to == NewPos(t, cs, pos)
<1>10. to \in 1..pos /\ There(to)
  <2> HIDE DEF There
  <2> QED BY <1>6, <1>8, <1>9
<1> HIDE DEF to
<1> QED BY <1>10 DEF to, prio

\* Two nodes with the same child are one.
LEMMA NotShared ==
    ASSUME NEW t, NoneIsShared(t), NEW i \in DOMAIN t, NEW j \in DOMAIN t,
           NEW k \in DOMAIN t[i].children, NEW l \in DOMAIN t[j].children,
           t[i].children[k] = t[j].children[l]
    PROVE  i = j /\ k = l
BY DEF NoneIsShared

\* The children of a node change places.
LEMMA HungPermuted ==
    ASSUME NEW t \in Seq(Node), NEW u \in Seq(Node), Len(u) = Len(t), Hung(t),
           NEW at \in 1..Len(t), NEW m \in Nat, Len(t[at].children) = m, Len(u[at].children) = m,
           NEW from \in 1..m, NEW to \in 1..from,
           \A k \in 1..m : u[at].children[k] = t[at].children[Origin(from, to, k)],
           \A i \in 1..Len(t) : i # at => u[i].children = t[i].children
    PROVE  Hung(u)
<1> DEFINE N == Len(t)
           o(i, k) == IF i = at THEN Origin(from, to, k) ELSE k
<1>1. /\ N \in Nat /\ DOMAIN t = 1..N /\ DOMAIN u = 1..N
      /\ DOMAIN t[at].children = 1..m /\ DOMAIN u[at].children = 1..m
  <2>1. /\ N \in Nat /\ DOMAIN t = 1..N /\ DOMAIN u = 1..N
        /\ \A i \in 1..N : t[i] \in Node /\ u[i] \in Node
    BY Places
  <2>2. t[at].children \in Seq(Nat) /\ u[at].children \in Seq(Nat)
    BY <2>1, FieldTypes
  <2> QED BY <2>1, <2>2
<1>2. ChildrenAreNodes(t) /\ NoneIsShared(t) /\ NoneIsLost(t)
  BY DEF Hung
<1>3. /\ \A k \in 1..m : Origin(from, to, k) \in 1..m
      /\ \A k, l \in 1..m : Origin(from, to, k) = Origin(from, to, l) => k = l
      /\ \A j \in 1..m : \E k \in 1..m : Origin(from, to, k) = j
  <2>1. Shuffles(m, from, to)
    BY OriginBijects
  <2> QED BY <2>1 DEF Shuffles
<1>4. \A i \in 1..N : \A k \in DOMAIN u[i].children :
          o(i, k) \in DOMAIN t[i].children /\ u[i].children[k] = t[i].children[o(i, k)]
  BY <1>1, <1>3
<1>5. \A i \in 1..N : \A k, l \in DOMAIN u[i].children : o(i, k) = o(i, l) => k = l
  BY <1>1, <1>3
<1>6. \A i \in 1..N : \A j \in DOMAIN t[i].children :
          \E k \in DOMAIN u[i].children : o(i, k) = j
  BY <1>1, <1>3
<1> HIDE DEF o
<1>7. ChildrenAreNodes(u)
  <2> SUFFICES ASSUME NEW i \in 1..N, NEW k \in DOMAIN u[i].children
               PROVE  u[i].children[k] \in 2..N
    BY <1>1 DEF ChildrenAreNodes
  <2>1. t[i].children[o(i, k)] \in 2..N
    BY <1>1, <1>2, <1>4, Zenon DEF ChildrenAreNodes
  <2> QED BY <1>4, <2>1
<1>8. NoneIsShared(u)
  <2> SUFFICES ASSUME NEW i \in 1..N, NEW j \in 1..N,
                      NEW k \in DOMAIN u[i].children, NEW l \in DOMAIN u[j].children,
                      u[i].children[k] = u[j].children[l]
               PROVE  i = j /\ k = l
    BY <1>1 DEF NoneIsShared
  <2>1. /\ o(i, k) \in DOMAIN t[i].children /\ o(j, l) \in DOMAIN t[j].children
        /\ t[i].children[o(i, k)] = t[j].children[o(j, l)]
    BY <1>4
  <2>2. i \in DOMAIN t /\ j \in DOMAIN t
    BY <1>1
  <2>3. i = j /\ o(i, k) = o(j, l)
    BY <1>2, <2>1, <2>2, NotShared
  <2> QED BY <1>5, <2>3
<1>9. NoneIsLost(u)
  <2> SUFFICES ASSUME NEW c \in 2..N
               PROVE  \E i \in 1..N : \E k \in DOMAIN u[i].children : u[i].children[k] = c
    BY <1>1 DEF NoneIsLost
  <2>1. PICK i \in 1..N : \E j \in DOMAIN t[i].children : t[i].children[j] = c
    BY <1>1, <1>2 DEF NoneIsLost
  <2>2. PICK j \in DOMAIN t[i].children : t[i].children[j] = c
    BY <2>1
  <2>3. PICK k \in DOMAIN u[i].children : o(i, k) = j
    BY <1>6
  <2> QED BY <1>4, <2>2, <2>3
<1> QED BY <1>7, <1>8, <1>9 DEF Hung

\* Reordering the children keeps the shape and moves the bytes along.
LEMMA ChildPrioIncremented ==
    ASSUME NEW t, InShape(t), NEW at \in 1..Len(t), t[at].wildChild = FALSE,
           Len(t[at].indices) = Len(t[at].children), NEW pos \in 1..Len(t[at].children)
    PROVE  LET u == IncrementChildPrio(t, at, pos)
           IN  /\ u \in Seq(Node) /\ InShape(u) /\ Len(u) = Len(t) /\ Handles(u) = Handles(t)
               /\ \A fresh, c : Linked(t, fresh, c) => Linked(u, fresh, c)
               /\ \A i \in 1..Len(t) : \A c : Begins(t[i], c) => Begins(u[i], c)
               /\ \A i \in 1..Len(t) : u[i].nType = t[i].nType
               /\ u[t[at].children[pos]].priority >= 1
               /\ \A i \in 1..Len(t) : Marks(t[i]) => Marks(u[i])
               /\ \A i \in 1..Len(t) : i # at /\ Fresh(t[i]) => Fresh(u[i])
<1> DEFINE N == Len(t)
           child == t[at].children[pos]
           v == Bump(t, child)
           to == NewPos(v, v[at].children, pos)
           cs == Moved(v[at].children, pos, to)
           is == Moved(v[at].indices, pos, to)
           m == [v[at] EXCEPT !.children = cs, !.indices = is]
           u == IncrementChildPrio(t, at, pos)
<1>1. /\ t \in Seq(Node) /\ Hung(t) /\ N \in Nat /\ DOMAIN t = 1..N /\ t[at] \in Node
  BY Places DEF InShape
<1>2. child \in 2..N /\ child \in 1..N
  BY <1>1, ChildrenInRange
<1>3. /\ v \in Seq(Node) /\ Len(v) = N /\ InShape(v)
      /\ \A fresh, c : Linked(t, fresh, c) => Linked(v, fresh, c)
      /\ \A i \in 1..N : \A c : Begins(v[i], c) <=> Begins(t[i], c)
      /\ \A i \in 1..N : /\ SameLinks(t[i], v[i]) /\ v[i].path = t[i].path
                        /\ v[i].handle = t[i].handle
      /\ v[child].priority >= 1 /\ Handles(v) = Handles(t)
  BY <1>2, Bumped
<1> DEFINE K == Len(t[at].children)
<1>4. /\ v[at].children = t[at].children /\ v[at].indices = t[at].indices
      /\ v[at].wildChild = FALSE /\ v[at].nType = t[at].nType /\ v[at] \in Node
      /\ Hung(v) /\ DOMAIN v = 1..N
  BY <1>1, <1>3, Places DEF SameLinks, InShape
<1> HIDE DEF v, child
<1>5. /\ v[at].children \in Seq(Nat) /\ v[at].indices \in Seq(STRING)
      /\ Len(v[at].children) = K /\ Len(v[at].indices) = K /\ K \in Nat /\ pos \in 1..K
      /\ \A k \in 1..K : v[at].children[k] \in 1..N
  <2>1. v[at].children \in Seq(Nat) /\ v[at].indices \in Seq(STRING)
    BY <1>4, FieldTypes
  <2>2. \A k \in DOMAIN v[at].children : v[at].children[k] \in 1..N
    BY <1>3, <1>4, ChildrenInRange
  <2> QED BY <1>4, <2>1, <2>2
<1>6. to \in 1..pos
  BY <1>3, <1>5, NewPosition
<1> HIDE DEF to, K
<1>7. /\ cs \in Seq(Nat) /\ Len(cs) = K /\ is \in Seq(STRING) /\ Len(is) = K
      /\ \A k \in 1..K : cs[k] = v[at].children[Origin(pos, to, k)]
      /\ \A k \in 1..K : is[k] = v[at].indices[Origin(pos, to, k)]
  <2> DEFINE a == v[at].children
             b == v[at].indices
  <2>1. /\ a \in Seq(Nat) /\ b \in Seq(STRING) /\ Len(a) = K /\ Len(b) = K
        /\ pos \in 1..Len(a) /\ pos \in 1..Len(b)
    BY <1>5
  <2> HIDE DEF a, b
  <2>2. /\ Moved(a, pos, to) \in Seq(Nat) /\ Len(Moved(a, pos, to)) = Len(a)
        /\ \A k \in 1..Len(a) : Moved(a, pos, to)[k] = a[Origin(pos, to, k)]
    BY <1>6, <2>1, MovedElements, Zenon
  <2>3. /\ Moved(b, pos, to) \in Seq(STRING) /\ Len(Moved(b, pos, to)) = Len(b)
        /\ \A k \in 1..Len(b) : Moved(b, pos, to)[k] = b[Origin(pos, to, k)]
    BY <1>6, <2>1, MovedElements, Zenon
  <2> QED BY <2>1, <2>2, <2>3 DEF a, b
<1>8. u = [v EXCEPT ![at] = m]
  BY <1>3, <1>4 DEF IncrementChildPrio, v, to, child
<1> HIDE DEF cs, is
<1>9. /\ m \in Node /\ m.children = cs /\ m.indices = is /\ m.wildChild = FALSE
      /\ m.nType = t[at].nType /\ m.path = v[at].path /\ m.handle = v[at].handle
      /\ m.priority = v[at].priority
  BY <1>4, <1>7 DEF Node
<1> HIDE DEF m, u
<1>10. /\ u \in Seq(Node) /\ Len(u) = N /\ u[at] = m
       /\ \A i \in 1..N : i # at => u[i] = v[i]
  BY <1>3, <1>8, <1>9, Put
<1>11. DOMAIN u = 1..N /\ \A i \in 1..N : u[i] \in Node /\ v[i] \in Node
  BY <1>3, <1>10, Places
<1>12. Hung(u)
  <2>1. /\ Len(v[at].children) = K /\ Len(u[at].children) = K
        /\ \A k \in 1..K : u[at].children[k] = v[at].children[Origin(pos, to, k)]
        /\ \A i \in 1..N : i # at => u[i].children = v[i].children
    BY <1>5, <1>7, <1>9, <1>10
  <2>2. at \in 1..Len(v) /\ Len(u) = Len(v) /\ \A i \in 1..Len(v) : i # at => u[i].children = v[i].children
    BY <1>3, <1>10, <2>1
  <2> QED BY <1>3, <1>4, <1>5, <1>6, <1>10, <2>1, <2>2, HungPermuted, Zenon
<1>13. Handles(u) = Handles(v)
  <2>1. \A i \in 1..N : u[i].handle = v[i].handle
    BY <1>9, <1>10
  <2> QED BY <1>3, <1>10, <2>1, SameHandles
<1>14. /\ \A k \in 1..K : Origin(pos, to, k) \in 1..K
       /\ \A k, l \in 1..K : Origin(pos, to, k) = Origin(pos, to, l) => k = l
  <2>1. Shuffles(K, pos, to)
    BY <1>5, <1>6, OriginBijects
  <2> QED BY <2>1 DEF Shuffles
<1>15. \A c : Begins(v[at], c) => Begins(m, c)
  <2> SUFFICES ASSUME NEW c, Begins(v[at], c) PROVE Begins(m, c)
    OBVIOUS
  <2>1. CASE v[at].path # <<>>
    BY <1>9, <2>1 DEF Begins
  <2>2. CASE v[at].path = <<>>
    <3>1. v[at].indices = <<c>>
      BY <1>4, <2>2 DEF Begins
    <3>2. K = 1 /\ v[at].indices[1] = c
      BY <1>5, <3>1
    <3>3. is = <<c>>
      <4>1. Origin(pos, to, 1) = 1
        BY <1>14, <3>2
      <4>2. is[1] = c /\ Len(is) = 1
        BY <1>7, <3>2, <4>1
      <4> QED BY <1>7, <4>2
    <3> QED BY <1>9, <2>2, <3>3 DEF Begins
  <2> QED BY <2>1, <2>2
<1>16. /\ \A i \in 1..N : \A c : Begins(v[i], c) => Begins(u[i], c)
       /\ \A i \in 1..N : u[i].nType = v[i].nType
       /\ \A i \in 1..N : Marks(v[i]) => Marks(u[i])
  <2>1. Marks(v[at]) => Marks(m)
    BY <1>4, <1>9 DEF Marks
  <2> QED BY <1>4, <1>9, <1>10, <1>15, <2>1
<1>17. Keeps(v, u, 0)
  <2>1. Len(v) <= Len(u)
    BY <1>1, <1>3, <1>10
  <2> QED BY <1>3, <1>16, <2>1 DEF Keeps
<1>18. \A i \in 1..N : \A k \in DOMAIN v[i].children : v[i].children[k] \in 1..N
  BY <1>3, <1>4, ChildrenInRange
<1>19. ASSUME NEW i \in 1..N
       PROVE  Fits(u, u[i]) /\ (u[i].nType = "param" => Len(u[i].path) = 1)
  <2>1. Fits(v, v[i]) /\ (v[i].nType = "param" => Len(v[i].path) = 1)
    BY <1>3, <1>4 DEF InShape
  <2>2. CASE i # at
    <3>1. u[i] = v[i] /\ SameLinks(v[i], u[i])
      BY <1>10, <2>2 DEF SameLinks
    <3> QED BY <1>3, <1>10, <1>11, <1>17, <1>18, <2>1, <3>1, StillFits
  <2>3. CASE i = at
    <3>1. \A k \in 1..K : u[cs[k]].nType # "param"
      <4>0. DOMAIN v[at].children = 1..K
        BY <1>5
      <4>1. \A k \in 1..K : v[v[at].children[k]].nType # "param"
        BY <1>4, <2>1, <2>3, <4>0 DEF Fits
      <4> SUFFICES ASSUME NEW k \in 1..K PROVE u[cs[k]].nType # "param"
        OBVIOUS
      <4>2. cs[k] = v[at].children[Origin(pos, to, k)] /\ Origin(pos, to, k) \in 1..K
        BY <1>7, <1>14
      <4>3. cs[k] \in 1..N /\ v[cs[k]].nType # "param"
        BY <1>5, <4>1, <4>2
      <4> QED BY <1>16, <4>3
    <3>2. DOMAIN cs = 1..K /\ DOMAIN is = 1..K /\ DOMAIN v[at].indices = 1..K
      BY <1>5, <1>7
    <3>3. CASE m.nType = "param"
      <4>1. K <= 1 /\ K # 0
        BY <1>4, <1>5, <1>9, <2>1, <2>3, <3>3 DEF Fits
      <4>2. cs # <<>>
        BY <1>7, <4>1
      <4> QED BY <1>4, <1>7, <1>9, <1>10, <2>1, <2>3, <3>1, <3>2, <3>3, <4>1, <4>2 DEF Fits
    <3>4. CASE m.nType # "param"
      <4>1. IsInjective(v[at].indices)
        BY <1>4, <1>9, <2>1, <2>3, <3>4 DEF Fits
      <4>2. IsInjective(is)
        <5> SUFFICES ASSUME NEW k \in 1..K, NEW l \in 1..K, is[k] = is[l] PROVE k = l
          BY <3>2 DEF IsInjective
        <5>1. /\ Origin(pos, to, k) \in 1..K /\ Origin(pos, to, l) \in 1..K
              /\ v[at].indices[Origin(pos, to, k)] = v[at].indices[Origin(pos, to, l)]
          BY <1>7, <1>14
        <5>2. Origin(pos, to, k) = Origin(pos, to, l)
          BY <3>2, <4>1, <5>1, Zenon DEF IsInjective
        <5> QED BY <1>14, <5>2
      <4> QED BY <1>7, <1>9, <1>10, <2>3, <3>1, <3>2, <3>4, <4>2 DEF Fits
    <3> QED BY <3>3, <3>4
  <2> QED BY <2>2, <2>3
<1>20. u # <<>> /\ u[1].nType \notin {"param", "catchAll"}
  <2>1. 1 \in 1..N /\ v[1].nType \notin {"param", "catchAll"}
    BY <1>3, Places DEF InShape
  <2> QED BY <1>10, <1>16, <2>1
<1>21. InShape(u)
  BY <1>10, <1>11, <1>12, <1>19, <1>20 DEF InShape
<1>22. ASSUME NEW fresh, NEW c, Linked(v, fresh, c) PROVE Linked(u, fresh, c)
  <2> SUFFICES ASSUME NEW i \in 1..N PROVE LinkedAt(u, u[i], fresh, c)
    BY <1>11 DEF Linked
  <2>1. LinkedAt(v, v[i], fresh, c)
    BY <1>4, <1>22 DEF Linked
  <2>2. CASE i # at
    <3>1. u[i] = v[i] /\ SameLinks(v[i], u[i])
      BY <1>10, <2>2 DEF SameLinks
    <3> QED BY <1>3, <1>10, <1>11, <1>17, <1>18, <2>1, <3>1, StillLinked
  <2>3. CASE i = at
    <3> DEFINE n == v[at]
    <3>1. DOMAIN m.children = 1..K /\ DOMAIN n.children = 1..K
      BY <1>5, <1>7, <1>9
    <3>2. ASSUME NEW k \in 1..K
          PROVE  /\ m.children[k] = n.children[Origin(pos, to, k)]
                 /\ Key(m, k) = Key(n, Origin(pos, to, k))
                 /\ Origin(pos, to, k) \in 1..K
                 /\ n.children[Origin(pos, to, k)] \in 1..N
      BY <1>4, <1>5, <1>7, <1>9, <1>14 DEF Key
    <3>3. \A j \in 1..K : /\ \/ n.children[j] = fresh /\ Key(n, j) = c
                             \/ Begins(v[n.children[j]], Key(n, j))
                          /\ n.path = <<>> => Marks(v[n.children[j]])
      BY <1>4, <2>1, <2>3, <3>1 DEF LinkedAt
    <3>4. m.path = n.path
      BY <1>9
    <3> HIDE DEF n
    <3>5. ASSUME NEW k \in 1..K
          PROVE  /\ \/ m.children[k] = fresh /\ Key(m, k) = c
                    \/ Begins(u[m.children[k]], Key(m, k))
                 /\ m.path = <<>> => Marks(u[m.children[k]])
      <4> DEFINE o == Origin(pos, to, k)
                 d == n.children[o]
      <4>1. /\ m.children[k] = d /\ Key(m, k) = Key(n, o) /\ o \in 1..K /\ d \in 1..N
        BY <3>2
      <4>2. /\ \/ d = fresh /\ Key(n, o) = c
               \/ Begins(v[d], Key(n, o))
            /\ n.path = <<>> => Marks(v[d])
        BY <3>3, <4>1
      <4> HIDE DEF o, d
      <4> QED BY <1>16, <3>4, <4>1, <4>2
    <3> QED BY <1>10, <2>3, <3>1, <3>5 DEF LinkedAt
  <2> QED BY <2>2, <2>3
<1>23. u[child].priority >= 1
  BY <1>2, <1>3, <1>9, <1>10
<1>24. ASSUME NEW i \in 1..N, i # at, Fresh(t[i]) PROVE Fresh(u[i])
  BY <1>3, <1>10, <1>24 DEF Fresh, SameLinks
<1>25. \A i \in 1..N : u[i].nType = t[i].nType
  BY <1>3, <1>16 DEF SameLinks
<1>26. /\ \A i \in 1..N : \A c : Begins(t[i], c) => Begins(u[i], c)
       /\ \A i \in 1..N : Marks(t[i]) => Marks(u[i])
  <2>1. \A i \in 1..N : Marks(t[i]) => Marks(v[i])
    BY <1>3 DEF Marks, SameLinks
  <2> QED BY <1>3, <1>16, <2>1
<1>27. \A fresh, c : Linked(t, fresh, c) => Linked(u, fresh, c)
  BY <1>3, <1>22
<1>28. Handles(u) = Handles(t)
  BY <1>3, <1>13
<1> QED BY <1>10, <1>21, <1>23, <1>24, <1>25, <1>26, <1>27, <1>28 DEF u, child
-----------------------------------------------------------------------------
(* A node gets a new child *)

\* One more child, which has none.
LEMMA HungOn ==
    ASSUME NEW t \in Seq(Node), NEW u \in Seq(Node), Len(u) = Len(t) + 1, Hung(t),
           NEW at \in 1..Len(t),
           u[at].children = Append(t[at].children, Len(t) + 1), u[Len(t) + 1].children = <<>>,
           \A i \in 1..Len(t) : i # at => u[i].children = t[i].children
    PROVE  Hung(u)
<1> DEFINE N == Len(t)
           K == Len(t[at].children)
<1>1. /\ N \in Nat /\ at \in Nat /\ 1 <= at /\ at <= N
      /\ DOMAIN t = 1..N /\ DOMAIN u = 1..N + 1 /\ t[at] \in Node
  BY Places
<1>2. ChildrenAreNodes(t) /\ NoneIsShared(t) /\ NoneIsLost(t)
  BY DEF Hung
<1>3. /\ K \in Nat /\ DOMAIN t[at].children = 1..K /\ DOMAIN u[at].children = 1..K + 1
      /\ u[at].children[K + 1] = N + 1
      /\ \A k \in 1..K : u[at].children[k] = t[at].children[k]
  <2> DEFINE cs == t[at].children
  <2>1. cs \in Seq(Nat) /\ N + 1 \in Nat
    BY <1>1, FieldTypes
  <2> HIDE DEF cs
  <2>2. /\ Len(cs) \in Nat /\ DOMAIN cs = 1..Len(cs)
        /\ DOMAIN Append(cs, N + 1) = 1..Len(cs) + 1
        /\ Append(cs, N + 1)[Len(cs) + 1] = N + 1
        /\ \A k \in 1..Len(cs) : Append(cs, N + 1)[k] = cs[k]
    BY <2>1
  <2> QED BY <2>2 DEF cs
<1> HIDE DEF K
<1>4. DOMAIN u[N + 1].children = {}
  OBVIOUS
<1>5. ASSUME NEW i \in 1..N, NEW k \in DOMAIN u[i].children
      PROVE  \/ i = at /\ k = K + 1 /\ u[i].children[k] = N + 1
             \/ k \in DOMAIN t[i].children /\ u[i].children[k] = t[i].children[k]
  <2>1. CASE i # at
    BY <2>1
  <2>2. CASE i = at
    <3>1. k = K + 1 \/ k \in 1..K
      BY <1>3, <2>2
    <3> QED BY <1>3, <2>2, <3>1
  <2> QED BY <2>1, <2>2
<1>6. \A i \in 1..N : \A k \in DOMAIN t[i].children : t[i].children[k] \in 2..N
  BY <1>1, <1>2 DEF ChildrenAreNodes
<1>7. \A i \in 1..N + 1 : i = N + 1 \/ i \in 1..N
  BY <1>1
<1>8. ChildrenAreNodes(u)
  <2> SUFFICES ASSUME NEW i \in 1..N + 1, NEW k \in DOMAIN u[i].children
               PROVE  u[i].children[k] \in 2..N + 1
    BY <1>1 DEF ChildrenAreNodes
  <2>1. i \in 1..N
    BY <1>4, <1>7
  <2>2. CASE u[i].children[k] = N + 1
    BY <1>1, <2>2
  <2>3. CASE u[i].children[k] \in 2..N
    BY <1>1, <2>3
  <2> QED BY <1>5, <1>6, <2>1, <2>2, <2>3
<1>9. NoneIsShared(u)
  <2> SUFFICES ASSUME NEW i \in 1..N + 1, NEW j \in 1..N + 1,
                      NEW k \in DOMAIN u[i].children, NEW l \in DOMAIN u[j].children,
                      u[i].children[k] = u[j].children[l]
               PROVE  i = j /\ k = l
    BY <1>1 DEF NoneIsShared
  <2>1. i \in 1..N /\ j \in 1..N
    BY <1>4, <1>7
  <2>2. N + 1 \notin 2..N
    BY <1>1
  <2>3. CASE u[i].children[k] = N + 1
    <3>1. \A h \in 1..N : \A q \in DOMAIN t[h].children : t[h].children[q] # N + 1
      BY <1>6, <2>2
    <3>2. i = at /\ k = K + 1
      BY <1>5, <2>1, <2>3, <3>1
    <3>3. j = at /\ l = K + 1
      BY <1>5, <2>1, <2>3, <3>1
    <3> QED BY <3>2, <3>3
  <2>4. CASE u[i].children[k] # N + 1
    <3>1. /\ k \in DOMAIN t[i].children /\ l \in DOMAIN t[j].children
          /\ t[i].children[k] = t[j].children[l]
      BY <1>5, <2>1, <2>4
    <3>2. DOMAIN t = 1..N /\ NoneIsShared(t)
      BY <1>1, <1>2
    <3>3. i \in DOMAIN t /\ j \in DOMAIN t
      BY <2>1, <3>2
    <3> QED BY <3>1, <3>2, <3>3 DEF NoneIsShared
  <2> QED BY <2>3, <2>4
<1>10. NoneIsLost(u)
  <2> SUFFICES ASSUME NEW c \in 2..N + 1
               PROVE  \E i \in 1..N + 1 : \E k \in DOMAIN u[i].children : u[i].children[k] = c
    BY <1>1 DEF NoneIsLost
  <2>1. CASE c = N + 1
    <3>1. at \in 1..N + 1 /\ K + 1 \in 1..K + 1
      BY <1>1, <1>3
    <3> QED BY <1>3, <2>1, <3>1
  <2>2. CASE c # N + 1
    <3>1. c \in 2..N
      BY <1>1, <2>2
    <3>2. PICK i \in 1..N : \E k \in DOMAIN t[i].children : t[i].children[k] = c
      BY <1>1, <1>2, <3>1 DEF NoneIsLost
    <3>3. PICK k \in DOMAIN t[i].children : t[i].children[k] = c
      BY <3>2
    <3>4. k \in DOMAIN u[i].children /\ u[i].children[k] = c
      <4>1. CASE i = at
        <5>1. k \in 1..K /\ k \in 1..K + 1
          BY <1>3, <3>3, <4>1
        <5> QED BY <1>3, <3>3, <4>1, <5>1
      <4>2. CASE i # at
        BY <3>3, <4>2
      <4> QED BY <4>1, <4>2
    <3>5. i \in 1..N + 1
      BY <1>1
    <3> QED BY <3>4, <3>5
  <2> QED BY <2>1, <2>2
<1> QED BY <1>8, <1>9, <1>10 DEF Hung

\* A node without children takes its first.
LEMMA HungFirst ==
    ASSUME NEW t \in Seq(Node), NEW u \in Seq(Node), Len(u) = Len(t) + 1, Hung(t),
           NEW at \in 1..Len(t), t[at].children = <<>>,
           u[at].children = <<Len(t) + 1>>, u[Len(t) + 1].children = <<>>,
           \A i \in 1..Len(t) : i # at => u[i].children = t[i].children
    PROVE  Hung(u)
<1>1. u[at].children = Append(t[at].children, Len(t) + 1)
  OBVIOUS
<1> QED BY <1>1, HungOn

\* A node with a child more, which is still empty.
Grown(t, at, c) ==
    Append([t EXCEPT ![at].indices = Append(@, c), ![at].children = Append(@, Len(t) + 1)],
           EmptyNode)

GrownFrom(t, v, at, c) ==
    LET N == Len(t)
        K == Len(t[at].children)
    IN  /\ InShape(v) /\ Linked(v, N + 1, c) /\ Keeps(t, v, 0)
        /\ v \in Seq(Node) /\ Len(v) = N + 1 /\ v[N + 1] = EmptyNode
        /\ \A i \in 1..N : i # at => v[i] = t[i]
        /\ v[at].path = t[at].path /\ v[at].handle = t[at].handle
        /\ v[at].wildChild = FALSE /\ v[at].nType = t[at].nType
        /\ v[at].priority = t[at].priority
        /\ K \in Nat /\ Len(t[at].indices) = K
        /\ Len(v[at].children) = K + 1 /\ Len(v[at].indices) = K + 1
        /\ v[at].children[K + 1] = N + 1 /\ v[at].indices[K + 1] = c
        /\ \A k \in 1..K : /\ v[at].children[k] = t[at].children[k]
                           /\ v[at].indices[k] = t[at].indices[k]

\* GrowChild appends an empty node and its byte, and raises its priority.
LEMMA ChildAppended ==
    ASSUME NEW t, Ordered(t), NEW at \in 1..Len(t), t[at].wildChild = FALSE,
           t[at].path # <<>>, NEW c \in STRING,
           \A k \in 1..Len(t[at].indices) : t[at].indices[k] # c,
           t[at].nType = "param" => c = Slash /\ t[at].children = <<>>
    PROVE  /\ GrownFrom(t, Grown(t, at, c), at, c)
           /\ GrowChild(t, at, c) =
                  IncrementChildPrio(Grown(t, at, c), at, Len(t[at].children) + 1)
<1> DEFINE n == t[at]
           N == Len(t)
           is == Append(n.indices, c)
           cs == Append(n.children, N + 1)
           m == [n EXCEPT !.indices = is, !.children = cs]
           v == Grown(t, at, c)
           K == Len(n.children)
<1>1. /\ t \in Seq(Node) /\ InShape(t) /\ Linked(t, 0, Slash) /\ Begins(t[1], Slash)
      /\ 1 \in 1..N /\ n \in Node /\ N \in Nat /\ DOMAIN t = 1..N
      /\ at \in Nat /\ at >= 1 /\ at <= N /\ Hung(t)
      /\ \A j \in 1..N : t[j] \in Node
  BY Places DEF Ordered, InShape
<1>2. Fits(t, n) /\ LinkedAt(t, n, 0, Slash) /\ (n.nType = "param" => Len(n.path) = 1)
  BY <1>1 DEF InShape, Linked
<1>3. /\ n.indices \in Seq(STRING) /\ n.children \in Seq(Nat) /\ K \in Nat
      /\ Len(n.indices) = K
  <2>1. n.indices \in Seq(STRING) /\ n.children \in Seq(Nat)
    BY <1>1, FieldTypes
  <2>2. CASE n.nType = "param"
    <3>1. n.children = <<>> /\ n.indices = <<>>
      BY <1>2, <2>2 DEF Fits
    <3> QED BY <2>1, <3>1
  <2>3. CASE n.nType # "param"
    BY <1>2, <2>1, <2>3 DEF Fits
  <2> QED BY <2>2, <2>3
<1>4. /\ is \in Seq(STRING) /\ cs \in Seq(Nat) /\ Len(is) = K + 1 /\ Len(cs) = K + 1
      /\ DOMAIN is = 1..K + 1 /\ DOMAIN cs = 1..K + 1
      /\ DOMAIN n.children = 1..K /\ DOMAIN n.indices = 1..K
      /\ is[K + 1] = c /\ cs[K + 1] = N + 1
      /\ \A k \in 1..K : is[k] = n.indices[k] /\ cs[k] = n.children[k]
  <2> DEFINE a == n.indices
             b == n.children
  <2>1. a \in Seq(STRING) /\ b \in Seq(Nat) /\ N + 1 \in Nat /\ Len(a) = K /\ Len(b) = K
    BY <1>1, <1>3
  <2> HIDE DEF a, b, K
  <2>2. /\ Append(a, c) \in Seq(STRING) /\ Len(Append(a, c)) = K + 1
        /\ DOMAIN Append(a, c) = 1..K + 1 /\ Append(a, c)[K + 1] = c
        /\ DOMAIN a = 1..K /\ \A k \in 1..K : Append(a, c)[k] = a[k]
    BY <2>1
  <2>3. /\ Append(b, N + 1) \in Seq(Nat) /\ Len(Append(b, N + 1)) = K + 1
        /\ DOMAIN Append(b, N + 1) = 1..K + 1 /\ Append(b, N + 1)[K + 1] = N + 1
        /\ DOMAIN b = 1..K /\ \A k \in 1..K : Append(b, N + 1)[k] = b[k]
    BY <2>1
  <2> QED BY <2>2, <2>3 DEF a, b
<1>5. v = Append([t EXCEPT ![at] = m], EmptyNode)
  BY <1>1 DEF Grown
<1> HIDE DEF is, cs, v
<1>7. /\ m \in Node /\ m.children = cs /\ m.indices = is /\ m.wildChild = FALSE
      /\ m.nType = n.nType /\ m.path = n.path /\ m.handle = n.handle
      /\ m.priority = n.priority
  BY <1>1, <1>4 DEF Node
<1> HIDE DEF m
<1>8. /\ v \in Seq(Node) /\ Len(v) = N + 1 /\ v[at] = m /\ v[N + 1] = EmptyNode
      /\ \A i \in 1..N : i # at => v[i] = t[i]
  <2> DEFINE w == [t EXCEPT ![at] = m]
  <2>1. /\ w \in Seq(Node) /\ Len(w) = N /\ w[at] = m
        /\ \A i \in 1..N : i # at => w[i] = t[i]
    BY <1>1, <1>7, Put
  <2>2. v = Append(w, EmptyNode)
    BY <1>5
  <2> HIDE DEF w
  <2>3. /\ v \in Seq(Node) /\ Len(v) = Len(w) + 1 /\ v[Len(w) + 1] = EmptyNode
        /\ \A i \in 1..Len(w) : v[i] = w[i]
    BY <2>1, <2>2, PutLast, EmptyNodeIs
  <2> QED BY <1>1, <2>1, <2>3
<1>9. DOMAIN v = 1..N + 1 /\ N + 1 \in 1..N + 1 /\ 1 \in 1..N + 1 /\ at \in 1..N + 1
      /\ at # N + 1 /\ \A i \in 1..N + 1 : i = N + 1 \/ i \in 1..N
  BY <1>1, <1>8, Places
<1>10. Hung(v)
  <2>1. /\ v[at].children = Append(t[at].children, Len(t) + 1) /\ v[Len(t) + 1].children = <<>>
        /\ \A i \in 1..Len(t) : i # at => v[i].children = t[i].children
    BY <1>7, <1>8, EmptyNodeIs DEF cs
  <2> QED BY <1>1, <1>8, <2>1, HungOn
<1>11. \A d : Begins(n, d) => Begins(m, d)
  BY <1>7 DEF Begins
<1>12. Keeps(t, v, 0)
  <2>1. Len(t) <= Len(v)
    BY <1>1, <1>8
  <2>2. \A i \in 1..N : v[i].nType = t[i].nType
    BY <1>7, <1>8
  <2>3. \A i \in 1..N : \A d : Begins(t[i], d) => Begins(v[i], d)
    BY <1>8, <1>11
  <2>4. \A i \in 1..N : Marks(t[i]) => Marks(v[i])
    BY <1>7, <1>8 DEF Marks
  <2> QED BY <2>1, <2>2, <2>3, <2>4 DEF Keeps
<1>13. \A j \in 1..N : \A k \in DOMAIN t[j].children : t[j].children[k] \in 1..N
  BY <1>1, ChildrenInRange
<1>14. ASSUME NEW i \in 1..N + 1
       PROVE  /\ Fits(v, v[i]) /\ LinkedAt(v, v[i], N + 1, c)
              /\ v[i].nType = "param" => Len(v[i].path) = 1
  <2>1. CASE i # at /\ i # N + 1
    <3>1. i \in 1..N /\ v[i] = t[i]
      BY <1>8, <1>9, <2>1
    <3>2. /\ Fits(t, t[i]) /\ LinkedAt(t, t[i], 0, Slash)
          /\ t[i].nType = "param" => Len(t[i].path) = 1
      BY <1>1, <3>1 DEF InShape, Linked
    <3>3. SameLinks(t[i], v[i])
      BY <3>1 DEF SameLinks
    <3>4. Fits(v, v[i])
      BY <1>1, <1>8, <1>12, <1>13, <3>1, <3>2, <3>3, StillFits
    <3>5. LinkedAt(v, v[i], 0, Slash)
      BY <1>1, <1>8, <1>12, <1>13, <3>1, <3>2, <3>3, StillLinked
    <3>6. LinkedAt(v, v[i], N + 1, c)
      <4>1. \A k \in DOMAIN t[i].children : t[i].children[k] # 0
        BY <1>13, <3>1
      <4> QED BY <3>1, <3>5, <4>1 DEF LinkedAt
    <3> QED BY <3>1, <3>2, <3>4, <3>6
  <2>2. CASE i = N + 1
    <3>1. Fits(v, EmptyNode)
      <4>1. IsInjective(<<>>)
        BY DEF IsInjective
      <4> QED BY <4>1, EmptyNodeIs DEF Fits
    <3>2. LinkedAt(v, EmptyNode, N + 1, c)
      BY EmptyNodeIs DEF LinkedAt
    <3> QED BY <1>8, <2>2, <3>1, <3>2, EmptyNodeIs
  <2>3. CASE i = at
    <3>1. \A k \in 1..K : v[cs[k]].nType # "param"
      <4> SUFFICES ASSUME NEW k \in 1..K PROVE v[cs[k]].nType # "param"
        OBVIOUS
      <4>1. t[n.children[k]].nType # "param" /\ n.children[k] \in 1..N
        BY <1>1, <1>2, <1>4, <1>13 DEF Fits
      <4> QED BY <1>4, <1>12, <4>1 DEF Keeps
    <3>2. v[cs[K + 1]].nType # "param"
      BY <1>4, <1>8, EmptyNodeIs
    <3>3. \A k \in 1..K + 1 : k = K + 1 \/ k \in 1..K
      BY <1>3
    <3> HIDE DEF K
    <3>4. \A k \in DOMAIN m.children : v[m.children[k]].nType # "param"
      BY <1>4, <1>7, <3>1, <3>2, <3>3
    <3>5. CASE n.nType = "param"
      <4>1. K = 0
        BY <2>3, <3>5 DEF K
      <4>2. cs # <<>>
        BY <1>3, <1>4
      <4>3. Fits(v, m)
        <5>1. /\ Len(m.children) <= 1 /\ m.children # <<>> /\ m.nType = "param"
              /\ Len(m.indices) <= Len(m.children)
          <6>1. Len(m.children) = 0 + 1
            BY <1>4, <1>7, <4>1
          <6>2. m.children # <<>> /\ m.nType = "param"
            BY <1>7, <3>5, <4>2
          <6>3. Len(m.indices) = 0 + 1
            BY <1>4, <1>7, <4>1
          <6> QED BY <6>1, <6>2, <6>3
        <5> QED BY <1>7, <3>4, <5>1 DEF Fits
      <4>4. LinkedAt(v, m, N + 1, c)
        <5>1. \A k \in 1..K + 1 : m.children[k] = N + 1 /\ Key(m, k) = c
          BY <1>4, <1>7, <3>5, <4>1 DEF Key
        <5> QED BY <1>4, <1>7, <5>1 DEF LinkedAt
      <4> QED BY <1>2, <1>7, <1>8, <2>3, <4>3, <4>4
    <3>6. CASE n.nType # "param"
      <4>1. IsInjective(is)
        <5>1. IsInjective(n.indices)
          BY <1>2, <3>6 DEF Fits
        <5> SUFFICES ASSUME NEW k \in 1..K + 1, NEW l \in 1..K + 1, is[k] = is[l] PROVE k = l
          BY <1>4 DEF IsInjective
        <5>2. CASE k = K + 1 /\ l = K + 1
          BY <5>2
        <5>3. CASE k = K + 1 /\ l \in 1..K
          BY <1>3, <1>4, <5>3
        <5>4. CASE k \in 1..K /\ l = K + 1
          BY <1>3, <1>4, <5>4
        <5>5. CASE k \in 1..K /\ l \in 1..K
          <6>1. n.indices[k] = n.indices[l] /\ k \in DOMAIN n.indices /\ l \in DOMAIN n.indices
            BY <1>4, <5>5
          <6> QED BY <5>1, <6>1, Zenon DEF IsInjective
        <5> QED BY <3>3, <5>2, <5>3, <5>4, <5>5
      <4>2. Fits(v, m)
        BY <1>3, <1>4, <1>7, <3>4, <3>6, <4>1 DEF Fits
      <4>3. LinkedAt(v, m, N + 1, c)
        <5>1. ASSUME NEW k \in 1..K
              PROVE  Begins(v[m.children[k]], Key(m, k))
          <6>1. Key(m, k) = Key(n, k) /\ m.children[k] = n.children[k]
            BY <1>4, <1>7 DEF Key
          <6>2. n.children[k] \in 1..N /\ n.children[k] # 0
            <7>1. k \in DOMAIN t[at].children
              BY <1>4
            <7>2. t[at].children[k] \in 1..N
              BY <1>13, <7>1
            <7> QED BY <7>2
          <6>3. Begins(t[n.children[k]], Key(n, k))
            BY <1>2, <1>4, <6>2 DEF LinkedAt
          <6> QED BY <1>12, <6>1, <6>2, <6>3 DEF Keeps
        <5>2. m.children[K + 1] = N + 1 /\ Key(m, K + 1) = c
          BY <1>4, <1>7, <3>6 DEF Key
        <5> QED BY <1>4, <1>7, <3>3, <5>1, <5>2 DEF LinkedAt
      <4> QED BY <1>7, <1>8, <2>3, <3>6, <4>2, <4>3
    <3> QED BY <3>5, <3>6
  <2> QED BY <2>1, <2>2, <2>3
<1>15. v # <<>> /\ v[1].nType \notin {"param", "catchAll"}
  BY <1>1, <1>8, <1>9, <1>12 DEF Keeps, InShape
<1>16. InShape(v) /\ Linked(v, N + 1, c)
  BY <1>8, <1>9, <1>10, <1>14, <1>15 DEF InShape, Linked
<1>17. GrowChild(t, at, c) = IncrementChildPrio(v, at, K + 1)
  BY <1>3 DEF GrowChild, Grown, v
<1>18. /\ v[at].path = t[at].path /\ v[at].handle = t[at].handle
       /\ v[at].wildChild = FALSE /\ v[at].nType = t[at].nType
       /\ v[at].priority = t[at].priority
  BY <1>7, <1>8
<1>19. /\ Len(v[at].children) = K + 1 /\ Len(v[at].indices) = K + 1
       /\ v[at].children[K + 1] = N + 1 /\ v[at].indices[K + 1] = c
       /\ \A k \in 1..K : /\ v[at].children[k] = t[at].children[k]
                          /\ v[at].indices[k] = t[at].indices[k]
  BY <1>4, <1>7, <1>8
<1>20. GrownFrom(t, v, at, c)
  BY <1>3, <1>8, <1>12, <1>16, <1>18, <1>19 DEF GrownFrom
<1> QED BY <1>17, <1>20 DEF v

\* A child grown for a new byte is linked and still empty.
LEMMA ChildGrown ==
    ASSUME NEW t, Ordered(t), NEW at \in 1..Len(t), t[at].wildChild = FALSE,
           t[at].path # <<>>, NEW c \in STRING,
           \A k \in 1..Len(t[at].indices) : t[at].indices[k] # c,
           t[at].nType = "param" => c = Slash /\ t[at].children = <<>>
    PROVE  LET u == GrowChild(t, at, c)
           IN  /\ u \in Seq(Node) /\ InShape(u) /\ Len(u) = Len(t) + 1
               /\ Handles(u) = Handles(t) /\ Linked(u, Len(t) + 1, c)
               /\ Fresh(u[Len(t) + 1]) /\ Begins(u[1], Slash)
<1> DEFINE N == Len(t)
           v == Grown(t, at, c)
           K == Len(t[at].children)
           u == GrowChild(t, at, c)
<1>1. t \in Seq(Node) /\ Begins(t[1], Slash) /\ 1 \in 1..N /\ N \in Nat /\ DOMAIN t = 1..N
  BY Places DEF Ordered, InShape
<1>2. GrownFrom(t, v, at, c) /\ u = IncrementChildPrio(v, at, K + 1)
  BY ChildAppended
<1> HIDE DEF u, v
<1>3. /\ InShape(v) /\ Linked(v, N + 1, c) /\ Keeps(t, v, 0)
      /\ v \in Seq(Node) /\ Len(v) = N + 1 /\ v[N + 1] = EmptyNode
      /\ \A i \in 1..N : v[i].handle = t[i].handle
  BY <1>2 DEF GrownFrom
<1>4. /\ DOMAIN v = 1..N + 1 /\ N + 1 \in 1..N + 1 /\ 1 \in 1..N + 1 /\ at \in 1..N + 1
      /\ at # N + 1 /\ \A i \in 1..N + 1 : i = N + 1 \/ i \in 1..N
  BY <1>1, <1>3, Places
<1>5. Handles(v) = Handles(t)
  <2>2. ASSUME NEW h, h # NoHandle
        PROVE  (\E j \in 1..N + 1 : h = v[j].handle) <=> (\E j \in 1..N : h = t[j].handle)
    <3>1. \A j \in 1..N : j \in 1..N + 1
      BY <1>1
    <3> QED BY <1>3, <1>4, <2>2, <3>1, EmptyNodeIs DEF NoHandle
  <2>3. \A h : h \in Handles(v) <=> h # NoHandle /\ \E j \in 1..N + 1 : h = v[j].handle
    BY <1>4 DEF Handles
  <2>4. \A h : h \in Handles(t) <=> h # NoHandle /\ \E j \in 1..N : h = t[j].handle
    BY <1>1 DEF Handles
  <2>5. \A h : h \in Handles(v) <=> h \in Handles(t)
    BY <2>2, <2>3, <2>4
  <2> QED BY <2>5 DEF Handles
<1>6. Fresh(v[N + 1]) /\ Begins(v[1], Slash)
  BY <1>1, <1>3, EmptyNodeIs DEF Keeps
<1>7. /\ at \in 1..Len(v) /\ v[at].wildChild = FALSE
      /\ Len(v[at].indices) = Len(v[at].children) /\ K + 1 \in 1..Len(v[at].children)
  BY <1>2, <1>3, <1>4 DEF GrownFrom
<1>8. /\ u \in Seq(Node) /\ InShape(u) /\ Len(u) = Len(v) /\ Handles(u) = Handles(v)
      /\ \A fresh, d : Linked(v, fresh, d) => Linked(u, fresh, d)
      /\ \A i \in 1..Len(v) : \A d : Begins(v[i], d) => Begins(u[i], d)
      /\ \A i \in 1..Len(v) : i # at /\ Fresh(v[i]) => Fresh(u[i])
  <2> HIDE DEF K
  <2> QED BY <1>2, <1>3, <1>7, ChildPrioIncremented
<1>9. Begins(u[1], Slash) /\ Fresh(u[N + 1])
  BY <1>3, <1>4, <1>6, <1>8
<1> QED BY <1>3, <1>5, <1>8, <1>9 DEF u

-----------------------------------------------------------------------------
(* The rest of a route is hung below a node *)

\* The node awaits the rest: it is still empty and reached by the byte c, or
\* (fresh = 0) it is in order and the rest begins with a wildcard.
Ready(t, at, fresh, c) ==
    /\ InShape(t) /\ at \in 1..Len(t) /\ fresh \in {0, at} /\ Linked(t, fresh, c)
    /\ t[at].nType # "param" /\ (IF fresh = at THEN Fresh(t[at]) ELSE t[at].path # <<>>)
    /\ Begins(t[1], Slash) \/ (at = 1 /\ fresh = 1 /\ c = Slash)

Sound(u, n, other, d) == /\ Fits(u, n) /\ LinkedAt(u, n, other, d)
                         /\ n.nType = "param" => Len(n.path) = 1

\* What is put in place of a ready node, and below it, keeps the rest.
LEMMA Grafted ==
    ASSUME NEW t, NEW u \in Seq(Node), NEW at, NEW fresh, NEW c, Ready(t, at, fresh, c),
           Len(t) <= Len(u), Hung(u), \A i \in 1..Len(t) : i # at => u[i] = t[i],
           u[at].nType = t[at].nType,
           fresh = at => Begins(u[at], c),
           fresh # at => \A b : Begins(t[at], b) => Begins(u[at], b),
           NEW other, NEW d,
           \A i \in 1..Len(u) : i = at \/ i > Len(t) => Sound(u, u[i], other, d)
    PROVE  InShape(u) /\ Linked(u, other, d) /\ Begins(u[1], Slash)
<1> DEFINE N == Len(t)
<1>1. /\ t \in Seq(Node) /\ InShape(t) /\ Hung(t) /\ 1 \in 1..N /\ N \in Nat /\ DOMAIN t = 1..N
      /\ \A i \in 1..N : t[i] \in Node
      /\ at \in 1..N /\ at # 0 /\ fresh \in {0, at} /\ Linked(t, fresh, c)
  <2>1. t \in Seq(Node) /\ t # <<>> /\ InShape(t) /\ Hung(t)
    BY DEF Ready, InShape
  <2>2. at \in 1..N /\ fresh \in {0, at} /\ Linked(t, fresh, c)
    BY DEF Ready
  <2> QED BY <2>1, <2>2, Places
<1>2. /\ Len(u) \in Nat /\ DOMAIN u = 1..Len(u) /\ 1 \in 1..Len(u)
      /\ \A i \in 1..Len(u) : u[i] \in Node
  BY <1>1, Places
<1>3. Keeps(t, u, fresh)
  <2> SUFFICES ASSUME NEW i \in 1..N
               PROVE  /\ u[i].nType = t[i].nType
                      /\ i # fresh => \A b : Begins(t[i], b) => Begins(u[i], b)
                      /\ Marks(t[i]) => Marks(u[i])
    BY DEF Keeps
  <2>1. CASE i # at
    BY <2>1
  <2>2. CASE i = at
    <3>1. ~Marks(t[at])
      BY DEF Ready, Fresh, Marks
    <3> QED BY <2>2, <3>1
  <2> QED BY <2>1, <2>2
<1>4. fresh \in 1..Len(t) => Fresh(t[fresh]) /\ Begins(u[fresh], c)
  <2>1. fresh \in 1..Len(t) => fresh = at
    BY <1>1
  <2> QED BY <2>1 DEF Ready
<1>5. ASSUME NEW i \in 1..Len(u) PROVE Sound(u, u[i], other, d)
  <2>1. CASE i \in 1..N /\ i # at
    <3>1. u[i] = t[i] /\ SameLinks(t[i], u[i])
      BY <2>1 DEF SameLinks
    <3>2. /\ Fits(t, t[i]) /\ LinkedAt(t, t[i], fresh, c)
          /\ t[i].nType = "param" => Len(t[i].path) = 1
      BY <1>1, <2>1 DEF InShape, Linked
    <3>3. \A k \in DOMAIN t[i].children : t[i].children[k] \in 1..N
      BY <1>1, <2>1, ChildrenInRange
    <3>4. t[i] \in Node /\ u[i] \in Node
      BY <1>1, <1>2, <2>1
    <3>5. Fits(u, u[i])
      BY <1>1, <1>3, <3>1, <3>2, <3>3, <3>4, StillFits
    <3>6. LinkedAt(u, u[i], other, d)
      BY <1>1, <1>3, <1>4, <3>1, <3>2, <3>3, <3>4, NowLinked
    <3> QED BY <3>1, <3>2, <3>5, <3>6 DEF Sound
  <2>2. CASE i = at \/ i > N
    BY <2>2
  <2> QED BY <1>1, <1>2, <2>1, <2>2
<1>6. Begins(u[1], Slash)
  <2>1. CASE at # 1
    BY <1>1, <2>1 DEF Ready
  <2>2. CASE at = 1 /\ fresh = at
    <3>1. ~Begins(t[1], Slash)
      BY <1>1, <1>4, <2>2, FreshBeginsNothing
    <3> QED BY <2>2, <3>1 DEF Ready
  <2>3. CASE at = 1 /\ fresh # at
    BY <2>3 DEF Ready
  <2> QED BY <2>1, <2>2, <2>3
<1>7. u # <<>> /\ u[1].nType \notin {"param", "catchAll"}
  BY <1>1, <1>2, <1>3 DEF Keeps, InShape
<1>8. InShape(u)
  BY <1>2, <1>5, <1>7 DEF InShape, Sound
<1>9. Linked(u, other, d)
  BY <1>2, <1>5 DEF Linked, Sound
<1> QED BY <1>6, <1>8, <1>9

\* What a tree holds once nodes have been added to it.
LEMMA HandlesGrown ==
    ASSUME NEW t \in Seq(Node), NEW u \in Seq(Node), Len(t) <= Len(u),
           \A i \in 1..Len(t) : u[i].handle = t[i].handle,
           NEW E, NoHandle \notin E, \A e \in E : \E i \in 1..Len(u) : u[i].handle = e,
           \A i \in 1..Len(u) : i > Len(t) => u[i].handle \in E \cup {NoHandle}
    PROVE  Handles(u) = Handles(t) \cup E
<1>1. Len(t) \in Nat /\ Len(u) \in Nat /\ DOMAIN t = 1..Len(t) /\ DOMAIN u = 1..Len(u)
  BY Places
<1>2. \A h : h \in Handles(u) <=> h # NoHandle /\ \E j \in 1..Len(u) : h = u[j].handle
  BY <1>1 DEF Handles
<1>3. \A h : h \in Handles(t) <=> h # NoHandle /\ \E j \in 1..Len(t) : h = t[j].handle
  BY <1>1 DEF Handles
<1>4. ASSUME NEW h \in Handles(u) PROVE h \in Handles(t) \cup E
  <2>1. PICK j \in 1..Len(u) : h = u[j].handle
    BY <1>2
  <2>2. CASE j > Len(t)
    BY <1>2, <2>1, <2>2
  <2>3. CASE ~(j > Len(t))
    <3>1. j \in 1..Len(t)
      BY <1>1, <2>3
    <3> QED BY <1>2, <1>3, <2>1, <3>1
  <2> QED BY <2>2, <2>3
<1>5. ASSUME NEW h \in Handles(t) \cup E PROVE h \in Handles(u)
  <2>1. CASE h \in E
    BY <1>2, <2>1
  <2>2. CASE h \in Handles(t)
    <3>1. PICK j \in 1..Len(t) : h = t[j].handle
      BY <1>3, <2>2
    <3>2. j \in 1..Len(u)
      BY <1>1
    <3> QED BY <1>2, <1>3, <2>2, <3>1, <3>2
  <2> QED BY <2>1, <2>2
<1> QED BY <1>4, <1>5

\* A leaf fits everywhere.
LEMMA LeafSound ==
    ASSUME NEW u, NEW n, n.children = <<>>, n.indices = <<>>, n.wildChild = FALSE,
           n.nType = "param" => Len(n.path) = 1
    PROVE  \A other, d : Sound(u, n, other, d)
<1>1. IsInjective(n.indices) /\ Len(n.indices) = 0 /\ Len(n.children) = 0 /\ DOMAIN n.children = {}
  BY DEF IsInjective
<1> QED BY <1>1 DEF Sound, Fits, LinkedAt

\* What inserting the rest of a route makes of a tree.
Gains(u, t, route) == Ordered(u) /\ Handles(u) = Handles(t) \cup {route}

LeafTree(t, at, path, route) == [t EXCEPT ![at].path = path, ![at].handle = route]
LastParamTree(t, at, path, w, route) ==
    Append([t EXCEPT ![at] = AboveParam(@, path, w, Len(t) + 1)],
           [ParamChild(path[w]) EXCEPT !.handle = route])
ParamTree(t, at, path, w) ==
    [t EXCEPT ![at] = AboveParam(@, path, w, Len(t) + 1)]
    \o <<[ParamChild(path[w]) EXCEPT !.children = <<Len(t) + 1 + 1>>],
         [EmptyNode EXCEPT !.priority = 1]>>
CatchAllTree(t, at, path, route) ==
    [t EXCEPT ![at] = AboveCatchAll(@, path, Len(t) + 1)]
    \o <<[EmptyNode EXCEPT !.wildChild = TRUE, !.nType = "catchAll",
                           !.priority = 1, !.children = <<Len(t) + 1 + 1>>],
         [EmptyNode EXCEPT !.path = From(path, Len(path) - 1),
                           !.nType = "catchAll", !.handle = route,
                           !.priority = 1]>>

\* A rest without wildcards is put into the ready node.
LEMMA LeafInserted ==
    ASSUME NEW t, NEW at, NEW path \in Seq(STRING), path # <<>>, Ready(t, at, at, path[1]),
           NEW route \in Seq(STRING), route # <<>>
    PROVE  Gains(LeafTree(t, at, path, route), t, route)
<1> DEFINE m == [t[at] EXCEPT !.path = path, !.handle = route]
           u == [t EXCEPT ![at].path = path, ![at].handle = route]
<1>1. t \in Seq(Node) /\ at \in 1..Len(t) /\ Fresh(t[at]) /\ t[at] \in Node /\ Hung(t)
  <2>1. t \in Seq(Node) /\ at \in 1..Len(t) /\ Fresh(t[at]) /\ Hung(t)
    BY DEF Ready, InShape
  <2> QED BY <2>1, Places
<1>2. /\ m \in Node /\ SameLinks(t[at], m) /\ m.path = path /\ m.handle = route
  BY <1>1 DEF Node, SameLinks
<1>3. u = [t EXCEPT ![at] = m]
  BY <1>1
<1> HIDE DEF m, u
<1>4. /\ u \in Seq(Node) /\ Len(u) = Len(t) /\ u[at] = m /\ Len(t) \in Nat
      /\ \A i \in 1..Len(t) : i # at => u[i] = t[i]
  BY <1>1, <1>2, <1>3, Put
<1>5. /\ m.children = <<>> /\ m.indices = <<>> /\ m.wildChild = FALSE /\ m.nType = "static"
      /\ t[at].handle = NoHandle
  <2>1. t[at].wildChild \in BOOLEAN
    BY <1>1, FieldTypes
  <2> QED BY <1>1, <1>2, <2>1 DEF SameLinks, Fresh
<1>6. Hung(u)
  <2>1. \A i \in 1..Len(t) : u[i].children = t[i].children
    BY <1>2, <1>4 DEF SameLinks
  <2> QED BY <1>1, <1>4, <2>1, SameChildren
<1>7. Begins(u[at], path[1])
  BY <1>2, <1>4 DEF Begins
<1>8. \A i \in 1..Len(u) : i = at \/ i > Len(t) => Sound(u, u[i], 0, Slash)
  <2>1. Sound(u, m, 0, Slash)
    BY <1>5, LeafSound
  <2>2. \A i \in 1..Len(u) : ~(i > Len(t))
    BY <1>4
  <2> QED BY <1>4, <2>1, <2>2
<1>9. InShape(u) /\ Linked(u, 0, Slash) /\ Begins(u[1], Slash)
  <2>1. u[at].nType = t[at].nType /\ Len(t) <= Len(u)
    BY <1>2, <1>4 DEF SameLinks
  <2> QED BY <1>4, <1>6, <1>7, <1>8, <2>1, Grafted
<1>10. Handles(u) = Handles(t) \cup {route}
  <2>1. \A i \in 1..Len(t) : i # at => u[i].handle = t[i].handle
    BY <1>4
  <2> QED BY <1>1, <1>2, <1>4, <1>5, <2>1, HandlesOf DEF NoHandle
<1> QED BY <1>9, <1>10 DEF Ordered, u, LeafTree, Gains

\* The node above a wildcard.
LEMMA AboveParamIs ==
    ASSUME NEW n \in Node, NEW path \in Seq(STRING), NEW w \in 1..Len(path), NEW child \in Nat
    PROVE  LET m == AboveParam(n, path, w, child)
           IN  /\ m \in Node /\ m.children = <<child>> /\ m.wildChild = TRUE
               /\ m.indices = n.indices /\ m.nType = n.nType /\ m.handle = n.handle
               /\ w > 1 => m.path # <<>> /\ m.path[1] = path[1]
               /\ w = 1 => m.path = n.path
<1> DEFINE a == IF w > 1 THEN UpTo(path, w - 1) ELSE n.path
           cs == <<child>>
           m == AboveParam(n, path, w, child)
<1>1. /\ a \in Seq(STRING) /\ (w > 1 => a # <<>> /\ a[1] = path[1]) /\ (w = 1 => a = n.path)
      /\ cs \in Seq(Nat)
  <2>1. CASE w > 1
    <3> DEFINE b == UpTo(path, w - 1)
    <3>1. w - 1 \in 0..Len(path) /\ 1 \in 1..w - 1
      BY <2>1
    <3>2. b \in Seq(STRING) /\ Len(b) = w - 1 /\ \A k \in 1..w - 1 : b[k] = path[k]
      BY <3>1, HeadOf
    <3> HIDE DEF b
    <3>3. b # <<>> /\ b[1] = path[1]
      BY <3>1, <3>2
    <3> QED BY <2>1, <3>2, <3>3 DEF b
  <2>2. CASE ~(w > 1)
    BY <2>2, FieldTypes
  <2> QED BY <2>1, <2>2
<1>2. m = [n EXCEPT !.path = a, !.wildChild = TRUE, !.children = cs]
  BY DEF AboveParam
<1> HIDE DEF a, cs, m
<1>3. /\ m \in Node /\ m.children = cs /\ m.wildChild = TRUE /\ m.path = a
      /\ m.indices = n.indices /\ m.nType = n.nType /\ m.handle = n.handle
  BY <1>1, <1>2 DEF Node
<1> QED BY <1>1, <1>3 DEF cs, m

\* A sequence of one element.
LEMMA SingletonSeq == ASSUME NEW A, NEW c \in A PROVE <<c>> \in Seq(A)
OBVIOUS

\* The parameter's own node, and those that may go with it.
LEMMA ParamChildIs ==
    ASSUME NEW token \in STRING, NEW child \in Nat, NEW route \in Seq(STRING)
    PROVE  /\ LET p == [ParamChild(token) EXCEPT !.handle = route]
              IN  /\ p \in Node /\ p.children = <<>> /\ p.indices = <<>> /\ p.wildChild = FALSE
                  /\ p.nType = "param" /\ p.path = <<token>> /\ p.handle = route
           /\ LET p == [ParamChild(token) EXCEPT !.children = <<child>>]
              IN  /\ p \in Node /\ p.children = <<child>> /\ p.indices = <<>> /\ p.wildChild = FALSE
                  /\ p.nType = "param" /\ p.path = <<token>> /\ p.handle = NoHandle
           /\ LET e == [EmptyNode EXCEPT !.priority = 1]
              IN  e \in Node /\ Fresh(e) /\ e.priority = 1
<1> DEFINE a == <<token>>
           cs == <<child>>
           p == [ParamChild(token) EXCEPT !.handle = route]
           q == [ParamChild(token) EXCEPT !.children = cs]
           e == [EmptyNode EXCEPT !.priority = 1]
<1>0. a \in Seq(STRING)
  BY SingletonSeq
<1>1. cs \in Seq(Nat)
  OBVIOUS
<1>2. ParamChild(token) = [EmptyNode EXCEPT !.nType = "param", !.path = a, !.priority = 1]
  BY DEF ParamChild
<1> HIDE DEF a, cs
<1> DEFINE b == ParamChild(token)
<1>6. /\ b \in Node /\ b.children = <<>> /\ b.indices = <<>> /\ b.wildChild = FALSE
      /\ b.nType = "param" /\ b.path = a /\ b.handle = NoHandle
  <2> DEFINE x == EmptyNode
  <2>1. x \in Node /\ x.children = <<>> /\ x.indices = <<>> /\ x.wildChild = FALSE /\ x.handle = NoHandle
    BY EmptyNodeIs DEF NoHandle
  <2>2. b = [x EXCEPT !.nType = "param", !.path = a, !.priority = 1]
    BY <1>2
  <2> HIDE DEF b, x
  <2>3. b \in Node
    BY <1>0, <2>1, <2>2 DEF Node, NodeType
  <2>4. /\ b.children = x.children /\ b.indices = x.indices /\ b.wildChild = x.wildChild
        /\ b.nType = "param" /\ b.path = a /\ b.handle = x.handle
    BY <2>1, <2>2 DEF Node
  <2> QED BY <2>1, <2>3, <2>4
<1> HIDE DEF b
<1>3. /\ p \in Node /\ p.children = <<>> /\ p.indices = <<>> /\ p.wildChild = FALSE
      /\ p.nType = "param" /\ p.path = a /\ p.handle = route
  <2>1. p = [b EXCEPT !.handle = route]
    BY DEF b
  <2> QED BY <1>6, <2>1 DEF Node
<1>4. /\ q \in Node /\ q.children = cs /\ q.wildChild = FALSE
      /\ q.nType = "param" /\ q.path = a /\ q.handle = NoHandle
  <2>1. q = [b EXCEPT !.children = cs]
    BY DEF b
  <2> QED BY <1>1, <1>6, <2>1 DEF Node
<1>5. e \in Node /\ Fresh(e) /\ e.priority = 1
  BY EmptyNodeIs DEF Node, Fresh
<1> QED BY <1>3, <1>4, <1>5 DEF a, cs

\* The node above is ready for a wildcard in position w of the path.
AtWildcard(t, at, fresh, c, path, w) ==
    /\ Ready(t, at, fresh, c) /\ t[at].children = <<>>
    /\ fresh = at => w > 1 /\ c = path[1]
    /\ fresh # at => w = 1

IsAboveWildcard(t, at, fresh, c, m) ==
    /\ t \in Seq(Node) /\ Len(t) \in Nat /\ at \in 1..Len(t) /\ t[at] \in Node
    /\ m \in Node /\ m.children = <<Len(t) + 1>> /\ m.handle = t[at].handle
    /\ m.nType = t[at].nType /\ m.wildChild = TRUE /\ m.nType # "param"
    /\ m.path # <<>> /\ (fresh = at => Begins(m, c))
    /\ fresh # at => \A b : Begins(t[at], b) => Begins(m, b)

\* The node above a wildcard.
LEMMA AboveWildcard ==
    ASSUME NEW t, NEW at, NEW fresh, NEW c, NEW path \in Seq(STRING), NEW w \in 1..Len(path),
           AtWildcard(t, at, fresh, c, path, w)
    PROVE  IsAboveWildcard(t, at, fresh, c, AboveParam(t[at], path, w, Len(t) + 1))
<1> DEFINE m == AboveParam(t[at], path, w, Len(t) + 1)
<1>1. /\ t \in Seq(Node) /\ Len(t) \in Nat /\ at \in 1..Len(t) /\ t[at] \in Node
      /\ t[at].nType # "param"
  <2>1. t \in Seq(Node) /\ at \in 1..Len(t) /\ t[at].nType # "param"
    BY DEF AtWildcard, Ready, InShape
  <2> QED BY <2>1, Places
<1>2. /\ m \in Node /\ m.children = <<Len(t) + 1>> /\ m.wildChild = TRUE
      /\ m.indices = t[at].indices /\ m.nType = t[at].nType /\ m.handle = t[at].handle
      /\ w > 1 => m.path # <<>> /\ m.path[1] = path[1]
      /\ w = 1 => m.path = t[at].path
  <2> DEFINE child == Len(t) + 1
             n == t[at]
  <2>1. child \in Nat /\ n \in Node
    BY <1>1
  <2> HIDE DEF child, n
  <2>2. LET o == AboveParam(n, path, w, child)
        IN  /\ o \in Node /\ o.children = <<child>> /\ o.wildChild = TRUE
            /\ o.indices = n.indices /\ o.nType = n.nType /\ o.handle = n.handle
            /\ w > 1 => o.path # <<>> /\ o.path[1] = path[1]
            /\ w = 1 => o.path = n.path
    BY <2>1, AboveParamIs, Zenon
  <2> QED BY <2>2, Zenon DEF child, n
<1> HIDE DEF m
<1>3. fresh = at => Begins(m, c)
  BY <1>2 DEF AtWildcard, Begins
<1>4. fresh # at => \A b : Begins(t[at], b) => Begins(m, b)
  BY <1>2 DEF AtWildcard, Begins
<1>5. m.path # <<>>
  BY <1>2 DEF AtWildcard, Ready
<1> QED BY <1>1, <1>2, <1>3, <1>4, <1>5 DEF m, IsAboveWildcard

\* A parameter that ends the route.
LEMMA LastParamInserted ==
    ASSUME NEW t, NEW at, NEW fresh, NEW c, NEW path \in Seq(STRING), NEW w \in 1..Len(path),
           AtWildcard(t, at, fresh, c, path, w), NEW route \in Seq(STRING), route # <<>>
    PROVE  Gains(LastParamTree(t, at, path, w, route), t, route)
<1> DEFINE N == Len(t)
           m == AboveParam(t[at], path, w, N + 1)
           p == [ParamChild(path[w]) EXCEPT !.handle = route]
           v == [t EXCEPT ![at] = m]
           u == Append(v, p)
<1>1. /\ t \in Seq(Node) /\ N \in Nat /\ at \in 1..N /\ t[at] \in Node
      /\ m \in Node /\ m.children = <<N + 1>> /\ m.handle = t[at].handle
      /\ m.nType = t[at].nType /\ m.wildChild = TRUE /\ m.nType # "param"
      /\ m.path # <<>> /\ (fresh = at => Begins(m, c))
      /\ fresh # at => \A b : Begins(t[at], b) => Begins(m, b)
  <2>1. IsAboveWildcard(t, at, fresh, c, m)
    BY AboveWildcard
  <2> QED BY <2>1, Zenon DEF IsAboveWildcard
<1>2. /\ p \in Node /\ p.children = <<>> /\ p.indices = <<>> /\ p.wildChild = FALSE
      /\ p.nType = "param" /\ Len(p.path) = 1 /\ p.handle = route
  <2>1. path[w] \in STRING /\ 0 \in Nat
    OBVIOUS
  <2>2. Len(<<path[w]>>) = 1
    OBVIOUS
  <2> QED BY <2>1, <2>2, ParamChildIs
<1>3. u = LastParamTree(t, at, path, w, route)
  BY <1>1 DEF LastParamTree
<1> HIDE DEF m, p
<1>4. v \in Seq(Node) /\ Len(v) = N /\ v[at] = m /\ \A i \in 1..N : i # at => v[i] = t[i]
  BY <1>1, Put
<1> HIDE DEF v
<1>5. /\ u \in Seq(Node) /\ Len(u) = Len(v) + 1 /\ u[Len(v) + 1] = p
      /\ \A i \in 1..Len(v) : u[i] = v[i]
  BY <1>2, <1>4, PutLast
<1> HIDE DEF u
<1>6. /\ Len(u) = N + 1 /\ u[N + 1] = p /\ u[at] = m /\ Len(t) <= Len(u)
      /\ \A i \in 1..N : i # at => u[i] = t[i]
      /\ \A i \in 1..Len(u) : i > N => i = N + 1
  <2>1. Len(u) = N + 1 /\ u[N + 1] = p
    BY <1>4, <1>5
  <2>2. \A i \in 1..N : u[i] = v[i]
    BY <1>4, <1>5
  <2>3. N \in Nat /\ Len(t) = N
    BY <1>1
  <2>4. N <= N + 1 /\ \A i \in 1..N + 1 : i > N => i = N + 1
    <3> HIDE DEF N
    <3> QED BY <2>3
  <2> QED BY <1>1, <1>4, <2>1, <2>2, <2>3, <2>4
<1>7. Hung(u)
  <2>1. \A i \in 1..N : i # at => u[i].children = t[i].children
    BY <1>6
  <2>2. t[at].children = <<>> /\ u[at].children = <<N + 1>> /\ u[N + 1].children = <<>> /\ Hung(t)
    BY <1>1, <1>2, <1>6 DEF AtWildcard, Ready, InShape
  <2> QED BY <1>1, <1>5, <1>6, <2>1, <2>2, HungFirst
<1>8. Sound(u, m, 0, Slash)
  <2>1. Len(m.children) = 1 /\ m.children[1] = N + 1
    BY <1>1
  <2> QED BY <1>1, <1>2, <1>6, <2>1 DEF Sound, Fits, LinkedAt
<1>9. Sound(u, p, 0, Slash)
  BY <1>2, LeafSound
<1>10. InShape(u) /\ Linked(u, 0, Slash) /\ Begins(u[1], Slash)
  <2>1. \A i \in 1..Len(u) : i = at \/ i > N => Sound(u, u[i], 0, Slash)
    BY <1>6, <1>8, <1>9
  <2>2. /\ Ready(t, at, fresh, c) /\ u[at].nType = t[at].nType
        /\ fresh = at => Begins(u[at], c)
        /\ fresh # at => \A b : Begins(t[at], b) => Begins(u[at], b)
    BY <1>1, <1>6 DEF AtWildcard
  <2>3. u \in Seq(Node) /\ Len(t) <= Len(u) /\ \A i \in 1..Len(t) : i # at => u[i] = t[i]
    BY <1>5, <1>6
  <2> HIDE DEF N
  <2> QED BY <1>7, <2>1, <2>2, <2>3, Grafted DEF N
<1>11. Handles(u) = Handles(t) \cup {route}
  <2>1. \A i \in 1..N : u[i].handle = t[i].handle
    BY <1>1, <1>6
  <2>2. N + 1 \in 1..Len(u)
    BY <1>1, <1>6
  <2>3. \A i \in 1..Len(u) : i > N => u[i].handle \in {route} \cup {NoHandle}
    BY <1>2, <1>6
  <2>4. \A e \in {route} : \E i \in 1..Len(u) : u[i].handle = e
    BY <1>2, <1>6, <2>2
  <2> DEFINE E == {route}
  <2>5. NoHandle \notin E
    BY DEF NoHandle
  <2>6. Len(t) <= Len(u) /\ \A e \in E : \E i \in 1..Len(u) : u[i].handle = e
    BY <1>6, <2>4
  <2>7. \A i \in 1..Len(u) : i > Len(t) => u[i].handle \in E \cup {NoHandle}
    BY <2>3
  <2> HIDE DEF E
  <2>8. Handles(u) = Handles(t) \cup E
    <3>1. /\ t \in Seq(Node) /\ u \in Seq(Node)
          /\ \A i \in 1..Len(t) : u[i].handle = t[i].handle
      BY <1>1, <1>5, <2>1
    <3> QED BY ONLY <2>5, <2>6, <2>7, <3>1, HandlesGrown, Zenon
  <2> QED BY <2>8 DEF E
<1>12. Gains(u, t, route)
  BY <1>10, <1>11 DEF Ordered, Gains
<1> QED BY <1>3, <1>12

\* A parameter in the middle of the route: its child is ready for the rest.
LEMMA ParamInserted ==
    ASSUME NEW t, NEW at, NEW fresh, NEW c, NEW path \in Seq(STRING), NEW w \in 1..Len(path),
           AtWildcard(t, at, fresh, c, path, w)
    PROVE  /\ Ready(ParamTree(t, at, path, w), Len(t) + 1 + 1, Len(t) + 1 + 1, Slash)
           /\ Handles(ParamTree(t, at, path, w)) = Handles(t)
<1> DEFINE N == Len(t)
           m == AboveParam(t[at], path, w, N + 1)
           p == [ParamChild(path[w]) EXCEPT !.children = <<N + 1 + 1>>]
           e == [EmptyNode EXCEPT !.priority = 1]
           v == [t EXCEPT ![at] = m]
           z == Append(v, EmptyNode)
           u == v \o <<p, e>>
<1>1. /\ t \in Seq(Node) /\ N \in Nat /\ at \in 1..N /\ t[at] \in Node
      /\ m \in Node /\ m.children = <<N + 1>> /\ m.handle = t[at].handle
      /\ m.nType = t[at].nType /\ m.wildChild = TRUE /\ m.nType # "param"
      /\ m.path # <<>> /\ (fresh = at => Begins(m, c))
      /\ fresh # at => \A b : Begins(t[at], b) => Begins(m, b)
  <2>1. IsAboveWildcard(t, at, fresh, c, m)
    BY AboveWildcard
  <2> QED BY <2>1, Zenon DEF IsAboveWildcard
<1>2. /\ p \in Node /\ p.children = <<N + 1 + 1>> /\ p.indices = <<>> /\ p.wildChild = FALSE
      /\ p.nType = "param" /\ Len(p.path) = 1 /\ p.handle = NoHandle
      /\ e \in Node /\ Fresh(e)
  <2>1. path[w] \in STRING /\ N + 1 + 1 \in Nat /\ <<>> \in Seq(STRING)
    BY <1>1
  <2>2. Len(<<path[w]>>) = 1
    OBVIOUS
  <2> QED BY <2>1, <2>2, ParamChildIs
<1>3. u = ParamTree(t, at, path, w)
  BY <1>1 DEF ParamTree
<1> HIDE DEF m, p, e
<1>4. v \in Seq(Node) /\ Len(v) = N /\ v[at] = m /\ \A i \in 1..N : i # at => v[i] = t[i]
  BY <1>1, Put
<1> HIDE DEF v
<1>5. /\ u \in Seq(Node) /\ Len(u) = Len(v) + 2 /\ u[Len(v) + 1] = p /\ u[Len(v) + 2] = e
      /\ \A i \in 1..Len(v) : u[i] = v[i]
  <2>1. v \in Seq(Node) /\ p \in Node /\ e \in Node
    BY <1>2, <1>4
  <2> QED BY <2>1, PutTwo
<1>6. /\ z \in Seq(Node) /\ Len(z) = Len(v) + 1 /\ z[Len(v) + 1] = EmptyNode
      /\ \A i \in 1..Len(v) : z[i] = v[i]
  BY <1>4, EmptyNodeIs, PutLast
<1> HIDE DEF u, z
<1> DEFINE last == N + 1 + 1
<1>7. /\ Len(u) = N + 2 /\ u[N + 1] = p /\ u[last] = e /\ u[at] = m /\ Len(t) <= Len(u)
      /\ \A i \in 1..N : i # at => u[i] = t[i]
      /\ \A i \in 1..Len(u) : i > N => i = N + 1 \/ i = last
  <2>1. Len(u) = N + 2 /\ u[N + 1] = p /\ u[N + 2] = e
    BY <1>4, <1>5
  <2>2. \A i \in 1..N : u[i] = v[i]
    BY <1>4, <1>5
  <2>3. /\ N <= N + 2 /\ N + 2 = last
        /\ \A i \in 1..N + 2 : i > N => i = N + 1 \/ i = last
    <3>1. N \in Nat
      BY <1>1
    <3> HIDE DEF N
    <3> QED BY <3>1, TwoBehind
  <2>4. Len(t) <= Len(u) /\ \A i \in 1..Len(u) : i > N => i = N + 1 \/ i = last
    BY <2>1, <2>3
  <2> QED BY <1>1, <1>4, <2>1, <2>2, <2>3, <2>4
<1>16. last = N + 1 + 1 /\ p.children = <<last>>
  BY <1>2
<1> HIDE DEF last
<1>8. Hung(z)
  <2>1. \A i \in 1..N : i # at => z[i].children = t[i].children
    BY <1>4, <1>6
  <2>2. t[at].children = <<>> /\ z[at].children = <<N + 1>> /\ z[N + 1].children = <<>> /\ Hung(t)
    BY <1>1, <1>4, <1>6, EmptyNodeIs DEF AtWildcard, Ready, InShape
  <2> QED BY <1>1, <1>4, <1>6, <2>1, <2>2, HungFirst
<1>9. Hung(u)
  <2>1. Len(z) = N + 1 /\ Len(u) = Len(z) + 1 /\ N + 1 \in 1..Len(z) /\ last = Len(z) + 1
    BY <1>1, <1>4, <1>6, <1>7, <1>16
  <2>2. z[N + 1].children = <<>> /\ u[N + 1].children = <<Len(z) + 1>> /\ u[Len(z) + 1].children = <<>>
    BY <1>2, <1>4, <1>6, <1>7, <1>16, <2>1, EmptyNodeIs DEF Fresh
  <2>3. \A i \in 1..Len(z) : i # N + 1 => u[i].children = z[i].children
    <3>1. \A i \in 1..Len(z) : i # N + 1 => i \in 1..Len(v)
      <4>1. \A i \in 1..N + 1 : i # N + 1 => i \in 1..N
        BY <1>1
      <4> QED BY <1>4, <2>1, <4>1
    <3> QED BY <1>5, <1>6, <3>1
  <2> QED BY <1>5, <1>6, <1>8, <2>1, <2>2, <2>3, HungFirst
<1>10. Sound(u, m, last, Slash)
  <2>1. Len(m.children) = 1 /\ m.children[1] = N + 1
    BY <1>1
  <2> QED BY <1>1, <1>2, <1>7, <2>1 DEF Sound, Fits, LinkedAt
<1>11. Sound(u, p, last, Slash)
  <2>1. Len(p.children) = 1 /\ DOMAIN p.children = {1} /\ p.children[1] = last /\ p.children # <<>>
    BY <1>16
  <2>4. p.indices = <<>> /\ Len(p.indices) <= 1
    BY <1>2
  <2>2. u[last].nType # "param"
    BY <1>2, <1>7 DEF Fresh
  <2>3. p.path # <<>>
    <3> SUFFICES ASSUME p.path = <<>> PROVE FALSE
      OBVIOUS
    <3>1. Len(<<>>) = 0
      OBVIOUS
    <3>2. Len(p.path) = 0
      BY <3>1
    <3> QED BY <1>2, <3>2
  <2> QED BY <1>2, <2>1, <2>2, <2>3, <2>4 DEF Sound, Fits, LinkedAt, Key
<1>12. Sound(u, e, last, Slash)
  <2>1. e.wildChild \in BOOLEAN
    BY <1>2, FieldTypes
  <2>2. e.children = <<>> /\ e.indices = <<>> /\ e.wildChild = FALSE /\ e.nType = "static"
    BY <1>2, <2>1 DEF Fresh
  <2> QED BY <2>2, LeafSound
<1>13. InShape(u) /\ Linked(u, last, Slash) /\ Begins(u[1], Slash)
  <2>1. \A i \in 1..Len(u) : i = at \/ i > N => Sound(u, u[i], last, Slash)
    BY <1>7, <1>10, <1>11, <1>12
  <2>2. /\ Ready(t, at, fresh, c) /\ u[at].nType = t[at].nType
        /\ fresh = at => Begins(u[at], c)
        /\ fresh # at => \A b : Begins(t[at], b) => Begins(u[at], b)
    BY <1>1, <1>7 DEF AtWildcard
  <2>3. u \in Seq(Node) /\ Len(t) <= Len(u) /\ \A i \in 1..Len(t) : i # at => u[i] = t[i]
    BY <1>5, <1>7
  <2> QED BY <1>9, <2>1, <2>2, <2>3, Grafted
<1>14. Handles(u) = Handles(t)
  <2>1. \A i \in 1..N : u[i].handle = t[i].handle
    BY <1>1, <1>7
  <2>2. \A i \in 1..Len(u) : i > N => u[i].handle \in {} \cup {NoHandle}
    BY <1>2, <1>7 DEF Fresh
  <2>3. Handles(u) = Handles(t) \cup {}
    BY <1>1, <1>5, <1>7, <2>1, <2>2, HandlesGrown
  <2> QED BY <2>3
<1>15. Ready(u, last, last, Slash)
  <2>1. last \in 1..Len(u)
    BY <1>1, <1>7, <1>16
  <2> QED BY <1>2, <1>7, <1>13, <2>1 DEF Ready, Fresh
<1> QED BY <1>3, <1>14, <1>15 DEF last

\* The nodes of a catch-all and the node above them.
Marker(child) ==
    [EmptyNode EXCEPT !.wildChild = TRUE, !.nType = "catchAll",
                      !.priority = 1, !.children = <<child>>]
CatchAllLeaf(path, route) ==
    [EmptyNode EXCEPT !.path = From(path, Len(path) - 1), !.nType = "catchAll",
                      !.handle = route, !.priority = 1]

IsAboveCatchAll(m, child, c) ==
    /\ m \in Node /\ m.children = <<child>> /\ m.indices = <<Slash>>
    /\ m.wildChild = FALSE /\ m.nType = "static" /\ m.handle = NoHandle /\ Begins(m, c)
IsMarker(p, child) ==
    /\ p \in Node /\ p.children = <<child>> /\ p.wildChild = TRUE /\ p.path = <<>>
    /\ p.nType = "catchAll" /\ p.handle = NoHandle
IsCatchAllLeaf(e, route) ==
    /\ e \in Node /\ e.children = <<>> /\ e.indices = <<>> /\ e.wildChild = FALSE
    /\ e.nType = "catchAll" /\ e.handle = route

\* What the three nodes of a catch-all are.
LEMMA CatchAllNodesAre ==
    ASSUME NEW n \in Node, Fresh(n), NEW path \in Seq(STRING), Len(path) > 1,
           path[Len(path) - 1] = Slash, NEW child \in Nat, NEW route \in Seq(STRING)
    PROVE  /\ IsAboveCatchAll(AboveCatchAll(n, path, child), child, path[1])
           /\ IsMarker(Marker(child), child)
           /\ IsCatchAllLeaf(CatchAllLeaf(path, route), route)
<1> DEFINE a == UpTo(path, Len(path) - 2)
           b == From(path, Len(path) - 1)
           cs == <<child>>
           is == <<Slash>>
           x == EmptyNode
           m == AboveCatchAll(n, path, child)
           p == Marker(child)
           e == CatchAllLeaf(path, route)
<1>1. Len(path) \in Nat /\ Len(path) - 2 \in 0..Len(path) /\ Len(path) - 1 \in 1..Len(path) + 1
  OBVIOUS
<1>2. a \in Seq(STRING) /\ b \in Seq(STRING) /\ cs \in Seq(Nat)
  <2>1. a \in Seq(STRING)
    BY <1>1, HeadOf
  <2>2. b \in Seq(STRING)
    BY <1>1, TailOf
  <2>3. cs \in Seq(Nat)
    BY SingletonSeq
  <2> QED BY <2>1, <2>2, <2>3
<1>3. is \in Seq(STRING)
  <2>1. path[Len(path) - 1] \in STRING
    BY <1>1
  <2> QED BY <2>1, SingletonSeq
<1>4. \/ a = <<>> /\ path[1] = Slash
      \/ a # <<>> /\ a[1] = path[1]
  <2>1. Len(a) = Len(path) - 2 /\ \A k \in 1..Len(path) - 2 : a[k] = path[k]
    BY <1>1, HeadOf
  <2> HIDE DEF a
  <2>2. CASE Len(path) = 2
    BY <1>2, <2>1, <2>2
  <2>3. CASE Len(path) # 2
    <3>1. 1 \in 1..Len(path) - 2 /\ Len(a) # 0
      BY <1>1, <2>1, <2>3
    <3> QED BY <1>2, <2>1, <3>1
  <2> QED BY <2>2, <2>3
<1>5. /\ x \in Node /\ x.children = <<>> /\ x.indices = <<>> /\ x.wildChild = FALSE
      /\ x.handle = NoHandle /\ x.path = <<>>
  BY EmptyNodeIs DEF NoHandle
<1>6. m = [n EXCEPT !.path = a, !.indices = is, !.children = cs]
  BY DEF AboveCatchAll
<1>7. /\ p = [x EXCEPT !.wildChild = TRUE, !.nType = "catchAll", !.priority = 1, !.children = cs]
      /\ e = [x EXCEPT !.path = b, !.nType = "catchAll", !.handle = route, !.priority = 1]
  BY DEF Marker, CatchAllLeaf
<1> HIDE DEF a, b, cs, is, x, m, p, e
<1>8. /\ m \in Node /\ m.children = cs /\ m.indices = is /\ m.path = a
      /\ m.wildChild = FALSE /\ m.nType = "static" /\ m.handle = NoHandle
  <2>1. n.wildChild = FALSE
    <3>1. n.wildChild \in BOOLEAN
      BY FieldTypes
    <3> QED BY <3>1 DEF Fresh
  <2>2. m.children = cs /\ m.indices = is /\ m.path = a
    BY <1>6 DEF Node
  <2>3. m.wildChild = n.wildChild /\ m.nType = n.nType /\ m.handle = n.handle
    BY <1>6 DEF Node
  <2>4. m \in Node
    BY <1>2, <1>3, <1>6 DEF Node
  <2> QED BY <2>1, <2>2, <2>3, <2>4 DEF Fresh
<1>9. Begins(m, path[1])
  BY <1>4, <1>8 DEF Begins, is
<1>10. /\ p \in Node /\ p.children = cs /\ p.wildChild = TRUE /\ p.path = <<>>
       /\ p.nType = "catchAll" /\ p.handle = NoHandle
  <2>1. p \in Node
    BY <1>2, <1>5, <1>7 DEF Node, NodeType
  <2>2. /\ p.children = cs /\ p.wildChild = TRUE /\ p.path = x.path
        /\ p.nType = "catchAll" /\ p.handle = x.handle
    BY <1>5, <1>7 DEF Node
  <2> QED BY <1>5, <2>1, <2>2
<1>11. /\ e \in Node /\ e.children = <<>> /\ e.indices = <<>> /\ e.wildChild = FALSE
       /\ e.nType = "catchAll" /\ e.handle = route
  <2>1. e \in Node
    BY <1>2, <1>5, <1>7 DEF Node, NodeType
  <2>2. /\ e.children = x.children /\ e.indices = x.indices /\ e.wildChild = x.wildChild
        /\ e.nType = "catchAll" /\ e.handle = route
    BY <1>5, <1>7 DEF Node
  <2> QED BY <1>5, <2>1, <2>2
<1> QED BY <1>8, <1>9, <1>10, <1>11 DEF cs, is, m, p, e, IsAboveCatchAll, IsMarker, IsCatchAllLeaf

\* A catch-all at the end of the route.
LEMMA CatchAllInserted ==
    ASSUME NEW t, NEW at, NEW path \in Seq(STRING), Ready(t, at, at, path[1]), Len(path) > 1,
           path[Len(path) - 1] = Slash, NEW route \in Seq(STRING), route # <<>>
    PROVE  Gains(CatchAllTree(t, at, path, route), t, route)
<1> DEFINE N == Len(t)
           last == N + 1 + 1
           m == AboveCatchAll(t[at], path, N + 1)
           p == Marker(last)
           e == CatchAllLeaf(path, route)
           v == [t EXCEPT ![at] = m]
           z == Append(v, EmptyNode)
           u == v \o <<p, e>>
<1>1. /\ t \in Seq(Node) /\ N \in Nat /\ at \in 1..N /\ t[at] \in Node /\ Fresh(t[at]) /\ Hung(t)
  <2>1. t \in Seq(Node) /\ at \in 1..N /\ Fresh(t[at]) /\ Hung(t)
    BY DEF Ready, InShape
  <2> QED BY <2>1, Places
<1>2. /\ m \in Node /\ m.children = <<N + 1>> /\ m.indices = <<Slash>>
      /\ m.wildChild = FALSE /\ m.nType = "static" /\ m.handle = NoHandle
      /\ Begins(m, path[1])
  <2>1. N + 1 \in Nat
    BY <1>1
  <2>2. IsAboveCatchAll(m, N + 1, path[1])
    BY <1>1, <2>1, CatchAllNodesAre
  <2> QED BY <2>2 DEF IsAboveCatchAll
<1>3. /\ p \in Node /\ p.children = <<last>> /\ p.wildChild = TRUE /\ p.path = <<>>
      /\ p.nType = "catchAll" /\ p.handle = NoHandle
      /\ e \in Node /\ e.children = <<>> /\ e.indices = <<>> /\ e.wildChild = FALSE
      /\ e.nType = "catchAll" /\ e.handle = route
  <2>1. last \in Nat
    BY <1>1
  <2>2. IsMarker(p, last) /\ IsCatchAllLeaf(e, route)
    <3> HIDE DEF last
    <3> QED BY <1>1, <2>1, CatchAllNodesAre
  <2> QED BY <2>2 DEF IsMarker, IsCatchAllLeaf
<1>4. /\ last = N + 1 + 1
      /\ u = CatchAllTree(t, at, path, route)
  BY <1>1 DEF Marker, CatchAllLeaf, CatchAllTree
<1> HIDE DEF last, m, p, e
<1>5. v \in Seq(Node) /\ Len(v) = N /\ v[at] = m /\ \A i \in 1..N : i # at => v[i] = t[i]
  BY <1>1, <1>2, Put
<1> HIDE DEF v
<1>6. /\ u \in Seq(Node) /\ Len(u) = Len(v) + 2 /\ u[Len(v) + 1] = p /\ u[Len(v) + 2] = e
      /\ \A i \in 1..Len(v) : u[i] = v[i]
  <2>1. v \in Seq(Node) /\ p \in Node /\ e \in Node
    BY <1>3, <1>5
  <2> QED BY <2>1, PutTwo
<1>7. /\ z \in Seq(Node) /\ Len(z) = Len(v) + 1 /\ z[Len(v) + 1] = EmptyNode
      /\ \A i \in 1..Len(v) : z[i] = v[i]
  BY <1>5, EmptyNodeIs, PutLast
<1> HIDE DEF u, z
<1>8. /\ Len(u) = N + 2 /\ u[N + 1] = p /\ u[last] = e /\ u[at] = m /\ Len(t) <= Len(u)
      /\ \A i \in 1..N : i # at => u[i] = t[i]
      /\ \A i \in 1..Len(u) : i > N => i = N + 1 \/ i = last
      /\ last \in 1..Len(u)
  <2>1. Len(u) = N + 2 /\ u[N + 1] = p /\ u[N + 2] = e
    BY <1>5, <1>6
  <2>2. \A i \in 1..N : u[i] = v[i]
    BY <1>5, <1>6
  <2>3. /\ N <= N + 2 /\ N + 2 = last /\ last \in 1..N + 2
        /\ \A i \in 1..N + 2 : i > N => i = N + 1 \/ i = last
    <3>1. N \in Nat
      BY <1>1
    <3> HIDE DEF N
    <3> QED BY <1>4, <3>1, TwoBehind
  <2>4. /\ Len(t) <= Len(u) /\ last \in 1..Len(u)
        /\ \A i \in 1..Len(u) : i > N => i = N + 1 \/ i = last
    BY <2>1, <2>3
  <2> QED BY <1>1, <1>5, <2>1, <2>2, <2>3, <2>4
<1>9. Hung(z)
  <2>1. \A i \in 1..N : i # at => z[i].children = t[i].children
    BY <1>5, <1>7
  <2>2. t[at].children = <<>> /\ z[at].children = <<N + 1>> /\ z[N + 1].children = <<>>
    BY <1>1, <1>2, <1>5, <1>7, EmptyNodeIs DEF Fresh
  <2> QED BY <1>1, <1>5, <1>7, <2>1, <2>2, HungFirst
<1>10. Hung(u)
  <2>1. Len(z) = N + 1 /\ Len(u) = Len(z) + 1 /\ N + 1 \in 1..Len(z) /\ last = Len(z) + 1
    BY <1>1, <1>4, <1>5, <1>7, <1>8
  <2>2. z[N + 1].children = <<>> /\ u[N + 1].children = <<Len(z) + 1>> /\ u[Len(z) + 1].children = <<>>
    BY <1>3, <1>5, <1>7, <1>8, <2>1, EmptyNodeIs
  <2>3. \A i \in 1..Len(z) : i # N + 1 => u[i].children = z[i].children
    <3>1. \A i \in 1..Len(z) : i # N + 1 => i \in 1..Len(v)
      <4>1. \A i \in 1..N + 1 : i # N + 1 => i \in 1..N
        BY <1>1
      <4> QED BY <1>5, <2>1, <4>1
    <3> QED BY <1>6, <1>7, <3>1
  <2> QED BY <1>6, <1>7, <1>9, <2>1, <2>2, <2>3, HungFirst
<1>11. Sound(u, m, 0, Slash)
  <2>1. Len(m.children) = 1 /\ DOMAIN m.children = {1} /\ m.children[1] = N + 1
    BY <1>2
  <2>2. Len(m.indices) = 1 /\ m.indices[1] = Slash /\ IsInjective(m.indices)
    BY <1>2 DEF IsInjective
  <2>3. Begins(p, Slash) /\ Marks(p) /\ u[N + 1].nType # "param"
    BY <1>3, <1>8 DEF Begins, Marks
  <2> QED BY <1>2, <1>8, <2>1, <2>2, <2>3 DEF Sound, Fits, LinkedAt, Key
<1>12. Sound(u, p, 0, Slash)
  <2>1. Len(p.children) = 1 /\ p.children[1] = last /\ u[last].nType = "catchAll"
    BY <1>3, <1>8
  <2> QED BY <1>3, <2>1 DEF Sound, Fits, LinkedAt
<1>13. Sound(u, e, 0, Slash)
  BY <1>3, LeafSound
<1>14. InShape(u) /\ Linked(u, 0, Slash) /\ Begins(u[1], Slash)
  <2>1. \A i \in 1..Len(u) : i = at \/ i > N => Sound(u, u[i], 0, Slash)
    BY <1>8, <1>11, <1>12, <1>13
  <2>2. u[at].nType = t[at].nType /\ Begins(u[at], path[1])
    BY <1>1, <1>2, <1>8 DEF Fresh
  <2>3. u \in Seq(Node) /\ Len(t) <= Len(u) /\ \A i \in 1..Len(t) : i # at => u[i] = t[i]
    BY <1>6, <1>8
  <2> QED BY <1>10, <2>1, <2>2, <2>3, Grafted
<1>15. Handles(u) = Handles(t) \cup {route}
  <2> DEFINE E == {route}
  <2>1. \A i \in 1..N : u[i].handle = t[i].handle
    BY <1>1, <1>2, <1>8 DEF Fresh
  <2>2. \A i \in 1..Len(u) : i > N => u[i].handle \in E \cup {NoHandle}
    BY <1>3, <1>8
  <2>3. \A h \in E : \E i \in 1..Len(u) : u[i].handle = h
    BY <1>3, <1>8
  <2>4. NoHandle \notin E /\ u \in Seq(Node) /\ t \in Seq(Node) /\ Len(t) <= Len(u)
    BY <1>1, <1>6, <1>8 DEF NoHandle
  <2>5. Handles(u) = Handles(t) \cup E
    <3> HIDE DEF E
    <3> QED BY <2>1, <2>2, <2>3, <2>4, HandlesGrown
  <2> QED BY <2>5
<1>16. Gains(u, t, route)
  BY <1>14, <1>15 DEF Ordered, Gains
<1> QED BY <1>4, <1>16

-----------------------------------------------------------------------------
(* The turns of a registration *)

Toward(path) == path \in Seq(STRING) /\ path # <<>> /\ Tokenised(path)

\* The walk is at a node that begins as the path does.
Walking(s) ==
    /\ Ordered(s.tree) /\ s.at \in 1..Len(s.tree) /\ Toward(s.path)
    /\ s.tree[s.at].priority >= 1 /\ Begins(s.tree[s.at], s.path[1])
    /\ s.tree[s.at].nType = "param" => Len(s.path) = 1 \/ s.path[2] = Slash

Inserting(s) ==
    /\ Toward(s.path)
    /\ IF s.path[1] \in Wildcards THEN Ready(s.tree, s.at, 0, Slash)
       ELSE Ready(s.tree, s.at, s.at, s.path[1])

Turns == [tree : Seq(Node), at : Nat, path : Seq(STRING),
          phase : {"walk", "insert", "done", "panic"}]

\* A registration under way in a tree that held H before it.
Good(s, H, route) ==
    /\ s \in Turns
    /\ s.phase = "walk" => Walking(s)
    /\ s.phase = "insert" => Inserting(s)
    /\ s.phase = "done" => Ordered(s.tree) /\ Handles(s.tree) = H \cup {route}
    /\ s.phase # "done" => InShape(s.tree) /\ Handles(s.tree) = H

\* A registration may end with its route in the tree ...
LEMMA GoodDone ==
    ASSUME NEW t, NEW H, NEW route, Ordered(t), Handles(t) = H \cup {route}
    PROVE  Good(Done(t), H, route)
<1>1. t \in Seq(Node) /\ 1 \in Nat /\ <<>> \in Seq(STRING)
  BY DEF Ordered, InShape
<1> QED BY <1>1 DEF Good, Done, Turn, Turns

\* ... or in a panic, with what the tree held before.
LEMMA GoodPanic ==
    ASSUME NEW t, NEW H, NEW route, InShape(t), Handles(t) = H
    PROVE  Good(Panic(t), H, route)
<1>1. t \in Seq(Node) /\ 1 \in Nat /\ <<>> \in Seq(STRING)
  BY DEF InShape
<1> QED BY <1>1 DEF Good, Panic, Turn, Turns

\* A turn that leads on to a walk.
LEMMA GoodWalk ==
    ASSUME NEW t, NEW at, NEW path, NEW H, NEW route, Handles(t) = H,
           Ordered(t), at \in 1..Len(t), Toward(path), t[at].priority >= 1,
           Begins(t[at], path[1]), t[at].nType = "param" => Len(path) = 1 \/ path[2] = Slash
    PROVE  Good(Turn(t, at, path, "walk"), H, route)
<1>1. t \in Seq(Node) /\ at \in Nat /\ path \in Seq(STRING)
  BY DEF Ordered, InShape, Toward
<1>2. Turn(t, at, path, "walk") \in Turns
  BY <1>1 DEF Turn, Turns
<1> QED BY <1>2 DEF Good, Turn, Walking, Ordered

\* A turn that leads on to an insertion.
LEMMA GoodInsert ==
    ASSUME NEW t, NEW at, NEW path, NEW H, NEW route, Handles(t) = H, Toward(path),
           IF path[1] \in Wildcards THEN Ready(t, at, 0, Slash) ELSE Ready(t, at, at, path[1])
    PROVE  Good(Turn(t, at, path, "insert"), H, route)
<1>1. t \in Seq(Node) /\ at \in Nat /\ path \in Seq(STRING)
  BY DEF Ready, InShape, Toward
<1>2. Turn(t, at, path, "insert") \in Turns
  BY <1>1 DEF Turn, Turns
<1> QED BY <1>2 DEF Good, Turn, Inserting, Ready

\* What is left of a route after some of its tokens.
LEMMA RestOfPath ==
    ASSUME NEW path, Toward(path), NEW i \in 0..Len(path) - 1
    PROVE  Toward(From(path, i + 1)) /\ From(path, i + 1)[1] = path[i + 1]
<1>1. path \in Seq(STRING) /\ Tokenised(path) /\ i + 1 \in 1..Len(path) + 1 /\ Len(path) \in Nat
  BY DEF Toward
<1> DEFINE q == From(path, i + 1)
<1>2. /\ q \in Seq(STRING) /\ Len(q) = Len(path) - (i + 1) + 1
      /\ \A k \in 1..Len(path) - (i + 1) + 1 : q[k] = path[(i + 1) + k - 1]
  BY <1>1, TailOf
<1>3. Tokenised(q)
  BY <1>1, TokenisedTail
<1> HIDE DEF q
<1>4. 1 \in 1..Len(path) - (i + 1) + 1 /\ (i + 1) + 1 - 1 = i + 1 /\ Len(q) # 0
  BY <1>1, <1>2
<1>5. q # <<>> /\ q[1] = path[i + 1]
  BY <1>2, <1>4
<1> QED BY <1>2, <1>3, <1>5 DEF Toward, q

\* A turn of insertChild (tree.go:217-319).
LEMMA InsertTurnGood ==
    ASSUME NEW t, NEW at, NEW path, Toward(path), Slash \notin Wildcards,
           IF path[1] \in Wildcards THEN Ready(t, at, 0, Slash) ELSE Ready(t, at, at, path[1]),
           NEW route \in Seq(STRING), route # <<>>
    PROVE  Good(InsertTurn(t, at, path, route), Handles(t), route)
<1> DEFINE w == FirstWildcard(path)
           s == InsertTurn(t, at, path, route)
           N == Len(t)
<1>1. /\ path \in Seq(STRING) /\ path # <<>> /\ Tokenised(path) /\ Len(path) \in Nat
      /\ 1 \in 1..Len(path) /\ InShape(t) /\ at # 0
  BY DEF Toward, Ready
<1>2. /\ w \in 0..Len(path) /\ (w # 0 => path[w] \in Wildcards)
      /\ \A k \in 1..Len(path) : path[k] \in Wildcards => w # 0 /\ w <= k
  BY <1>1, FirstWildcardOf
<1>3. s = IF w = 0 THEN
            Done([t EXCEPT ![at].path = path, ![at].handle = route])
          ELSE IF \/ w < Len(path) /\ path[w + 1] \in Wildcards
                  \/ path[w] \in Unnamed
                  \/ t[at].children # <<>> THEN
            Panic(t)
          ELSE IF path[w] \in ParamTokens THEN
            InsertParam(t, at, path, w, route)
          ELSE InsertCatchAll(t, at, path, w, route)
  BY DEF InsertTurn, FirstWildcard
<1> HIDE DEF w, s
<1>4. w \in Nat /\ (w = 1 \/ path[1] \notin Wildcards)
  BY <1>1, <1>2
<1>5. CASE w = 0
  <2>1. Ready(t, at, at, path[1])
    BY <1>4, <1>5
  <2>2. Gains(LeafTree(t, at, path, route), t, route)
    BY <1>1, <2>1, LeafInserted
  <2>3. s = Done(LeafTree(t, at, path, route))
    BY <1>3, <1>5 DEF LeafTree
  <2> QED BY <2>2, <2>3, GoodDone DEF s, Gains
<1>6. CASE /\ w # 0
           /\ \/ w < Len(path) /\ path[w + 1] \in Wildcards
              \/ path[w] \in Unnamed
              \/ t[at].children # <<>>
  <2>1. s = Panic(t)
    BY <1>3, <1>6
  <2> QED BY <1>1, <2>1, GoodPanic DEF s
<1>7. CASE /\ w # 0
           /\ ~ \/ w < Len(path) /\ path[w + 1] \in Wildcards
                \/ path[w] \in Unnamed
                \/ t[at].children # <<>>
  <2>1. w \in 1..Len(path) /\ t[at].children = <<>> /\ path[w] \in Wildcards
    BY <1>2, <1>7
  <2>2. PICK fresh : \E c : AtWildcard(t, at, fresh, c, path, w)
    <3>1. CASE path[1] \in Wildcards
      <4>1. w = 1 /\ Ready(t, at, 0, Slash)
        BY <1>4, <3>1
      <4> QED BY <1>1, <2>1, <4>1 DEF AtWildcard
    <3>2. CASE path[1] \notin Wildcards
      <4>1. w # 1 /\ Ready(t, at, at, path[1])
        BY <2>1, <3>2
      <4>2. w > 1
        BY <2>1, <4>1
      <4> QED BY <2>1, <4>1, <4>2 DEF AtWildcard
    <3> QED BY <3>1, <3>2
  <2>3. PICK c : AtWildcard(t, at, fresh, c, path, w)
    BY <2>2
  <2>4. CASE path[w] \in ParamTokens /\ w < Len(path)
    <3> DEFINE u == ParamTree(t, at, path, w)
               rest == From(path, w + 1)
    <3>1. Ready(u, N + 1 + 1, N + 1 + 1, Slash) /\ Handles(u) = Handles(t)
      BY <1>1, <2>1, <2>3, ParamInserted
    <3>2. Toward(rest) /\ rest[1] = path[w + 1]
      <4>1. w \in 0..Len(path) - 1
        BY <1>1, <2>1, <2>4
      <4> QED BY <4>1, RestOfPath
    <3>3. path[w + 1] = Slash
      <4>1. w \in 1..Len(path) - 1
        BY <1>1, <2>1, <2>4
      <4>2. path[w + 1] \in Wildcards \cup {Slash}
        BY <1>1, <2>1, <4>1 DEF Tokenised
      <4> QED BY <1>7, <2>4, <4>2
    <3>4. s = Turn(u, N + 1 + 1, rest, "insert")
      BY <1>3, <1>7, <2>4 DEF InsertParam, ParamTree
    <3> HIDE DEF u, rest
    <3>5. rest[1] \notin Wildcards /\ Ready(u, N + 1 + 1, N + 1 + 1, rest[1])
      BY <3>1, <3>2, <3>3
    <3> QED BY <3>1, <3>2, <3>4, <3>5, GoodInsert DEF s
  <2>5. CASE path[w] \in ParamTokens /\ ~(w < Len(path))
    <3>1. Gains(LastParamTree(t, at, path, w, route), t, route)
      BY <1>1, <2>1, <2>3, LastParamInserted
    <3>2. s = Done(LastParamTree(t, at, path, w, route))
      BY <1>3, <1>7, <2>5 DEF InsertParam, LastParamTree
    <3> QED BY <3>1, <3>2, GoodDone DEF s, Gains
  <2>6. CASE path[w] \notin ParamTokens
    <3>1. s = InsertCatchAll(t, at, path, w, route)
      BY <1>3, <1>7, <2>6
    <3>2. CASE \/ w # Len(path)
               \/ t[at].path # <<>> /\ Last(t[at].path) = Slash
               \/ w = 1
               \/ path[w - 1] # Slash
      <4>1. s = Panic(t)
        BY <3>1, <3>2 DEF InsertCatchAll
      <4> QED BY <1>1, <4>1, GoodPanic DEF s
    <3>3. CASE ~ \/ w # Len(path)
                 \/ t[at].path # <<>> /\ Last(t[at].path) = Slash
                 \/ w = 1
                 \/ path[w - 1] # Slash
      <4>1. w = Len(path) /\ Len(path) > 1 /\ path[Len(path) - 1] = Slash
        BY <2>1, <3>3
      <4>2. Ready(t, at, at, path[1])
        BY <1>4, <3>3
      <4>3. Gains(CatchAllTree(t, at, path, route), t, route)
        BY <1>1, <4>1, <4>2, CatchAllInserted
      <4>4. s = Done(CatchAllTree(t, at, path, route))
        BY <3>1, <3>3, <4>1 DEF InsertCatchAll, CatchAllTree
      <4> QED BY <4>3, <4>4, GoodDone DEF s, Gains
    <3> QED BY <3>2, <3>3
  <2> QED BY <2>4, <2>5, <2>6
<1> QED BY <1>5, <1>6, <1>7
\* The walk has passed the node's own path.
Passed(t, at, path) ==
    /\ Ordered(t) /\ at \in 1..Len(t) /\ Toward(path)
    /\ t[at].nType = "param" => path[1] = Slash
    /\ t[at].path = <<>> => t[at].indices = <<path[1]>> \/ t[at].wildChild

\* A raised priority keeps the tree in order.
LEMMA BumpedInOrder ==
    ASSUME NEW t, Ordered(t), NEW at \in 1..Len(t)
    PROVE  LET u == Bump(t, at)
           IN  /\ Ordered(u) /\ Len(u) = Len(t) /\ Handles(u) = Handles(t)
               /\ u[at].priority >= 1 /\ u[at].nType = t[at].nType
               /\ \A c : Begins(t[at], c) => Begins(u[at], c)
<1> DEFINE u == Bump(t, at)
<1>1. /\ InShape(t) /\ Linked(t, 0, Slash) /\ Begins(t[1], Slash) /\ 1 \in 1..Len(t)
  BY Places DEF Ordered, InShape
<1>2. /\ u \in Seq(Node) /\ Len(u) = Len(t) /\ InShape(u)
      /\ \A fresh, c : Linked(t, fresh, c) => Linked(u, fresh, c)
      /\ \A i \in 1..Len(t) : \A c : Begins(u[i], c) <=> Begins(t[i], c)
      /\ \A i \in 1..Len(t) : /\ SameLinks(t[i], u[i]) /\ u[i].path = t[i].path
                              /\ u[i].handle = t[i].handle
      /\ u[at].priority >= 1 /\ Handles(u) = Handles(t)
  BY <1>1, Bumped
<1> HIDE DEF u
<1>3. Ordered(u)
  BY <1>1, <1>2 DEF Ordered
<1>4. u[at].nType = t[at].nType
  BY <1>2 DEF SameLinks
<1> QED BY <1>2, <1>3, <1>4 DEF u

\* The walk below a node with a wildcard child.
LEMMA WildcardReached ==
    ASSUME NEW t, NEW at, NEW path, Passed(t, at, path), t[at].wildChild, NEW route
    PROVE  Good(Descend(t, at, path), Handles(t), route)
<1> DEFINE n == t[at]
           first == n.children[1]
           u == Bump(t, first)
           s == Descend(t, at, path)
<1>1. /\ t \in Seq(Node) /\ Ordered(t) /\ InShape(t) /\ at \in 1..Len(t) /\ DOMAIN t = 1..Len(t)
      /\ Toward(path) /\ Hung(t)
  BY Places DEF Passed, Ordered, InShape
<1>2. Fits(t, n)
  BY <1>1 DEF InShape
<1>3. Len(n.children) = 1 /\ t[first].nType \in {"param", "catchAll"}
  BY <1>2 DEF Fits
<1>4. first \in 2..Len(t) /\ first \in 1..Len(t)
  <2>1. 1 \in 1..Len(n.children)
    BY <1>3
  <2> QED BY <1>1, <2>1, ChildrenInRange
<1>5. /\ Ordered(u) /\ Len(u) = Len(t) /\ Handles(u) = Handles(t)
      /\ u[first].priority >= 1 /\ u[first].nType = t[first].nType
      /\ \A c : Begins(t[first], c) => Begins(u[first], c)
  <2> HIDE DEF first
  <2> QED BY <1>1, <1>4, BumpedInOrder
<1>6. s = IF Continues(t[first], path) THEN Turn(u, first, path, "walk") ELSE Panic(u)
  BY DEF Descend
<1> HIDE DEF first, u, s
<1>7. CASE Continues(t[first], path)
  <2>1. /\ t[first].nType = "param" /\ t[first].path[1] = path[1]
        /\ Len(path) = 1 \/ path[2] = Slash
    BY <1>3, <1>7 DEF Continues
  <2>2. Len(t[first].path) = 1
    BY <1>1, <1>4, <2>1 DEF InShape
  <2>3. t[first].path # <<>>
    BY <2>2
  <2>4. Begins(t[first], path[1])
    BY <2>1, <2>3 DEF Begins
  <2>5. Begins(u[first], path[1])
    BY <1>5, <2>4
  <2>6. s = Turn(u, first, path, "walk")
    BY <1>6, <1>7
  <2>7. first \in 1..Len(u)
    BY <1>4, <1>5
  <2>8. Good(Turn(u, first, path, "walk"), Handles(t), route)
    BY <1>1, <1>5, <2>1, <2>5, <2>7, GoodWalk
  <2> QED BY <2>6, <2>8 DEF s
<1>8. CASE ~Continues(t[first], path)
  <2>1. s = Panic(u)
    BY <1>6, <1>8
  <2>2. InShape(u)
    BY <1>5 DEF Ordered
  <2>3. Good(Panic(u), Handles(t), route)
    BY <1>5, <2>2, GoodPanic
  <2> QED BY <2>1, <2>3 DEF s
<1> QED BY <1>7, <1>8

\* The walk from a parameter to the segment after it.
LEMMA LeftOfParameter ==
    ASSUME NEW t, NEW at, NEW path, Passed(t, at, path), t[at].wildChild = FALSE,
           t[at].nType = "param", Len(t[at].children) = 1, NEW route
    PROVE  LET first == t[at].children[1]
           IN  Good(Turn(Bump(t, first), first, path, "walk"), Handles(t), route)
<1> DEFINE n == t[at]
           first == n.children[1]
           u == Bump(t, first)
<1>1. /\ t \in Seq(Node) /\ Ordered(t) /\ InShape(t) /\ at \in 1..Len(t) /\ DOMAIN t = 1..Len(t)
      /\ Toward(path) /\ Hung(t) /\ path[1] = Slash /\ Linked(t, 0, Slash)
  BY Places DEF Passed, Ordered, InShape
<1>2. Fits(t, n) /\ LinkedAt(t, n, 0, Slash)
  BY <1>1 DEF InShape, Linked
<1>3. 1 \in DOMAIN n.children /\ 1 \in 1..Len(n.children)
  <2>1. n \in Node /\ n.children \in Seq(Nat)
    BY <1>1, Places, FieldTypes
  <2> QED BY <2>1
<1>4. first \in 2..Len(t) /\ first \in 1..Len(t) /\ first # 0
  <2>1. first \in 2..Len(t) /\ first \in 1..Len(t)
    BY <1>1, <1>3, ChildrenInRange
  <2> HIDE DEF first
  <2> QED BY <2>1
<1>5. t[first].nType # "param"
  BY <1>2, <1>3 DEF Fits
<1>6. Begins(t[first], path[1])
  <2>1. Key(n, 1) = Slash
    BY DEF Key
  <2> QED BY <1>1, <1>2, <1>3, <1>4, <2>1 DEF LinkedAt
<1> HIDE DEF first
<1>7. /\ Ordered(u) /\ Len(u) = Len(t) /\ Handles(u) = Handles(t)
      /\ u[first].priority >= 1 /\ u[first].nType = t[first].nType
      /\ \A c : Begins(t[first], c) => Begins(u[first], c)
  BY <1>1, <1>4, BumpedInOrder
<1> HIDE DEF u
<1>8. first \in 1..Len(u) /\ Begins(u[first], path[1]) /\ u[first].nType # "param"
  BY <1>4, <1>5, <1>6, <1>7
<1>9. Good(Turn(u, first, path, "walk"), Handles(t), route)
  BY <1>1, <1>7, <1>8, GoodWalk
<1> QED BY <1>9 DEF u, first

\* A node the walk has passed that has no wildcard below it: its children have
\* one index byte each, or it is a parameter without a child.
LEMMA BytesOfPassed ==
    ASSUME NEW t, NEW at, NEW path, Passed(t, at, path), t[at].wildChild = FALSE,
           ~(t[at].nType = "param" /\ path[1] = Slash /\ Len(t[at].children) = 1)
    PROVE  /\ Len(t[at].indices) = Len(t[at].children)
           /\ t[at].nType = "param" => t[at].children = <<>> /\ path[1] = Slash
<1> DEFINE n == t[at]
<1>1. /\ n \in Node /\ Fits(t, n) /\ (n.nType = "param" => path[1] = Slash)
  BY Places DEF Passed, Ordered, InShape
<1>2. n.children \in Seq(Nat) /\ n.indices \in Seq(STRING)
  BY <1>1, FieldTypes
<1>3. CASE n.nType # "param"
  BY <1>1, <1>3 DEF Fits
<1>4. CASE n.nType = "param"
  <2>1. Len(n.children) <= 1 /\ (n.children = <<>> => n.indices = <<>>)
    BY <1>1, <1>4 DEF Fits
  <2>2. Len(n.children) # 1 /\ path[1] = Slash
    BY <1>1, <1>4
  <2>3. n.children = <<>>
    <3> DEFINE cs == n.children
    <3>1. cs \in Seq(Nat) /\ Len(cs) <= 1 /\ Len(cs) # 1
      BY <1>2, <2>1, <2>2
    <3> HIDE DEF cs
    <3>2. Len(cs) = 0
      <4> DEFINE l == Len(cs)
      <4>1. l \in Nat /\ l <= 1 /\ l # 1
        BY <3>1
      <4> HIDE DEF l
      <4>2. l = 0
        BY <4>1
      <4> QED BY <4>2 DEF l
    <3>3. cs = <<>>
      BY <3>1, <3>2
    <3> QED BY <3>3 DEF cs
  <2> QED BY <2>1, <2>2, <2>3
<1> QED BY <1>3, <1>4

\* The walk along an index byte.
LEMMA ByteFollowed ==
    ASSUME NEW t, NEW at, NEW path, Passed(t, at, path), t[at].wildChild = FALSE,
           ~(t[at].nType = "param" /\ path[1] = Slash /\ Len(t[at].children) = 1),
           NEW pos, pos = IndexOf(t[at], path[1]), pos # 0, NEW route
    PROVE  Good(Turn(IncrementChildPrio(t, at, pos), t[at].children[pos], path, "walk"),
                Handles(t), route)
<1> DEFINE n == t[at]
           child == n.children[pos]
           u == IncrementChildPrio(t, at, pos)
           N == Len(t)
<1>1. /\ t \in Seq(Node) /\ Ordered(t) /\ InShape(t) /\ at \in 1..N /\ DOMAIN t = 1..N
      /\ Toward(path) /\ Hung(t) /\ Linked(t, 0, Slash) /\ n \in Node
      /\ Begins(t[1], Slash) /\ 1 \in 1..N
  BY Places DEF Passed, Ordered, InShape
<1>2. Fits(t, n) /\ LinkedAt(t, n, 0, Slash)
  BY <1>1 DEF InShape, Linked
<1>3. Len(n.indices) = Len(n.children) /\ (n.nType = "param" => n.children = <<>>)
  BY BytesOfPassed
<1>4. pos \in 0..Len(n.indices) /\ n.indices[pos] = path[1]
  BY <1>1, IndexOfChild
<1>5. pos \in 1..Len(n.children) /\ n.children # <<>>
  <2>1. n.children \in Seq(Nat) /\ Len(n.children) \in Nat
    BY <1>1, FieldTypes
  <2> DEFINE K == Len(n.children)
  <2>2. K \in Nat /\ pos \in 0..K /\ pos # 0
    BY <1>3, <1>4, <2>1
  <2>3. pos \in 1..K /\ K # 0
    <3> HIDE DEF K
    <3> QED BY <2>2
  <2> QED BY <2>3
<1>6. child \in 2..N /\ child \in 1..N /\ child # 0 /\ pos \in DOMAIN n.children
  <2>1. child \in 2..N /\ child \in 1..N
    BY <1>1, <1>5, ChildrenInRange
  <2>2. n.children \in Seq(Nat)
    BY <1>1, FieldTypes
  <2>3. pos \in DOMAIN n.children
    BY <1>5, <2>2
  <2> HIDE DEF child
  <2> QED BY <2>1, <2>3
<1>7. n.nType # "param"
  BY <1>3, <1>5
<1>8. t[child].nType # "param"
  BY <1>2, <1>6 DEF Fits
<1>9. Begins(t[child], path[1])
  <2>1. Key(n, pos) = path[1]
    BY <1>4, <1>7 DEF Key
  <2> QED BY <1>2, <1>6, <2>1 DEF LinkedAt
<1>10. /\ u \in Seq(Node) /\ InShape(u) /\ Len(u) = Len(t) /\ Handles(u) = Handles(t)
       /\ \A fresh, c : Linked(t, fresh, c) => Linked(u, fresh, c)
       /\ \A i \in 1..Len(t) : \A c : Begins(t[i], c) => Begins(u[i], c)
       /\ \A i \in 1..Len(t) : u[i].nType = t[i].nType
       /\ u[child].priority >= 1
  <2>1. InShape(t) /\ at \in 1..Len(t) /\ Len(n.indices) = Len(n.children)
    BY <1>1, <1>3
  <2>2. pos \in 1..Len(n.children)
    BY <1>5
  <2> QED BY <2>1, <2>2, ChildPrioIncremented
<1> HIDE DEF u, child
<1>11. Ordered(u)
  BY <1>1, <1>10 DEF Ordered
<1>12. child \in 1..Len(u) /\ Begins(u[child], path[1]) /\ u[child].nType # "param"
  BY <1>6, <1>8, <1>9, <1>10
<1>13. Good(Turn(u, child, path, "walk"), Handles(t), route)
  BY <1>1, <1>10, <1>11, <1>12, GoodWalk
<1> QED BY <1>13 DEF u, child

\* A node that has no byte for the rest of a path has a path of its own.
LEMMA PassedHasPath ==
    ASSUME NEW t, NEW at, NEW path, Passed(t, at, path), t[at].wildChild = FALSE,
           IndexOf(t[at], path[1]) = 0
    PROVE  t[at].path # <<>>
<1> DEFINE n == t[at]
<1>1. n \in Node /\ (n.path = <<>> => n.indices = <<path[1]>>)
  BY Places DEF Passed, Ordered, InShape
<1>2. \A k \in 1..Len(n.indices) : n.indices[k] # path[1]
  BY <1>1, IndexOfChild
<1> SUFFICES ASSUME n.path = <<>> PROVE FALSE
  OBVIOUS
<1>3. n.indices = <<path[1]>>
  BY <1>1
<1>4. 1 \in 1..Len(n.indices) /\ n.indices[1] = path[1]
  BY <1>3
<1> QED BY <1>2, <1>4

\* The insertion below a new index byte.
LEMMA ByteAdded ==
    ASSUME NEW t, NEW at, NEW path, Passed(t, at, path), t[at].wildChild = FALSE,
           ~(t[at].nType = "param" /\ path[1] = Slash /\ Len(t[at].children) = 1),
           IndexOf(t[at], path[1]) = 0, path[1] \notin Wildcards, NEW route
    PROVE  Good(Turn(GrowChild(t, at, path[1]), Len(t) + 1, path, "insert"),
                Handles(t), route)
<1> DEFINE n == t[at]
           u == GrowChild(t, at, path[1])
           new == Len(t) + 1
<1>1. /\ Ordered(t) /\ at \in 1..Len(t) /\ Toward(path) /\ n \in Node /\ Len(t) \in Nat
      /\ n.path = <<>> => n.indices = <<path[1]>> \/ n.wildChild
  BY Places DEF Passed, Ordered, InShape
<1>2. \A k \in 1..Len(n.indices) : n.indices[k] # path[1]
  BY <1>1, IndexOfChild
<1>3. n.path # <<>>
  BY PassedHasPath
<1>4. n.nType = "param" => path[1] = Slash /\ n.children = <<>>
  BY BytesOfPassed
<1>5. path[1] \in STRING
  <2>1. path \in Seq(STRING) /\ path # <<>>
    BY <1>1 DEF Toward
  <2> QED BY <2>1
<1> DEFINE c == path[1]
<1>6. /\ u \in Seq(Node) /\ InShape(u) /\ Len(u) = Len(t) + 1
      /\ Handles(u) = Handles(t) /\ Linked(u, Len(t) + 1, c)
      /\ Fresh(u[Len(t) + 1]) /\ Begins(u[1], Slash)
  BY <1>1, <1>2, <1>3, <1>4, <1>5, ChildGrown
<1> HIDE DEF u
<1>7. new \in 1..Len(u) /\ u[new].nType # "param"
  BY <1>1, <1>6 DEF Fresh
<1>8. Ready(u, new, new, c)
  BY <1>6, <1>7 DEF Ready
<1> HIDE DEF new
<1>9. Good(Turn(u, new, path, "insert"), Handles(t), route)
  BY <1>1, <1>6, <1>8, GoodInsert
<1> QED BY <1>9 DEF u, new

\* The walk below the node whose path is passed (tree.go:147-205).
LEMMA DescendGood ==
    ASSUME NEW t, NEW at, NEW path, Passed(t, at, path), Slash \notin Wildcards, NEW route
    PROVE  Good(Descend(t, at, path), Handles(t), route)
<1> DEFINE n == t[at]
           pos == IndexOf(n, path[1])
<1>1. n.wildChild \in BOOLEAN /\ Toward(path)
  BY Places, FieldTypes DEF Passed, Ordered, InShape
<1>2. CASE n.wildChild
  BY <1>2, WildcardReached
<1>3. CASE n.wildChild = FALSE /\ n.nType = "param" /\ path[1] = Slash /\ Len(n.children) = 1
  <2>1. Descend(t, at, path) = Turn(Bump(t, n.children[1]), n.children[1], path, "walk")
    BY <1>3 DEF Descend
  <2> QED BY <1>3, <2>1, LeftOfParameter
<1>4. CASE /\ n.wildChild = FALSE /\ ~(n.nType = "param" /\ path[1] = Slash /\ Len(n.children) = 1)
           /\ pos # 0
  <2>1. Descend(t, at, path) = Turn(IncrementChildPrio(t, at, pos), n.children[pos], path, "walk")
    BY <1>4 DEF Descend
  <2> QED BY <1>4, <2>1, ByteFollowed
<1>5. CASE /\ n.wildChild = FALSE /\ ~(n.nType = "param" /\ path[1] = Slash /\ Len(n.children) = 1)
           /\ pos = 0 /\ path[1] \in Wildcards
  <2>1. Descend(t, at, path) = Turn(t, at, path, "insert")
    BY <1>5 DEF Descend
  <2>2. n.nType # "param" /\ InShape(t) /\ Linked(t, 0, Slash) /\ Begins(t[1], Slash)
    BY <1>5 DEF Passed, Ordered
  <2>3. at # 0 /\ at \in 1..Len(t)
    BY DEF Passed
  <2>4. n.path # <<>>
    BY <1>5, PassedHasPath
  <2>5. Ready(t, at, 0, Slash)
    BY <2>2, <2>3, <2>4 DEF Ready
  <2>6. Good(Turn(t, at, path, "insert"), Handles(t), route)
    BY <1>1, <1>5, <2>5, GoodInsert
  <2> QED BY <2>1, <2>6
<1>6. CASE /\ n.wildChild = FALSE /\ ~(n.nType = "param" /\ path[1] = Slash /\ Len(n.children) = 1)
           /\ pos = 0 /\ path[1] \notin Wildcards
  <2>1. Descend(t, at, path) = Turn(GrowChild(t, at, path[1]), Len(t) + 1, path, "insert")
    BY <1>6 DEF Descend
  <2> QED BY <1>6, <2>1, ByteAdded
<1> QED BY <1>1, <1>2, <1>3, <1>4, <1>5, <1>6

\* Where the walk has come to: what the node and the path share is passed, the
\* edge split where they part.
Shared(t, at, path) == Len(LongestCommonPrefix({path, t[at].path}))
Split(t, at, path) ==
    IF Shared(t, at, path) < Len(t[at].path) THEN SplitEdge(t, at, Shared(t, at, path)) ELSE t

PathPassed(t, at, path, i, u) ==
    /\ i \in 0..Len(path) /\ i <= Len(t[at].path)
    /\ t[at].path # <<>> => i >= 1
    /\ i < Len(t[at].path) => i \in 1..Len(t[at].path) - 1
    /\ Ordered(u) /\ Handles(u) = Handles(t) /\ at \in 1..Len(u)
    /\ IF i = Len(path) THEN u[at].path # <<>> ELSE Passed(u, at, From(path, i + 1))

\* A turn of the walk passes the path of its node, or splits it.
LEMMA WalkPasses ==
    ASSUME NEW t, NEW at, NEW path, Walking(Turn(t, at, path, "walk"))
    PROVE  PathPassed(t, at, path, Shared(t, at, path), Split(t, at, path))
<1> DEFINE n == t[at]
           i == Shared(t, at, path)
           u == Split(t, at, path)
           rest == From(path, i + 1)
<1>1. /\ t \in Seq(Node) /\ Ordered(t) /\ at \in 1..Len(t) /\ Toward(path) /\ n \in Node
      /\ n.priority >= 1 /\ Begins(n, path[1])
      /\ n.nType = "param" => Len(path) = 1 \/ path[2] = Slash
      /\ n.nType = "param" => Len(n.path) = 1
      /\ Len(t) \in Nat
  BY Places DEF Walking, Turn, Ordered, InShape
<1>2. /\ path \in Seq(STRING) /\ path # <<>> /\ n.path \in Seq(STRING) /\ n.wildChild \in BOOLEAN
      /\ Len(path) \in Nat /\ Len(n.path) \in Nat
  <2>1. path \in Seq(STRING) /\ path # <<>> /\ Len(path) \in Nat
    BY <1>1 DEF Toward
  <2> HIDE DEF n
  <2>2. n.path \in Seq(STRING) /\ n.wildChild \in BOOLEAN /\ Len(n.path) \in Nat
    BY <1>1, FieldTypes
  <2> QED BY <2>1, <2>2
<1>3. /\ i \in 0..Len(path) /\ i <= Len(n.path)
      /\ n.path # <<>> => i >= 1
  <2>1. /\ i \in 0..Len(path) /\ i <= Len(n.path)
        /\ path # <<>> /\ n.path # <<>> /\ path[1] = n.path[1] => i >= 1
    BY <1>2, CommonLength DEF Shared
  <2>2. n.path # <<>> => n.path[1] = path[1]
    BY <1>1 DEF Begins
  <2> HIDE DEF i
  <2> QED BY <1>2, <2>1, <2>2
<1>4. i < Len(n.path) => i \in 1..Len(n.path) - 1
  <2> SUFFICES ASSUME i < Len(n.path) PROVE i \in 1..Len(n.path) - 1
    OBVIOUS
  <2> DEFINE l == Len(n.path)
  <2>1. l \in Nat /\ i \in 0..Len(path) /\ i < l /\ i >= 1
    <3>1. n.path # <<>>
      BY <1>2, <1>3
    <3> QED BY <1>2, <1>3, <3>1
  <2> HIDE DEF l, i
  <2>2. i \in 1..l - 1
    BY <2>1, <1>2
  <2> QED BY <2>2 DEF l
<1>5. u = IF i < Len(n.path) THEN SplitEdge(t, at, i) ELSE t
  BY DEF Split
<1> HIDE DEF u, i
<1>6. /\ Ordered(u) /\ Handles(u) = Handles(t) /\ at \in 1..Len(u)
      /\ u[at].nType = "param" => u = t
      /\ u[at].path = <<>> => u = t
  <2>1. CASE i < Len(n.path)
    <3>1. i \in 1..Len(n.path) - 1
      BY <1>4, <2>1
    <3>2. /\ Ordered(SplitEdge(t, at, i)) /\ Len(SplitEdge(t, at, i)) = Len(t) + 1
          /\ Handles(SplitEdge(t, at, i)) = Handles(t)
          /\ SplitEdge(t, at, i)[at].nType # "param" /\ SplitEdge(t, at, i)[at].path # <<>>
      BY <1>1, <3>1, EdgeSplit
    <3>3. u = SplitEdge(t, at, i)
      BY <1>5, <2>1
    <3> HIDE DEF u
    <3> QED BY <1>1, <3>2, <3>3
  <2>2. CASE ~(i < Len(n.path))
    <3>1. u = t
      BY <1>5, <2>2
    <3> HIDE DEF u
    <3> QED BY <1>1, <3>1
  <2> QED BY <2>1, <2>2
<1>7. u = t => i = Len(n.path)
  <2> SUFFICES ASSUME u = t, i < Len(n.path) PROVE FALSE
    BY <1>2, <1>3
  <2>1. n.path # <<>>
    BY <1>2, <1>3
  <2>2. i \in 1..Len(n.path) - 1
    BY <1>4
  <2>3. Len(SplitEdge(t, at, i)) = Len(t) + 1
    BY <1>1, <2>2, EdgeSplit
  <2>4. t = SplitEdge(t, at, i)
    BY <1>5
  <2>5. Len(t) # Len(t) + 1
    BY <1>1
  <2> QED BY <2>3, <2>4, <2>5, Zenon
<1>8. ASSUME i # Len(path) PROVE Passed(u, at, rest)
  <2>2. i \in 0..Len(path) - 1
    BY <1>2, <1>3, <1>8
  <2>3. Toward(rest) /\ rest[1] = path[i + 1]
    BY <1>1, <2>2, RestOfPath
  <2>4. u[at].nType = "param" => rest[1] = Slash
    <3> SUFFICES ASSUME u[at].nType = "param" PROVE rest[1] = Slash
      OBVIOUS
    <3>1. n.nType = "param" /\ i = 1
      BY <1>1, <1>6, <1>7
    <3>2. path[2] = Slash /\ i + 1 = 2
      BY <1>1, <1>8, <3>1
    <3> QED BY <2>3, <3>2
  <2>5. u[at].path = <<>> => u[at].indices = <<rest[1]>> \/ u[at].wildChild
    <3> SUFFICES ASSUME u[at].path = <<>> PROVE u[at].indices = <<rest[1]>> \/ u[at].wildChild
      OBVIOUS
    <3>1. u = t /\ n.path = <<>>
      BY <1>6
    <3>2. i = 0
      BY <1>7, <3>1
    <3>3. rest[1] = path[1]
      BY <2>3, <3>2
    <3>4. n.indices = <<path[1]>> \/ n.wildChild
      BY <1>1, <3>1 DEF Begins
    <3> QED BY <3>1, <3>3, <3>4
  <2> HIDE DEF rest
  <2> QED BY <1>6, <2>3, <2>4, <2>5 DEF Passed
<1>9. ASSUME i = Len(path) PROVE u[at].path # <<>>
  <2> SUFFICES ASSUME u[at].path = <<>> PROVE FALSE
    OBVIOUS
  <2>1. u = t /\ Len(n.path) = 0
    BY <1>6
  <2>2. i = 0
    BY <1>7, <2>1
  <2>3. Len(path) = 0 => path = <<>>
    BY <1>2
  <2> QED BY <1>2, <1>9, <2>2, <2>3
<1>10. PathPassed(t, at, path, i, u)
  <2> HIDE DEF rest
  <2>1. IF i = Len(path) THEN u[at].path # <<>> ELSE Passed(u, at, From(path, i + 1))
    BY <1>8, <1>9 DEF rest
  <2> HIDE DEF n
  <2> QED BY <1>3, <1>4, <1>6, <2>1 DEF PathPassed, n
<1> QED BY <1>10 DEF i, u

\* A turn of the walk of addRoute (tree.go:118-213).
LEMMA WalkTurnGood ==
    ASSUME NEW t, NEW at, NEW path, NEW route \in Seq(STRING), route # <<>>,
           Walking(Turn(t, at, path, "walk")), Slash \notin Wildcards
    PROVE  Good(WalkTurn(t, at, path, route), Handles(t), route)
<1> DEFINE i == Shared(t, at, path)
           u == Split(t, at, path)
           rest == From(path, i + 1)
<1>1. PathPassed(t, at, path, i, u)
  BY WalkPasses
<1>2. WalkTurn(t, at, path, route) = IF i = Len(path) THEN AddHandle(u, at, route)
                                     ELSE Descend(u, at, rest)
  BY DEF WalkTurn, Shared, Split
<1> HIDE DEF i, u
<1>3. Ordered(u) /\ Handles(u) = Handles(t) /\ at \in 1..Len(u)
  BY <1>1 DEF PathPassed
<1>4. CASE i = Len(path) /\ u[at].handle # NoHandle
  <2>1. WalkTurn(t, at, path, route) = Panic(u)
    BY <1>2, <1>4 DEF AddHandle
  <2>2. Good(Panic(u), Handles(t), route)
    BY <1>3, GoodPanic DEF Ordered
  <2> QED BY <2>1, <2>2
<1>5. CASE i = Len(path) /\ u[at].handle = NoHandle
  <2> DEFINE v == [u EXCEPT ![at].handle = route]
  <2>1. WalkTurn(t, at, path, route) = Done(v)
    BY <1>2, <1>5 DEF AddHandle
  <2>2. Ordered(v) /\ Handles(v) = Handles(u) \cup {route}
    BY <1>3, <1>5, HandleAdded
  <2> HIDE DEF v
  <2>3. Good(Done(v), Handles(t), route)
    BY <1>3, <2>2, GoodDone
  <2> QED BY <2>1, <2>3
<1>6. CASE i # Len(path)
  <2> HIDE DEF rest
  <2>1. WalkTurn(t, at, path, route) = Descend(u, at, rest)
    BY <1>2, <1>6
  <2>2. Passed(u, at, rest)
    BY <1>1, <1>6 DEF PathPassed, rest
  <2>3. Good(Descend(u, at, rest), Handles(u), route)
    BY <2>2, DescendGood
  <2> QED BY <1>3, <2>1, <2>3
<1> QED BY <1>4, <1>5, <1>6

\* Every turn keeps a registration good.
LEMMA NextTurnGood ==
    ASSUME NEW s, NEW H, NEW route \in Seq(STRING), route # <<>>, Good(s, H, route),
           Slash \notin Wildcards
    PROVE  Good(NextTurn(s, route), H, route)
<1>1. CASE s.phase = "walk"
  <2>1. Walking(s) /\ Handles(s.tree) = H
    BY <1>1 DEF Good
  <2>2. Walking(Turn(s.tree, s.at, s.path, "walk"))
    BY <2>1 DEF Walking, Turn
  <2>3. Good(WalkTurn(s.tree, s.at, s.path, route), Handles(s.tree), route)
    BY <2>2, WalkTurnGood
  <2>4. NextTurn(s, route) = WalkTurn(s.tree, s.at, s.path, route)
    BY <1>1 DEF NextTurn
  <2> QED BY <2>1, <2>3, <2>4
<1>2. CASE s.phase = "insert"
  <2>1. Inserting(s) /\ Handles(s.tree) = H
    BY <1>2 DEF Good
  <2>2. /\ Toward(s.path)
        /\ IF s.path[1] \in Wildcards THEN Ready(s.tree, s.at, 0, Slash)
           ELSE Ready(s.tree, s.at, s.at, s.path[1])
    BY <2>1 DEF Inserting
  <2>3. Good(InsertTurn(s.tree, s.at, s.path, route), Handles(s.tree), route)
    BY <2>2, InsertTurnGood
  <2>4. NextTurn(s, route) = InsertTurn(s.tree, s.at, s.path, route)
    BY <1>2 DEF NextTurn
  <2> QED BY <2>1, <2>3, <2>4
<1>3. CASE s.phase \notin {"walk", "insert"}
  BY <1>3 DEF NextTurn
<1> QED BY <1>1, <1>2, <1>3

-----------------------------------------------------------------------------
(* The end of a registration *)

Ended(s) == s.phase \in {"done", "panic"}

\* The turns that may still come, at most.
Rank(s) == IF s.phase = "walk" /\ ~Marks(s.tree[s.at]) THEN Len(s.path) + 1 ELSE Len(s.path)
Nearer(s, rank) == Ended(s) \/ (Rank(s) \in Nat /\ Rank(s) < rank)

\* A registration that has not ended has turns left.
LEMMA RankIsPositive ==
    ASSUME NEW s, NEW H, NEW route, Good(s, H, route), ~Ended(s)
    PROVE  Rank(s) # 0
<1>1. Toward(s.path)
  BY DEF Good, Ended, Turns, Walking, Inserting
<1>2. Len(s.path) \in Nat /\ Len(s.path) # 0
  BY <1>1 DEF Toward
<1> QED BY <1>2 DEF Rank

\* What is left of a route is shorter.
LEMMA RestIsShorter ==
    ASSUME NEW path \in Seq(STRING), NEW i \in 0..Len(path)
    PROVE  Len(From(path, i + 1)) = Len(path) - i
<1>1. i + 1 \in 1..Len(path) + 1 /\ Len(path) \in Nat
  OBVIOUS
<1>2. Len(From(path, i + 1)) = Len(path) - (i + 1) + 1
  BY <1>1, TailOf
<1> QED BY <1>1, <1>2

\* A turn of insertChild passes the wildcard it inserts, or ends.
LEMMA InsertTurnNearer ==
    ASSUME NEW t, NEW at, NEW path, Toward(path), NEW route
    PROVE  Nearer(InsertTurn(t, at, path, route), Len(path))
<1> DEFINE w == FirstWildcard(path)
           s == InsertTurn(t, at, path, route)
<1>1. path \in Seq(STRING) /\ Len(path) \in Nat /\ w \in 0..Len(path)
  <2>1. path \in Seq(STRING)
    BY DEF Toward
  <2> QED BY <2>1, FirstWildcardOf
<1>2. \/ Ended(s)
      \/ w # 0 /\ s.phase = "insert" /\ s.path = From(path, w + 1)
  BY DEF InsertTurn, FirstWildcard, InsertParam, InsertCatchAll, Done, Panic, Turn, Ended
<1> HIDE DEF w, s
<1>3. CASE Ended(s)
  BY <1>3 DEF Nearer, s
<1>4. CASE w # 0 /\ s.phase = "insert" /\ s.path = From(path, w + 1)
  <2>1. Len(s.path) = Len(path) - w
    BY <1>1, <1>4, RestIsShorter
  <2>2. Rank(s) = Len(path) - w
    BY <1>4, <2>1 DEF Rank
  <2> QED BY <1>1, <1>4, <2>2 DEF Nearer, s
<1> QED BY <1>2, <1>3, <1>4

\* The walk goes on with the same rest, or ends.
LEMMA DescendKeepsRest ==
    ASSUME NEW t, NEW at, NEW path
    PROVE  LET s == Descend(t, at, path)
           IN  Ended(s) \/ (s.phase \in {"walk", "insert"} /\ s.path = path)
BY DEF Descend, Turn, Panic, Ended

\* Below a node without a path a catch-all is marked, and the walk ends there.
LEMMA PathlessNearer ==
    ASSUME NEW t, NEW at \in 1..Len(t), Ordered(t), NEW rest, t[at].path = <<>>,
           Begins(t[at], rest[1]), Len(rest) \in Nat
    PROVE  Nearer(Descend(t, at, rest), IF Marks(t[at]) THEN Len(rest) ELSE Len(rest) + 1)
<1> DEFINE n == t[at]
           pos == IndexOf(n, rest[1])
           child == n.children[pos]
           u == IncrementChildPrio(t, at, pos)
<1>1. /\ InShape(t) /\ Fits(t, n) /\ LinkedAt(t, n, 0, Slash) /\ n \in Node
      /\ n.nType = "param" => Len(n.path) = 1
  BY Places DEF Ordered, InShape, Linked
<1>2. n.nType # "param" /\ n.wildChild \in BOOLEAN
  BY <1>1, FieldTypes
<1>3. CASE n.wildChild
  <2>1. t[n.children[1]].nType = "catchAll"
    BY <1>1, <1>3 DEF Fits
  <2>2. Descend(t, at, rest) = Panic(Bump(t, n.children[1]))
    BY <1>3, <2>1 DEF Descend, Continues
  <2> QED BY <2>2 DEF Nearer, Ended, Panic, Turn
<1>4. CASE n.wildChild = FALSE
  <2>1. n.indices = <<rest[1]>>
    BY <1>4 DEF Begins
  <2>2. pos # 0 /\ pos \in 0..Len(n.indices)
    <3>1. 1 \in 1..Len(n.indices) /\ n.indices[1] = rest[1]
      BY <2>1
    <3>2. /\ pos \in 0..Len(n.indices)
          /\ pos = 0 => \A k \in 1..Len(n.indices) : n.indices[k] # rest[1]
      BY <1>1, IndexOfChild
    <3> HIDE DEF pos
    <3> QED BY <3>1, <3>2
  <2>3. Len(n.indices) = 1 /\ Len(n.children) = 1
    BY <1>1, <1>2, <1>4, <2>1 DEF Fits
  <2> HIDE DEF pos
  <2>4. pos = 1
    BY <2>2, <2>3
  <2>5. pos \in DOMAIN n.children /\ pos \in 1..Len(n.children)
    BY <1>1, <2>3, <2>4, FieldTypes
  <2>6. Marks(t[child])
    BY <1>1, <1>4, <2>5 DEF LinkedAt
  <2>7. child \in 1..Len(t)
    <3>1. t \in Seq(Node) /\ Hung(t)
      BY <1>1 DEF InShape
    <3> QED BY <2>5, <3>1, ChildrenInRange
  <2>8. \A i \in 1..Len(t) : Marks(t[i]) => Marks(u[i])
    BY <1>1, <1>4, <2>3, <2>5, ChildPrioIncremented
  <2> HIDE DEF u, child
  <2>9. Marks(u[child])
    BY <2>6, <2>7, <2>8
  <2>10. Descend(t, at, rest) = Turn(u, child, rest, "walk")
    BY <1>2, <1>4, <2>2 DEF Descend, u, child, pos
  <2>11. Rank(Turn(u, child, rest, "walk")) = Len(rest)
    BY <2>9 DEF Rank, Turn
  <2>12. ~Marks(n)
    BY <1>4 DEF Marks
  <2> QED BY <2>10, <2>11, <2>12 DEF Nearer
<1> QED BY <1>2, <1>3, <1>4

\* A turn of the walk passes what the node and the path share, or ends.
LEMMA WalkTurnNearer ==
    ASSUME NEW t, NEW at, NEW path, NEW route, Walking(Turn(t, at, path, "walk"))
    PROVE  Nearer(WalkTurn(t, at, path, route), Rank(Turn(t, at, path, "walk")))
<1> DEFINE n == t[at]
           i == Len(LongestCommonPrefix({path, n.path}))
           u == IF i < Len(n.path) THEN SplitEdge(t, at, i) ELSE t
           rest == From(path, i + 1)
           s == WalkTurn(t, at, path, route)
           rank == Rank(Turn(t, at, path, "walk"))
<1>1. /\ t \in Seq(Node) /\ Ordered(t) /\ at \in 1..Len(t) /\ Toward(path) /\ n \in Node
      /\ Begins(n, path[1])
  BY Places DEF Walking, Turn, Ordered, InShape
<1>2. /\ path \in Seq(STRING) /\ path # <<>> /\ Len(path) \in Nat
      /\ n.path \in Seq(STRING) /\ Len(n.path) \in Nat
  <2>1. path \in Seq(STRING) /\ path # <<>> /\ Len(path) \in Nat
    BY <1>1 DEF Toward
  <2> HIDE DEF n
  <2>2. n.path \in Seq(STRING) /\ Len(n.path) \in Nat
    BY <1>1, FieldTypes
  <2> QED BY <2>1, <2>2
<1>3. i \in 0..Len(path) /\ i <= Len(n.path) /\ (n.path # <<>> => i >= 1)
  <2>1. /\ i \in 0..Len(path) /\ i <= Len(n.path)
        /\ path # <<>> /\ n.path # <<>> /\ path[1] = n.path[1] => i >= 1
    BY <1>2, CommonLength
  <2>2. n.path # <<>> => n.path[1] = path[1]
    BY <1>1 DEF Begins
  <2> HIDE DEF i
  <2> QED BY <1>2, <2>1, <2>2
<1>4. s = IF i = Len(path) THEN AddHandle(u, at, route) ELSE Descend(u, at, rest)
  BY DEF WalkTurn
<1>5. rank = IF Marks(n) THEN Len(path) ELSE Len(path) + 1
  BY DEF Rank, Turn
<1> HIDE DEF i, s, rank
<1>6. Len(rest) = Len(path) - i
  BY <1>2, <1>3, RestIsShorter
<1>7. CASE i = Len(path)
  <2>1. Ended(AddHandle(u, at, route))
    BY DEF AddHandle, Done, Panic, Turn, Ended
  <2> QED BY <1>4, <1>7, <2>1 DEF Nearer, s
<1>8. CASE i # Len(path) /\ n.path # <<>>
  <2>1. rank = Len(path) + 1 /\ i >= 1
    BY <1>3, <1>5, <1>8 DEF Marks
  <2>2. Ended(s) \/ (s.phase \in {"walk", "insert"} /\ s.path = rest)
    BY <1>4, <1>8, DescendKeepsRest
  <2> HIDE DEF rest
  <2>3. Ended(s) \/ Rank(s) \in {Len(rest), Len(rest) + 1}
    BY <2>2 DEF Rank
  <2> QED BY <1>2, <1>3, <1>6, <2>1, <2>3 DEF Nearer, s, rank
<1>9. CASE i # Len(path) /\ n.path = <<>>
  <2>1. i = 0 /\ Len(n.path) = 0
    BY <1>2, <1>3, <1>9
  <2>2. u = t /\ s = Descend(t, at, rest)
    BY <1>4, <1>9, <2>1
  <2>3. Len(rest) = Len(path) /\ rest[1] = path[1]
    <3>1. 0 \in 0..Len(path) - 1
      BY <1>2, <1>3, <1>9, <2>1
    <3>2. From(path, 0 + 1)[1] = path[0 + 1]
      BY <1>1, <3>1, RestOfPath
    <3> QED BY <1>2, <1>6, <2>1, <3>2
  <2> HIDE DEF rest, u
  <2>4. Nearer(Descend(t, at, rest), IF Marks(t[at]) THEN Len(rest) ELSE Len(rest) + 1)
    BY <1>1, <1>2, <1>9, <2>3, PathlessNearer
  <2> QED BY <1>5, <2>2, <2>3, <2>4 DEF s, rank
<1> QED BY <1>7, <1>8, <1>9

\* Every turn brings a registration nearer to its end.
LEMMA NextTurnNearer ==
    ASSUME NEW s, NEW H, NEW route, Good(s, H, route), ~Ended(s)
    PROVE  Nearer(NextTurn(s, route), Rank(s))
<1>1. s.phase \in {"walk", "insert"}
  BY DEF Good, Turns, Ended
<1>2. CASE s.phase = "walk"
  <2>1. Walking(Turn(s.tree, s.at, s.path, "walk"))
    BY <1>2 DEF Good, Walking, Turn
  <2>2. Rank(Turn(s.tree, s.at, s.path, "walk")) = Rank(s)
    BY <1>2 DEF Rank, Turn
  <2>3. NextTurn(s, route) = WalkTurn(s.tree, s.at, s.path, route)
    BY <1>2 DEF NextTurn
  <2> QED BY <2>1, <2>2, <2>3, WalkTurnNearer
<1>3. CASE s.phase = "insert"
  <2>1. Toward(s.path) /\ Rank(s) = Len(s.path)
    BY <1>3 DEF Good, Inserting, Rank
  <2>2. NextTurn(s, route) = InsertTurn(s.tree, s.at, s.path, route)
    BY <1>3 DEF NextTurn
  <2> QED BY <2>1, <2>2, InsertTurnNearer
<1> QED BY <1>1, <1>2, <1>3

-----------------------------------------------------------------------------
(* A whole registration *)

\* A tree with a route in it is not taken for an unused one.
LEMMA OrderedIsUsed == ASSUME NEW t, Ordered(t) PROVE ~Unused(t)
<1>1. Begins(t[1], Slash) /\ t[1].nType # "catchAll"
  BY DEF Ordered, InShape
<1>2. <<Slash>> # <<>>
  OBVIOUS
<1> QED BY <1>1, <1>2 DEF Begins, Unused

\* A tree without routes is in shape and ready for the first.
LEMMA EmptyTreeInShape ==
    InShape(EmptyTree) /\ Handles(EmptyTree) = {} /\ Unused(EmptyTree) /\ Fresh(EmptyTree[1])
<1>1. EmptyNode \in Node /\ Fresh(EmptyNode) /\ EmptyNode.nType = "static"
  BY EmptyNodeIs DEF Fresh, EmptyNode
<1>2. /\ EmptyTree \in Seq(Node) /\ Len(EmptyTree) = 1 /\ EmptyTree[1] = EmptyNode
      /\ DOMAIN EmptyTree = 1..1 /\ EmptyTree # <<>>
  BY <1>1 DEF EmptyTree
<1>3. \A i \in DOMAIN EmptyTree : EmptyTree[i] = EmptyNode /\ i = 1
  BY <1>2
<1> DEFINE t == EmptyTree
<1> HIDE DEF t
<1>4. /\ EmptyNode.children = <<>> /\ EmptyNode.indices = <<>> /\ EmptyNode.wildChild = FALSE
      /\ EmptyNode.path = <<>> /\ EmptyNode.handle = NoHandle
  BY DEF EmptyNode
<1>5. Hung(EmptyTree)
  <2>1. ChildrenAreNodes(EmptyTree)
    BY <1>3, <1>4 DEF ChildrenAreNodes
  <2>2. NoneIsShared(EmptyTree)
    BY <1>3, <1>4 DEF NoneIsShared
  <2>3. NoneIsLost(EmptyTree)
    BY <1>2 DEF NoneIsLost
  <2> QED BY <2>1, <2>2, <2>3 DEF Hung
<1>6. Fits(EmptyTree, EmptyNode)
  BY <1>1, <1>4 DEF Fits, IsInjective
<1>7. InShape(EmptyTree)
  BY <1>1, <1>2, <1>3, <1>5, <1>6 DEF InShape
<1>8. Handles(EmptyTree) = {}
  BY <1>3, <1>4 DEF Handles
<1>9. Unused(EmptyTree) /\ Fresh(EmptyTree[1])
  BY <1>1, <1>2, <1>4 DEF Unused
<1> QED BY <1>7, <1>8, <1>9

\* The first turn.
Started(t, route) == Turn(Bump(t, 1), 1, route, IF Unused(t) THEN "insert" ELSE "walk")

\* A registration starts good.
LEMMA StartedGood ==
    ASSUME NEW t, Ordered(t) \/ t = EmptyTree, NEW route, Toward(route), route[1] = Slash,
           Slash \notin Wildcards
    PROVE  Good(Started(t, route), Handles(t), route)
<1> DEFINE u == Bump(t, 1)
<1>1. CASE Ordered(t)
  <2>1. 1 \in 1..Len(t) /\ Begins(t[1], Slash) /\ t[1].nType # "param"
    BY <1>1, Places DEF Ordered, InShape
  <2>2. /\ Ordered(u) /\ Len(u) = Len(t) /\ Handles(u) = Handles(t)
        /\ u[1].priority >= 1 /\ u[1].nType = t[1].nType
        /\ \A c : Begins(t[1], c) => Begins(u[1], c)
    BY <1>1, <2>1, BumpedInOrder
  <2> HIDE DEF u
  <2>3. 1 \in 1..Len(u) /\ Begins(u[1], route[1]) /\ u[1].nType # "param"
    BY <2>1, <2>2
  <2>4. Good(Turn(u, 1, route, "walk"), Handles(t), route)
    BY <2>2, <2>3, GoodWalk
  <2>5. ~Unused(t)
    BY <1>1, OrderedIsUsed
  <2> QED BY <2>4, <2>5 DEF Started, u
<1>2. CASE t = EmptyTree
  <2>1. InShape(t) /\ Unused(t) /\ Fresh(t[1]) /\ 1 \in 1..Len(t) /\ Len(t) = 1
    <3>1. InShape(t) /\ Unused(t) /\ Fresh(t[1])
      BY <1>2, EmptyTreeInShape
    <3>2. Len(t) = 1
      BY <1>2 DEF EmptyTree
    <3> QED BY <3>1, <3>2
  <2>2. /\ u \in Seq(Node) /\ Len(u) = Len(t) /\ InShape(u)
        /\ \A i \in 1..Len(t) : /\ SameLinks(t[i], u[i]) /\ u[i].path = t[i].path
                                /\ u[i].handle = t[i].handle
        /\ Handles(u) = Handles(t)
    BY <2>1, Bumped
  <2> HIDE DEF u
  <2>3. Fresh(u[1])
    BY <2>1, <2>2 DEF Fresh, SameLinks
  <2>4. DOMAIN u = 1..1
    BY <2>1, <2>2
  <2>5. Linked(u, 1, Slash)
    <3>1. u[1].children = <<>>
      BY <2>3 DEF Fresh
    <3> QED BY <2>4, <3>1 DEF Linked, LinkedAt
  <2>6. Ready(u, 1, 1, Slash)
    BY <2>1, <2>2, <2>3, <2>5 DEF Ready, Fresh
  <2>7. Good(Turn(u, 1, route, "insert"), Handles(t), route)
    BY <2>2, <2>6, GoodInsert
  <2> QED BY <2>1, <2>7 DEF Started, u
<1> QED BY <1>1, <1>2

\* What every turn keeps holds at the end of a registration, which its turns are
\* enough to reach.
LEMMA TurnsStayIn ==
    ASSUME NEW t, NEW route, Toward(route), NEW H, NEW S, \A s \in S : Good(s, H, route),
           Started(t, route) \in S, \A s \in S : NextTurn(s, route) \in S
    PROVE  Registration(t, route) \in S /\ Ended(Registration(t, route))
<1> DEFINE step == [s \in S |-> NextTurn(s, route)]
           Body(g) == [k \in Nat |-> IF k = 0 THEN Started(t, route)
                                     ELSE NextTurn(g[k - 1], route)]
           after == CHOOSE g : g = Body(g)
           L == Len(route)
<1>1. route \in Seq(STRING) /\ route # <<>> /\ L \in Nat
  BY DEF Toward
<1>4. step \in [S -> S] /\ \A s \in S : step[s] = NextTurn(s, route)
  OBVIOUS
<1>5. PICK f \in [Nat -> S] : /\ f[0] = Started(t, route)
                              /\ \A k \in Nat : k # 0 => f[k] = step[f[k - 1]]
  <2> HIDE DEF step
  <2>1. Iterable(S, Started(t, route), step)
    BY <1>4, Iteration, Zenon
  <2> QED BY <2>1, Zenon DEF Iterable
<1>6. f = Body(f)
  <2> HIDE DEF step
  <2>1. \A k \in Nat : k # 0 => k - 1 \in Nat /\ f[k - 1] \in S
    OBVIOUS
  <2>2. \A k \in Nat : f[k] = IF k = 0 THEN Started(t, route) ELSE NextTurn(f[k - 1], route)
    BY <1>4, <1>5, <2>1
  <2> QED BY <2>2
<1>7. after = Body(after)
  <2> HIDE DEF Body
  <2> QED BY <1>6
<1>8. \A k \in Nat : after[k] = IF k = 0 THEN Started(t, route)
                                ELSE NextTurn(after[k - 1], route)
  <2>1. \A k \in Nat : after[k] = Body(after)[k]
    BY <1>7, Zenon
  <2>2. \A k \in Nat : Body(after)[k] = IF k = 0 THEN Started(t, route)
                                        ELSE NextTurn(after[k - 1], route)
    BY Zenon
  <2> HIDE DEF after, Body
  <2> QED BY <2>1, <2>2, Zenon
<1>9. Registration(t, route) = after[MaxTurns(route)]
  BY DEF Registration, Started
<1> HIDE DEF after, Body, step
<1> DEFINE Timely(k) == Ended(after[k]) \/ (Rank(after[k]) \in Nat /\ Rank(after[k]) + k <= L + 1)
<1>10. \A k \in Nat : after[k] \in S /\ Timely(k)
  <2> DEFINE K == {k \in Nat : after[k] \in S /\ Timely(k)}
  <2>1. 0 \in K
    <3>1. after[0] = Started(t, route)
      BY <1>8
    <3>2. Started(t, route).path = route
      BY DEF Started, Turn
    <3>3. Rank(Started(t, route)) \in {L, L + 1}
      BY <3>2 DEF Rank
    <3> HIDE DEF L
    <3> QED BY <1>1, <3>1, <3>3
  <2>2. ASSUME NEW k \in Nat, k \in K PROVE k + 1 \in K
    <3>1. k + 1 \in Nat /\ k + 1 # 0 /\ (k + 1) - 1 = k
      OBVIOUS
    <3>2. after[k + 1] = NextTurn(after[k], route)
      BY <1>8, <3>1
    <3>3. after[k] \in S /\ after[k + 1] \in S
      BY <2>2, <3>2
    <3>4. Good(after[k], H, route)
      BY <3>3
    <3>5. CASE Ended(after[k])
      <4>1. after[k + 1] = after[k]
        BY <3>2, <3>5 DEF Ended, NextTurn
      <4> QED BY <3>1, <3>3, <3>5, <4>1
    <3>6. CASE ~Ended(after[k])
      <4>1. Rank(after[k]) \in Nat /\ Rank(after[k]) + k <= L + 1
        BY <2>2, <3>6
      <4>2. Nearer(after[k + 1], Rank(after[k]))
        BY <1>1, <3>2, <3>4, <3>6, NextTurnNearer
      <4> DEFINE a == Rank(after[k])
                 b == Rank(after[k + 1])
      <4>3. a \in Nat /\ a + k <= L + 1 /\ (Ended(after[k + 1]) \/ (b \in Nat /\ b < a))
        BY <4>1, <4>2 DEF Nearer
      <4> HIDE DEF a, b, L
      <4>4. Ended(after[k + 1]) \/ (b \in Nat /\ b + (k + 1) <= L + 1)
        BY <1>1, <4>3
      <4> QED BY <3>1, <3>3, <4>4 DEF b
    <3> QED BY <3>5, <3>6
  <2>3. Nat \subseteq K
    <3> HIDE DEF K
    <3> QED BY <2>1, <2>2, NatSetInduction
  <2> QED BY <2>3
<1> DEFINE end == after[MaxTurns(route)]
<1>11. MaxTurns(route) = L + 1 /\ L + 1 \in Nat
  BY <1>1 DEF MaxTurns
<1>12. end \in S /\ Good(end, H, route) /\ Timely(L + 1)
  BY <1>10, <1>11
<1>13. Ended(end)
  <2> SUFFICES ASSUME ~Ended(end) PROVE FALSE
    OBVIOUS
  <2> DEFINE r == Rank(end)
  <2>1. r \in Nat /\ r + (L + 1) <= L + 1
    BY <1>11, <1>12
  <2>2. r # 0
    BY <1>12, RankIsPositive
  <2> HIDE DEF r, L
  <2> QED BY <1>1, <2>1, <2>2
<1> QED BY <1>9, <1>12, <1>13

\* A registration ends as it should, and within its turns.
LEMMA TurnsGood ==
    ASSUME NEW t, Ordered(t) \/ t = EmptyTree, NEW route, Toward(route), route[1] = Slash,
           Slash \notin Wildcards
    PROVE  Good(Registration(t, route), Handles(t), route) /\ Ended(Registration(t, route))
<1> DEFINE H == Handles(t)
           S == {s \in Turns : Good(s, H, route)}
<1>1. route \in Seq(STRING) /\ route # <<>>
  BY DEF Toward
<1>2. \A s \in S : NextTurn(s, route) \in S
  <2> SUFFICES ASSUME NEW s, Good(s, H, route)
               PROVE  NextTurn(s, route) \in S
    OBVIOUS
  <2>1. Good(NextTurn(s, route), H, route)
    BY <1>1, NextTurnGood
  <2> QED BY <2>1 DEF Good
<1>3. Started(t, route) \in S
  <2>1. Good(Started(t, route), H, route)
    BY StartedGood
  <2> QED BY <2>1 DEF Good
<1>4. \A s \in S : Good(s, H, route)
  OBVIOUS
<1>5. Registration(t, route) \in S /\ Ended(Registration(t, route))
  <2> HIDE DEF S, H
  <2> QED BY <1>2, <1>3, <1>4, TurnsStayIn
<1> QED BY <1>4, <1>5

\* What a registration does to a tree.
Registers(result, t, route) ==
    IF result.panic THEN InShape(result.tree) /\ Handles(result.tree) = Handles(t)
    ELSE Gains(result.tree, t, route)

(* A registration keeps the tree in shape, whatever it refuses and wherever *)
(* it stops, and what the tree holds; one that is not refused adds its      *)
(* route and leaves the tree in order (tree.go:107-319).                    *)
LEMMA RouteAdded ==
    ASSUME NEW t, Ordered(t) \/ t = EmptyTree, NEW route, Toward(route), route[1] = Slash,
           Slash \notin Wildcards
    PROVE  AddRoute(t, route).panic \in BOOLEAN /\ Registers(AddRoute(t, route), t, route)
<1> DEFINE end == Registration(t, route)
           result == AddRoute(t, route)
<1>1. Good(end, Handles(t), route)
  BY TurnsGood
<1>2. result = [tree  |-> IF Unused(t) /\ end.phase = "done"
                          THEN [end.tree EXCEPT ![1].nType = "root"] ELSE end.tree,
                panic |-> end.phase # "done"]
  BY DEF AddRoute
<1> HIDE DEF end, result
<1>3. CASE end.phase = "done"
  <2>1. Ordered(end.tree) /\ Handles(end.tree) = Handles(t) \cup {route}
    BY <1>1, <1>3 DEF Good
  <2> DEFINE r == [end.tree EXCEPT ![1].nType = "root"]
  <2>2. Ordered(r) /\ Handles(r) = Handles(end.tree)
    BY <2>1, RootNamed
  <2>3. result.panic = FALSE /\ (result.tree = r \/ result.tree = end.tree)
    BY <1>2, <1>3
  <2> HIDE DEF r
  <2>4. Gains(result.tree, t, route)
    BY <2>1, <2>2, <2>3 DEF Gains
  <2> QED BY <2>3, <2>4 DEF Registers, result
<1>4. CASE end.phase # "done"
  <2>1. InShape(end.tree) /\ Handles(end.tree) = Handles(t)
    BY <1>1, <1>4 DEF Good
  <2>2. result.panic = TRUE /\ result.tree = end.tree
    BY <1>2, <1>4
  <2> QED BY <2>1, <2>2 DEF Registers, result
<1> QED BY <1>3, <1>4


\* A tree in shape is in the order the properties ask for.
LEMMA InShapeInOrder ==
    ASSUME NEW t, InShape(t)
    PROVE  Hung(t) /\ Aligned(t) /\ (Ordered(t) => LeadsOn(t))
<1>1. Hung(t) /\ \A i \in DOMAIN t : Fits(t, t[i])
  BY DEF InShape
<1>2. Aligned(t)
  BY <1>1 DEF Aligned, Fits
<1>3. ASSUME Ordered(t), NEW i \in DOMAIN t, ~t[i].wildChild, t[i].nType # "param",
             NEW k \in DOMAIN t[i].indices
      PROVE  Begins(t[t[i].children[k]], t[i].indices[k])
  <2>1. LinkedAt(t, t[i], 0, Slash) /\ Fits(t, t[i]) /\ t \in Seq(Node) /\ i \in 1..Len(t)
    BY <1>3 DEF Ordered, Linked, InShape
  <2>2. t[i].children \in Seq(Nat) /\ t[i].indices \in Seq(STRING)
    BY <2>1, Places, FieldTypes
  <2>3. Len(t[i].indices) = Len(t[i].children)
    BY <1>3, <2>1 DEF Fits
  <2>4. k \in DOMAIN t[i].children /\ k \in 1..Len(t[i].children)
    BY <2>2, <2>3
  <2>5. t[i].children[k] \in 2..Len(t) /\ t[i].children[k] \in 1..Len(t)
    BY <1>1, <2>1, <2>4, ChildrenInRange
  <2>6. t[i].children[k] # 0
    BY <2>5
  <2>7. Key(t[i], k) = t[i].indices[k]
    BY <1>3 DEF Key
  <2> QED BY <1>3, <2>1, <2>4, <2>6, <2>7 DEF LinkedAt
<1>4. Ordered(t) => LeadsOn(t)
  BY <1>3 DEF LeadsOn
<1> QED BY <1>1, <1>2, <1>4

-----------------------------------------------------------------------------
(* What a tree spells *)

Share(r, s, e) == \A k \in 1..e : r[k] = s[k]

\* From its token e + 1 on, a route has the tokens of a path.
Spelt(path, e, r) == /\ Len(r) >= e + Len(path)
                     /\ \A k \in 1..Len(path) : r[e + k] = path[k]

\* Where the tokens that are wildcards may stand in a tree.
Kinds(t, n) ==
    /\ n.nType \in {"static", "root"} => \A k \in 1..Len(n.path) : n.path[k] \notin Wildcards
    /\ n.nType = "param" => n.path[1] \in ParamTokens
    /\ n.nType = "catchAll" =>
           IF n.wildChild THEN n.path = <<>>
           ELSE /\ n.children = <<>> /\ Len(n.path) = 2
                /\ n.path[1] = Slash /\ n.path[2] \in CatchAlls
    /\ \A k \in 1..Len(n.children) :
           LET c == t[n.children[k]]
           IN  IF ~n.wildChild THEN c.nType = "catchAll" => c.wildChild
               ELSE IF n.nType = "catchAll" THEN c.nType = "catchAll" /\ ~c.wildChild
               ELSE c.nType = "param"
    /\ \A k \in 1..Len(n.indices) : n.indices[k] \notin Wildcards

\* A route that goes through a node spells its path and ends there or goes on
\* with a child.  The route that is not held yet may still have to pass the
\* path of `start', and stops at `stop'.
Follows(t, d, v, H, start, stop, i, r) ==
    /\ r \in Seq(STRING) /\ Len(r) > d[i]
    /\ (i = start /\ r \notin H) \/ Spelt(t[i].path, d[i], r)
    /\ \/ i = stop /\ r \notin H
       \/ r = t[i].handle
       \/ \E k \in 1..Len(t[i].children) : r \in v[t[i].children[k]]

\* A child takes over where the path of its node ends.
Hangs(t, d, v, i, k) ==
    LET c == t[i].children[k]
    IN  /\ d[c] = d[i] + Len(t[i].path) /\ v[c] \subseteq v[i]
        /\ ~t[i].wildChild => \A r \in v[c] : r[d[c] + 1] = Key(t[i], k)

\* The handle of a node is the route that ends there.
Ends(t, d, v, H, i) ==
    t[i].handle # NoHandle => /\ t[i].handle \in v[i] \cap H
                              /\ Len(t[i].handle) = d[i] + Len(t[i].path)

\* Given how many tokens are above every node and which routes go through it.
NodeSpells(t, d, v, H, start, stop, i) ==
    /\ d[i] \in Nat /\ Ends(t, d, v, H, i)
    /\ \A r \in v[i] : Follows(t, d, v, H, start, stop, i, r)
    /\ \A r, s \in v[i] : Share(r, s, d[i] + 1)
    /\ \A k \in 1..Len(t[i].children) : Hangs(t, d, v, i, k)

\* Every node is there for a route that is held.
Used(t, v, H) == \A i \in 1..Len(t) : v[i] \cap H # {}

Spells(t, d, v, H, start, stop) ==
    d[1] = 0 /\ \A i \in 1..Len(t) : NodeSpells(t, d, v, H, start, stop, i) /\ Kinds(t, t[i])

Within(H, G) == H \subseteq G
\* Where a route was exempt it still is.
Exempt(v, i, here, H, there, G) == \A r \in v[i] : i = here /\ r \notin H => i = there /\ r \notin G

\* What two trees have in common at a node.
SameNode(n, m) == /\ m.path = n.path /\ m.indices = n.indices /\ m.children = n.children
                  /\ m.wildChild = n.wildChild /\ m.nType = n.nType /\ m.handle = n.handle
SameKind(n, m) == m.nType = n.nType /\ (n.nType = "catchAll" => m.wildChild = n.wildChild)

\* A node whose own fields and whose children's routes stay spells what it did,
\* for the exemptions that were not needed are not needed now.
LEMMA StillSpells ==
    ASSUME NEW t, NEW d, NEW v, NEW u, NEW e, NEW w, NEW H, NEW G, Within(H, G), NEW start, NEW stop,
           NEW begin, NEW end, NEW i, NodeSpells(t, d, v, H, start, stop, i), SameNode(t[i], u[i]),
           e[i] = d[i], w[i] = v[i],
           \A k \in 1..Len(t[i].children) :
               LET c == t[i].children[k] IN e[c] = d[c] /\ w[c] = v[c],
           Exempt(v, i, start, H, begin, G), Exempt(v, i, stop, H, end, G)
    PROVE  NodeSpells(u, e, w, G, begin, end, i)
<1>1. /\ u[i].path = t[i].path /\ u[i].children = t[i].children /\ u[i].handle = t[i].handle
      /\ u[i].wildChild = t[i].wildChild
  BY DEF SameNode
<1>2. \A k : Key(u[i], k) = Key(t[i], k)
  BY DEF SameNode, Key
<1>3. Ends(u, e, w, G, i)
  BY <1>1 DEF NodeSpells, Ends, Within
<1>4. ASSUME NEW r \in v[i] PROVE Follows(u, e, w, G, begin, end, i, r)
  <2>1. Follows(t, d, v, H, start, stop, i, r)
    BY DEF NodeSpells
  <2> QED BY <1>1, <2>1 DEF Follows, Exempt
<1>5. \A k \in 1..Len(t[i].children) : Hangs(u, e, w, i, k)
  BY <1>1, <1>2 DEF NodeSpells, Hangs
<1> QED BY <1>1, <1>3, <1>4, <1>5 DEF NodeSpells

\* A node spells what it did when the routes through it and its children are the same.
LEMMA SpellsAsBefore ==
    ASSUME NEW t, NEW d, NEW v, NEW w, NEW H, NEW start, NEW stop, NEW begin, NEW end, NEW i,
           NodeSpells(t, d, v, H, start, stop, i), w[i] = v[i],
           \A k \in 1..Len(t[i].children) : w[t[i].children[k]] = v[t[i].children[k]],
           Exempt(v, i, start, H, begin, H), Exempt(v, i, stop, H, end, H)
    PROVE  NodeSpells(t, d, w, H, begin, end, i)
<1> DEFINE e == d
           u == t
<1>1. \A k \in 1..Len(t[i].children) :
          LET c == t[i].children[k] IN e[c] = d[c] /\ w[c] = v[c]
  OBVIOUS
<1>2. SameNode(t[i], u[i]) /\ e[i] = d[i] /\ Within(H, H)
  BY DEF SameNode, Within
<1> HIDE DEF e, u
<1>3. NodeSpells(u, e, w, H, begin, end, i)
  BY <1>1, <1>2, StillSpells
<1> QED BY <1>3 DEF e, u

\* Wildcards stand where they stood when a node and its children keep their kinds.
LEMMA StillKinds ==
    ASSUME NEW t, NEW u, NEW n, NEW m, Kinds(t, n), SameNode(n, m),
           \A k \in 1..Len(n.children) : SameKind(t[n.children[k]], u[n.children[k]])
    PROVE  Kinds(u, m)
BY DEF Kinds, SameNode, SameKind

\* A change of priorities keeps what the tree spells.
LEMMA PrioritiesSpellNothing ==
    ASSUME NEW t \in Seq(Node), NEW u \in Seq(Node), Len(u) = Len(t), Hung(t),
           \A i \in 1..Len(t) : SameNode(t[i], u[i]),
           NEW d, NEW v, NEW H, NEW start, NEW stop, Spells(t, d, v, H, start, stop)
    PROVE  Spells(u, d, v, H, start, stop)
<1>1. SUFFICES ASSUME NEW i \in 1..Len(t)
               PROVE  NodeSpells(u, d, v, H, start, stop, i) /\ Kinds(u, u[i])
  BY DEF Spells
<1>2. NodeSpells(t, d, v, H, start, stop, i) /\ Kinds(t, t[i])
  BY DEF Spells
<1>3. \A k \in 1..Len(t[i].children) : t[i].children[k] \in 1..Len(t)
  BY ChildrenInRange
<1>4. \A k \in 1..Len(t[i].children) : SameKind(t[t[i].children[k]], u[t[i].children[k]])
  BY <1>3 DEF SameNode, SameKind
<1>0. Within(H, H) /\ Exempt(v, i, start, H, start, H) /\ Exempt(v, i, stop, H, stop, H)
  BY DEF Within, Exempt
<1> QED BY <1>0, <1>2, <1>4, StillSpells, StillKinds

\* What changes at one node and is added behind the others leaves the others alone.
LEMMA Elsewhere ==
    ASSUME NEW t \in Seq(Node), NEW u \in Seq(Node), Hung(t), NEW at \in 1..Len(t),
           \A j \in 1..Len(t) : j # at => SameNode(t[j], u[j]), SameKind(t[at], u[at]),
           NEW d, NEW v, NEW e, NEW w, \A j \in 1..Len(t) : e[j] = d[j] /\ w[j] = v[j],
           NEW H, NEW start \in {0, at}, NEW stop \in {0, at}, Spells(t, d, v, H, start, stop),
           NEW G, Within(H, G), NEW begin, NEW end, NEW i \in 1..Len(t), i # at
    PROVE  NodeSpells(u, e, w, G, begin, end, i) /\ Kinds(u, u[i])
<1>1. NodeSpells(t, d, v, H, start, stop, i) /\ Kinds(t, t[i])
  BY DEF Spells
<1>2. \A k \in 1..Len(t[i].children) : t[i].children[k] \in 1..Len(t)
  BY ChildrenInRange
<1>3. \A k \in 1..Len(t[i].children) : SameKind(t[t[i].children[k]], u[t[i].children[k]])
  BY <1>2 DEF SameNode, SameKind
<1>4. i # start /\ i # stop
  <2>1. i # 0
    OBVIOUS
  <2> QED BY <2>1
<1>5. SameNode(t[i], u[i]) /\ e[i] = d[i] /\ w[i] = v[i]
  OBVIOUS
<1>6. \A k \in 1..Len(t[i].children) :
          LET c == t[i].children[k] IN e[c] = d[c] /\ w[c] = v[c]
  BY <1>2
<1>7. NodeSpells(u, e, w, G, begin, end, i)
  <2>1. Exempt(v, i, start, H, begin, G) /\ Exempt(v, i, stop, H, end, G)
    BY <1>4 DEF Exempt
  <2> QED BY <1>1, <1>5, <1>6, <2>1, StillSpells
<1> QED BY <1>1, <1>3, <1>5, <1>7, StillKinds

\* A node that only one route goes through.
LEMMA AloneSpells ==
    ASSUME NEW t, NEW d, NEW v, NEW H, NEW stop, NEW i, NEW route \in Seq(STRING),
           v[i] = {route}, d[i] \in Nat, Len(route) > d[i], Spelt(t[i].path, d[i], route),
           \/ i = stop /\ route \notin H
           \/ route = t[i].handle
           \/ \E k \in 1..Len(t[i].children) : route \in v[t[i].children[k]],
           \A k \in 1..Len(t[i].children) : Hangs(t, d, v, i, k),
           \/ t[i].handle = NoHandle
           \/ t[i].handle = route /\ route \in H /\ Len(route) = d[i] + Len(t[i].path)
    PROVE  NodeSpells(t, d, v, H, 0, stop, i)
<1>1. \A r, s \in v[i] : Share(r, s, d[i] + 1)
  BY DEF Share
<1>2. \A r \in v[i] : Follows(t, d, v, H, 0, stop, i, r)
  BY DEF Follows
<1>3. Ends(t, d, v, H, i)
  BY DEF Ends
<1> QED BY <1>1, <1>2, <1>3 DEF NodeSpells

\* A node more, with what is above it and the routes through it.
With(f, n, x) == [j \in 1..n + 1 |-> IF j = n + 1 THEN x ELSE f[j]]

\* What a function that is extended by one value yields.
LEMMA WithLast ==
    ASSUME NEW f, NEW n \in Nat, NEW x
    PROVE  With(f, n, x)[n + 1] = x /\ \A j \in 1..n : With(f, n, x)[j] = f[j]
<1>1. n + 1 \in 1..n + 1 /\ \A j \in 1..n : j \in 1..n + 1 /\ j # n + 1
  OBVIOUS
<1> QED BY <1>1 DEF With

\* The values of a function and one more behind them.
Extends(f, d, n, x) == f[n + 1] = x /\ \A j \in 1..n : f[j] = d[j]

\* ... said in one word.
LEMMA WithExtends ==
    ASSUME NEW d, NEW n \in Nat, NEW x
    PROVE  Extends(With(d, n, x), d, n, x)
BY WithLast DEF Extends

\* The halves of a path, one behind the other.
LEMMA SpeltInHalves ==
    ASSUME NEW path \in Seq(STRING), NEW i \in 0..Len(path), NEW e \in Nat, NEW r \in Seq(STRING)
    PROVE  Spelt(path, e, r) <=> Spelt(UpTo(path, i), e, r) /\ Spelt(From(path, i + 1), e + i, r)
<1> DEFINE a == UpTo(path, i)
           b == From(path, i + 1)
<1>1. Len(a) = i /\ \A k \in 1..i : a[k] = path[k]
  BY HeadOf
<1>2. Len(b) = Len(path) - i /\ \A k \in 1..Len(path) - i : b[k] = path[i + k]
  <2>1. i + 1 \in 1..Len(path) + 1 /\ Len(path) \in Nat
    OBVIOUS
  <2>2. Len(b) = Len(path) - (i + 1) + 1 /\ \A k \in 1..Len(path) - (i + 1) + 1 : b[k] = path[(i + 1) + k - 1]
    BY <2>1, TailOf
  <2> HIDE DEF b
  <2>3. Len(path) - (i + 1) + 1 = Len(path) - i /\ \A k \in 1..Len(path) - i : (i + 1) + k - 1 = i + k
    BY <2>1
  <2> QED BY <2>1, <2>2, <2>3
<1>3. Len(path) \in Nat /\ Len(r) \in Nat
  OBVIOUS
<1> HIDE DEF a, b
<1>4. ASSUME Spelt(path, e, r) PROVE Spelt(a, e, r) /\ Spelt(b, e + i, r)
  <2>0. Len(r) >= e + Len(path) /\ \A k \in 1..Len(path) : r[e + k] = path[k]
    BY <1>4 DEF Spelt
  <2>1. Spelt(a, e, r)
    <3>1. Len(r) >= e + Len(a)
      BY <1>1, <1>3, <2>0
    <3>2. ASSUME NEW k \in 1..Len(a) PROVE r[e + k] = a[k]
      <4>1. k \in 1..i /\ k \in 1..Len(path)
        BY <1>1, <1>3
      <4> QED BY <1>1, <2>0, <4>1
    <3> QED BY <3>1, <3>2 DEF Spelt
  <2>2. \A k \in 1..Len(b) : i + k \in 1..Len(path) /\ e + (i + k) = (e + i) + k
    BY <1>2, <1>3
  <2>3. Len(r) >= (e + i) + Len(b)
    BY <1>2, <1>3, <1>4 DEF Spelt
  <2>4. \A k \in 1..Len(b) : r[(e + i) + k] = b[k]
    BY <1>2, <1>3, <1>4, <2>2 DEF Spelt
  <2> QED BY <2>1, <2>3, <2>4 DEF Spelt
<1>5. ASSUME Spelt(a, e, r), Spelt(b, e + i, r) PROVE Spelt(path, e, r)
  <2>1. Len(r) >= e + Len(path)
    BY <1>2, <1>3, <1>5 DEF Spelt
  <2>2. ASSUME NEW k \in 1..Len(path) PROVE r[e + k] = path[k]
    <3>1. CASE k <= i
      BY <1>1, <1>3, <1>5, <3>1 DEF Spelt
    <3>2. CASE k > i
      <4>1. k - i \in 1..Len(path) - i /\ i + (k - i) = k /\ (e + i) + (k - i) = e + k
        BY <1>3, <3>2
      <4>2. r[(e + i) + (k - i)] = b[k - i] /\ b[k - i] = path[i + (k - i)]
        BY <1>2, <1>5, <4>1 DEF Spelt
      <4> QED BY <4>1, <4>2
    <3> QED BY <3>1, <3>2
  <2> QED BY <2>1, <2>2 DEF Spelt
<1> QED BY <1>4, <1>5 DEF a, b

\* Two routes that spell the same path share its tokens.
LEMMA SharedPath ==
    ASSUME NEW path \in Seq(STRING), NEW e \in Nat, NEW r, NEW s, Share(r, s, e + 1),
           Spelt(path, e, r), Spelt(path, e, s)
    PROVE  Share(r, s, e + Len(path))
<1> SUFFICES ASSUME NEW k \in 1..e + Len(path) PROVE r[k] = s[k]
  BY DEF Share
<1>1. Len(path) \in Nat
  OBVIOUS
<1>2. CASE k <= e
  BY <1>1, <1>2 DEF Share
<1>3. CASE k > e
  <2>1. k - e \in 1..Len(path) /\ e + (k - e) = k
    BY <1>1, <1>3
  <2> QED BY <2>1 DEF Spelt
<1> QED BY <1>2, <1>3

\* The links, the kind and the handle of the halves of a node.
Halves(n, i, child) ==
    LET up  == UpperHalf(n, i, child)
        low == LowerHalf(n, i)
    IN  /\ up \in Node /\ up.children = <<child>> /\ up.indices = <<n.path[i + 1]>>
        /\ up.wildChild = FALSE /\ up.nType = n.nType /\ up.handle = NoHandle
        /\ low \in Node /\ low.children = n.children /\ low.indices = n.indices
        /\ low.wildChild = n.wildChild /\ low.nType = "static" /\ low.handle = n.handle

\* A split node has the halves it should.
LEMMA HalvesAre ==
    ASSUME NEW n \in Node, n.priority >= 1, NEW i \in 1..Len(n.path) - 1, NEW N \in Nat
    PROVE  Halves(n, i, N + 1)
<1>1. N + 1 \in Nat
  OBVIOUS
<1> QED BY <1>1, HalvesOf DEF Halves

\* A route that leaves the path of a node is at the end of the upper half.
LEMMA SplitSpells ==
    ASSUME NEW t, InShape(t), NEW at \in 1..Len(t), t[at].priority >= 1,
           NEW i \in 1..Len(t[at].path) - 1, NEW d, NEW v, NEW H, NEW route,
           Spells(t, d, v, H, at, at), v[at] \subseteq H \cup {route},
           ~Spelt(t[at].path, d[at], route), Spelt(UpTo(t[at].path, i), d[at], route),
           t[at].nType = "catchAll" => t[at].wildChild, Used(t, v, H)
    PROVE  LET w == With(v, Len(t), {r \in v[at] : Spelt(t[at].path, d[at], r)})
           IN  /\ Spells(SplitEdge(t, at, i), With(d, Len(t), d[at] + i), w, H, 0, at)
               /\ Used(SplitEdge(t, at, i), w, H)
<1> DEFINE N == Len(t)
           n == t[at]
           up == UpperHalf(n, i, N + 1)
           low == LowerHalf(n, i)
           x == [t EXCEPT ![at] = up]
           u == Append(x, low)
           S == {r \in v[at] : Spelt(n.path, d[at], r)}
           e == With(d, N, d[at] + i)
           w == With(v, N, S)
<1>1. /\ t \in Seq(Node) /\ N \in Nat /\ n \in Node /\ n.path \in Seq(STRING) /\ Len(n.path) \in Nat
      /\ n.children \in Seq(Nat) /\ n.indices \in Seq(STRING)
  BY Places, FieldTypes DEF InShape
<1>2. NodeSpells(t, d, v, H, at, at, at) /\ Kinds(t, n)
  BY DEF Spells
<1>3. d[at] \in Nat
  BY <1>2 DEF NodeSpells
<1>4. n.path = <<>> => FALSE
  BY <1>1, Len(<<>>) = 0
<1>5. n.nType \in {"static", "root"}
  <2>1. n.nType \in NodeType /\ (n.nType = "param" => Len(n.path) = 1)
    BY <1>1, Places, FieldTypes DEF InShape
  <2>2. n.nType # "param"
    <3> DEFINE l == Len(n.path)
    <3>1. l \in Nat /\ i \in 1..l - 1
      BY <1>1
    <3> HIDE DEF l
    <3>2. l # 1
      BY <3>1
    <3> QED BY <2>1, <3>2 DEF l
  <2>3. n.nType # "catchAll"
    BY <1>2, <1>4 DEF Kinds
  <2> QED BY <2>1, <2>2, <2>3 DEF NodeType
<1>6. /\ up \in Node /\ up.children = <<N + 1>> /\ up.indices = <<n.path[i + 1]>>
      /\ up.wildChild = FALSE /\ up.nType = n.nType /\ up.handle = NoHandle
      /\ low \in Node /\ low.children = n.children /\ low.indices = n.indices
      /\ low.wildChild = n.wildChild /\ low.nType = "static" /\ low.handle = n.handle
  <2>1. n \in Node /\ n.priority >= 1 /\ i \in 1..Len(n.path) - 1 /\ N \in Nat
    BY <1>1
  <2>2. Halves(n, i, N + 1)
    <3> HIDE DEF n, N
    <3> QED BY <2>1, HalvesAre
  <2> QED BY <2>2 DEF Halves
<1>7. up.path = UpTo(n.path, i) /\ low.path = From(n.path, i + 1)
  BY <1>1 DEF UpperHalf, LowerHalf, Node
<1> HIDE DEF up, low
<1>8. x \in Seq(Node) /\ Len(x) = N /\ x[at] = up /\ \A j \in 1..N : j # at => x[j] = t[j]
  BY <1>1, <1>6, Put
<1> HIDE DEF x
<1>9. /\ u \in Seq(Node) /\ Len(u) = N + 1 /\ u[N + 1] = low /\ u[at] = up
      /\ \A j \in 1..N : j # at => u[j] = t[j]
  <2>1. /\ u \in Seq(Node) /\ Len(u) = Len(x) + 1 /\ u[Len(x) + 1] = low
        /\ \A j \in 1..Len(x) : u[j] = x[j]
    BY <1>6, <1>8, PutLast
  <2> HIDE DEF u
  <2> QED BY <1>8, <2>1
<1> HIDE DEF u, S
<1>10. /\ e[N + 1] = d[at] + i /\ w[N + 1] = S
       /\ \A j \in 1..N : e[j] = d[j] /\ w[j] = v[j]
  <2> DEFINE y == d[at] + i
  <2> HIDE DEF N, y
  <2>0. N \in Nat
    BY <1>1
  <2>1. e[N + 1] = y /\ \A j \in 1..N : e[j] = d[j]
    BY <2>0, WithLast DEF y
  <2>2. w[N + 1] = S /\ \A j \in 1..N : w[j] = v[j]
    <3>1. Extends(w, v, N, S)
      BY <2>0, WithExtends, Zenon
    <3> HIDE DEF w
    <3> QED BY <3>1 DEF Extends
  <2> HIDE DEF e, w
  <2> QED BY <2>1, <2>2 DEF y
<1> HIDE DEF e, w
<1>11. \A j \in 1..N : \A k \in 1..Len(t[j].children) : t[j].children[k] \in 1..N
  BY <1>1, ChildrenInRange DEF InShape
<1>12. ASSUME NEW j \in 1..N PROVE SameKind(t[j], u[j])
  <2>1. CASE j = at
    BY <1>5, <1>6, <1>9, <2>1 DEF SameKind
  <2>2. CASE j # at
    BY <1>9, <2>2 DEF SameKind
  <2> QED BY <2>1, <2>2
<1>13. ASSUME NEW j \in 1..N, j # at PROVE NodeSpells(u, e, w, H, 0, at, j) /\ Kinds(u, u[j])
  <2>1. \A k \in 1..N : k # at => SameNode(t[k], u[k])
    BY <1>9 DEF SameNode
  <2>2. Hung(t) /\ SameKind(t[at], u[at]) /\ at \in {0, at}
    BY <1>12 DEF InShape
  <2>0. Within(H, H)
    BY DEF Within
  <2> QED BY <2>0, <1>1, <1>9, <1>10, <1>13, <2>1, <2>2, Elsewhere
<1>14. i \in 0..Len(n.path) /\ i + 1 \in 1..Len(n.path) /\ i + 1 \in 1..Len(n.path) + 1 /\ i \in 1..Len(n.path)
  BY <1>1
<1>15. Len(up.path) = i /\ \A k \in 1..i : up.path[k] = n.path[k]
  BY <1>1, <1>7, <1>14, HeadOf
<1>16. /\ Len(low.path) = Len(n.path) - i /\ low.path[1] = n.path[i + 1]
       /\ \A k \in 1..Len(low.path) : i + k \in 1..Len(n.path) /\ low.path[k] = n.path[i + k]
  <2>1. /\ Len(low.path) = Len(n.path) - (i + 1) + 1
        /\ \A k \in 1..Len(n.path) - (i + 1) + 1 : low.path[k] = n.path[(i + 1) + k - 1]
    BY <1>1, <1>7, <1>14, TailOf
  <2>2. /\ Len(n.path) - (i + 1) + 1 = Len(n.path) - i /\ 1 \in 1..Len(n.path) - (i + 1) + 1
        /\ (i + 1) + 1 - 1 = i + 1
        /\ \A k \in 1..Len(n.path) - (i + 1) + 1 : (i + 1) + k - 1 = i + k /\ i + k \in 1..Len(n.path)
    <3> DEFINE l == Len(n.path)
    <3>1. l \in Nat /\ i \in 1..l - 1
      BY <1>1
    <3> HIDE DEF l
    <3>2. /\ l - (i + 1) + 1 = l - i /\ 1 \in 1..l - (i + 1) + 1 /\ (i + 1) + 1 - 1 = i + 1
          /\ \A k \in 1..l - (i + 1) + 1 : (i + 1) + k - 1 = i + k /\ i + k \in 1..l
      BY <3>1
    <3> QED BY <3>2 DEF l
  <2> QED BY <2>1, <2>2
<1>17. Kinds(u, u[N + 1])
  <2>1. \A k \in 1..Len(low.path) : low.path[k] \notin Wildcards
    BY <1>2, <1>5, <1>16 DEF Kinds
  <2>2. \A k \in 1..Len(n.children) : SameKind(t[n.children[k]], u[n.children[k]])
    BY <1>11, <1>12
  <2>3. n.nType # "catchAll"
    BY <1>5
  <2>4. ASSUME NEW k \in 1..Len(low.children)
        PROVE  LET c == u[low.children[k]]
               IN  IF ~low.wildChild THEN c.nType = "catchAll" => c.wildChild
                   ELSE c.nType = "param"
    BY <1>2, <1>6, <2>2, <2>3 DEF Kinds, SameKind
  <2>5. \A k \in 1..Len(low.indices) : low.indices[k] \notin Wildcards
    BY <1>2, <1>6 DEF Kinds
  <2>6. low.nType = "static"
    BY <1>6
  <2> QED BY <1>9, <2>1, <2>4, <2>5, <2>6 DEF Kinds
<1>18. Kinds(u, u[at])
  <2>1. \A k \in 1..Len(up.path) : up.path[k] \notin Wildcards
    <3>1. \A k \in 1..i : k \in 1..Len(n.path)
      BY <1>1
    <3> QED BY <1>2, <1>5, <1>15, <3>1 DEF Kinds
  <2>2. up.indices[1] \notin Wildcards
    BY <1>2, <1>5, <1>6, <1>14 DEF Kinds
  <2>3. Len(up.indices) = 1 /\ Len(up.children) = 1 /\ up.children[1] = N + 1
    BY <1>6
  <2>4. 1..1 = {1}
    OBVIOUS
  <2>5. up.nType \in {"static", "root"} /\ ~up.wildChild /\ u[N + 1].nType = "static"
    BY <1>5, <1>6, <1>9
  <2> QED BY <1>9, <2>1, <2>2, <2>3, <2>4, <2>5 DEF Kinds
<1>19. ASSUME NEW r \in v[at]
       PROVE  /\ r \in Seq(STRING) /\ Len(r) \in Nat /\ Len(r) > d[at]
              /\ r \in S \/ (r = route /\ r \notin H)
  <2>1. Follows(t, d, v, H, at, at, at, r)
    BY <1>2 DEF NodeSpells
  <2> QED BY <2>1 DEF Follows, S
<1>20. ASSUME NEW r \in S
       PROVE  /\ r \in v[at] /\ r # route /\ Spelt(n.path, d[at], r)
              /\ Spelt(up.path, d[at], r) /\ Spelt(low.path, d[at] + i, r)
  <2>1. r \in v[at] /\ r # route /\ Spelt(n.path, d[at], r)
    BY DEF S
  <2>2. r \in Seq(STRING)
    BY <1>19, <2>1
  <2> QED BY <1>1, <1>3, <1>7, <1>14, <2>1, <2>2, SpeltInHalves
<1>21. ASSUME NEW r \in S PROVE Len(r) > d[at] + i /\ r[(d[at] + i) + 1] = n.path[i + 1]
  <2>1. Len(low.path) >= 1 /\ 1 \in 1..Len(low.path)
    BY <1>1, <1>16
  <2>2. Spelt(low.path, d[at] + i, r) /\ Len(r) \in Nat
    BY <1>19, <1>20
  <2>3. Len(r) >= d[at] + i + Len(low.path) /\ r[(d[at] + i) + 1] = low.path[1]
    BY <2>1, <2>2 DEF Spelt
  <2>4. low.path[1] = n.path[i + 1]
    BY <1>16
  <2>5. Len(r) > d[at] + i
    <3> DEFINE l == Len(low.path)
               y == d[at] + i
    <3>1. l >= 1 /\ Len(r) \in Nat /\ Len(r) >= y + l
      BY <2>1, <2>2, <2>3
    <3>2. y \in Nat
      BY <1>1, <1>3
    <3>3. l \in Nat
      BY <1>1, <1>16
    <3> HIDE DEF l, y
    <3>4. Len(r) > y
      BY <3>1, <3>2, <3>3
    <3> QED BY <3>4 DEF y
  <2> QED BY <2>3, <2>4, <2>5
<1>22. d[at] + i \in Nat /\ (d[at] + i) + Len(low.path) = d[at] + Len(n.path)
  <2> DEFINE l == Len(low.path)
             m == Len(n.path)
             y == d[at]
  <2>1. l = m - i /\ m \in Nat /\ i \in Nat /\ y \in Nat
    BY <1>1, <1>3, <1>16
  <2> HIDE DEF l, m, y
  <2>2. y + i \in Nat /\ (y + i) + l = y + m
    BY <2>1
  <2> QED BY <2>2 DEF l, m, y
<1>23. NodeSpells(u, e, w, H, 0, at, N + 1)
  <2>1. ASSUME NEW r \in S PROVE Follows(u, e, w, H, 0, at, N + 1, r)
    <3>1. Follows(t, d, v, H, at, at, at, r) /\ r \in H
      BY <1>2, <1>20 DEF NodeSpells
    <3>2. r = n.handle \/ \E k \in 1..Len(n.children) : r \in v[n.children[k]]
      BY <3>1 DEF Follows
    <3>3. r = low.handle \/ \E k \in 1..Len(low.children) : r \in w[low.children[k]]
      BY <1>6, <1>10, <1>11, <3>2
    <3>4. r \in Seq(STRING) /\ Len(r) > e[N + 1] /\ Spelt(low.path, e[N + 1], r)
      BY <1>10, <1>19, <1>20, <1>21
    <3> QED BY <1>9, <3>3, <3>4 DEF Follows
  <2>2. ASSUME NEW r \in S, NEW s \in S PROVE Share(r, s, (d[at] + i) + 1)
    <3>1. Share(r, s, d[at] + 1) /\ Spelt(n.path, d[at], r) /\ Spelt(n.path, d[at], s)
      BY <1>2, <1>20 DEF NodeSpells
    <3>2. Share(r, s, d[at] + Len(n.path))
      BY <1>1, <1>3, <3>1, SharedPath
    <3>3. \A k \in 1..(d[at] + i) + 1 : k \in 1..d[at] + Len(n.path)
      BY <1>1, <1>3
    <3> QED BY <3>2, <3>3 DEF Share
  <2>3. ASSUME NEW k \in 1..Len(low.children) PROVE Hangs(u, e, w, N + 1, k)
    <3> DEFINE c == n.children[k]
    <3>1. Hangs(t, d, v, at, k) /\ c \in 1..N /\ low.children[k] = c
      BY <1>2, <1>6, <1>11 DEF NodeSpells
    <3>2. NodeSpells(t, d, v, H, at, at, c)
      BY <3>1 DEF Spells
    <3>3. ASSUME NEW r \in v[c] PROVE r \in S
      <4>1. r \in v[at] /\ v[c] \subseteq v[at] /\ d[c] = d[at] + Len(n.path)
        BY <3>1 DEF Hangs
      <4>2. PICK s \in v[c] : s \in H
        BY <3>1 DEF Used
      <4>3. s \in S
        BY <1>19, <4>1, <4>2
      <4>4. Share(r, s, d[c] + 1) /\ Len(r) > d[c]
        BY <3>2 DEF NodeSpells, Follows
      <4>5. \A k1 \in 1..Len(n.path) : d[at] + k1 \in 1..d[c] + 1
        <5> DEFINE a == d[at]
                   b == Len(n.path)
        <5>1. a \in Nat /\ b \in Nat /\ d[c] = a + b
          BY <1>1, <1>3, <4>1
        <5> HIDE DEF a, b, c
        <5>2. \A k1 \in 1..b : a + k1 \in 1..d[c] + 1
          BY <5>1
        <5> QED BY <5>2 DEF a, b
      <4>6. Len(r) \in Nat /\ Len(r) >= d[at] + Len(n.path)
        BY <1>1, <1>3, <1>19, <4>1, <4>4
      <4>7. Spelt(n.path, d[at], r)
        BY <1>20, <4>3, <4>4, <4>5, <4>6 DEF Spelt, Share
      <4> QED BY <4>1, <4>7 DEF S
    <3>4. Key(low, k) = Key(n, k)
      BY <1>5, <1>6 DEF Key
    <3>5. d[c] = d[at] + Len(n.path) /\ (~n.wildChild => \A r \in v[c] : r[d[c] + 1] = Key(n, k))
      BY <3>1 DEF Hangs
    <3> HIDE DEF c
    <3>6. e[c] = e[N + 1] + Len(low.path) /\ w[c] \subseteq w[N + 1]
      BY <1>10, <1>22, <3>1, <3>3, <3>5
    <3>7. ~low.wildChild => \A r \in w[c] : r[e[c] + 1] = Key(low, k)
      BY <1>6, <1>10, <3>1, <3>4, <3>5
    <3> QED BY <1>9, <3>1, <3>6, <3>7 DEF Hangs
  <2>4. Ends(u, e, w, H, N + 1)
    <3>1. n.handle # NoHandle => n.handle \in v[at] \cap H /\ Len(n.handle) = d[at] + Len(n.path)
      BY <1>2 DEF NodeSpells, Ends
    <3>2. n.handle # NoHandle => n.handle \in S
      <4>1. \A r \in v[at] \cap H : r \in S
        BY <1>19
      <4> QED BY <3>1, <4>1
    <3> QED BY <1>6, <1>9, <1>10, <1>22, <3>1, <3>2 DEF Ends
  <2> QED BY <1>9, <1>10, <1>22, <2>1, <2>2, <2>3, <2>4 DEF NodeSpells
<1>24. NodeSpells(u, e, w, H, 0, at, at)
  <2>1. up.children[1] = N + 1 /\ Len(up.children) = 1 /\ up.indices[1] = n.path[i + 1]
    BY <1>6
  <2>2. ASSUME NEW r \in v[at] PROVE Follows(u, e, w, H, 0, at, at, r)
    <3>1. Spelt(up.path, d[at], r)
      BY <1>7, <1>19, <1>20
    <3>2. \/ r \notin H
          \/ r \in w[up.children[1]]
      BY <1>10, <1>19, <2>1
    <3>3. 1 \in 1..Len(up.children)
      BY <2>1
    <3> QED BY <1>9, <1>10, <1>19, <3>1, <3>2, <3>3 DEF Follows
  <2>3. Hangs(u, e, w, at, 1)
    <3>1. Key(up, 1) = n.path[i + 1]
      BY <1>5, <1>6, <2>1 DEF Key
    <3>2. e[N + 1] = e[at] + Len(up.path) /\ w[N + 1] \subseteq w[at]
      BY <1>10, <1>15, <1>20
    <3>3. \A r \in w[N + 1] : r[e[N + 1] + 1] = Key(up, 1)
      BY <1>10, <1>21, <3>1
    <3> QED BY <1>9, <2>1, <3>2, <3>3 DEF Hangs
  <2>4. Ends(u, e, w, H, at)
    BY <1>6, <1>9 DEF Ends
  <2>5. \A r, s \in v[at] : Share(r, s, d[at] + 1)
    BY <1>2 DEF NodeSpells
  <2>6. \A k \in 1..Len(up.children) : k = 1
    BY <2>1
  <2> QED BY <1>3, <1>9, <1>10, <2>2, <2>3, <2>4, <2>5, <2>6 DEF NodeSpells
<1>25. e[1] = 0
  <2>1. 1 \in 1..N /\ d[1] = 0
    BY <1>1 DEF Spells
  <2> QED BY <1>10, <2>1
<1>26. ASSUME NEW j \in 1..N + 1 PROVE j \in 1..N \/ j = N + 1
  BY <1>1
<1>27. Spells(u, e, w, H, 0, at)
  BY <1>9, <1>13, <1>17, <1>18, <1>23, <1>24, <1>25, <1>26 DEF Spells
<1>28. Used(u, w, H)
  <2>1. \A j \in 1..N : w[j] \cap H # {}
    BY <1>10 DEF Used
  <2>2. PICK s \in v[at] : s \in H
    BY DEF Used
  <2>3. s \in w[N + 1]
    BY <1>10, <1>19, <2>2
  <2> QED BY <1>9, <1>26, <2>1, <2>2, <2>3 DEF Used
<1>29. u = SplitEdge(t, at, i)
  BY DEF SplitEdge, u, x, up, low
<1> QED BY <1>27, <1>28, <1>29 DEF e, w, S

\* A route that spells the path of the node it is at has passed it.
LEMMA PassedPath ==
    ASSUME NEW t, NEW at, NEW d, NEW v, NEW H, NEW route, Spells(t, d, v, H, at, at),
           v[at] \subseteq H \cup {route}, Spelt(t[at].path, d[at], route)
    PROVE  Spells(t, d, v, H, 0, at)
<1> SUFFICES ASSUME NEW i \in 1..Len(t) PROVE NodeSpells(t, d, v, H, 0, at, i)
  BY DEF Spells
<1>1. NodeSpells(t, d, v, H, at, at, i)
  BY DEF Spells
<1>2. ASSUME NEW r \in v[i] PROVE Follows(t, d, v, H, 0, at, i, r)
  <2>1. Follows(t, d, v, H, at, at, i, r)
    BY <1>1 DEF NodeSpells
  <2> QED BY <2>1 DEF Follows
<1> QED BY <1>1, <1>2 DEF NodeSpells

\* Every route through a node but those that stop there goes on with a child
\* unless it is the handle.
LEMMA GoesOn ==
    ASSUME NEW t, NEW at \in 1..Len(t), NEW d, NEW v, NEW H, NEW start, NEW stop,
           Spells(t, d, v, H, start, stop), NEW r \in v[at] \cap H
    PROVE  /\ r \in Seq(STRING) /\ Spelt(t[at].path, d[at], r)
           /\ r = t[at].handle \/ \E k \in 1..Len(t[at].children) : r \in v[t[at].children[k]]
<1>1. Follows(t, d, v, H, start, stop, at, r)
  BY DEF Spells, NodeSpells
<1> QED BY <1>1 DEF Follows

\* A set of routes through a node gets one more.
Also(v, N, c, route) == [j \in 1..N |-> IF j = c THEN v[c] \cup {route} ELSE v[j]]

\* Only the one set gets the route.
LEMMA AlsoIs ==
    ASSUME NEW v, NEW N \in Nat, NEW c \in 1..N, NEW route
    PROVE  LET w == Also(v, N, c, route)
           IN  w[c] = v[c] \cup {route} /\ \A j \in 1..N : j # c => w[j] = v[j]
BY DEF Also

\* A route that has passed a node goes on with a child of it.
LEMMA Entered ==
    ASSUME NEW t \in Seq(Node), Hung(t), NEW at \in 1..Len(t), NEW k \in 1..Len(t[at].children),
           NEW c, c = t[at].children[k], c # at, NEW d, NEW v, NEW H, NEW route,
           Spells(t, d, v, H, 0, at), v[at] \subseteq H \cup {route}, route \in v[at],
           Len(route) > d[c], \A r \in v[c] : r[d[c] + 1] = route[d[c] + 1],
           ~t[at].wildChild => route[d[c] + 1] = Key(t[at], k), route \in H => route \in v[c]
    PROVE  Spells(t, d, Also(v, Len(t), c, route), H, c, c)
<1> DEFINE N == Len(t)
           w == Also(v, N, c, route)
<1>1. /\ N \in Nat /\ at # 0 /\ c \in 1..N /\ c # 0
      /\ \A i \in 1..N : /\ DOMAIN t[i].children = 1..Len(t[i].children)
                         /\ \A l \in 1..Len(t[i].children) : t[i].children[l] \in 1..N
  BY Places, ChildrenInRange
<1>2. w[c] = v[c] \cup {route} /\ \A j \in 1..N : j # c => w[j] = v[j]
  <2> HIDE DEF N
  <2> QED BY <1>1, AlsoIs
<1> HIDE DEF w
<1>3. \A i \in 1..N : \A l \in 1..Len(t[i].children) : t[i].children[l] = c => i = at /\ l = k
  <2> SUFFICES ASSUME NEW i \in 1..N, NEW l \in 1..Len(t[i].children), t[i].children[l] = c
               PROVE  i = at /\ l = k
    OBVIOUS
  <2>1. NoneIsShared(t) /\ i \in DOMAIN t /\ at \in DOMAIN t
    BY Places DEF Hung
  <2>2. l \in DOMAIN t[i].children /\ k \in DOMAIN t[at].children
    BY <1>1
  <2> QED BY <2>1, <2>2, NotShared
<1>4. \A i \in 1..N : NodeSpells(t, d, v, H, 0, at, i) /\ Kinds(t, t[i])
  BY DEF Spells
<1>5. Hangs(t, d, v, at, k)
  BY <1>4 DEF NodeSpells
<1>6. d[at] \in Nat /\ d[c] \in Nat /\ d[c] = d[at] + Len(t[at].path) /\ v[c] \subseteq v[at]
  BY <1>1, <1>4, <1>5 DEF NodeSpells, Hangs
<1>7. \A r \in v[at] : r \in Seq(STRING) /\ Spelt(t[at].path, d[at], r)
  BY <1>1, <1>4 DEF NodeSpells, Follows
<1>8. NodeSpells(t, d, w, H, c, c, c)
  <2>1. ASSUME NEW r \in v[c] PROVE Follows(t, d, w, H, c, c, c, r)
    <3>1. Follows(t, d, v, H, 0, at, c, r)
      BY <1>1, <1>4 DEF NodeSpells
    <3>2. \A l \in 1..Len(t[c].children) : v[t[c].children[l]] = w[t[c].children[l]]
      BY <1>1, <1>2, <1>3
    <3> QED BY <1>1, <3>1, <3>2 DEF Follows
  <2>2. route \notin v[c] => Follows(t, d, w, H, c, c, c, route)
    BY <1>7 DEF Follows
  <2>3. ASSUME NEW r \in w[c], NEW s \in w[c] PROVE Share(r, s, d[c] + 1)
    <3>1. r \in v[at] /\ s \in v[at]
      BY <1>2, <1>6
    <3>2. Share(r, s, d[at] + 1)
      BY <1>4, <3>1 DEF NodeSpells
    <3>3. Share(r, s, d[c])
      <4>1. t[at].path \in Seq(STRING)
        BY Places, FieldTypes
      <4> QED BY <1>6, <1>7, <3>1, <3>2, <4>1, SharedPath
    <3>4. r[d[c] + 1] = s[d[c] + 1]
      BY <1>2
    <3>5. \A j \in 1..d[c] + 1 : j \in 1..d[c] \/ j = d[c] + 1
      BY <1>6
    <3> QED BY <3>3, <3>4, <3>5 DEF Share
  <2>4. ASSUME NEW l \in 1..Len(t[c].children) PROVE Hangs(t, d, w, c, l)
    <3>1. Hangs(t, d, v, c, l)
      BY <1>1, <1>4 DEF NodeSpells
    <3>2. w[t[c].children[l]] = v[t[c].children[l]] /\ v[c] \subseteq w[c]
      BY <1>1, <1>2, <1>3
    <3> QED BY <3>1, <3>2 DEF Hangs
  <2>5. Ends(t, d, w, H, c)
    BY <1>1, <1>2, <1>4 DEF NodeSpells, Ends
  <2> QED BY <1>2, <1>6, <2>1, <2>2, <2>3, <2>4, <2>5 DEF NodeSpells
<1>9. NodeSpells(t, d, w, H, c, c, at)
  <2>1. w[at] = v[at]
    BY <1>2
  <2>2. \A l \in 1..Len(t[at].children) : v[t[at].children[l]] \subseteq w[t[at].children[l]]
    BY <1>1, <1>2
  <2>3. ASSUME NEW r \in v[at] PROVE Follows(t, d, w, H, c, c, at, r)
    <3>1. Follows(t, d, v, H, 0, at, at, r)
      BY <1>4 DEF NodeSpells
    <3>2. CASE r = route
      BY <1>1, <1>2, <3>1, <3>2 DEF Follows
    <3>3. CASE r # route
      <4>1. r \in H
        BY <3>3
      <4>2. r = t[at].handle \/ \E l \in 1..Len(t[at].children) : r \in w[t[at].children[l]]
        BY <2>2, <3>1, <4>1 DEF Follows
      <4> QED BY <1>1, <3>1, <4>1, <4>2 DEF Follows
    <3> QED BY <3>2, <3>3
  <2>4. ASSUME NEW l \in 1..Len(t[at].children) PROVE Hangs(t, d, w, at, l)
    <3>1. Hangs(t, d, v, at, l)
      BY <1>4 DEF NodeSpells
    <3>2. CASE l = k
      <4>1. w[c] \subseteq w[at]
        BY <1>2, <1>6, <2>1
      <4>2. ~t[at].wildChild => \A r \in w[c] : r[d[c] + 1] = Key(t[at], k)
        BY <1>2, <1>5 DEF Hangs
      <4> QED BY <3>1, <3>2, <4>1, <4>2 DEF Hangs
    <3>3. CASE l # k
      <4>1. w[t[at].children[l]] = v[t[at].children[l]]
        BY <1>1, <1>2, <1>3, <3>3
      <4> QED BY <2>1, <3>1, <4>1 DEF Hangs
    <3> QED BY <3>2, <3>3
  <2>5. Ends(t, d, w, H, at)
    BY <1>4, <2>1 DEF NodeSpells, Ends
  <2> QED BY <1>4, <2>1, <2>3, <2>4, <2>5 DEF NodeSpells
<1>10. ASSUME NEW i \in 1..N, i # at, i # c PROVE NodeSpells(t, d, w, H, c, c, i)
  <2>1. \A l \in 1..Len(t[i].children) : w[t[i].children[l]] = v[t[i].children[l]]
    BY <1>1, <1>2, <1>3, <1>10
  <2>2. NodeSpells(t, d, v, H, 0, at, i) /\ SameNode(t[i], t[i]) /\ i # 0
    BY <1>4, <1>10 DEF SameNode
  <2>3. Within(H, H) /\ Exempt(v, i, 0, H, c, H) /\ Exempt(v, i, at, H, c, H)
    BY <1>10, <2>2 DEF Within, Exempt
  <2>4. w[i] = v[i]
    BY <1>2, <1>10
  <2> QED BY <2>1, <2>2, <2>3, <2>4, SpellsAsBefore
<1>11. Spells(t, d, w, H, c, c)
  BY <1>4, <1>8, <1>9, <1>10 DEF Spells
<1> QED BY <1>11 DEF w

\* The children of a node and their index bytes change places.
Reordered(t, u, at, from, to) ==
    /\ u \in Seq(Node) /\ Len(u) = Len(t) /\ to \in 1..from
    /\ \A i \in 1..Len(t) : i # at => SameNode(t[i], u[i])
    /\ u[at].path = t[at].path /\ u[at].handle = t[at].handle
    /\ u[at].wildChild = t[at].wildChild /\ u[at].nType = t[at].nType
    /\ Len(u[at].children) = Len(t[at].children) /\ Len(u[at].indices) = Len(t[at].children)
    /\ \A k \in 1..Len(t[at].children) :
           /\ u[at].children[k] = t[at].children[Origin(from, to, k)]
           /\ u[at].indices[k] = t[at].indices[Origin(from, to, k)]

\* A raised priority reorders the children of a node.
LEMMA PrioReorders ==
    ASSUME NEW t, InShape(t), NEW at \in 1..Len(t), t[at].wildChild = FALSE,
           Len(t[at].indices) = Len(t[at].children), NEW pos \in 1..Len(t[at].children)
    PROVE  \E to \in 1..pos : Reordered(t, IncrementChildPrio(t, at, pos), at, pos, to)
<1> DEFINE N == Len(t)
           child == t[at].children[pos]
           v == Bump(t, child)
           to == NewPos(v, v[at].children, pos)
           cs == Moved(v[at].children, pos, to)
           is == Moved(v[at].indices, pos, to)
           m == [v[at] EXCEPT !.children = cs, !.indices = is]
           u == IncrementChildPrio(t, at, pos)
<1>1. /\ t \in Seq(Node) /\ Hung(t) /\ N \in Nat /\ DOMAIN t = 1..N /\ t[at] \in Node
  BY Places DEF InShape
<1>2. child \in 2..N /\ child \in 1..N
  BY <1>1, ChildrenInRange
<1>3. /\ v \in Seq(Node) /\ Len(v) = N /\ InShape(v)
      /\ \A i \in 1..N : /\ SameLinks(t[i], v[i]) /\ v[i].path = t[i].path
                         /\ v[i].handle = t[i].handle
  BY <1>2, Bumped
<1> DEFINE K == Len(t[at].children)
<1>4. /\ v[at].children = t[at].children /\ v[at].indices = t[at].indices
      /\ v[at].wildChild = t[at].wildChild /\ v[at].nType = t[at].nType /\ v[at] \in Node
      /\ Hung(v) /\ DOMAIN v = 1..N
  BY <1>1, <1>3, Places DEF SameLinks, InShape
<1> HIDE DEF v, child
<1>5. /\ v[at].children \in Seq(Nat) /\ v[at].indices \in Seq(STRING)
      /\ Len(v[at].children) = K /\ Len(v[at].indices) = K /\ K \in Nat /\ pos \in 1..K
      /\ \A k \in 1..K : v[at].children[k] \in 1..N
  <2>1. v[at].children \in Seq(Nat) /\ v[at].indices \in Seq(STRING)
    BY <1>4, FieldTypes
  <2>2. \A k \in DOMAIN v[at].children : v[at].children[k] \in 1..N
    BY <1>3, <1>4, ChildrenInRange
  <2> QED BY <1>4, <2>1, <2>2
<1>6. to \in 1..pos
  BY <1>3, <1>5, NewPosition
<1> HIDE DEF to, K
<1>7. /\ cs \in Seq(Nat) /\ Len(cs) = K /\ is \in Seq(STRING) /\ Len(is) = K
      /\ \A k \in 1..K : cs[k] = v[at].children[Origin(pos, to, k)]
      /\ \A k \in 1..K : is[k] = v[at].indices[Origin(pos, to, k)]
  <2> DEFINE a == v[at].children
             b == v[at].indices
  <2>1. /\ a \in Seq(Nat) /\ b \in Seq(STRING) /\ Len(a) = K /\ Len(b) = K
        /\ pos \in 1..Len(a) /\ pos \in 1..Len(b)
    BY <1>5
  <2> HIDE DEF a, b
  <2>2. /\ Moved(a, pos, to) \in Seq(Nat) /\ Len(Moved(a, pos, to)) = Len(a)
        /\ \A k \in 1..Len(a) : Moved(a, pos, to)[k] = a[Origin(pos, to, k)]
    BY <1>6, <2>1, MovedElements, Zenon
  <2>3. /\ Moved(b, pos, to) \in Seq(STRING) /\ Len(Moved(b, pos, to)) = Len(b)
        /\ \A k \in 1..Len(b) : Moved(b, pos, to)[k] = b[Origin(pos, to, k)]
    BY <1>6, <2>1, MovedElements, Zenon
  <2> QED BY <2>1, <2>2, <2>3 DEF a, b
<1>8. u = [v EXCEPT ![at] = m]
  BY <1>3, <1>4 DEF IncrementChildPrio, v, to, child
<1> HIDE DEF cs, is
<1>9. /\ m \in Node /\ m.children = cs /\ m.indices = is /\ m.wildChild = v[at].wildChild
      /\ m.nType = v[at].nType /\ m.path = v[at].path /\ m.handle = v[at].handle
  BY <1>4, <1>7 DEF Node
<1> HIDE DEF m, u
<1>10. /\ u \in Seq(Node) /\ Len(u) = N /\ u[at] = m
       /\ \A i \in 1..N : i # at => u[i] = v[i]
  BY <1>3, <1>8, <1>9, Put
<1>11. \A i \in 1..N : i # at => SameNode(t[i], u[i])
  BY <1>3, <1>10 DEF SameNode, SameLinks
<1>12. /\ u[at].path = t[at].path /\ u[at].handle = t[at].handle
       /\ u[at].wildChild = t[at].wildChild /\ u[at].nType = t[at].nType
  BY <1>3, <1>4, <1>9, <1>10
<1>13. /\ Len(u[at].children) = K /\ Len(u[at].indices) = K
       /\ \A k \in 1..K : /\ u[at].children[k] = t[at].children[Origin(pos, to, k)]
                          /\ u[at].indices[k] = t[at].indices[Origin(pos, to, k)]
  BY <1>4, <1>7, <1>9, <1>10
<1>14. Reordered(t, u, at, pos, to)
  BY <1>6, <1>10, <1>11, <1>12, <1>13 DEF Reordered, K
<1> QED BY <1>6, <1>14 DEF u

\* The order of the children spells nothing.
LEMMA OrderSpellsNothing ==
    ASSUME NEW t, InShape(t), NEW at \in 1..Len(t), t[at].wildChild = FALSE,
           Len(t[at].indices) = Len(t[at].children), NEW pos \in 1..Len(t[at].children),
           NEW d, NEW v, NEW H, NEW start, NEW stop, Spells(t, d, v, H, start, stop)
    PROVE  Spells(IncrementChildPrio(t, at, pos), d, v, H, start, stop)
<1> DEFINE u == IncrementChildPrio(t, at, pos)
           m == Len(t[at].children)
<1>1. PICK to \in 1..pos : Reordered(t, u, at, pos, to)
  BY PrioReorders
<1> HIDE DEF u
<1>2. /\ t \in Seq(Node) /\ Len(t) \in Nat /\ Hung(t) /\ m \in Nat
      /\ \A i \in 1..Len(t) : \A k \in 1..Len(t[i].children) : t[i].children[k] \in 1..Len(t)
  <2>1. t \in Seq(Node) /\ Len(t) \in Nat /\ Hung(t) /\ t[at] \in Node
    BY Places DEF InShape
  <2>2. m \in Nat
    BY <2>1, FieldTypes
  <2> QED BY <2>1, <2>2, ChildrenInRange
<1>3. Shuffles(m, pos, to)
  <2> HIDE DEF m
  <2>1. pos \in 1..m
    BY DEF m
  <2> QED BY <1>2, <2>1, OriginBijects
<1>4. ASSUME NEW k \in 1..m
      PROVE  /\ Origin(pos, to, k) \in 1..m
             /\ u[at].children[k] = t[at].children[Origin(pos, to, k)]
             /\ Key(u[at], k) = Key(t[at], Origin(pos, to, k))
  BY <1>1, <1>3 DEF Reordered, Shuffles, Key
<1>5. ASSUME NEW i \in 1..Len(t) PROVE SameKind(t[i], u[i])
  BY <1>1 DEF Reordered, SameNode, SameKind
<1>6. ASSUME NEW i \in 1..Len(t), i # at
      PROVE  NodeSpells(u, d, v, H, start, stop, i) /\ Kinds(u, u[i])
  <2>1. NodeSpells(t, d, v, H, start, stop, i) /\ Kinds(t, t[i])
    BY DEF Spells
  <2>2. \A k \in 1..Len(t[i].children) : SameKind(t[t[i].children[k]], u[t[i].children[k]])
    BY <1>2, <1>5
  <2>3. SameNode(t[i], u[i])
    BY <1>1, <1>6 DEF Reordered
  <2>0. Within(H, H) /\ Exempt(v, i, start, H, start, H) /\ Exempt(v, i, stop, H, stop, H)
    BY DEF Within, Exempt
  <2> QED BY <2>0, <2>1, <2>2, <2>3, StillSpells, StillKinds
<1>7. NodeSpells(t, d, v, H, start, stop, at) /\ Kinds(t, t[at])
  BY DEF Spells
<1>8. /\ u[at].path = t[at].path /\ u[at].handle = t[at].handle /\ u[at].wildChild = t[at].wildChild
      /\ u[at].nType = t[at].nType /\ Len(u[at].children) = m /\ Len(u[at].indices) = m
      /\ \A k \in 1..m : u[at].indices[k] = t[at].indices[Origin(pos, to, k)]
  BY <1>1 DEF Reordered
<1>9. NodeSpells(u, d, v, H, start, stop, at)
  <2>1. ASSUME NEW r \in v[at] PROVE Follows(u, d, v, H, start, stop, at, r)
    <3>1. Follows(t, d, v, H, start, stop, at, r)
      BY <1>7 DEF NodeSpells
    <3>2. ASSUME NEW k \in 1..m, r \in v[t[at].children[k]]
          PROVE  \E l \in 1..m : r \in v[u[at].children[l]]
      <4>1. PICK l \in 1..m : Origin(pos, to, l) = k
        BY <1>3 DEF Shuffles
      <4> QED BY <1>4, <3>2, <4>1
    <3> QED BY <1>8, <3>1, <3>2 DEF Follows
  <2>2. ASSUME NEW k \in 1..m PROVE Hangs(u, d, v, at, k)
    <3>1. Hangs(t, d, v, at, Origin(pos, to, k))
      BY <1>4, <1>7 DEF NodeSpells
    <3> QED BY <1>4, <1>8, <3>1 DEF Hangs
  <2>3. Ends(u, d, v, H, at)
    BY <1>7, <1>8 DEF NodeSpells, Ends
  <2> QED BY <1>7, <1>8, <2>1, <2>2, <2>3 DEF NodeSpells
<1>10. Kinds(u, u[at])
  <2>1. \A k \in 1..Len(u[at].indices) : u[at].indices[k] \notin Wildcards
    <3>1. \A k \in 1..m : t[at].indices[k] \notin Wildcards
      BY <1>7 DEF Kinds
    <3> QED BY <1>4, <1>8, <3>1
  <2>2. ASSUME NEW k \in 1..m
        PROVE  LET c == u[u[at].children[k]]
               IN  IF ~u[at].wildChild THEN c.nType = "catchAll" => c.wildChild
                   ELSE IF u[at].nType = "catchAll" THEN c.nType = "catchAll" /\ ~c.wildChild
                   ELSE c.nType = "param"
    <3> DEFINE j == Origin(pos, to, k)
    <3>1. j \in 1..m /\ u[at].children[k] = t[at].children[j]
      BY <1>4
    <3> HIDE DEF j
    <3>2. SameKind(t[t[at].children[j]], u[t[at].children[j]])
      BY <1>2, <1>5, <3>1
    <3> QED BY <1>7, <1>8, <3>1, <3>2 DEF Kinds, SameKind
  <2>3. u[at].nType # "catchAll"
    <3>1. t[at].nType = "catchAll" => t[at].children = <<>>
      BY <1>7 DEF Kinds
    <3>2. t[at].children # <<>>
      BY <1>2
    <3> QED BY <1>8, <3>1, <3>2
  <2> QED BY <1>7, <1>8, <2>1, <2>2, <2>3 DEF Kinds
<1>11. Spells(u, d, v, H, start, stop)
  BY <1>1, <1>6, <1>9, <1>10 DEF Spells, Reordered
<1> QED BY <1>11 DEF u

\* A route that no child of its node goes on with gets a child of its own.
LEMMA GrownSpells ==
    ASSUME NEW t, Ordered(t), NEW at \in 1..Len(t), t[at].wildChild = FALSE,
           t[at].path # <<>>, NEW c \in STRING \ Wildcards,
           \A k \in 1..Len(t[at].indices) : t[at].indices[k] # c,
           t[at].nType = "param" => c = Slash /\ t[at].children = <<>>,
           t[at].nType # "catchAll",
           NEW d, NEW v, NEW H, NEW route, NEW e, e = d[at] + Len(t[at].path),
           Spells(t, d, v, H, 0, at), v[at] \subseteq H \cup {route}, route \in v[at],
           route \notin H, Len(route) > e, route[e + 1] = c
    PROVE  Spells(GrowChild(t, at, c), With(d, Len(t), e), With(v, Len(t), {route}), H, 0, Len(t) + 1)
<1> DEFINE N == Len(t)
           n == t[at]
           u == Grown(t, at, c)
           K == Len(n.children)
           f == With(d, N, e)
           w == With(v, N, {route})
<1>1. GrownFrom(t, u, at, c) /\ GrowChild(t, at, c) = IncrementChildPrio(u, at, K + 1)
  BY ChildAppended
<1> HIDE DEF u
<1>2. /\ t \in Seq(Node) /\ N \in Nat /\ n \in Node /\ Hung(t) /\ Len(n.path) \in Nat
  BY Places, FieldTypes DEF Ordered, InShape
<1>3. /\ InShape(u) /\ u \in Seq(Node) /\ Len(u) = N + 1 /\ u[N + 1] = EmptyNode
      /\ \A i \in 1..N : i # at => u[i] = t[i]
  BY <1>1 DEF GrownFrom
<1>4. /\ u[at].path = n.path /\ u[at].handle = n.handle
      /\ u[at].wildChild = FALSE /\ u[at].nType = n.nType
  BY <1>1 DEF GrownFrom
<1>5. /\ K \in Nat /\ Len(n.indices) = K
      /\ Len(u[at].children) = K + 1 /\ Len(u[at].indices) = K + 1
      /\ u[at].children[K + 1] = N + 1 /\ u[at].indices[K + 1] = c
      /\ \A k \in 1..K : /\ u[at].children[k] = n.children[k]
                         /\ u[at].indices[k] = n.indices[k]
  BY <1>1 DEF GrownFrom
<1>6. NodeSpells(t, d, v, H, 0, at, at) /\ Kinds(t, n) /\ d[at] \in Nat /\ e \in Nat
  BY <1>2 DEF Spells, NodeSpells
<1>7. /\ f[N + 1] = e /\ w[N + 1] = {route}
      /\ \A j \in 1..N : f[j] = d[j] /\ w[j] = v[j]
  <2> HIDE DEF N
  <2>0. N \in Nat
    BY <1>2
  <2>1. f[N + 1] = e /\ \A j \in 1..N : f[j] = d[j]
    BY <2>0, WithLast
  <2>2. w[N + 1] = {route} /\ \A j \in 1..N : w[j] = v[j]
    BY <2>0, WithLast
  <2> HIDE DEF f, w
  <2> QED BY <2>1, <2>2
<1> HIDE DEF f, w
<1>8. \A j \in 1..N : \A k \in 1..Len(t[j].children) : t[j].children[k] \in 1..N
  BY <1>2, ChildrenInRange
<1>9. ASSUME NEW j \in 1..N PROVE SameKind(t[j], u[j])
  <2>1. CASE j = at
    BY <1>4, <2>1 DEF SameKind
  <2>2. CASE j # at
    BY <1>3, <2>2 DEF SameKind
  <2> QED BY <2>1, <2>2
<1>10. ASSUME NEW j \in 1..N, j # at PROVE NodeSpells(u, f, w, H, 0, N + 1, j) /\ Kinds(u, u[j])
  <2>1. \A k \in 1..N : k # at => SameNode(t[k], u[k])
    BY <1>3 DEF SameNode
  <2>2. SameKind(t[at], u[at]) /\ at \in {0, at} /\ 0 \in {0, at}
    BY <1>9
  <2>0. Within(H, H)
    BY DEF Within
  <2> QED BY <2>0, <1>2, <1>3, <1>7, <1>10, <2>1, <2>2, Elsewhere
<1>11. \A k \in 1..K + 1 : k = K + 1 \/ k \in 1..K
  BY <1>5
<1>12. K + 1 \in 1..K + 1 /\ at # N + 1 /\ at # 0
  BY <1>2, <1>5
<1>13. Follows(t, d, v, H, 0, at, at, route)
  BY <1>6 DEF NodeSpells
<1>14. NodeSpells(u, f, w, H, 0, N + 1, at)
  <2>1. ASSUME NEW r \in v[at] PROVE Follows(u, f, w, H, 0, N + 1, at, r)
    <3>1. Follows(t, d, v, H, 0, at, at, r)
      BY <1>6 DEF NodeSpells
    <3>2. CASE r = route
      <4>1. r \in w[u[at].children[K + 1]]
        BY <1>5, <1>7, <3>2
      <4> QED BY <1>4, <1>5, <1>7, <1>12, <3>1, <4>1 DEF Follows
    <3>3. CASE r # route
      <4>1. r \in H
        BY <3>3
      <4>2. r = n.handle \/ \E k \in 1..K : r \in v[n.children[k]]
        BY <3>1, <4>1 DEF Follows
      <4>3. ASSUME NEW k \in 1..K, r \in v[n.children[k]]
            PROVE  k \in 1..K + 1 /\ r \in w[u[at].children[k]]
        <5>1. k \in 1..K + 1 /\ u[at].children[k] = n.children[k]
          BY <1>5
        <5>2. w[n.children[k]] = v[n.children[k]]
          BY <1>7, <1>8
        <5> QED BY <4>3, <5>1, <5>2
      <4> QED BY <1>4, <1>5, <1>7, <1>12, <3>1, <4>1, <4>2, <4>3 DEF Follows
    <3> QED BY <3>2, <3>3
  <2>2. ASSUME NEW k \in 1..K + 1 PROVE Hangs(u, f, w, at, k)
    <3>1. CASE k = K + 1
      <4>1. Key(u[at], K + 1) = c
        BY <1>4, <1>5 DEF Key
      <4>2. \A r \in w[N + 1] : r[f[N + 1] + 1] = Key(u[at], K + 1)
        BY <1>7, <4>1
      <4>3. f[N + 1] = f[at] + Len(u[at].path) /\ w[N + 1] \subseteq w[at]
        BY <1>4, <1>7
      <4> QED BY <1>5, <3>1, <4>2, <4>3 DEF Hangs
    <3>2. CASE k \in 1..K
      <4>1. Hangs(t, d, v, at, k)
        BY <1>6, <3>2 DEF NodeSpells
      <4>2. u[at].children[k] = n.children[k] /\ n.children[k] \in 1..N /\ Key(u[at], k) = Key(n, k)
        BY <1>4, <1>5, <1>8, <3>2 DEF Key
      <4> QED BY <1>4, <1>7, <4>1, <4>2 DEF Hangs
    <3> QED BY <1>11, <3>1, <3>2
  <2>3. Ends(u, f, w, H, at)
    BY <1>4, <1>6, <1>7 DEF NodeSpells, Ends
  <2>4. \A r, s \in v[at] : Share(r, s, d[at] + 1)
    BY <1>6 DEF NodeSpells
  <2> QED BY <1>5, <1>6, <1>7, <2>1, <2>2, <2>3, <2>4 DEF NodeSpells
<1>15. NodeSpells(u, f, w, H, 0, N + 1, N + 1)
  <2>1. route \in Seq(STRING) /\ Len(route) \in Nat
    BY <1>13 DEF Follows
  <2>2. u[N + 1].path = <<>> /\ u[N + 1].children = <<>> /\ u[N + 1].handle = NoHandle
    BY <1>3, EmptyNodeIs DEF NoHandle
  <2>3. Len(<<>>) = 0
    OBVIOUS
  <2>4. Spelt(<<>>, e, route)
    BY <1>6, <2>1, <2>3 DEF Spelt
  <2>5. \A k \in 1..Len(u[N + 1].children) : Hangs(u, f, w, N + 1, k)
    BY <2>2, <2>3
  <2> QED BY <1>6, <1>7, <2>1, <2>2, <2>4, <2>5, AloneSpells
<1>16. Kinds(u, u[N + 1])
  <2>1. Len(<<>>) = 0
    OBVIOUS
  <2> QED BY <1>3, <2>1, EmptyNodeIs DEF Kinds
<1>17. Kinds(u, u[at])
  <2>1. ASSUME NEW k \in 1..K + 1 PROVE u[u[at].children[k]].nType = "catchAll" => u[u[at].children[k]].wildChild
    <3>1. CASE k = K + 1
      BY <1>3, <1>5, <3>1, EmptyNodeIs
    <3>2. CASE k \in 1..K
      <4>1. t[n.children[k]].nType = "catchAll" => t[n.children[k]].wildChild
        BY <1>6, <3>2 DEF Kinds
      <4>2. SameKind(t[n.children[k]], u[n.children[k]]) /\ u[at].children[k] = n.children[k]
        BY <1>5, <1>8, <1>9, <3>2
      <4> QED BY <4>1, <4>2 DEF SameKind
    <3> QED BY <1>11, <3>1, <3>2
  <2>2. ASSUME NEW k \in 1..K + 1 PROVE u[at].indices[k] \notin Wildcards
    <3>1. CASE k = K + 1
      BY <1>5, <3>1
    <3>2. CASE k \in 1..K
      BY <1>5, <1>6, <3>2 DEF Kinds
    <3> QED BY <1>11, <3>1, <3>2
  <2> QED BY <1>4, <1>5, <1>6, <2>1, <2>2 DEF Kinds
<1>18. Spells(u, f, w, H, 0, N + 1)
  <2>1. f[1] = 0
    <3>1. 1 \in 1..N /\ d[1] = 0
      BY <1>2 DEF Spells
    <3> QED BY <1>7, <3>1
  <2>2. \A j \in 1..N + 1 : j = N + 1 \/ j \in 1..N
    BY <1>2
  <2> QED BY <1>3, <1>10, <1>14, <1>15, <1>16, <1>17, <2>1, <2>2 DEF Spells
<1>19. Spells(IncrementChildPrio(u, at, K + 1), f, w, H, 0, N + 1)
  <2>1. /\ at \in 1..Len(u) /\ u[at].wildChild = FALSE
        /\ Len(u[at].indices) = Len(u[at].children) /\ K + 1 \in 1..Len(u[at].children)
    BY <1>2, <1>3, <1>4, <1>5, <1>12
  <2> HIDE DEF K, N
  <2> QED BY <1>3, <1>18, <2>1, OrderSpellsNothing
<1> QED BY <1>1, <1>19 DEF f, w

\* The rest of a route from its token e + 1 on.
Remains(path, e, r) == /\ r \in Seq(STRING) /\ Len(r) = e + Len(path)
                       /\ \A k \in 1..Len(path) : path[k] = r[e + k]

\* The route stops at a node, below which the rest of it is to be placed.
Placing(t, d, v, H, at, path, route) ==
    /\ Spells(t, d, v, H, 0, at) /\ v[at] \subseteq H \cup {route} /\ route \in v[at]
    /\ route \notin H /\ Remains(path, d[at] + Len(t[at].path), route)
    /\ t[at].nType # "catchAll"

\* The node that is ready for the rest is one that spells nothing yet.
LEMMA PlacedAt ==
    ASSUME NEW t \in Seq(Node), Hung(t), NEW at \in 1..Len(t), NEW d, NEW v, NEW H, NEW path, NEW route,
           Placing(t, d, v, H, at, path, route)
    PROVE  /\ d[at] \in Nat /\ Len(t[at].path) \in Nat /\ d[at] + Len(t[at].path) \in Nat
           /\ NodeSpells(t, d, v, H, 0, at, at) /\ Kinds(t, t[at])
           /\ route \in Seq(STRING) /\ Len(route) \in Nat /\ Len(route) > d[at]
           /\ \A r \in v[at] : Spelt(t[at].path, d[at], r)
           /\ t[at].path = <<>> => d[at] + Len(t[at].path) = d[at]
<1>1. NodeSpells(t, d, v, H, 0, at, at) /\ Kinds(t, t[at])
  BY DEF Placing, Spells
<1>2. \A r \in v[at] : Follows(t, d, v, H, 0, at, at, r)
  BY <1>1 DEF NodeSpells
<1>3. d[at] \in Nat
  BY <1>1 DEF NodeSpells
<1>4. Len(t[at].path) \in Nat
  BY Places, FieldTypes
<1>5. route \in Seq(STRING) /\ Len(route) > d[at]
  BY <1>2 DEF Placing, Follows
<1>6. \A r \in v[at] : Spelt(t[at].path, d[at], r)
  BY <1>2 DEF Follows
<1>7. t[at].path = <<>> => d[at] + Len(t[at].path) = d[at]
  BY <1>3, Len(<<>>) = 0
<1>8. d[at] + Len(t[at].path) \in Nat /\ Len(route) \in Nat
  BY <1>3, <1>4, <1>5
<1> QED BY <1>1, <1>3, <1>4, <1>5, <1>6, <1>7, <1>8

\* A rest without wildcards is spelt by the node it is put in.
LEMMA LeafSpells ==
    ASSUME NEW t, InShape(t), NEW at \in 1..Len(t), Fresh(t[at]), NEW d, NEW v, NEW H, NEW route,
           NEW path \in Seq(STRING), \A k \in 1..Len(path) : path[k] \notin Wildcards,
           Placing(t, d, v, H, at, path, route), v[at] = {route}
    PROVE  Spells(LeafTree(t, at, path, route), d, v, H \cup {route}, 0, 0)
<1> DEFINE m == [t[at] EXCEPT !.path = path, !.handle = route]
           u == LeafTree(t, at, path, route)
           G == H \cup {route}
<1>1. t \in Seq(Node) /\ t[at] \in Node /\ Hung(t)
  BY Places DEF InShape
<1>2. /\ d[at] \in Nat /\ d[at] + Len(t[at].path) = d[at]
      /\ route \in Seq(STRING) /\ Len(route) \in Nat /\ Len(route) > d[at]
  BY <1>1, PlacedAt DEF Fresh
<1>3. /\ m \in Node /\ m.children = t[at].children /\ m.indices = t[at].indices
      /\ m.wildChild = t[at].wildChild /\ m.nType = t[at].nType /\ m.path = path /\ m.handle = route
  BY <1>1, <1>2 DEF Node
<1>4. u = [t EXCEPT ![at] = m]
  BY <1>1 DEF LeafTree
<1> HIDE DEF m, u
<1>5. /\ u \in Seq(Node) /\ Len(u) = Len(t) /\ u[at] = m
      /\ \A i \in 1..Len(t) : i # at => u[i] = t[i]
  BY <1>1, <1>3, <1>4, Put
<1>6. /\ m.children = <<>> /\ m.indices = <<>> /\ ~m.wildChild /\ m.nType = "static"
  BY <1>3 DEF Fresh
<1>7. ASSUME NEW i \in 1..Len(t), i # at PROVE NodeSpells(u, d, v, G, 0, 0, i) /\ Kinds(u, u[i])
  <2>1. \A k \in 1..Len(t) : k # at => SameNode(t[k], u[k])
    BY <1>5 DEF SameNode
  <2>2. SameKind(t[at], u[at]) /\ at \in {0, at} /\ 0 \in {0, at} /\ Within(H, G)
    BY <1>3, <1>5 DEF SameKind, Within
  <2> DEFINE f == d
             g == v
  <2>3. Spells(t, d, v, H, 0, at) /\ \A j \in 1..Len(t) : f[j] = d[j] /\ g[j] = v[j]
    BY DEF Placing
  <2> HIDE DEF f, g
  <2>4. NodeSpells(u, f, g, G, 0, 0, i) /\ Kinds(u, u[i])
    <3> HIDE DEF G
    <3> QED BY <1>1, <1>5, <1>7, <2>1, <2>2, <2>3, Elsewhere
  <2> QED BY <2>4 DEF f, g
<1>8. Len(<<>>) = 0
  OBVIOUS
<1>9. NodeSpells(u, d, v, G, 0, 0, at)
  <2>1. Remains(path, d[at], route)
    BY <1>2 DEF Placing
  <2>2. Spelt(path, d[at], route) /\ Len(route) = d[at] + Len(path)
    BY <1>2, <2>1 DEF Remains, Spelt
  <2>3. \A k \in 1..Len(u[at].children) : Hangs(u, d, v, at, k)
    BY <1>5, <1>6, <1>8
  <2>4. route \in G
    OBVIOUS
  <2> HIDE DEF G
  <2> QED BY <1>2, <1>3, <1>5, <2>2, <2>3, <2>4, AloneSpells
<1>10. Kinds(u, u[at])
  BY <1>3, <1>5, <1>6, <1>8 DEF Kinds
<1>11. d[1] = 0
  BY DEF Placing, Spells
<1> QED BY <1>5, <1>7, <1>9, <1>10, <1>11 DEF Spells, u

\* A parameter in position w of the path is to be placed below the node.
ParamNext(n, path, w, through, route) ==
    /\ n.children = <<>> /\ n.nType \in {"static", "root"}
    /\ Fresh(n) \/ w = 1
    /\ Fresh(n) => through = {route}
    /\ \A k \in 1..w - 1 : path[k] \notin Wildcards
    /\ path[w] \in ParamTokens

\* What is known of a node and of the one added behind the others for it.
At(f, at, n, x, y) == f[at] = x /\ f[n + 1] = y
AboveAParam(u, at, n, m) == Len(u) > n /\ u[at] = m /\ u[n + 1].nType = "param"

\* The node above a parameter spells the part of the rest before it.
LEMMA AboveParamSpells ==
    ASSUME NEW t, InShape(t), NEW at \in 1..Len(t), NEW path \in Seq(STRING), NEW w \in 1..Len(path),
           NEW d, NEW v, NEW H, NEW route, NEW stop, Placing(t, d, v, H, at, path, route),
           ParamNext(t[at], path, w, v[at], route), NEW G, Within(H, G),
           NEW u, AboveAParam(u, at, Len(t), AboveParam(t[at], path, w, Len(t) + 1)),
           NEW f, At(f, at, Len(t), d[at], d[at] + Len(t[at].path) + (w - 1)),
           NEW g, At(g, at, Len(t), v[at], {route})
    PROVE  NodeSpells(u, f, g, G, 0, stop, at) /\ Kinds(u, u[at])
<1> DEFINE N == Len(t)
           n == t[at]
           m == AboveParam(n, path, w, N + 1)
           e == d[at] + Len(n.path)
<1>1. t \in Seq(Node) /\ n \in Node /\ Hung(t) /\ N \in Nat
  BY Places DEF InShape
<1>2. /\ t[at].children = <<>> /\ t[at].nType \in {"static", "root"}
      /\ Fresh(t[at]) \/ w = 1
      /\ Fresh(t[at]) => v[at] = {route}
      /\ \A k \in 1..w - 1 : path[k] \notin Wildcards
      /\ H \subseteq G
  BY DEF ParamNext, Within
<1>3. /\ d[at] \in Nat /\ Len(n.path) \in Nat /\ e \in Nat
      /\ NodeSpells(t, d, v, H, 0, at, at) /\ Kinds(t, n)
      /\ route \in Seq(STRING) /\ Len(route) \in Nat /\ Len(route) > d[at]
      /\ \A r \in v[at] : Spelt(n.path, d[at], r)
      /\ n.path = <<>> => e = d[at]
  BY <1>1, PlacedAt
<1>4. /\ m.children = <<N + 1>> /\ m.wildChild = TRUE /\ m.indices = n.indices
      /\ m.nType = n.nType /\ m.handle = n.handle
      /\ m.path = IF w > 1 THEN UpTo(path, w - 1) ELSE n.path
  BY <1>1 DEF AboveParam, Node
<1>5. /\ u[at] = m /\ Len(u) > N /\ u[N + 1].nType = "param"
      /\ f[at] = d[at] /\ f[N + 1] = e + (w - 1) /\ g[at] = v[at] /\ g[N + 1] = {route}
  BY DEF AboveAParam, At
<1> HIDE DEF m, e
<1>6. Remains(path, e, route) /\ v[at] \subseteq H \cup {route} /\ route \in v[at]
  BY DEF Placing, e
<1>7. w > 1 => Fresh(n) /\ v[at] = {route} /\ e = d[at]
  BY <1>2, <1>3 DEF Fresh
<1>8. w > 1 => Len(m.path) = w - 1 /\ \A k \in 1..w - 1 : m.path[k] = path[k]
  <2>1. w > 1 => w - 1 \in 0..Len(path)
    OBVIOUS
  <2> QED BY <1>4, <2>1, HeadOf
<1>9. d[at] + Len(m.path) = e + (w - 1)
  <2>1. CASE w > 1
    BY <1>3, <1>7, <1>8, <2>1
  <2>2. CASE ~(w > 1)
    <3>1. w - 1 = 0 /\ m.path = n.path
      BY <1>4, <2>2
    <3> QED BY <1>3, <3>1 DEF e
  <2> QED BY <2>1, <2>2
<1>10. \A r \in v[at] : Spelt(m.path, d[at], r)
  <2>1. CASE w > 1
    <3>1. Spelt(m.path, d[at], route)
      <4>1. \A k \in 1..w - 1 : k \in 1..Len(path)
        OBVIOUS
      <4>2. Len(route) = d[at] + Len(path) /\ Len(path) \in Nat /\ w - 1 <= Len(path) /\ w - 1 \in Nat
        BY <1>6, <1>7, <2>1 DEF Remains
      <4>3. Len(route) >= d[at] + Len(m.path)
        BY <1>3, <1>8, <2>1, <4>2
      <4> QED BY <1>6, <1>7, <1>8, <2>1, <4>1, <4>3 DEF Remains, Spelt
    <3> QED BY <1>7, <2>1, <3>1
  <2>2. CASE ~(w > 1)
    BY <1>3, <1>4, <2>2
  <2> QED BY <2>1, <2>2
<1>11. Len(m.children) = 1 /\ m.children[1] = N + 1 /\ 1 \in 1..1 /\ \A k \in 1..1 : k = 1
  BY <1>4
<1>12. n.handle # NoHandle => n.handle \in v[at] \cap H /\ w = 1
  <2>1. n.handle # NoHandle => n.handle \in v[at] \cap H
    BY <1>3 DEF NodeSpells, Ends
  <2>2. n.handle # NoHandle => w = 1
    BY <1>2 DEF Fresh
  <2> QED BY <2>1, <2>2
<1>13. ASSUME NEW r \in v[at] PROVE Follows(u, f, g, G, 0, stop, at, r)
  <2>1. Follows(t, d, v, H, 0, at, at, r) /\ Spelt(m.path, d[at], r)
    BY <1>3, <1>10 DEF NodeSpells
  <2>2. r = n.handle \/ r \in g[m.children[1]]
    <3>1. CASE r = route
      BY <1>5, <1>11, <3>1
    <3>2. CASE r # route
      <4>1. r \in H
        BY <1>6, <3>2
      <4>2. Len(n.children) = 0
        BY <1>2
      <4> QED BY <2>1, <4>1, <4>2 DEF Follows
    <3> QED BY <3>1, <3>2
  <2> QED BY <1>5, <1>4, <1>11, <2>1, <2>2 DEF Follows
<1>14. Hangs(u, f, g, at, 1)
  <2>1. f[N + 1] = f[at] + Len(m.path)
    BY <1>5, <1>9
  <2>2. g[N + 1] \subseteq g[at]
    BY <1>5, <1>6
  <2> QED BY <1>5, <1>4, <1>11, <2>1, <2>2 DEF Hangs
<1>15. Ends(u, f, g, G, at)
  <2>1. n.handle # NoHandle => Len(n.handle) = d[at] + Len(m.path)
    <3>1. n.handle # NoHandle => Len(n.handle) = d[at] + Len(n.path)
      BY <1>3 DEF NodeSpells, Ends
    <3> QED BY <1>4, <1>12, <3>1
  <2> QED BY <1>2, <1>5, <1>4, <1>12, <2>1 DEF Ends
<1>16. NodeSpells(u, f, g, G, 0, stop, at)
  <2>1. \A r, s \in g[at] : Share(r, s, f[at] + 1)
    BY <1>5, <1>3 DEF NodeSpells
  <2> QED BY <1>5, <1>3, <1>11, <1>13, <1>14, <1>15, <2>1 DEF NodeSpells
<1>17. Kinds(u, u[at])
  <2>1. \A k \in 1..Len(m.path) : m.path[k] \notin Wildcards
    <3>1. CASE w > 1
      BY <1>2, <1>8, <3>1
    <3>2. CASE ~(w > 1)
      <4>1. m.path = n.path
        BY <1>4, <3>2
      <4> QED BY <1>2, <1>3, <4>1 DEF Kinds
    <3> QED BY <3>1, <3>2
  <2>2. \A k \in 1..Len(m.indices) : m.indices[k] \notin Wildcards
    BY <1>3, <1>4 DEF Kinds
  <2>3. u[at] = m /\ m.nType \in {"static", "root"}
    BY <1>2, <1>5, <1>4
  <2> QED BY <1>5, <1>4, <1>11, <2>1, <2>2, <2>3 DEF Kinds
<1> QED BY <1>16, <1>17

\* A parameter that ends the route is spelt by the node that is added for it.
LEMMA LastParamSpells ==
    ASSUME NEW t, InShape(t), NEW at \in 1..Len(t), NEW path \in Seq(STRING), path # <<>>,
           NEW d, NEW v, NEW H, NEW route, Placing(t, d, v, H, at, path, route),
           NEW w, w = Len(path), ParamNext(t[at], path, w, v[at], route)
    PROVE  Spells(LastParamTree(t, at, path, w, route),
                  With(d, Len(t), d[at] + Len(t[at].path) + (w - 1)), With(v, Len(t), {route}),
                  H \cup {route}, 0, 0)
<1> DEFINE N == Len(t)
           n == t[at]
           m == AboveParam(n, path, w, N + 1)
           p == [ParamChild(path[w]) EXCEPT !.handle = route]
           x == [t EXCEPT ![at] = m]
           u == Append(x, p)
           e == d[at] + Len(n.path)
           y == e + (w - 1)
           f == With(d, N, y)
           g == With(v, N, {route})
           G == H \cup {route}
<1>1. t \in Seq(Node) /\ n \in Node /\ Hung(t) /\ N \in Nat /\ Len(path) \in Nat /\ w \in 1..Len(path)
  <2>1. Len(path) \in 1..Len(path)
    OBVIOUS
  <2> QED BY <2>1, Places DEF InShape
<1>2. /\ d[at] \in Nat /\ e \in Nat /\ route \in Seq(STRING) /\ Len(route) \in Nat
  BY <1>1, PlacedAt
<1>3. /\ m \in Node /\ m.nType = n.nType
  <2> DEFINE c == N + 1
  <2>1. c \in Nat /\ n \in Node /\ w \in 1..Len(path)
    BY <1>1
  <2> HIDE DEF c, n
  <2>2. AboveParam(n, path, w, c) \in Node /\ AboveParam(n, path, w, c).nType = n.nType
    BY <2>1, AboveParamIs, Zenon
  <2> QED BY <2>2 DEF c
<1>4. /\ p \in Node /\ p.children = <<>> /\ p.indices = <<>> /\ p.wildChild = FALSE
      /\ p.nType = "param" /\ p.path = <<path[w]>> /\ p.handle = route
  <2>1. path[w] \in STRING /\ 0 \in Nat /\ route \in Seq(STRING)
    BY <1>1, <1>2
  <2> QED BY <2>1, ParamChildIs, Zenon
<1>5. u = LastParamTree(t, at, path, w, route)
  BY <1>1 DEF LastParamTree
<1>6. m = AboveParam(t[at], path, w, Len(t) + 1)
  OBVIOUS
<1> HIDE DEF m, p
<1>7. x \in Seq(Node) /\ Len(x) = N /\ x[at] = m /\ \A i \in 1..N : i # at => x[i] = t[i]
  BY <1>1, <1>3, Put
<1> HIDE DEF x
<1>8. /\ u \in Seq(Node) /\ Len(u) = Len(x) + 1 /\ u[Len(x) + 1] = p
      /\ \A i \in 1..Len(x) : u[i] = x[i]
  BY <1>4, <1>7, PutLast
<1> HIDE DEF u
<1>9. /\ Len(u) = N + 1 /\ u[N + 1] = p /\ u[at] = m
      /\ \A i \in 1..N : i # at => u[i] = t[i]
  BY <1>7, <1>8
<1> HIDE DEF y
<1>10. /\ f[N + 1] = y /\ g[N + 1] = {route}
       /\ \A j \in 1..N : f[j] = d[j] /\ g[j] = v[j]
  <2> HIDE DEF N
  <2>0. N \in Nat
    BY <1>1
  <2>1. Extends(f, d, N, y)
    BY <2>0, WithExtends
  <2>2. Extends(g, v, N, {route})
    BY <2>0, WithExtends
  <2> HIDE DEF f, g
  <2> QED BY <2>1, <2>2 DEF Extends
<1> HIDE DEF f, g
<1>11. Within(H, G)
  BY DEF Within
<1>12. ASSUME NEW i \in 1..N, i # at PROVE NodeSpells(u, f, g, G, 0, 0, i) /\ Kinds(u, u[i])
  <2>1. \A k \in 1..Len(t) : k # at => SameNode(t[k], u[k])
    BY <1>9 DEF SameNode
  <2>2. SameKind(t[at], u[at]) /\ at \in {0, at} /\ 0 \in {0, at}
    BY <1>3, <1>9 DEF SameKind, Placing
  <2>3. Spells(t, d, v, H, 0, at)
    BY DEF Placing
  <2> HIDE DEF G
  <2> QED BY <1>1, <1>8, <1>10, <1>11, <1>12, <2>1, <2>2, <2>3, Elsewhere
<1>13. NodeSpells(u, f, g, G, 0, 0, at) /\ Kinds(u, u[at])
  <2>1. AboveAParam(u, at, Len(t), AboveParam(t[at], path, w, Len(t) + 1))
    BY <1>1, <1>4, <1>6, <1>9 DEF AboveAParam
  <2>2. At(f, at, Len(t), d[at], d[at] + Len(t[at].path) + (w - 1))
    BY <1>10 DEF y, At
  <2>3. At(g, at, Len(t), v[at], {route})
    BY <1>10 DEF At
  <2> HIDE DEF G, N, n, e
  <2> QED BY <1>1, <1>11, <2>1, <2>2, <2>3, AboveParamSpells
<1>14. NodeSpells(u, f, g, G, 0, 0, N + 1)
  <2>1. y \in Nat /\ y + 1 = e + Len(path)
    <3> DEFINE l == Len(path)
    <3>1. e \in Nat /\ l \in Nat /\ w = l /\ l >= 1 /\ y = e + (w - 1)
      BY <1>1, <1>2 DEF y
    <3> HIDE DEF l, e
    <3>2. y \in Nat /\ y + 1 = e + l
      BY <3>1
    <3> QED BY <3>2 DEF l
  <2>2. Len(route) = y + 1 /\ route[y + 1] = path[w]
    <3>1. Remains(path, e, route)
      BY DEF Placing
    <3> QED BY <1>1, <2>1, <3>1 DEF Remains
  <2>3. Len(p.path) = 1 /\ p.path[1] = path[w] /\ \A k \in 1..1 : k = 1
    BY <1>4
  <2>4. Spelt(p.path, y, route)
    BY <1>2, <2>1, <2>2, <2>3 DEF Spelt
  <2>5. \A k \in 1..Len(u[N + 1].children) : Hangs(u, f, g, N + 1, k)
    <3>1. Len(<<>>) = 0
      OBVIOUS
    <3> QED BY <1>4, <1>9, <3>1
  <2>6. route \in G /\ Len(route) > y
    BY <2>1, <2>2
  <2> HIDE DEF G
  <2> QED BY <1>2, <1>4, <1>9, <1>10, <2>1, <2>2, <2>3, <2>4, <2>5, <2>6, AloneSpells
<1>15. Kinds(u, u[N + 1])
  <2>1. Len(<<>>) = 0
    OBVIOUS
  <2>2. p.path[1] \in ParamTokens
    BY <1>4 DEF ParamNext
  <2> QED BY <1>4, <1>9, <2>1, <2>2 DEF Kinds
<1>16. f[1] = 0
  <2>1. 1 \in 1..N /\ d[1] = 0
    BY <1>1 DEF Placing, Spells
  <2> QED BY <1>10, <2>1
<1>17. \A j \in 1..N + 1 : j = N + 1 \/ j \in 1..N
  BY <1>1
<1>18. Spells(u, f, g, G, 0, 0)
  BY <1>9, <1>12, <1>13, <1>14, <1>15, <1>16, <1>17 DEF Spells
<1> QED BY <1>5, <1>18 DEF f, g, y

\* A node replaced and two more behind the others.
Planted(u, t, at, m, p, x) ==
    /\ u \in Seq(Node) /\ Len(u) = Len(t) + 1 + 1
    /\ u[at] = m /\ u[Len(t) + 1] = p /\ u[Len(t) + 1 + 1] = x
    /\ \A i \in 1..Len(t) : i # at => u[i] = t[i]

\* The values of a function and two more behind them.
TwoMore(f, d, n, x, y) == f[n + 1] = x /\ f[n + 1 + 1] = y /\ \A j \in 1..n : f[j] = d[j]

\* A node is replaced and two more follow.
LEMMA TwoAppended ==
    ASSUME NEW t \in Seq(Node), NEW at \in 1..Len(t), NEW m \in Node, NEW p \in Node, NEW x \in Node
    PROVE  Planted([t EXCEPT ![at] = m] \o <<p, x>>, t, at, m, p, x)
<1> DEFINE N == Len(t)
           v == [t EXCEPT ![at] = m]
           u == v \o <<p, x>>
<1>1. v \in Seq(Node) /\ Len(v) = N /\ v[at] = m /\ \A i \in 1..N : i # at => v[i] = t[i]
  BY Put
<1> HIDE DEF v
<1>2. /\ u \in Seq(Node) /\ Len(u) = Len(v) + 2 /\ u[Len(v) + 1] = p /\ u[Len(v) + 2] = x
      /\ \A i \in 1..Len(v) : u[i] = v[i]
  BY <1>1, PutTwo
<1> HIDE DEF u
<1>3. N \in Nat /\ N + 2 = N + 1 + 1
  OBVIOUS
<1>4. Planted(u, t, at, m, p, x)
  BY <1>1, <1>2, <1>3 DEF Planted
<1> QED BY <1>4 DEF u, v

\* A function can be extended by two values.
LEMMA ExtendedTwice ==
    ASSUME NEW d, NEW n \in Nat, NEW x, NEW y
    PROVE  \E f : TwoMore(f, d, n, x, y)
<1> DEFINE a == With(d, n, x)
           b == With(a, n + 1, y)
<1>1. Extends(a, d, n, x)
  BY WithExtends
<1> HIDE DEF a
<1>2. Extends(b, a, n + 1, y)
  BY WithExtends
<1> HIDE DEF b
<1>3. n + 1 \in 1..n + 1 /\ \A j \in 1..n : j \in 1..n + 1
  OBVIOUS
<1>4. TwoMore(b, d, n, x, y)
  BY <1>1, <1>2, <1>3 DEF Extends, TwoMore
<1> QED BY <1>4

\* A parameter in the middle of a route is spelt by its node, and the node after
\* it is the one where the rest is to be placed.
LEMMA ParamSpells ==
    ASSUME NEW t, InShape(t), NEW at \in 1..Len(t), NEW path \in Seq(STRING),
           NEW w \in 1..Len(path) - 1, path[w + 1] = Slash,
           NEW d, NEW v, NEW H, NEW route, Placing(t, d, v, H, at, path, route),
           ParamNext(t[at], path, w, v[at], route),
           NEW y, y = d[at] + Len(t[at].path) + (w - 1),
           NEW f, TwoMore(f, d, Len(t), y, y + 1), NEW g, TwoMore(g, v, Len(t), {route}, {route})
    PROVE  Placing(ParamTree(t, at, path, w), f, g, H, Len(t) + 1 + 1, From(path, w + 1), route)
<1> DEFINE N == Len(t)
           n == t[at]
           M == N + 1
           L == N + 1 + 1
           m == AboveParam(n, path, w, M)
           p == [ParamChild(path[w]) EXCEPT !.children = <<L>>]
           x == [EmptyNode EXCEPT !.priority = 1]
           u == ParamTree(t, at, path, w)
           e == d[at] + Len(n.path)
           rest == From(path, w + 1)
<1>1. /\ t \in Seq(Node) /\ n \in Node /\ Hung(t) /\ N \in Nat /\ Len(path) \in Nat
      /\ w \in 1..Len(path) /\ w + 1 \in 1..Len(path) /\ w + 1 \in 1..Len(path) + 1
  BY Places DEF InShape
<1>2. d[at] \in Nat /\ e \in Nat /\ route \in Seq(STRING) /\ Len(route) \in Nat /\ y = e + (w - 1)
  BY <1>1, PlacedAt
<1>3. M \in Nat /\ L \in Nat /\ L = M + 1 /\ M # L /\ at # M /\ at # L /\ L # 0 /\ M # 0
  BY <1>1
<1>4. /\ m \in Node /\ m.nType = n.nType
  <2>1. n \in Node /\ M \in Nat /\ w \in 1..Len(path)
    BY <1>1, <1>3
  <2> HIDE DEF M, n
  <2>2. AboveParam(n, path, w, M) \in Node /\ AboveParam(n, path, w, M).nType = n.nType
    BY <2>1, AboveParamIs, Zenon
  <2> QED BY <2>2
<1>5. /\ p \in Node /\ p.children = <<L>> /\ p.wildChild = FALSE
      /\ p.nType = "param" /\ p.path = <<path[w]>> /\ p.handle = NoHandle
      /\ x \in Node /\ Fresh(x)
  <2>1. path[w] \in STRING
    BY <1>1
  <2> HIDE DEF L
  <2> QED BY <1>2, <1>3, <2>1, ParamChildIs
<1>6. m = AboveParam(t[at], path, w, Len(t) + 1)
  OBVIOUS
<1>7. u = [t EXCEPT ![at] = m] \o <<p, x>>
  BY <1>1 DEF ParamTree
<1> HIDE DEF m, p, x, u
<1>8. Planted(u, t, at, m, p, x)
  BY <1>1, <1>4, <1>5, <1>7, TwoAppended
<1>9. /\ u \in Seq(Node) /\ Len(u) = L /\ u[M] = p /\ u[L] = x /\ u[at] = m
      /\ \A i \in 1..N : i # at => u[i] = t[i]
  BY <1>8 DEF Planted
<1>10. /\ f[M] = y /\ f[L] = y + 1 /\ g[M] = {route} /\ g[L] = {route}
       /\ \A j \in 1..N : f[j] = d[j] /\ g[j] = v[j]
  BY DEF TwoMore
<1>11. Within(H, H) /\ Spells(t, d, v, H, 0, at)
  BY DEF Within, Placing
<1>12. ASSUME NEW i \in 1..N, i # at PROVE NodeSpells(u, f, g, H, 0, L, i) /\ Kinds(u, u[i])
  <2>1. \A k \in 1..Len(t) : k # at => SameNode(t[k], u[k])
    BY <1>9 DEF SameNode
  <2>2. SameKind(t[at], u[at]) /\ at \in {0, at} /\ 0 \in {0, at}
    BY <1>4, <1>9, <1>11 DEF SameKind, ParamNext
  <2> HIDE DEF L
  <2> QED BY <1>1, <1>9, <1>10, <1>11, <1>12, <2>1, <2>2, Elsewhere
<1>13. NodeSpells(u, f, g, H, 0, L, at) /\ Kinds(u, u[at])
  <2>1. AboveAParam(u, at, Len(t), AboveParam(t[at], path, w, Len(t) + 1))
    BY <1>1, <1>5, <1>6, <1>9 DEF AboveAParam
  <2>2. At(f, at, Len(t), d[at], d[at] + Len(t[at].path) + (w - 1))
    BY <1>10 DEF At
  <2>3. At(g, at, Len(t), v[at], {route})
    BY <1>10 DEF At
  <2> HIDE DEF L, N, n, e
  <2> QED BY <1>1, <1>11, <2>1, <2>2, <2>3, AboveParamSpells
<1>14. Remains(path, e, route)
  BY DEF Placing
<1> HIDE DEF e
<1>15. /\ y \in Nat /\ y + 1 = e + w /\ Len(route) = e + Len(path) /\ Len(route) > y + 1
       /\ route[y + 1] = path[w] /\ route[y + 1 + 1] = Slash
  <2>1. y \in Nat /\ y + 1 = e + w /\ y + 1 + 1 = e + (w + 1)
    <3>1. e \in Nat /\ y = e + (w - 1)
      BY <1>2
    <3>2. w \in Nat /\ w >= 1
      BY <1>1
    <3> QED BY <3>1, <3>2
  <2>2. Len(route) = e + Len(path) /\ route[e + w] = path[w] /\ route[e + (w + 1)] = path[w + 1]
    BY <1>1, <1>14 DEF Remains
  <2>3. route[y + 1] = path[w] /\ route[y + 1 + 1] = Slash
    BY <2>1, <2>2
  <2>4. e + Len(path) > e + w
    BY <1>1, <1>2
  <2> QED BY <2>1, <2>2, <2>3, <2>4
<1>16. NodeSpells(u, f, g, H, 0, L, M)
  <2>1. Len(p.path) = 1 /\ p.path[1] = path[w] /\ \A k \in 1..1 : k = 1
    BY <1>5
  <2>2. Spelt(p.path, y, route)
    BY <1>2, <1>15, <2>1 DEF Spelt
  <2>3. Len(p.children) = 1 /\ p.children[1] = L /\ 1 \in 1..1
    BY <1>5
  <2>4. Hangs(u, f, g, M, 1)
    <3>1. Key(p, 1) = Slash
      BY <1>5 DEF Key
    <3>2. f[L] = f[M] + Len(p.path) /\ g[L] \subseteq g[M]
      BY <1>10, <2>1
    <3>3. \A r \in g[L] : r[f[L] + 1] = Key(p, 1)
      BY <1>10, <1>15, <3>1
    <3> QED BY <1>9, <2>3, <3>2, <3>3 DEF Hangs
  <2>5. \A k \in 1..Len(u[M].children) : Hangs(u, f, g, M, k)
    BY <1>9, <2>1, <2>3, <2>4
  <2>6. \E k \in 1..Len(u[M].children) : route \in g[u[M].children[k]]
    BY <1>9, <1>10, <2>3
  <2>7. Len(route) > y
    BY <1>2, <1>15
  <2> HIDE DEF M, L
  <2> QED BY <1>2, <1>5, <1>9, <1>10, <1>15, <2>2, <2>5, <2>6, <2>7, AloneSpells
<1>17. /\ x.path = <<>> /\ x.indices = <<>> /\ x.children = <<>> /\ ~x.wildChild
       /\ x.nType = "static" /\ x.handle = NoHandle
  BY <1>5 DEF Fresh
<1>18. Len(<<>>) = 0
  OBVIOUS
<1>19. route \notin H
  BY DEF Placing
<1>20. NodeSpells(u, f, g, H, 0, L, L)
  <2>1. Spelt(x.path, y + 1, route)
    BY <1>2, <1>15, <1>17, <1>18 DEF Spelt
  <2>2. \A k \in 1..Len(u[L].children) : Hangs(u, f, g, L, k)
    BY <1>9, <1>17, <1>18
  <2> DEFINE z == y + 1
  <2>3. z \in Nat /\ Len(route) > z /\ Spelt(x.path, z, route) /\ f[L] = z
    BY <1>10, <1>15, <2>1
  <2> HIDE DEF M, L, z
  <2> QED BY <1>2, <1>9, <1>10, <1>17, <1>19, <2>2, <2>3, AloneSpells
<1>21. Kinds(u, u[M])
  <2>1. p.path[1] \in ParamTokens
    BY <1>5 DEF ParamNext
  <2>2. Len(p.children) = 1 /\ p.children[1] = L /\ \A k \in 1..1 : k = 1
    BY <1>5
  <2>3. p.indices = <<>>
    BY <1>1, <1>5 DEF p, ParamChild, EmptyNode
  <2>4. /\ u[M].nType = "param" /\ ~u[M].wildChild /\ u[M].path[1] \in ParamTokens
        /\ Len(u[M].children) = 1 /\ u[M].children[1] = L /\ u[M].indices = <<>>
        /\ u[L].nType # "catchAll" /\ Len(<<>>) = 0
    BY <1>5, <1>9, <1>17, <1>18, <2>1, <2>2, <2>3
  <2> HIDE DEF M, L
  <2> QED BY <2>2, <2>4 DEF Kinds
<1>22. Kinds(u, u[L])
  BY <1>9, <1>17, <1>18 DEF Kinds
<1>23. f[1] = 0
  <2>1. 1 \in 1..N /\ d[1] = 0
    BY <1>1, <1>11 DEF Spells
  <2> QED BY <1>10, <2>1
<1>24. \A j \in 1..L : j = L \/ j = M \/ j \in 1..N
  BY <1>1
<1>25. Spells(u, f, g, H, 0, L)
  <2> HIDE DEF L, M
  <2> QED BY <1>9, <1>12, <1>13, <1>16, <1>20, <1>21, <1>22, <1>23, <1>24 DEF Spells
<1>26. Remains(rest, f[L] + Len(u[L].path), route)
  <2>1. /\ Len(rest) = Len(path) - (w + 1) + 1
        /\ \A k \in 1..Len(path) - (w + 1) + 1 : rest[k] = path[(w + 1) + k - 1]
    BY <1>1, TailOf
  <2> HIDE DEF rest
  <2>2. /\ Len(path) - (w + 1) + 1 = Len(path) - w
        /\ \A k \in 1..Len(path) - w : /\ (w + 1) + k - 1 = w + k /\ w + k \in 1..Len(path)
                                       /\ e + (w + k) = (e + w) + k
    BY <1>1, <1>2
  <2>3. f[L] + Len(u[L].path) = e + w
    BY <1>9, <1>10, <1>15, <1>17, <1>18
  <2>4. Len(route) = (e + w) + Len(rest)
    BY <1>1, <1>2, <1>15, <2>1, <2>2
  <2>5. ASSUME NEW k \in 1..Len(rest) PROVE rest[k] = route[(e + w) + k]
    <3>1. /\ k \in 1..Len(path) - (w + 1) + 1 /\ (w + 1) + k - 1 = w + k
          /\ w + k \in 1..Len(path) /\ e + (w + k) = (e + w) + k
      BY <2>1, <2>2
    <3>2. path[w + k] = route[e + (w + k)]
      BY <1>14, <3>1 DEF Remains
    <3> QED BY <2>1, <3>1, <3>2
  <2> QED BY <1>2, <2>3, <2>4, <2>5 DEF Remains
<1>27. /\ g[L] \subseteq H \cup {route} /\ route \in g[L] /\ route \notin H
       /\ u[L].nType # "catchAll"
  BY <1>9, <1>10, <1>17, <1>19
<1>28. Placing(u, f, g, H, L, rest, route)
  <2> HIDE DEF L, rest
  <2> QED BY <1>25, <1>26, <1>27 DEF Placing
<1> QED BY <1>28 DEF u

\* The nodes of a catch-all spell the end of the route it is in.
LEMMA CatchAllSpells ==
    ASSUME NEW t, InShape(t), NEW at \in 1..Len(t), Fresh(t[at]), NEW path \in Seq(STRING),
           Len(path) > 1, path[Len(path) - 1] = Slash, path[Len(path)] \in CatchAlls,
           \A k \in 1..Len(path) - 1 : path[k] \notin Wildcards,
           NEW d, NEW v, NEW H, NEW route, Placing(t, d, v, H, at, path, route), v[at] = {route},
           NEW y, y = d[at] + (Len(path) - 2),
           NEW f, TwoMore(f, d, Len(t), y, y), NEW g, TwoMore(g, v, Len(t), {route}, {route})
    PROVE  Spells(CatchAllTree(t, at, path, route), f, g, H \cup {route}, 0, 0)
<1> DEFINE N == Len(t)
           n == t[at]
           M == N + 1
           L == N + 1 + 1
           l == Len(path)
           a == UpTo(path, l - 2)
           b == From(path, l - 1)
           m == AboveCatchAll(n, path, M)
           p == Marker(L)
           x == CatchAllLeaf(path, route)
           u == CatchAllTree(t, at, path, route)
           e == d[at]
           G == H \cup {route}
<1>1. /\ t \in Seq(Node) /\ n \in Node /\ Hung(t) /\ N \in Nat /\ l \in Nat /\ l > 1
      /\ l - 2 \in 0..l /\ l - 1 \in 1..l /\ l - 1 \in 1..l + 1
  BY Places DEF InShape
<1>2. e \in Nat /\ route \in Seq(STRING) /\ Len(route) \in Nat /\ e + Len(n.path) = e
  BY <1>1, PlacedAt DEF Fresh
<1>3. M \in Nat /\ L \in Nat /\ L = M + 1 /\ M # L /\ at # M /\ at # L /\ L # 0 /\ M # 0
  BY <1>1
<1>4. IsAboveCatchAll(m, M, path[1]) /\ IsMarker(p, L) /\ IsCatchAllLeaf(x, route)
  <2> HIDE DEF M, L
  <2>1. IsAboveCatchAll(AboveCatchAll(n, path, M), M, path[1])
    BY <1>1, <1>2, <1>3, CatchAllNodesAre
  <2>2. IsMarker(Marker(L), L) /\ IsCatchAllLeaf(CatchAllLeaf(path, route), route)
    BY <1>1, <1>2, <1>3, CatchAllNodesAre
  <2> QED BY <2>1, <2>2
<1>5. m.path = a /\ x.path = b
  BY <1>1, EmptyNodeIs DEF AboveCatchAll, CatchAllLeaf, Node
<1>6. p.indices = <<>>
  BY EmptyNodeIs DEF Marker, Node
<1>7. u = [t EXCEPT ![at] = m] \o <<p, x>>
  BY <1>1 DEF CatchAllTree, Marker, CatchAllLeaf
<1> HIDE DEF m, p, x, u
<1>8. /\ m \in Node /\ m.children = <<M>> /\ m.indices = <<Slash>>
      /\ m.wildChild = FALSE /\ m.nType = "static" /\ m.handle = NoHandle
      /\ p \in Node /\ p.children = <<L>> /\ p.wildChild = TRUE /\ p.path = <<>>
      /\ p.nType = "catchAll" /\ p.handle = NoHandle
      /\ x \in Node /\ x.children = <<>> /\ x.indices = <<>> /\ x.wildChild = FALSE
      /\ x.nType = "catchAll" /\ x.handle = route
  BY <1>4 DEF IsAboveCatchAll, IsMarker, IsCatchAllLeaf
<1>9. Planted(u, t, at, m, p, x)
  BY <1>1, <1>7, <1>8, TwoAppended
<1>10. /\ u \in Seq(Node) /\ Len(u) = L /\ u[M] = p /\ u[L] = x /\ u[at] = m
       /\ \A i \in 1..N : i # at => u[i] = t[i]
  BY <1>9 DEF Planted
<1>11. /\ f[M] = y /\ f[L] = y /\ g[M] = {route} /\ g[L] = {route}
       /\ \A j \in 1..N : f[j] = d[j] /\ g[j] = v[j]
  BY DEF TwoMore
<1>12. Within(H, G) /\ Spells(t, d, v, H, 0, at)
  BY DEF Within, Placing
<1>13. ASSUME NEW i \in 1..N, i # at PROVE NodeSpells(u, f, g, G, 0, 0, i) /\ Kinds(u, u[i])
  <2>1. \A k \in 1..Len(t) : k # at => SameNode(t[k], u[k])
    BY <1>10 DEF SameNode
  <2>2. SameKind(t[at], u[at]) /\ at \in {0, at} /\ 0 \in {0, at}
    BY <1>8, <1>10 DEF SameKind, Fresh
  <2> HIDE DEF L, G
  <2> QED BY <1>1, <1>10, <1>11, <1>12, <1>13, <2>1, <2>2, Elsewhere
<1>14. Remains(path, e, route)
  BY <1>2 DEF Placing
<1>15. Len(a) = l - 2 /\ \A k \in 1..l - 2 : a[k] = path[k]
  BY <1>1, HeadOf
<1>16. Len(b) = 2 /\ b[1] = path[l - 1] /\ b[2] = path[l]
  <2>1. Len(b) = l - (l - 1) + 1 /\ \A k \in 1..l - (l - 1) + 1 : b[k] = path[(l - 1) + k - 1]
    BY <1>1, TailOf
  <2> HIDE DEF b, l
  <2>2. l - (l - 1) + 1 = 2 /\ 1 \in 1..2 /\ 2 \in 1..2 /\ (l - 1) + 1 - 1 = l - 1 /\ (l - 1) + 2 - 1 = l
    BY <1>1
  <2> QED BY <2>1, <2>2
<1> HIDE DEF a, b
<1>17. /\ y \in Nat /\ Len(route) = y + 2 /\ Len(route) > y /\ Len(route) > e
       /\ route[y + 1] = Slash /\ route[y + 2] = path[l]
  <2>0. path[l - 1] = Slash /\ y = e + (l - 2)
    OBVIOUS
  <2>1. Len(route) = e + l /\ \A k \in 1..l : path[k] = route[e + k]
    BY <1>14 DEF Remains
  <2> HIDE DEF l, e
  <2>2. y \in Nat /\ y + 1 = e + (l - 1) /\ y + 2 = e + l /\ l - 1 \in 1..l /\ l \in 1..l /\ y + 2 > e
    BY <1>1, <1>2, <2>0
  <2>3. y + 2 > y
    BY <2>2
  <2> QED BY <2>0, <2>1, <2>2, <2>3
<1>18. route \in G
  OBVIOUS
<1>19. Len(<<>>) = 0
  OBVIOUS
<1> HIDE DEF G
<1>20. NodeSpells(u, f, g, G, 0, 0, at)
  <2>1. Spelt(m.path, e, route)
    <3>1. e + Len(a) <= Len(route)
      BY <1>1, <1>2, <1>14, <1>15 DEF Remains
    <3>2. \A k \in 1..Len(a) : k \in 1..l /\ a[k] = route[e + k]
      BY <1>1, <1>14, <1>15 DEF Remains
    <3> QED BY <1>2, <1>5, <3>1, <3>2 DEF Spelt
  <2>2. Len(m.children) = 1 /\ m.children[1] = M /\ 1 \in 1..1 /\ \A k \in 1..1 : k = 1
    BY <1>8
  <2>3. Hangs(u, f, g, at, 1)
    <3>1. Key(m, 1) = Slash
      BY <1>8 DEF Key
    <3>2. f[M] = f[at] + Len(m.path) /\ g[M] \subseteq g[at]
      BY <1>5, <1>11, <1>15
    <3>3. \A r \in g[M] : r[f[M] + 1] = Key(m, 1)
      BY <1>11, <1>17, <3>1
    <3> QED BY <1>10, <2>2, <3>2, <3>3 DEF Hangs
  <2>4. \A k \in 1..Len(u[at].children) : Hangs(u, f, g, at, k)
    BY <1>10, <2>2, <2>3
  <2>5. \E k \in 1..Len(u[at].children) : route \in g[u[at].children[k]]
    BY <1>10, <1>11, <2>2
  <2>6. f[at] = e /\ g[at] = {route} /\ u[at].path = m.path /\ u[at].handle = NoHandle
    BY <1>8, <1>10, <1>11
  <2> HIDE DEF M, L
  <2> QED BY <1>2, <1>17, <2>1, <2>4, <2>5, <2>6, AloneSpells
<1>21. NodeSpells(u, f, g, G, 0, 0, M)
  <2>1. Spelt(p.path, y, route)
    BY <1>2, <1>8, <1>17, <1>19 DEF Spelt
  <2>2. Len(p.children) = 1 /\ p.children[1] = L /\ 1 \in 1..1 /\ \A k \in 1..1 : k = 1
    BY <1>8
  <2>3. Hangs(u, f, g, M, 1)
    <3>1. f[L] = f[M] + Len(p.path) /\ g[L] \subseteq g[M]
      BY <1>8, <1>11, <1>17, <1>19
    <3> QED BY <1>8, <1>10, <2>2, <3>1 DEF Hangs
  <2>4. \A k \in 1..Len(u[M].children) : Hangs(u, f, g, M, k)
    BY <1>10, <2>2, <2>3
  <2>5. \E k \in 1..Len(u[M].children) : route \in g[u[M].children[k]]
    BY <1>10, <1>11, <2>2
  <2> HIDE DEF M, L
  <2> QED BY <1>2, <1>8, <1>10, <1>11, <1>17, <2>1, <2>4, <2>5, AloneSpells
<1>22. NodeSpells(u, f, g, G, 0, 0, L)
  <2>1. Spelt(x.path, y, route)
    <3>1. \A k \in 1..2 : k = 1 \/ k = 2
      OBVIOUS
    <3>2. path[l - 1] = Slash /\ y + 2 >= y + 2
      BY <1>17
    <3> QED BY <1>5, <1>16, <1>17, <3>1, <3>2 DEF Spelt
  <2>2. \A k \in 1..Len(u[L].children) : Hangs(u, f, g, L, k)
    BY <1>8, <1>10, <1>19
  <2>3. Len(route) = y + Len(u[L].path)
    BY <1>5, <1>10, <1>16, <1>17
  <2>4. /\ g[L] = {route} /\ f[L] = y /\ u[L].path = x.path /\ u[L].handle = route
        /\ route \in Seq(STRING)
    BY <1>2, <1>8, <1>10, <1>11
  <2> HIDE DEF M, L
  <2> QED BY <1>17, <1>18, <2>1, <2>2, <2>3, <2>4, AloneSpells
<1>23. Kinds(u, u[at])
  <2>1. \A k \in 1..Len(m.path) : m.path[k] \notin Wildcards
    <3>1. \A k \in 1..l - 2 : k \in 1..l - 1
      BY <1>1
    <3> QED BY <1>5, <1>15, <3>1
  <2>2. Len(m.children) = 1 /\ m.children[1] = M /\ Len(m.indices) = 1 /\ m.indices[1] = Slash /\ \A k \in 1..1 : k = 1
    BY <1>8
  <2>3. Slash \notin Wildcards
    BY TokensDisjoint
  <2>4. u[at] = m /\ u[M].nType = "catchAll" /\ u[M].wildChild = TRUE
    BY <1>8, <1>10
  <2> HIDE DEF M, L
  <2> QED BY <1>8, <2>1, <2>2, <2>3, <2>4 DEF Kinds
<1>24. Kinds(u, u[M])
  <2>1. Len(p.children) = 1 /\ p.children[1] = L /\ \A k \in 1..1 : k = 1
    BY <1>8
  <2>2. u[M] = p /\ u[L].nType = "catchAll" /\ u[L].wildChild = FALSE
    BY <1>8, <1>10
  <2> HIDE DEF M, L
  <2> QED BY <1>6, <1>8, <1>19, <2>1, <2>2 DEF Kinds
<1>25. Kinds(u, u[L])
  <2>1. Len(x.path) = 2 /\ x.path[1] = Slash /\ x.path[2] \in CatchAlls
    BY <1>5, <1>16
  <2>2. u[L] = x
    BY <1>10
  <2> HIDE DEF M, L
  <2> QED BY <1>8, <1>19, <2>1, <2>2 DEF Kinds
<1>26. f[1] = 0
  <2>1. 1 \in 1..N /\ d[1] = 0
    BY <1>1, <1>12 DEF Spells
  <2> QED BY <1>11, <2>1
<1>27. \A j \in 1..L : j = L \/ j = M \/ j \in 1..N
  <2>1. N \in Nat
    BY <1>1
  <2> HIDE DEF N
  <2> QED BY <2>1
<1>28. Spells(u, f, g, G, 0, 0)
  <2> HIDE DEF L, M
  <2> QED BY <1>10, <1>13, <1>20, <1>21, <1>22, <1>23, <1>24, <1>25, <1>26, <1>27 DEF Spells
<1> QED BY <1>28 DEF u, G

-----------------------------------------------------------------------------
(* What a tree may be told *)

\* Two routes part after e tokens: they differ next, or one of them ends.
Parted(r, s, e) ==
    /\ r \in Seq(STRING) /\ s \in Seq(STRING) /\ e \in Nat /\ e <= Len(r) /\ e <= Len(s)
    /\ Share(r, s, e) /\ (e = Len(r) \/ e = Len(s) \/ r[e + 1] # s[e + 1])

\* Where they part decides whether two routes are in conflict.
LEMMA ConflictAt ==
    ASSUME NEW r, NEW s, NEW e, Parted(r, s, e)
    PROVE  Conflict(r, s) <=>
               \/ r = s
               \/ e < Len(r) /\ e < Len(s) /\ (r[e + 1] \in Wildcards \/ s[e + 1] \in Wildcards)
               \/ e < Len(r) /\ r[e + 1] \in CatchAlls
               \/ e < Len(s) /\ s[e + 1] \in CatchAlls
<1> DEFINE l == Len(LongestCommonPrefix({r, s}))
<1>1. /\ r \in Seq(STRING) /\ s \in Seq(STRING) /\ e \in Nat /\ e <= Len(r) /\ e <= Len(s)
      /\ Share(r, s, e) /\ (e = Len(r) \/ e = Len(s) \/ r[e + 1] # s[e + 1])
      /\ Len(r) \in Nat /\ Len(s) \in Nat
  BY DEF Parted
<1>2. /\ l \in 0..Len(r) /\ l <= Len(s)
      /\ \A k \in 1..l : r[k] = s[k]
      /\ \A d \in 0..Len(r) : d <= Len(s) /\ (\A k \in 1..d : r[k] = s[k]) => d <= l
  BY <1>1, CommonLength
<1>3. Conflict(r, s) <=>
          \/ r = s
          \/ l < Len(r) /\ l < Len(s) /\ (r[l + 1] \in Wildcards \/ s[l + 1] \in Wildcards)
          \/ l < Len(r) /\ r[l + 1] \in CatchAlls
          \/ l < Len(s) /\ s[l + 1] \in CatchAlls
  <2> HIDE DEF l
  <2>1. Conflict(r, s) <=>
            \/ r = s
            \/ l < Len(r) /\ l < Len(s) /\ ((l < Len(r) /\ r[l + 1] \in Wildcards) \/ (l < Len(s) /\ s[l + 1] \in Wildcards))
            \/ \E p \in {r, s} : l < Len(p) /\ p[l + 1] \in CatchAlls
    BY DEF Conflict, l
  <2> QED BY <2>1
<1> HIDE DEF l
<1>4. l = e
  <2>1. e <= l
    BY <1>1, <1>2 DEF Share
  <2>2. ~(e < l)
    <3> SUFFICES ASSUME e < l PROVE FALSE
      OBVIOUS
    <3>1. e + 1 \in 1..l /\ e # Len(r) /\ e # Len(s)
      BY <1>1, <1>2
    <3> QED BY <1>1, <1>2, <3>1
  <2> QED BY <1>1, <1>2, <2>1, <2>2
<1> QED BY <1>3, <1>4

\* A token of a route that the router can hold.
FineAt(route, k) ==
    /\ route[k] \notin Unnamed
    /\ (route[k] \in Wildcards /\ k < Len(route)) => route[k + 1] = Slash
    /\ route[k] \in CatchAlls => k = Len(route) /\ route[k - 1] = Slash
Fine(route, e) == \A k \in 1..e : FineAt(route, k)

\* The routes a tree holds, and one that it can take.
Held(H) == \A r \in H : r \in Seq(STRING) /\ r # <<>> /\ r[1] = Slash /\ Valid(r)
Welcome(route, H) == Valid(route) /\ \A r \in H : ~Conflict(route, r)

\* What is known of every set of routes through a node: through the root go all.
Through(v, n, G) == v[1] = G /\ \A i \in 1..n : v[i] # {} /\ v[i] \subseteq G

\* Only routes that go through the node may still be in conflict.
Rivals(v, at, H, route) == \A r \in H : r \in v[at] \/ ~Conflict(route, r)

\* The walk is at a node, before its path ...
WalkSpells(t, at, path, d, v, H, route) ==
    /\ Spells(t, d, v, H, at, at) /\ Used(t, v, H) /\ Through(v, Len(t), H \cup {route})
    /\ route \in v[at] /\ Rivals(v, at, H, route)
    /\ Remains(path, d[at], route) /\ Fine(route, d[at])
    /\ t[at].nType = "catchAll" => t[at].wildChild

\* ... and behind it.
PassSpells(t, at, path, d, v, H, route) ==
    /\ Spells(t, d, v, H, 0, at) /\ Used(t, v, H) /\ Through(v, Len(t), H \cup {route})
    /\ route \in v[at] /\ Rivals(v, at, H, route)
    /\ Remains(path, d[at] + Len(t[at].path), route) /\ Fine(route, d[at] + Len(t[at].path))
    /\ t[at].nType = "catchAll" => t[at].wildChild

\* The rest of the route is to be placed below a node.
InsertSpells(t, at, path, d, v, H, route) ==
    /\ Placing(t, d, v, H, at, path, route) /\ Through(v, Len(t), H \cup {route})
    /\ Rivals(v, at, H, route) /\ Fine(route, d[at] + Len(t[at].path)) /\ ~t[at].wildChild
    /\ IF path[1] \in Wildcards THEN Used(t, v, H) ELSE v[at] = {route}

\* A tree between registrations spells the routes it holds.
SpelledOut(t, H) == \E d, v : Spells(t, d, v, H, 0, 0) /\ Through(v, Len(t), H)

\* The wildcards that begin a parameter begin no catch-all.
Distinct == ParamTokens \cap CatchAlls = {} /\ Slash \notin Wildcards

\* Below a node without a wildcard the markers of catch-alls hang on a '/', and
\* below one without a path there is nothing else.
Chained(t) == \A i \in 1..Len(t) : ~t[i].wildChild =>
    \A k \in 1..Len(t[i].children) :
        LET c == t[t[i].children[k]]
        IN  /\ t[i].path = <<>> => Marks(c)
            /\ c.nType = "catchAll" => Key(t[i], k) = Slash

\* A tree in which routes are looked up, perhaps one that a registration left
\* half-way, with what is above its nodes and the held routes through them.
Telling(t, d, v, H) ==
    /\ InShape(t) /\ Chained(t) /\ Spells(t, d, v, H, 0, 0) /\ Distinct
    /\ v[1] = H /\ \A i \in 1..Len(t) : v[i] \subseteq H
Tells(t, H) == \E d, v : Telling(t, d, v, H)

\* What is behind a marker is the '/' before the catch-all.
LEMMA SlashBehindMarker ==
    ASSUME NEW t, InShape(t), NEW d, NEW v, NEW H, NEW stop, Spells(t, d, v, H, 0, stop),
           NEW c \in 1..Len(t), t[c].nType = "catchAll", t[c].wildChild,
           NEW r \in v[c], c # stop \/ r \in H
    PROVE  r[d[c] + 1] = Slash
<1>1. t \in Seq(Node) /\ Hung(t) /\ c # 0
  <2>1. t \in Seq(Node) /\ Hung(t)
    BY DEF InShape
  <2> QED BY <2>1, Places
<1>2. NodeSpells(t, d, v, H, 0, stop, c) /\ Kinds(t, t[c])
  BY DEF Spells
<1>3. Follows(t, d, v, H, 0, stop, c, r) /\ d[c] \in Nat /\ Ends(t, d, v, H, c)
  BY <1>2 DEF NodeSpells
<1>4. t[c].path = <<>> /\ Len(<<>>) = 0
  BY <1>2 DEF Kinds
<1>5. r # t[c].handle
  <2> SUFFICES ASSUME r = t[c].handle PROVE FALSE
    OBVIOUS
  <2>1. Len(r) > d[c] /\ r # NoHandle
    BY <1>3 DEF Follows, NoHandle
  <2> QED BY <1>3, <1>4, <2>1 DEF Ends
<1>6. PICK k \in 1..Len(t[c].children) : r \in v[t[c].children[k]]
  BY <1>1, <1>3, <1>5 DEF Follows
<1> DEFINE b == t[c].children[k]
<1>7. b \in 1..Len(t) /\ b # 0
  <2>1. b \in 2..Len(t) /\ b \in 1..Len(t)
    BY <1>1, ChildrenInRange
  <2> QED BY <2>1
<1>8. t[b].nType = "catchAll" /\ ~t[b].wildChild
  BY <1>2 DEF Kinds
<1>9. d[b] = d[c] /\ r \in v[b]
  <2>1. d[b] = d[c] + Len(t[c].path)
    BY <1>2 DEF NodeSpells, Hangs
  <2> QED BY <1>3, <1>4, <1>6, <2>1
<1> HIDE DEF b
<1>10. NodeSpells(t, d, v, H, 0, stop, b) /\ Kinds(t, t[b])
  BY <1>7 DEF Spells
<1>11. Len(t[b].path) = 2 /\ t[b].path[1] = Slash
  BY <1>8, <1>10 DEF Kinds
<1>12. Spelt(t[b].path, d[b], r)
  BY <1>7, <1>9, <1>10 DEF NodeSpells, Follows
<1> QED BY <1>9, <1>11, <1>12 DEF Spelt

\* A registration under way tells of the held routes what it told before: only
\* what is exempt is not spelled, and that is the route being added.
LEMMA StillTells ==
    ASSUME NEW t, InShape(t), NEW fresh, NEW c, Linked(t, fresh, c), Distinct,
           NEW d, NEW v, NEW H, NEW stop, Spells(t, d, v, H, 0, stop), H \subseteq v[1],
           \A i \in 1..Len(t) : t[i].nType = "catchAll" => \E r \in v[i] : i # stop \/ r \in H
    PROVE  Tells(t, H)
<1> DEFINE w == [i \in 1..Len(t) |-> v[i] \cap H]
<1>1. t \in Seq(Node) /\ Hung(t) /\ DOMAIN t = 1..Len(t) /\ 1 \in 1..Len(t) /\ Len(t) \in Nat
  <2>1. t \in Seq(Node) /\ Hung(t) /\ t # <<>>
    BY DEF InShape
  <2> QED BY <2>1, Places
<1>2. ASSUME NEW i \in 1..Len(t)
      PROVE  /\ NodeSpells(t, d, v, H, 0, stop, i) /\ Kinds(t, t[i]) /\ i # 0 /\ w[i] = v[i] \cap H
             /\ \A k \in 1..Len(t[i].children) :
                    /\ t[i].children[k] \in 1..Len(t)
                    /\ w[t[i].children[k]] = v[t[i].children[k]] \cap H
  <2>1. NodeSpells(t, d, v, H, 0, stop, i) /\ Kinds(t, t[i]) /\ i # 0 /\ w[i] = v[i] \cap H
    BY <1>1 DEF Spells
  <2>2. \A k \in 1..Len(t[i].children) : t[i].children[k] \in 1..Len(t)
    BY <1>1, ChildrenInRange
  <2> QED BY <2>1, <2>2
<1> HIDE DEF w
<1>3. Chained(t)
  <2> SUFFICES ASSUME NEW i \in 1..Len(t), ~t[i].wildChild, NEW k \in 1..Len(t[i].children)
               PROVE  /\ t[i].path = <<>> => Marks(t[t[i].children[k]])
                      /\ t[t[i].children[k]].nType = "catchAll" => Key(t[i], k) = Slash
    BY DEF Chained
  <2>1. LinkedAt(t, t[i], fresh, c) /\ k \in DOMAIN t[i].children
    BY <1>1, ChildrenInRange DEF Linked
  <2>2. ASSUME t[t[i].children[k]].nType = "catchAll" PROVE Key(t[i], k) = Slash
    <3> DEFINE b == t[i].children[k]
    <3>1. b \in 1..Len(t) /\ Hangs(t, d, v, i, k) /\ Kinds(t, t[i])
      BY <1>2 DEF NodeSpells
    <3>2. t[b].nType = "catchAll" /\ t[b].wildChild
      BY <2>2, <3>1 DEF Kinds
    <3>3. \A r \in v[b] : r[d[b] + 1] = Key(t[i], k)
      BY <3>1 DEF Hangs
    <3> HIDE DEF b
    <3>4. PICK r \in v[b] : b # stop \/ r \in H
      BY <3>1, <3>2
    <3>5. r[d[b] + 1] = Slash
      BY <3>1, <3>2, <3>4, SlashBehindMarker
    <3> QED BY <3>3, <3>4, <3>5
  <2> QED BY <2>1, <2>2 DEF LinkedAt
<1>4. ASSUME NEW i \in 1..Len(t) PROVE NodeSpells(t, d, w, H, 0, 0, i)
  <2>1. Ends(t, d, w, H, i) /\ d[i] \in Nat
    BY <1>2 DEF NodeSpells, Ends
  <2>2. ASSUME NEW r \in w[i] PROVE Follows(t, d, w, H, 0, 0, i, r)
    <3>1. Follows(t, d, v, H, 0, stop, i, r) /\ r \in H /\ i # 0
      BY <1>2 DEF NodeSpells
    <3>2. \A k \in 1..Len(t[i].children) : r \in v[t[i].children[k]] => r \in w[t[i].children[k]]
      BY <1>2, <3>1
    <3> QED BY <3>1, <3>2 DEF Follows
  <2>3. \A r, s \in w[i] : Share(r, s, d[i] + 1)
    BY <1>2 DEF NodeSpells
  <2>4. ASSUME NEW k \in 1..Len(t[i].children) PROVE Hangs(t, d, w, i, k)
    <3>1. Hangs(t, d, v, i, k)
      BY <1>2 DEF NodeSpells
    <3>2. w[t[i].children[k]] = v[t[i].children[k]] \cap H /\ w[i] = v[i] \cap H
      BY <1>2
    <3> QED BY <3>1, <3>2 DEF Hangs
  <2> QED BY <2>1, <2>2, <2>3, <2>4 DEF NodeSpells
<1>5. Spells(t, d, w, H, 0, 0)
  BY <1>2, <1>4 DEF Spells
<1>6. w[1] = H /\ \A i \in 1..Len(t) : w[i] \subseteq H
  <2>1. w[1] = v[1] \cap H /\ \A i \in 1..Len(t) : w[i] = v[i] \cap H
    BY <1>1, <1>2
  <2>2. v[1] \cap H = H
    OBVIOUS
  <2> QED BY <2>1, <2>2
<1> QED BY <1>3, <1>5, <1>6 DEF Telling, Tells

\* What a registration under way tells of its route, and with which answer it ends.
Told(s, H, route) ==
    /\ s.phase = "walk" => \E d, v : WalkSpells(s.tree, s.at, s.path, d, v, H, route)
    /\ s.phase = "insert" => \E d, v : InsertSpells(s.tree, s.at, s.path, d, v, H, route)
    /\ s.phase = "done" => Welcome(route, H) /\ SpelledOut(s.tree, H \cup {route})
    /\ s.phase = "panic" => ~Welcome(route, H) /\ Tells(s.tree, H)

\* A route is welcome when its tokens are and it conflicts with none of its rivals.
LEMMA Welcomed ==
    ASSUME NEW v, NEW at, NEW H, NEW route, Fine(route, Len(route)), Rivals(v, at, H, route),
           \A r \in v[at] \cap H : ~Conflict(route, r)
    PROVE  Welcome(route, H)
<1>1. Valid(route)
  BY DEF Fine, FineAt, Valid
<1> QED BY <1>1 DEF Welcome, Rivals

\* A route with a token that the router cannot hold is not welcome.
LEMMA Unwelcome ==
    ASSUME NEW H, NEW route, NEW k \in 1..Len(route), ~FineAt(route, k)
    PROVE  ~Welcome(route, H)
BY DEF FineAt, Welcome, Valid

\* A token that is no wildcard is fine.
LEMMA StaticIsFine ==
    ASSUME NEW route, NEW k, route[k] \notin Wildcards, route[k] \notin Unnamed
    PROVE  FineAt(route, k)
BY DEF FineAt, Wildcards

\* What the routes through a node are past its path: the handle ends there,
\* the others go on with a child.
LEMMA PastThePath ==
    ASSUME NEW t, InShape(t), NEW at \in 1..Len(t), NEW d, NEW v, NEW H, NEW start, NEW stop,
           Spells(t, d, v, H, start, stop), NEW e, e = d[at] + Len(t[at].path),
           NEW r \in v[at] \cap H, NEW s \in v[at], Spelt(t[at].path, d[at], s)
    PROVE  /\ e \in Nat /\ r \in Seq(STRING) /\ Len(r) \in Nat /\ e <= Len(r) /\ Share(s, r, e)
           /\ \/ r = t[at].handle /\ Len(r) = e
              \/ \E k \in 1..Len(t[at].children) :
                     r \in v[t[at].children[k]] /\ Len(r) > e
<1>1. /\ t \in Seq(Node) /\ Hung(t) /\ t[at].path \in Seq(STRING) /\ Len(t[at].path) \in Nat
      /\ \A k \in 1..Len(t[at].children) : t[at].children[k] \in 1..Len(t)
  <2>1. t \in Seq(Node) /\ Hung(t)
    BY DEF InShape
  <2>2. t[at].path \in Seq(STRING)
    BY <2>1, Places, FieldTypes
  <2>3. \A k \in 1..Len(t[at].children) : t[at].children[k] \in 1..Len(t)
    BY <2>1, ChildrenInRange
  <2> QED BY <2>1, <2>2, <2>3
<1>2. NodeSpells(t, d, v, H, start, stop, at)
  BY DEF Spells
<1>3. d[at] \in Nat /\ Share(s, r, d[at] + 1)
  BY <1>2 DEF NodeSpells
<1>4. /\ r \in Seq(STRING) /\ Spelt(t[at].path, d[at], r)
      /\ r = t[at].handle \/ \E k \in 1..Len(t[at].children) : r \in v[t[at].children[k]]
  BY GoesOn
<1>5. e \in Nat /\ Len(r) \in Nat /\ e <= Len(r)
  BY <1>1, <1>3, <1>4 DEF Spelt
<1>6. Share(s, r, e)
  BY <1>1, <1>3, <1>4, SharedPath
<1>7. ASSUME r = t[at].handle PROVE Len(r) = e
  <2>1. r # NoHandle
    <3>1. Follows(t, d, v, H, start, stop, at, r)
      BY <1>2 DEF NodeSpells
    <3>2. Len(r) > d[at] /\ Len(<<>>) = 0
      BY <3>1 DEF Follows
    <3> QED BY <1>3, <3>2 DEF NoHandle
  <2> QED BY <1>2, <1>7, <2>1 DEF NodeSpells, Ends
<1>8. ASSUME NEW k \in 1..Len(t[at].children), r \in v[t[at].children[k]] PROVE Len(r) > e
  <2> DEFINE c == t[at].children[k]
  <2>1. c \in 1..Len(t) /\ d[c] = e
    BY <1>1, <1>2 DEF NodeSpells, Hangs
  <2>2. r \in v[c]
    BY <1>8
  <2> HIDE DEF c
  <2>3. Follows(t, d, v, H, start, stop, c, r)
    BY <2>1, <2>2 DEF Spells, NodeSpells
  <2> QED BY <2>1, <2>3 DEF Follows
<1> QED BY <1>4, <1>5, <1>6, <1>7, <1>8

\* A route that ends at a node without a handle becomes its handle.
LEMMA HandleSpells ==
    ASSUME NEW t, InShape(t), NEW at \in 1..Len(t), t[at].handle = NoHandle,
           NEW d, NEW v, NEW H, NEW route \in Seq(STRING), Spells(t, d, v, H, 0, at),
           v[at] \subseteq H \cup {route}, route \in v[at],
           Len(route) = d[at] + Len(t[at].path)
    PROVE  Spells([t EXCEPT ![at].handle = route], d, v, H \cup {route}, 0, 0)
<1> DEFINE u == [t EXCEPT ![at].handle = route]
           m == [t[at] EXCEPT !.handle = route]
           G == H \cup {route}
<1>1. t \in Seq(Node) /\ t[at] \in Node /\ Hung(t) /\ DOMAIN t = 1..Len(t)
  BY Places DEF InShape
<1>2. /\ m \in Node /\ m.children = t[at].children /\ m.indices = t[at].indices /\ m.path = t[at].path
      /\ m.wildChild = t[at].wildChild /\ m.nType = t[at].nType /\ m.handle = route
  BY <1>1 DEF Node
<1>3. u = [t EXCEPT ![at] = m]
  BY <1>1
<1> HIDE DEF m, u
<1>4. /\ u \in Seq(Node) /\ Len(u) = Len(t) /\ u[at] = m
      /\ \A i \in 1..Len(t) : i # at => u[i] = t[i]
  BY <1>1, <1>2, <1>3, Put
<1>5. /\ \A k \in 1..Len(t) : k # at => SameNode(t[k], u[k])
      /\ SameKind(t[at], u[at]) /\ Within(H, G)
  BY <1>2, <1>4 DEF SameNode, SameKind, Within
<1>6. ASSUME NEW i \in 1..Len(t), i # at PROVE NodeSpells(u, d, v, G, 0, 0, i) /\ Kinds(u, u[i])
  <2> DEFINE f == d
             g == v
  <2>1. /\ Spells(t, d, v, H, 0, at) /\ at \in {0, at} /\ 0 \in {0, at}
        /\ \A j \in 1..Len(t) : f[j] = d[j] /\ g[j] = v[j]
    OBVIOUS
  <2> HIDE DEF f, g
  <2>2. NodeSpells(u, f, g, G, 0, 0, i) /\ Kinds(u, u[i])
    <3> HIDE DEF G
    <3> QED BY <1>1, <1>4, <1>5, <1>6, <2>1, Elsewhere
  <2> QED BY <2>2 DEF f, g
<1>7. NodeSpells(t, d, v, H, 0, at, at) /\ Kinds(t, t[at]) /\ at # 0
  BY DEF Spells
<1>8. \A k \in 1..Len(t[at].children) : t[at].children[k] \in 1..Len(t)
  BY <1>1, ChildrenInRange
<1>9. Kinds(u, u[at])
  <2>1. \A k \in 1..Len(t[at].children) : SameKind(t[t[at].children[k]], u[t[at].children[k]])
    BY <1>5, <1>8 DEF SameNode, SameKind
  <2>2. ASSUME NEW k \in 1..Len(m.children)
        PROVE  LET c == u[m.children[k]]
               IN  IF ~m.wildChild THEN c.nType = "catchAll" => c.wildChild
                   ELSE IF m.nType = "catchAll" THEN c.nType = "catchAll" /\ ~c.wildChild
                   ELSE c.nType = "param"
    BY <1>2, <1>7, <2>1 DEF Kinds, SameKind
  <2> QED BY <1>2, <1>4, <1>7, <2>2 DEF Kinds
<1>10. NodeSpells(u, d, v, G, 0, 0, at)
  <2>1. Ends(u, d, v, G, at)
    BY <1>2, <1>4 DEF Ends
  <2>2. ASSUME NEW r \in v[at] PROVE Follows(u, d, v, G, 0, 0, at, r)
    <3>1. Follows(t, d, v, H, 0, at, at, r)
      BY <1>7 DEF NodeSpells
    <3>2. CASE r = route
      BY <1>2, <1>4, <1>7, <3>1, <3>2 DEF Follows
    <3>3. CASE r # route
      <4>1. r \in H /\ r # NoHandle
        <5>1. Len(r) > d[at] /\ Len(<<>>) = 0
          BY <3>1 DEF Follows
        <5>2. d[at] \in Nat
          BY <1>7 DEF NodeSpells
        <5> QED BY <3>3, <5>1, <5>2 DEF NoHandle
      <4>2. \E k \in 1..Len(t[at].children) : r \in v[t[at].children[k]]
        BY <3>1, <4>1 DEF Follows
      <4> QED BY <1>2, <1>4, <1>7, <3>1, <4>2 DEF Follows
    <3> QED BY <3>2, <3>3
  <2>3. ASSUME NEW k \in 1..Len(u[at].children) PROVE Hangs(u, d, v, at, k)
    <3>1. Hangs(t, d, v, at, k) /\ Key(u[at], k) = Key(t[at], k)
      BY <1>2, <1>4, <1>7 DEF NodeSpells, Key
    <3> QED BY <1>2, <1>4, <3>1 DEF Hangs
  <2> QED BY <1>4, <1>7, <2>1, <2>2, <2>3 DEF NodeSpells
<1>11. d[1] = 0
  BY DEF Spells
<1>12. Spells(u, d, v, G, 0, 0)
  <2> HIDE DEF G
  <2> QED BY <1>4, <1>6, <1>9, <1>10, <1>11 DEF Spells
<1> QED BY <1>12 DEF u

\* No node is its own child.
LEMMA ChildIsOther ==
    ASSUME NEW t, Ordered(t), NEW at \in 1..Len(t), NEW k \in 1..Len(t[at].children),
           NEW d, NEW v, NEW H, NEW start, NEW stop, Spells(t, d, v, H, start, stop)
    PROVE  t[at].children[k] # at
<1> DEFINE n == t[at]
<1>1. /\ t \in Seq(Node) /\ n \in Node /\ n.path \in Seq(STRING) /\ Hung(t)
      /\ Fits(t, n) /\ LinkedAt(t, n, 0, Slash)
  <2>1. t \in Seq(Node) /\ n \in Node /\ Hung(t) /\ Fits(t, n) /\ LinkedAt(t, n, 0, Slash)
    BY Places DEF Ordered, InShape, Linked
  <2> QED BY <2>1, FieldTypes
<1>2. NodeSpells(t, d, v, H, start, stop, at) /\ Kinds(t, n)
  BY DEF Spells
<1>3. k \in DOMAIN n.children /\ n.children[k] # 0
  <2>1. DOMAIN n.children = 1..Len(n.children) /\ \A l \in DOMAIN n.children : n.children[l] \in 1..Len(t)
    BY <1>1, ChildrenInRange
  <2> QED BY <2>1
<1> SUFFICES ASSUME n.children[k] = at PROVE FALSE
  OBVIOUS
<1>4. CASE n.wildChild
  <2>1. IF n.nType = "catchAll" THEN t[n.children[k]].nType = "catchAll" /\ ~t[n.children[k]].wildChild
        ELSE t[n.children[k]].nType = "param"
    BY <1>2, <1>4 DEF Kinds
  <2>2. n.nType # "param"
    BY <1>1, <1>4 DEF Fits
  <2> QED BY <1>4, <2>1, <2>2
<1>5. CASE ~n.wildChild
  <2>1. n.path = <<>> => n.wildChild
    BY <1>1, <1>3, <1>5 DEF LinkedAt, Marks
  <2>2. d[at] = d[at] + Len(n.path) /\ d[at] \in Nat
    BY <1>2 DEF NodeSpells, Hangs
  <2>3. Len(n.path) \in Nat /\ Len(n.path) # 0
    BY <1>1, <1>5, <2>1
  <2> QED BY <2>2, <2>3
<1> QED BY <1>4, <1>5

\* The name of the root spells nothing.
LEMMA RootSpells ==
    ASSUME NEW t, Ordered(t), NEW d, NEW v, NEW H, Spells(t, d, v, H, 0, 0)
    PROVE  Spells([t EXCEPT ![1].nType = "root"], d, v, H, 0, 0)
<1> DEFINE u == [t EXCEPT ![1].nType = "root"]
           m == [t[1] EXCEPT !.nType = "root"]
<1>1. t \in Seq(Node) /\ 1 \in 1..Len(t) /\ t[1] \in Node /\ Hung(t) /\ DOMAIN t = 1..Len(t)
  BY Places DEF Ordered, InShape
<1>2. /\ m \in Node /\ m.children = t[1].children /\ m.indices = t[1].indices /\ m.path = t[1].path
      /\ m.wildChild = t[1].wildChild /\ m.nType = "root" /\ m.handle = t[1].handle
  BY <1>1 DEF Node, NodeType
<1>3. u = [t EXCEPT ![1] = m]
  BY <1>1
<1>4. t[1].nType \in {"static", "root"}
  BY <1>1, FieldTypes DEF Ordered, InShape, NodeType
<1> HIDE DEF m, u
<1>5. /\ u \in Seq(Node) /\ Len(u) = Len(t) /\ u[1] = m
      /\ \A i \in 1..Len(t) : i # 1 => u[i] = t[i]
  BY <1>1, <1>2, <1>3, Put
<1>6. ASSUME NEW i \in 1..Len(t) PROVE NodeSpells(u, d, v, H, 0, 0, i) /\ Kinds(u, u[i])
  <2>1. NodeSpells(t, d, v, H, 0, 0, i) /\ Kinds(t, t[i])
    BY DEF Spells
  <2>2. /\ u[i].path = t[i].path /\ u[i].children = t[i].children /\ u[i].handle = t[i].handle
        /\ u[i].wildChild = t[i].wildChild /\ u[i].indices = t[i].indices
    BY <1>2, <1>5
  <2>3. \A k : Key(u[i], k) = Key(t[i], k)
    BY <1>2, <1>4, <1>5 DEF Key
  <2>4. NodeSpells(u, d, v, H, 0, 0, i)
    BY <2>1, <2>2, <2>3 DEF NodeSpells, Follows, Ends, Hangs
  <2>5. \A k \in 1..Len(t[i].children) : t[i].children[k] \in 2..Len(t)
    BY <1>1, ChildrenInRange
  <2>6. \A k \in 1..Len(t[i].children) : u[t[i].children[k]] = t[t[i].children[k]]
    BY <1>5, <2>5
  <2>7. Kinds(u, u[i])
    <3>1. CASE i # 1
      BY <1>5, <2>1, <2>6, <3>1 DEF Kinds
    <3>2. CASE i = 1
      <4>1. u[i].nType = "root" /\ t[i].nType \in {"static", "root"}
        BY <1>2, <1>4, <1>5, <3>2
      <4> QED BY <2>1, <2>2, <2>6, <4>1 DEF Kinds
    <3> QED BY <3>1, <3>2
  <2> QED BY <2>4, <2>7
<1>7. Spells(u, d, v, H, 0, 0)
  BY <1>5, <1>6 DEF Spells
<1> QED BY <1>7 DEF u

\* A raised priority spells nothing.
LEMMA BumpSpells ==
    ASSUME NEW t, InShape(t), NEW at \in 1..Len(t), NEW d, NEW v, NEW H, NEW start, NEW stop,
           Spells(t, d, v, H, start, stop)
    PROVE  Spells(Bump(t, at), d, v, H, start, stop)
<1> DEFINE u == Bump(t, at)
<1>1. /\ u \in Seq(Node) /\ Len(u) = Len(t)
      /\ \A i \in 1..Len(t) : /\ SameLinks(t[i], u[i]) /\ u[i].path = t[i].path
                              /\ u[i].handle = t[i].handle
  BY Bumped
<1>2. t \in Seq(Node) /\ Hung(t)
  BY DEF InShape
<1> HIDE DEF u
<1>3. \A i \in 1..Len(t) : SameNode(t[i], u[i])
  BY <1>1 DEF SameNode, SameLinks
<1>4. Spells(u, d, v, H, start, stop)
  BY <1>1, <1>2, <1>3, PrioritiesSpellNothing
<1> QED BY <1>4 DEF u

\* The walk is where it was as long as the tree spells the same.
LEMMA WalkKept ==
    ASSUME NEW t, NEW u, Len(u) = Len(t), NEW at, u[at].nType = t[at].nType,
           u[at].wildChild = t[at].wildChild, NEW path, NEW d, NEW v, NEW H, NEW route,
           WalkSpells(t, at, path, d, v, H, route), Spells(u, d, v, H, at, at)
    PROVE  WalkSpells(u, at, path, d, v, H, route)
BY DEF WalkSpells, Used

\* The walk goes on with the child that all its rivals go on with.
LEMMA WalkEnters ==
    ASSUME NEW t, Ordered(t), NEW at \in 1..Len(t), NEW path \in Seq(STRING), path # <<>>,
           NEW d, NEW v, NEW H, NEW route, PassSpells(t, at, path, d, v, H, route),
           NEW e, e = d[at] + Len(t[at].path), NEW k \in 1..Len(t[at].children),
           NEW c, c = t[at].children[k], \A r \in v[c] : r[e + 1] = route[e + 1],
           ~t[at].wildChild => route[e + 1] = Key(t[at], k),
           \A r \in v[at] \cap H : r \in v[c] \/ ~Conflict(route, r),
           t[c].nType = "catchAll" => t[c].wildChild
    PROVE  WalkSpells(t, c, path, d, Also(v, Len(t), c, route), H, route)
<1> DEFINE N == Len(t)
           w == Also(v, N, c, route)
<1>1. t \in Seq(Node) /\ Hung(t) /\ N \in Nat /\ 1 \in 1..N
  BY Places DEF Ordered, InShape
<1>2. c \in 1..N /\ c # 1
  <2>1. DOMAIN t[at].children = 1..Len(t[at].children)
        /\ \A l \in DOMAIN t[at].children : t[at].children[l] \in 2..N
    BY <1>1, ChildrenInRange
  <2>2. c \in 2..N
    BY <2>1
  <2> QED BY <2>2, <1>1
<1>3. /\ Spells(t, d, v, H, 0, at) /\ Used(t, v, H) /\ Through(v, N, H \cup {route})
      /\ route \in v[at] /\ Rivals(v, at, H, route)
      /\ Remains(path, e, route) /\ Fine(route, e)
  BY DEF PassSpells
<1>4. d[c] = e /\ v[c] \subseteq v[at]
  BY <1>1, <1>3 DEF Spells, NodeSpells, Hangs
<1>5. e \in Nat
  BY <1>1, <1>2, <1>3, <1>4 DEF Spells, NodeSpells
<1>6. Len(route) > e /\ route \in Seq(STRING)
  <2>1. Len(route) = e + Len(path) /\ Len(path) \in Nat /\ Len(path) # 0
    BY <1>3 DEF Remains
  <2> QED BY <1>3, <1>5, <2>1 DEF Remains
<1>7. route \in H => route \in v[c]
  <2>1. Conflict(route, route)
    BY DEF Conflict
  <2> QED BY <1>3, <2>1
<1>8. c # at
  BY <1>3, ChildIsOther
<1>9. Spells(t, d, w, H, c, c)
  <2>1. v[at] \subseteq H \cup {route}
    BY <1>3 DEF Through
  <2> HIDE DEF w
  <2>2. \A r \in v[c] : r[d[c] + 1] = route[d[c] + 1]
    BY <1>4
  <2>3. ~t[at].wildChild => route[d[c] + 1] = Key(t[at], k)
    BY <1>4
  <2>4. Len(route) > d[c]
    BY <1>4, <1>6
  <2> QED BY <1>1, <1>3, <1>7, <1>8, <2>1, <2>2, <2>3, <2>4, Entered DEF w
<1>10. w[c] = v[c] \cup {route} /\ \A j \in 1..N : j # c => w[j] = v[j]
  <2>1. N \in Nat /\ c \in 1..N
    BY <1>1, <1>2
  <2> HIDE DEF N
  <2> QED BY <2>1 DEF Also
<1> HIDE DEF w
<1>11. Used(t, w, H)
  BY <1>3, <1>10 DEF Used
<1>12. Through(w, N, H \cup {route})
  BY <1>1, <1>2, <1>3, <1>10 DEF Through
<1>13. Rivals(w, c, H, route)
  BY <1>3, <1>10 DEF Rivals
<1>14. WalkSpells(t, c, path, d, w, H, route)
  BY <1>3, <1>4, <1>9, <1>10, <1>11, <1>12, <1>13 DEF WalkSpells
<1> QED BY <1>14 DEF w

\* A registration tells what it should in each of its phases.
LEMMA ToldWalk ==
    ASSUME NEW t, NEW at, NEW path, NEW d, NEW v, NEW H, NEW route,
           WalkSpells(t, at, path, d, v, H, route)
    PROVE  Told(Turn(t, at, path, "walk"), H, route)
BY DEF Told, Turn

\* What is told of a registration that inserts ...
LEMMA ToldInsert ==
    ASSUME NEW t, NEW at, NEW path, NEW d, NEW v, NEW H, NEW route,
           InsertSpells(t, at, path, d, v, H, route)
    PROVE  Told(Turn(t, at, path, "insert"), H, route)
BY DEF Told, Turn

\* ... of one that is done ...
LEMMA ToldDone ==
    ASSUME NEW t, NEW H, NEW route, Welcome(route, H), NEW d, NEW v, NEW G, G = H \cup {route},
           Spells(t, d, v, G, 0, 0), Through(v, Len(t), G)
    PROVE  Told(Done(t), H, route)
BY DEF Told, Done, Turn, SpelledOut

\* ... and of one that is refused.
LEMMA ToldPanic ==
    ASSUME NEW t, NEW H, NEW route, ~Welcome(route, H), Tells(t, H)
    PROVE  Told(Panic(t), H, route)
BY DEF Told, Panic, Turn

\* A registration that is refused on the way down leaves what it walked over.
LEMMA PassTells ==
    ASSUME NEW t, NEW u, Ordered(u), Len(u) = Len(t), Distinct, NEW at, NEW path, NEW d, NEW v,
           NEW H, NEW route, PassSpells(t, at, path, d, v, H, route), Spells(u, d, v, H, 0, at)
    PROVE  Tells(u, H)
<1>1. InShape(u) /\ Linked(u, 0, Slash)
  BY DEF Ordered
<1>2. H \subseteq v[1] /\ \A i \in 1..Len(u) : \E r \in v[i] : r \in H
  BY DEF PassSpells, Through, Used
<1> QED BY <1>1, <1>2, StillTells

\* A registration that is refused where it inserts leaves what it has built.
LEMMA InsertTells ==
    ASSUME NEW t, NEW at, NEW path, Distinct,
           IF path[1] \in Wildcards THEN Ready(t, at, 0, Slash) ELSE Ready(t, at, at, path[1]),
           NEW d, NEW v, NEW H, NEW route, InsertSpells(t, at, path, d, v, H, route)
    PROVE  Tells(t, H)
<1>1. PICK fresh, c : InShape(t) /\ Linked(t, fresh, c)
  BY DEF Ready
<1>2. Spells(t, d, v, H, 0, at) /\ t[at].nType # "catchAll" /\ Through(v, Len(t), H \cup {route})
  BY DEF InsertSpells, Placing
<1>3. H \subseteq v[1] /\ \A i \in 1..Len(t) : t[i].nType = "catchAll" => i # at /\ v[i] # {}
  BY <1>2 DEF Through
<1>4. \A i \in 1..Len(t) : t[i].nType = "catchAll" => \E r \in v[i] : i # at \/ r \in H
  BY <1>3
<1> QED BY <1>1, <1>2, <1>3, <1>4, StillTells

\* A held route that has gone as far as the route being added: it ends there,
\* or goes on with a child.
Beside(t, at, v, route, r, e) ==
    /\ r \in Seq(STRING) /\ Len(r) \in Nat /\ e <= Len(r) /\ Share(route, r, e)
    /\ \/ r = t[at].handle /\ Len(r) = e
       \/ \E k \in 1..Len(t[at].children) : r \in v[t[at].children[k]] /\ Len(r) > e

\* The route has gone e tokens, to the end of a node, and its rivals with it.
Behind(t, at, v, H, path, route, e) ==
    /\ e \in Nat /\ route \in Seq(STRING) /\ Len(route) \in Nat /\ Len(path) \in Nat
    /\ Len(route) = e + Len(path) /\ \A k \in 1..Len(path) : route[e + k] = path[k]
    /\ \A r \in v[at] \cap H : Beside(t, at, v, route, r, e)

\* What is known when a route has passed the path of a node.
LEMMA PassedBy ==
    ASSUME NEW t, InShape(t), NEW at \in 1..Len(t), NEW path \in Seq(STRING), NEW d, NEW v, NEW H,
           NEW route, Spells(t, d, v, H, 0, at), route \in v[at],
           NEW e, e = d[at] + Len(t[at].path), Remains(path, e, route)
    PROVE  Behind(t, at, v, H, path, route, e)
<1>1. NodeSpells(t, d, v, H, 0, at, at) /\ at # 0
  BY DEF Spells
<1>2. Spelt(t[at].path, d[at], route)
  BY <1>1 DEF NodeSpells, Follows
<1>3. /\ route \in Seq(STRING) /\ Len(route) = e + Len(path)
      /\ \A k \in 1..Len(path) : route[e + k] = path[k]
  BY DEF Remains
<1>4. ASSUME NEW r \in v[at] \cap H PROVE Beside(t, at, v, route, r, e)
  BY <1>2, PastThePath DEF Beside
<1>5. d[at] \in Nat /\ Len(t[at].path) \in Nat
  <2>1. t[at] \in Node
    BY Places DEF InShape
  <2> QED BY <1>1, <2>1, FieldTypes DEF NodeSpells
<1> QED BY <1>3, <1>4, <1>5 DEF Behind

\* Routes that part at their next tokens, none of them a wildcard, are told apart.
LEMMA ApartNext ==
    ASSUME NEW t, NEW at, NEW v, NEW route \in Seq(STRING), NEW r, NEW e \in Nat,
           Beside(t, at, v, route, r, e), Len(route) > e, Len(r) > e,
           r[e + 1] # route[e + 1], r[e + 1] \notin Wildcards, route[e + 1] \notin Wildcards
    PROVE  ~Conflict(route, r)
<1>1. Parted(route, r, e)
  BY DEF Parted, Beside
<1>2. r # route /\ r[e + 1] \notin CatchAlls /\ route[e + 1] \notin CatchAlls
  BY DEF Wildcards
<1> QED BY <1>1, <1>2, ConflictAt

\* ... and so is a route from one that ends before it, but for a catch-all.
LEMMA ApartBehind ==
    ASSUME NEW t, NEW at, NEW v, NEW route \in Seq(STRING), NEW r, NEW e \in Nat,
           Beside(t, at, v, route, r, e), Len(r) = e, Len(route) > e
    PROVE  Conflict(route, r) <=> route[e + 1] \in CatchAlls
<1>1. Parted(route, r, e) /\ Len(route) \in Nat
  BY DEF Parted, Beside
<1>2. r # route
  OBVIOUS
<1>3. ~(e < Len(r))
  OBVIOUS
<1> QED BY <1>1, <1>2, <1>3, ConflictAt

\* Routes whose next tokens differ and of which one is a wildcard are in conflict.
LEMMA TogetherNext ==
    ASSUME NEW t, NEW at, NEW v, NEW route \in Seq(STRING), NEW r, NEW e \in Nat,
           Beside(t, at, v, route, r, e), Len(route) > e, Len(r) > e,
           r[e + 1] # route[e + 1], r[e + 1] \in Wildcards \/ route[e + 1] \in Wildcards
    PROVE  Conflict(route, r)
<1>1. Parted(route, r, e)
  BY DEF Parted, Beside
<1> QED BY <1>1, ConflictAt

\* The byte that leads to a child is no wildcard.
LEMMA KeyIsStatic ==
    ASSUME NEW t, InShape(t), NEW at \in 1..Len(t), ~t[at].wildChild, Distinct,
           NEW d, NEW v, NEW H, NEW start, NEW stop, Spells(t, d, v, H, start, stop),
           NEW k \in 1..Len(t[at].children)
    PROVE  /\ Key(t[at], k) \notin Wildcards
           /\ \A e, r : e = d[at] + Len(t[at].path) /\ r \in v[t[at].children[k]] =>
                  r[e + 1] = Key(t[at], k)
<1> DEFINE n == t[at]
<1>1. n \in Node /\ Fits(t, n)
  BY Places DEF InShape
<1>2. Kinds(t, n) /\ Hangs(t, d, v, at, k)
  BY DEF Spells, NodeSpells
<1>3. n.nType # "param" => k \in 1..Len(n.indices)
  BY <1>1 DEF Fits
<1>4. Key(n, k) \notin Wildcards
  BY <1>2, <1>3 DEF Key, Kinds, Distinct
<1>5. \A r \in v[n.children[k]] : r[d[at] + Len(n.path) + 1] = Key(n, k)
  BY <1>2 DEF Hangs
<1> QED BY <1>4, <1>5

\* Below a node with a wildcard child every route goes on with the wildcard.
LEMMA ParamBelow ==
    ASSUME NEW t, InShape(t), NEW at \in 1..Len(t), t[at].wildChild, t[at].nType # "catchAll",
           NEW d, NEW v, NEW H, NEW stop, Spells(t, d, v, H, 0, stop),
           NEW k \in 1..Len(t[at].children), NEW c, c = t[at].children[k]
    PROVE  /\ k = 1 /\ t[c].nType = "param" /\ t[c].path[1] \in ParamTokens
           /\ \A e, r : e = d[at] + Len(t[at].path) /\ r \in v[c] => r[e + 1] = t[c].path[1]
<1>1. t \in Seq(Node) /\ Hung(t) /\ Fits(t, t[at])
  BY Places DEF InShape
<1>2. k = 1 /\ c \in 1..Len(t) /\ c # 0
  <2>1. Len(t[at].children) = 1
    BY <1>1 DEF Fits
  <2>2. DOMAIN t[at].children = 1..Len(t[at].children)
        /\ \A l \in DOMAIN t[at].children : t[at].children[l] \in 1..Len(t)
    BY <1>1, ChildrenInRange
  <2>3. c \in 1..Len(t)
    BY <2>2
  <2> QED BY <2>1, <2>3
<1>3. t[c].nType = "param"
  BY DEF Spells, Kinds
<1>4. NodeSpells(t, d, v, H, 0, stop, c) /\ Kinds(t, t[c]) /\ Hangs(t, d, v, at, k)
  BY <1>2 DEF Spells, NodeSpells
<1>5. Len(t[c].path) = 1
  BY <1>1, <1>2, <1>3, Places DEF InShape
<1>6. ASSUME NEW r \in v[c] PROVE r[d[at] + Len(t[at].path) + 1] = t[c].path[1]
  <2>1. Spelt(t[c].path, d[c], r)
    BY <1>2, <1>4 DEF NodeSpells, Follows
  <2>2. d[c] = d[at] + Len(t[at].path)
    BY <1>4 DEF Hangs
  <2>3. 1 \in 1..Len(t[c].path)
    BY <1>5
  <2> QED BY <2>1, <2>2, <2>3 DEF Spelt
<1> QED BY <1>2, <1>3, <1>4, <1>6 DEF Kinds

\* The walk ends at a node whose path ends the route: it is refused when the
\* node has a handle, which is then the same route, and otherwise welcome.
LEMMA WalkEnds ==
    ASSUME NEW u, Ordered(u), NEW at \in 1..Len(u), u[at].path # <<>>, Distinct,
           NEW path \in Seq(STRING), path = <<>>, NEW d, NEW v, NEW H, NEW route,
           PassSpells(u, at, path, d, v, H, route)
    PROVE  Told(AddHandle(u, at, route), H, route)
<1> DEFINE e == d[at] + Len(u[at].path)
<1>1. /\ Spells(u, d, v, H, 0, at) /\ Through(v, Len(u), H \cup {route}) /\ route \in v[at]
      /\ Rivals(v, at, H, route) /\ Remains(path, e, route) /\ Fine(route, e)
      /\ (u[at].nType = "catchAll" => u[at].wildChild) /\ InShape(u)
  BY DEF PassSpells, Ordered
<1>2. /\ e \in Nat /\ route \in Seq(STRING) /\ Len(route) \in Nat /\ Len(path) \in Nat
      /\ Len(route) = e + Len(path)
      /\ \A r \in v[at] \cap H : Beside(u, at, v, route, r, e)
  <2>1. Behind(u, at, v, H, path, route, e)
    BY <1>1, PassedBy
  <2> QED BY <2>1 DEF Behind
<1>3. Len(route) = e
  BY <1>2
<1>4. NodeSpells(u, d, v, H, 0, at, at) /\ Kinds(u, u[at])
  BY <1>1 DEF Spells
<1> HIDE DEF e
<1>5. CASE u[at].handle # NoHandle
  <2>1. u[at].handle \in v[at] \cap H /\ Len(u[at].handle) = e
    BY <1>4, <1>5 DEF NodeSpells, Ends, e
  <2>2. Beside(u, at, v, route, u[at].handle, e)
    BY <1>2, <2>1
  <2>3. u[at].handle = route
    BY <1>2, <1>3, <2>1, <2>2 DEF Beside, Share
  <2>4. ~Welcome(route, H)
    BY <2>1, <2>3 DEF Welcome, Conflict
  <2>5. AddHandle(u, at, route) = Panic(u)
    BY <1>5 DEF AddHandle
  <2>6. Tells(u, H)
    BY <1>1, PassTells
  <2> QED BY <2>4, <2>5, <2>6, ToldPanic
<1>6. CASE u[at].handle = NoHandle
  <2> DEFINE t == [u EXCEPT ![at].handle = route]
  <2>1. AddHandle(u, at, route) = Done(t)
    BY <1>6 DEF AddHandle
  <2>2. Spells(t, d, v, H \cup {route}, 0, 0)
    <3>1. v[at] \subseteq H \cup {route} /\ Len(route) = d[at] + Len(u[at].path)
      BY <1>1, <1>3 DEF Through, e
    <3> QED BY <1>1, <1>2, <1>6, <3>1, HandleSpells
  <2>3. Through(v, Len(t), H \cup {route})
    BY <1>1
  <2>4. ASSUME NEW r \in v[at] \cap H PROVE ~Conflict(route, r)
    <3>1. Beside(u, at, v, route, r, e)
      BY <1>2, <2>4
    <3>2. r # NoHandle
      <4>1. r \in v[at] /\ Len(<<>>) = 0
        OBVIOUS
      <4>2. Len(r) > d[at] /\ d[at] \in Nat
        BY <1>4, <4>1 DEF NodeSpells, Follows
      <4> QED BY <4>1, <4>2 DEF NoHandle
    <3>3. PICK k \in 1..Len(u[at].children) : r \in v[u[at].children[k]] /\ Len(r) > e
      BY <1>6, <3>1, <3>2 DEF Beside
    <3>4. r[e + 1] \notin CatchAlls
      <4>1. CASE ~u[at].wildChild
        <5>1. Key(u[at], k) \notin Wildcards /\ r[e + 1] = Key(u[at], k)
          BY <1>1, <3>3, <4>1, KeyIsStatic DEF e
        <5> QED BY <5>1 DEF Wildcards
      <4>2. CASE u[at].wildChild
        <5>1. u[at].nType # "catchAll"
          BY <1>4, <4>2 DEF Kinds
        <5> DEFINE c == u[at].children[k]
        <5>2. /\ u[c].path[1] \in ParamTokens
              /\ \A e1, r1 : e1 = d[at] + Len(u[at].path) /\ r1 \in v[c] => r1[e1 + 1] = u[c].path[1]
          BY <1>1, <4>2, <5>1, ParamBelow
        <5>3. r[e + 1] = u[c].path[1]
          BY <3>3, <5>2 DEF e
        <5> QED BY <5>2, <5>3 DEF Distinct
      <4> QED BY <4>1, <4>2
    <3>5. Parted(route, r, e)
      BY <1>2, <1>3, <3>1 DEF Parted, Beside
    <3>6. r # route /\ ~(e < Len(route))
      BY <1>3, <3>3
    <3> QED BY <3>4, <3>5, <3>6, ConflictAt
  <2>5. Welcome(route, H)
    BY <1>1, <1>3, <2>4, Welcomed
  <2> HIDE DEF t
  <2>6. Told(Done(t), H, route)
    BY <2>2, <2>3, <2>5, ToldDone
  <2> QED BY <2>1, <2>6
<1> QED BY <1>5, <1>6

\* The walk goes on in the child, whose priority has been raised.
LEMMA WalkRaised ==
    ASSUME NEW t, InShape(t), NEW c \in 1..Len(t), NEW path, NEW d, NEW v, NEW H, NEW route,
           WalkSpells(t, c, path, d, v, H, route)
    PROVE  Told(Turn(Bump(t, c), c, path, "walk"), H, route)
<1> DEFINE u == Bump(t, c)
<1>1. Len(u) = Len(t) /\ SameLinks(t[c], u[c])
  BY Bumped
<1>2. Spells(u, d, v, H, c, c)
  BY BumpSpells DEF WalkSpells
<1> HIDE DEF u
<1>3. WalkSpells(u, c, path, d, v, H, route)
  BY <1>1, <1>2, WalkKept DEF SameLinks
<1> QED BY <1>3, ToldWalk DEF u

\* What is known below a node that has been passed.
LEMMA PassedFacts ==
    ASSUME NEW t, NEW at, NEW path, Passed(t, at, path), NEW d, NEW v, NEW H, NEW route,
           PassSpells(t, at, path, d, v, H, route)
    PROVE  /\ Ordered(t) /\ InShape(t) /\ at \in 1..Len(t) /\ t \in Seq(Node) /\ Hung(t)
           /\ path \in Seq(STRING) /\ path # <<>> /\ 1 \in 1..Len(path)
           /\ Spells(t, d, v, H, 0, at)
           /\ Behind(t, at, v, H, path, route, d[at] + Len(t[at].path))
<1>1. /\ Ordered(t) /\ InShape(t) /\ at \in 1..Len(t) /\ t \in Seq(Node) /\ Hung(t)
      /\ path \in Seq(STRING) /\ path # <<>>
  BY DEF Passed, Ordered, InShape, Toward
<1>2. 1 \in 1..Len(path)
  BY <1>1
<1>3. /\ Spells(t, d, v, H, 0, at) /\ route \in v[at]
      /\ Remains(path, d[at] + Len(t[at].path), route)
  BY DEF PassSpells
<1>4. Behind(t, at, v, H, path, route, d[at] + Len(t[at].path))
  BY <1>1, <1>3, PassedBy
<1> QED BY <1>1, <1>2, <1>3, <1>4

\* The first token of the rest of the route is its next one.
LEMMA NextToken ==
    ASSUME NEW t, NEW at, NEW v, NEW H, NEW path \in Seq(STRING), path # <<>>, NEW route, NEW e,
           Behind(t, at, v, H, path, route, e)
    PROVE  /\ e \in Nat /\ route \in Seq(STRING) /\ Len(route) \in Nat /\ Len(route) > e
           /\ e + 1 \in 1..Len(route) /\ route[e + 1] = path[1]
<1>1. /\ e \in Nat /\ route \in Seq(STRING) /\ Len(route) \in Nat /\ Len(path) \in Nat
      /\ Len(route) = e + Len(path) /\ \A k \in 1..Len(path) : route[e + k] = path[k]
  BY DEF Behind
<1>2. 1 \in 1..Len(path) /\ Len(path) >= 1
  OBVIOUS
<1> QED BY <1>1, <1>2

\* The parameter below a node is the one the route goes on with.
LEMMA ParamTold ==
    ASSUME NEW t, NEW at, NEW path, Passed(t, at, path), t[at].wildChild, Distinct,
           NEW d, NEW v, NEW H, NEW route, PassSpells(t, at, path, d, v, H, route),
           Continues(t[t[at].children[1]], path)
    PROVE  Told(Descend(t, at, path), H, route)
<1> DEFINE e == d[at] + Len(t[at].path)
           c == t[at].children[1]
<1>0. /\ Ordered(t) /\ InShape(t) /\ at \in 1..Len(t) /\ t \in Seq(Node) /\ Hung(t)
      /\ path \in Seq(STRING) /\ path # <<>>
      /\ Spells(t, d, v, H, 0, at) /\ Behind(t, at, v, H, path, route, e)
  BY PassedFacts
<1>1. /\ e \in Nat /\ route \in Seq(STRING) /\ Len(route) > e /\ route[e + 1] = path[1]
  BY <1>0, NextToken
<1>2. t[c].nType # "catchAll" /\ t[c].path[1] = path[1]
  BY DEF Continues
<1>3. Fits(t, t[at]) /\ Kinds(t, t[at])
  BY <1>0, Places DEF InShape, Spells
<1>4. Len(t[at].children) = 1 /\ 1 \in 1..Len(t[at].children)
  BY <1>3 DEF Fits
<1>5. t[at].nType # "catchAll"
  BY <1>2, <1>3, <1>4 DEF Kinds
<1>6. c \in 1..Len(t)
  BY <1>0, <1>4, ChildrenInRange
<1>7. /\ t[c].nType = "param" /\ t[c].path[1] \in ParamTokens
      /\ \A e1, r : e1 = d[at] + Len(t[at].path) /\ r \in v[c] => r[e1 + 1] = t[c].path[1]
  BY <1>0, <1>4, <1>5, ParamBelow
<1>8. \A r \in v[c] : r[e + 1] = route[e + 1]
  BY <1>1, <1>2, <1>7
<1>9. ASSUME NEW r \in v[at] \cap H PROVE r \in v[c] \/ ~Conflict(route, r)
  <2>1. Beside(t, at, v, route, r, e)
    BY <1>0 DEF Behind
  <2>2. CASE Len(r) = e
    <3>1. route[e + 1] \notin CatchAlls
      BY <1>1, <1>2, <1>7 DEF Distinct
    <3> HIDE DEF e
    <3> QED BY <1>1, <2>1, <2>2, <3>1, ApartBehind
  <2>3. CASE Len(r) # e
    <3>1. \A k \in 1..Len(t[at].children) : k = 1
      BY <1>4
    <3> QED BY <2>1, <2>3, <3>1 DEF Beside
  <2> QED BY <2>2, <2>3
<1>10. Descend(t, at, path) = Turn(Bump(t, c), c, path, "walk")
  BY DEF Descend
<1>11. e = d[at] + Len(t[at].path) /\ c = t[at].children[1]
  OBVIOUS
<1> HIDE DEF c, e
<1>12. WalkSpells(t, c, path, d, Also(v, Len(t), c, route), H, route)
  BY <1>0, <1>2, <1>4, <1>8, <1>9, <1>11, WalkEnters
<1> QED BY <1>0, <1>6, <1>10, <1>12, WalkRaised

\* A wildcard below a node that the route does not go on with.
LEMMA WildcardRefused ==
    ASSUME NEW t, NEW at, NEW path, Passed(t, at, path), t[at].wildChild, Distinct,
           NEW d, NEW v, NEW H, NEW route, PassSpells(t, at, path, d, v, H, route), Held(H),
           ~Continues(t[t[at].children[1]], path)
    PROVE  ~Welcome(route, H)
<1> DEFINE e == d[at] + Len(t[at].path)
           c == t[at].children[1]
<1>0. /\ Ordered(t) /\ InShape(t) /\ at \in 1..Len(t) /\ t \in Seq(Node) /\ Hung(t)
      /\ path \in Seq(STRING) /\ path # <<>>
      /\ Spells(t, d, v, H, 0, at) /\ Behind(t, at, v, H, path, route, e)
  BY PassedFacts
<1>1. /\ e \in Nat /\ route \in Seq(STRING) /\ Len(route) \in Nat /\ Len(route) > e
      /\ e + 1 \in 1..Len(route) /\ route[e + 1] = path[1]
  BY <1>0, NextToken
<1>2. Fits(t, t[at]) /\ Kinds(t, t[at]) /\ NodeSpells(t, d, v, H, 0, at, at) /\ at # 0
  BY <1>0, Places DEF InShape, Spells
<1>3. Len(t[at].children) = 1 /\ 1 \in 1..Len(t[at].children)
  BY <1>2 DEF Fits
<1>4. c \in 1..Len(t)
  BY <1>0, <1>3, ChildrenInRange
<1>5. c # at
  BY <1>0, <1>3, ChildIsOther
<1>6. NodeSpells(t, d, v, H, 0, at, c) /\ Kinds(t, t[c])
  BY <1>0, <1>4 DEF Spells
<1>7. v[c] \subseteq v[at] /\ d[c] = e
  BY <1>2, <1>3 DEF NodeSpells, Hangs
<1>8. PICK r \in v[c] : r \in H
  BY <1>4 DEF PassSpells, Used
<1>9. Beside(t, at, v, route, r, e)
  BY <1>0, <1>7, <1>8 DEF Behind
<1>10. r \in Seq(STRING) /\ Len(r) \in Nat /\ Len(r) > e /\ Spelt(t[c].path, e, r)
  <2>1. Follows(t, d, v, H, 0, at, c, r)
    BY <1>6, <1>8 DEF NodeSpells
  <2>2. c # 0
    BY <1>0, <1>4
  <2>3. r \in Seq(STRING) /\ Len(r) > e /\ Spelt(t[c].path, e, r)
    BY <1>5, <1>7, <2>1, <2>2 DEF Follows
  <2> QED BY <2>3
<1>11. CASE t[at].nType = "catchAll"
  <2>1. t[at].path = <<>> /\ t[c].nType = "catchAll" /\ ~t[c].wildChild
    BY <1>2, <1>3, <1>11 DEF Kinds
  <2>2. Len(t[c].path) = 2 /\ t[c].path[1] = Slash /\ t[c].path[2] \in CatchAlls
    BY <1>6, <2>1 DEF Kinds
  <2>3. Share(route, r, e + 1)
    <3>1. e = d[at]
      <4>1. Len(<<>>) = 0 /\ d[at] \in Nat
        BY <1>2 DEF NodeSpells
      <4> QED BY <2>1, <4>1
    <3>2. route \in v[at] /\ r \in v[at]
      BY <1>7, <1>8 DEF PassSpells
    <3> HIDE DEF e
    <3> QED BY <1>2, <3>1, <3>2 DEF NodeSpells
  <2> HIDE DEF e, c
  <2>4. Len(r) >= e + 2 /\ r[e + 2] \in CatchAlls
    <3>1. 2 \in 1..Len(t[c].path)
      BY <2>2
    <3> QED BY <1>10, <2>2, <3>1 DEF Spelt
  <2>5. e + 2 = Len(r)
    <3>1. Valid(r) /\ e + 2 \in 1..Len(r)
      BY <1>1, <1>8, <1>10, <2>4 DEF Held
    <3> QED BY <2>4, <3>1 DEF Valid
  <2>6. CASE Len(route) = e + 1 \/ route[e + 2] # r[e + 2]
    <3>1. Parted(route, r, e + 1)
      <4>1. (e + 1) + 1 = e + 2 /\ e + 1 \in Nat /\ e + 1 <= Len(route) /\ e + 1 <= Len(r)
        BY <1>1, <1>10, <2>5
      <4> QED BY <1>1, <1>10, <2>3, <2>6, <4>1 DEF Parted
    <3>2. e + 1 < Len(r) /\ r[(e + 1) + 1] \in CatchAlls
      BY <1>1, <2>4, <2>5
    <3>3. Conflict(route, r)
      BY <3>1, <3>2, ConflictAt
    <3> QED BY <1>8, <3>3 DEF Welcome
  <2>7. CASE Len(route) # e + 1 /\ route[e + 2] = r[e + 2]
    <3>1. Len(route) >= e + 2 /\ e + 2 \in 1..Len(route)
      BY <1>1, <2>7
    <3>2. CASE Len(route) = e + 2
      <4>1. \A k \in 1..e + 2 : k \in 1..e + 1 \/ k = e + 2
        BY <1>1
      <4>2. route = r
        BY <1>1, <1>10, <2>3, <2>5, <2>7, <3>2, <4>1 DEF Share
      <4> QED BY <1>8, <4>2 DEF Welcome, Conflict
    <3>3. CASE Len(route) # e + 2
      <4>1. ~FineAt(route, e + 2)
        BY <2>4, <2>7, <3>3 DEF FineAt
      <4> QED BY <3>1, <4>1, Unwelcome
    <3> QED BY <3>2, <3>3
  <2> QED BY <2>6, <2>7
<1>12. CASE t[at].nType # "catchAll"
  <2>1. /\ t[c].nType = "param" /\ t[c].path[1] \in ParamTokens
        /\ \A e1, r1 : e1 = d[at] + Len(t[at].path) /\ r1 \in v[c] => r1[e1 + 1] = t[c].path[1]
    BY <1>0, <1>3, <1>12, ParamBelow
  <2>2. r[e + 1] = t[c].path[1] /\ r[e + 1] \in Wildcards
    BY <1>8, <2>1 DEF Wildcards
  <2>3. ~(t[c].path[1] = path[1] /\ (Len(path) = 1 \/ path[2] = Slash))
    BY <2>1 DEF Continues
  <2> HIDE DEF e, c
  <2>4. CASE t[c].path[1] # path[1]
    <3>1. Conflict(route, r)
      BY <1>1, <1>9, <1>10, <2>2, <2>4, TogetherNext
    <3> QED BY <1>8, <3>1 DEF Welcome
  <2>5. CASE t[c].path[1] = path[1] /\ Len(path) # 1 /\ path[2] # Slash
    <3>1. 2 \in 1..Len(path) /\ Len(route) = e + Len(path) /\ route[e + 2] = path[2]
      <4>1. Len(path) \in Nat /\ Len(path) # 0
        BY <1>0
      <4> DEFINE l == Len(path)
      <4>2. 2 \in 1..l
        <5>1. l \in Nat /\ l # 0 /\ l # 1
          BY <2>5, <4>1
        <5> HIDE DEF l
        <5> QED BY <5>1
      <4> QED BY <1>0, <4>2 DEF Behind
    <3>2. route[e + 1] \in Wildcards /\ e + 1 < Len(route) /\ route[(e + 1) + 1] # Slash
      BY <1>1, <2>2, <2>5, <3>1
    <3>3. ~FineAt(route, e + 1)
      BY <3>2 DEF FineAt
    <3> QED BY <1>1, <3>3, Unwelcome
  <2> QED BY <2>3, <2>4, <2>5
<1> QED BY <1>11, <1>12

\* The walk goes from a parameter to the segment behind it.
LEMMA SegmentTold ==
    ASSUME NEW t, NEW at, NEW path, Passed(t, at, path), t[at].wildChild = FALSE, Distinct,
           NEW d, NEW v, NEW H, NEW route, PassSpells(t, at, path, d, v, H, route),
           t[at].nType = "param", path[1] = Slash, Len(t[at].children) = 1
    PROVE  Told(Descend(t, at, path), H, route)
<1> DEFINE e == d[at] + Len(t[at].path)
           c == t[at].children[1]
<1>0. /\ Ordered(t) /\ InShape(t) /\ at \in 1..Len(t) /\ t \in Seq(Node) /\ Hung(t)
      /\ path \in Seq(STRING) /\ path # <<>>
      /\ Spells(t, d, v, H, 0, at) /\ Behind(t, at, v, H, path, route, e)
  BY PassedFacts
<1>1. /\ e \in Nat /\ route \in Seq(STRING) /\ Len(route) > e /\ route[e + 1] = Slash
  BY <1>0, NextToken
<1>2. 1 \in 1..Len(t[at].children) /\ Key(t[at], 1) = Slash
  BY DEF Key
<1>3. c \in 1..Len(t)
  BY <1>0, <1>2, ChildrenInRange
<1>4. \A e1, r : e1 = d[at] + Len(t[at].path) /\ r \in v[c] => r[e1 + 1] = Key(t[at], 1)
  BY <1>0, <1>2, KeyIsStatic
<1>5. \A r \in v[c] : r[e + 1] = route[e + 1]
  BY <1>1, <1>2, <1>4
<1>6. ASSUME NEW r \in v[at] \cap H PROVE r \in v[c] \/ ~Conflict(route, r)
  <2>1. Beside(t, at, v, route, r, e)
    BY <1>0 DEF Behind
  <2>2. CASE Len(r) = e
    <3>1. route[e + 1] \notin CatchAlls
      BY <1>1 DEF Distinct, Wildcards
    <3> HIDE DEF e
    <3> QED BY <1>1, <2>1, <2>2, <3>1, ApartBehind
  <2>3. CASE Len(r) # e
    <3>1. \A k \in 1..Len(t[at].children) : k = 1
      BY <1>2
    <3> QED BY <2>1, <2>3, <3>1 DEF Beside
  <2> QED BY <2>2, <2>3
<1>7. t[c].nType = "catchAll" => t[c].wildChild
  <2>1. Kinds(t, t[at])
    BY <1>0 DEF Spells
  <2> QED BY <1>2, <2>1 DEF Kinds
<1>8. Descend(t, at, path) = Turn(Bump(t, c), c, path, "walk")
  BY DEF Descend
<1>9. e = d[at] + Len(t[at].path) /\ c = t[at].children[1]
  OBVIOUS
<1> HIDE DEF c, e
<1>10. WalkSpells(t, c, path, d, Also(v, Len(t), c, route), H, route)
  BY <1>0, <1>1, <1>2, <1>5, <1>6, <1>7, <1>9, WalkEnters
<1> QED BY <1>0, <1>3, <1>8, <1>10, WalkRaised

\* The walk follows an index byte.
LEMMA ByteTold ==
    ASSUME NEW t, NEW at, NEW path, Passed(t, at, path), t[at].wildChild = FALSE, Distinct,
           ~(t[at].nType = "param" /\ path[1] = Slash /\ Len(t[at].children) = 1),
           NEW d, NEW v, NEW H, NEW route, PassSpells(t, at, path, d, v, H, route),
           NEW pos, pos = IndexOf(t[at], path[1]), pos # 0
    PROVE  Told(Turn(IncrementChildPrio(t, at, pos), t[at].children[pos], path, "walk"), H, route)
<1> DEFINE e == d[at] + Len(t[at].path)
           n == t[at]
           c == n.children[pos]
<1>0. /\ Ordered(t) /\ InShape(t) /\ at \in 1..Len(t) /\ t \in Seq(Node) /\ Hung(t)
      /\ path \in Seq(STRING) /\ path # <<>>
      /\ Spells(t, d, v, H, 0, at) /\ Behind(t, at, v, H, path, route, e)
  BY PassedFacts
<1>1. /\ e \in Nat /\ route \in Seq(STRING) /\ Len(route) > e /\ route[e + 1] = path[1]
  BY <1>0, NextToken
<1>2. Len(n.indices) = Len(n.children) /\ (n.nType = "param" => n.children = <<>>)
  BY BytesOfPassed
<1>3. n \in Node /\ pos \in 0..Len(n.indices) /\ n.indices[pos] = path[1]
  BY <1>0, Places, IndexOfChild
<1>4. pos \in 1..Len(n.children)
  <2> DEFINE l == Len(n.children)
  <2>1. l \in Nat /\ pos \in 0..l /\ pos # 0
    <3>1. n.children \in Seq(Nat)
      BY <1>3, FieldTypes
    <3> QED BY <1>2, <1>3, <3>1
  <2> HIDE DEF l
  <2>2. pos \in 1..l
    BY <2>1
  <2> QED BY <2>2 DEF l
<1>5. n.nType # "param"
  <2>1. Len(<<>>) = 0
    OBVIOUS
  <2> QED BY <1>2, <1>4, <2>1
<1>6. c \in 1..Len(t) /\ c # at
  <2>1. c \in 1..Len(t)
    BY <1>0, <1>4, ChildrenInRange
  <2> QED BY <1>0, <1>4, <2>1, ChildIsOther
<1>7. \A k \in 1..Len(n.children) :
          /\ Key(n, k) = n.indices[k] /\ Key(n, k) \notin Wildcards
          /\ \A r \in v[n.children[k]] : r[e + 1] = n.indices[k]
  <2> SUFFICES ASSUME NEW k \in 1..Len(n.children)
               PROVE  /\ Key(n, k) = n.indices[k] /\ Key(n, k) \notin Wildcards
                      /\ \A r \in v[n.children[k]] : r[e + 1] = n.indices[k]
    OBVIOUS
  <2>1. Key(n, k) = n.indices[k]
    BY <1>5 DEF Key
  <2>2. /\ Key(n, k) \notin Wildcards
        /\ \A e1, r : e1 = d[at] + Len(t[at].path) /\ r \in v[n.children[k]] => r[e1 + 1] = Key(n, k)
    BY <1>0, KeyIsStatic
  <2> QED BY <2>1, <2>2
<1>8. \A k \in 1..Len(n.children) : n.indices[k] = n.indices[pos] => k = pos
  <2>1. IsInjective(n.indices) /\ DOMAIN n.indices = 1..Len(n.children)
    <3>1. Fits(t, n) /\ n.indices \in Seq(STRING)
      BY <1>0, <1>3, FieldTypes DEF InShape
    <3> QED BY <1>2, <1>5, <3>1 DEF Fits
  <2> QED BY <1>4, <2>1 DEF IsInjective
<1>9. ASSUME NEW r \in v[at] \cap H PROVE r \in v[c] \/ ~Conflict(route, r)
  <2>1. Beside(t, at, v, route, r, e)
    BY <1>0 DEF Behind
  <2>2. route[e + 1] \notin Wildcards
    BY <1>1, <1>3, <1>4, <1>7
  <2>3. CASE Len(r) = e
    <3>1. route[e + 1] \notin CatchAlls
      BY <2>2 DEF Wildcards
    <3> HIDE DEF e
    <3> QED BY <1>1, <2>1, <2>3, <3>1, ApartBehind
  <2>4. CASE Len(r) # e
    <3>1. PICK k \in 1..Len(n.children) : r \in v[n.children[k]] /\ Len(r) > e
      BY <2>1, <2>4 DEF Beside
    <3>2. CASE k = pos
      BY <3>1, <3>2
    <3>3. CASE k # pos
      <4>1. r[e + 1] # route[e + 1] /\ r[e + 1] \notin Wildcards
        BY <1>1, <1>3, <1>7, <1>8, <3>1, <3>3
      <4> HIDE DEF e
      <4> QED BY <1>1, <2>1, <2>2, <3>1, <4>1, ApartNext
    <3> QED BY <3>2, <3>3
  <2> QED BY <2>3, <2>4
<1>10. t[c].nType = "catchAll" => t[c].wildChild
  <2>1. Kinds(t, t[at])
    BY <1>0 DEF Spells
  <2> QED BY <1>4, <2>1 DEF Kinds
<1>11. /\ \A r \in v[c] : r[e + 1] = route[e + 1]
       /\ route[e + 1] = Key(t[at], pos)
  BY <1>1, <1>3, <1>4, <1>7
<1>12. e = d[at] + Len(t[at].path) /\ c = t[at].children[pos] /\ pos \in 1..Len(t[at].children)
  BY <1>4
<1> DEFINE u == IncrementChildPrio(t, at, pos)
           w == Also(v, Len(t), c, route)
<1>13. \E to \in 1..pos : Reordered(t, u, at, pos, to)
  BY <1>0, <1>2, <1>12, PrioReorders
<1> HIDE DEF c, e, u, n
<1>14. WalkSpells(t, c, path, d, w, H, route)
  BY <1>0, <1>1, <1>9, <1>10, <1>11, <1>12, WalkEnters
<1> HIDE DEF w
<1>15. Spells(u, d, w, H, c, c)
  BY <1>0, <1>2, <1>12, <1>14, OrderSpellsNothing DEF u, n, WalkSpells
<1>16. Len(u) = Len(t) /\ SameNode(t[c], u[c])
  BY <1>6, <1>13 DEF Reordered
<1>17. WalkSpells(u, c, path, d, w, H, route)
  BY <1>14, <1>15, <1>16, WalkKept DEF SameNode
<1> QED BY <1>17, ToldWalk DEF u, c, n

\* Every held route at the node either ends there or goes on with another byte.
Diverge(v, at, H, route, e) ==
    /\ route \notin H
    /\ \A r \in v[at] \cap H : Len(r) # e =>
           Len(r) > e /\ r[e + 1] # route[e + 1] /\ r[e + 1] \notin Wildcards

\* No held route goes on as the route does, below a node without its next byte.
LEMMA NoByte ==
    ASSUME NEW t, NEW at, NEW path, Passed(t, at, path), t[at].wildChild = FALSE, Distinct,
           ~(t[at].nType = "param" /\ path[1] = Slash /\ Len(t[at].children) = 1),
           NEW d, NEW v, NEW H, NEW route, PassSpells(t, at, path, d, v, H, route),
           IndexOf(t[at], path[1]) = 0,
           NEW e, e = d[at] + Len(t[at].path)
    PROVE  Diverge(v, at, H, route, e)
<1> DEFINE n == t[at]
<1>0. /\ Ordered(t) /\ InShape(t) /\ at \in 1..Len(t) /\ t \in Seq(Node) /\ Hung(t)
      /\ path \in Seq(STRING) /\ path # <<>>
      /\ Spells(t, d, v, H, 0, at) /\ Behind(t, at, v, H, path, route, e)
  BY PassedFacts
<1>1. /\ e \in Nat /\ route \in Seq(STRING) /\ Len(route) \in Nat /\ Len(route) > e /\ route[e + 1] = path[1]
  BY <1>0, NextToken
<1>2. Len(n.indices) = Len(n.children) /\ (n.nType = "param" => n.children = <<>>)
  BY BytesOfPassed
<1>3. \A k \in 1..Len(n.indices) : n.indices[k] # path[1]
  BY <1>0, Places, IndexOfChild
<1>4. ASSUME NEW k \in 1..Len(n.children)
      PROVE  /\ Key(n, k) # path[1] /\ Key(n, k) \notin Wildcards
             /\ \A r \in v[n.children[k]] : r[e + 1] = Key(n, k)
  <2>1. n.nType # "param"
    <3>1. Len(<<>>) = 0
      OBVIOUS
    <3> QED BY <1>2, <3>1
  <2>2. Key(n, k) = n.indices[k]
    BY <2>1 DEF Key
  <2>3. /\ Key(n, k) \notin Wildcards
        /\ \A e1, r : e1 = d[at] + Len(t[at].path) /\ r \in v[n.children[k]] => r[e1 + 1] = Key(n, k)
    BY <1>0, KeyIsStatic
  <2> QED BY <1>2, <1>3, <2>2, <2>3
<1>5. ASSUME NEW r \in v[at] \cap H, Len(r) # e
      PROVE  Len(r) > e /\ r[e + 1] # route[e + 1] /\ r[e + 1] \notin Wildcards
  <2>1. Beside(t, at, v, route, r, e)
    BY <1>0 DEF Behind
  <2>2. PICK k \in 1..Len(n.children) : r \in v[n.children[k]] /\ Len(r) > e
    BY <1>5, <2>1 DEF Beside
  <2> QED BY <1>1, <1>4, <2>2
<1>6. route \notin H
  <2> SUFFICES ASSUME route \in H PROVE FALSE
    OBVIOUS
  <2>1. route \in v[at] \cap H /\ Len(route) # e
    BY <1>1 DEF PassSpells
  <2> QED BY <1>5, <2>1
<1> QED BY <1>5, <1>6 DEF Diverge

\* A wildcard that no byte leads to is to be inserted below the node.
LEMMA WildcardTold ==
    ASSUME NEW t, NEW at, NEW path, Passed(t, at, path), t[at].wildChild = FALSE, Distinct,
           ~(t[at].nType = "param" /\ path[1] = Slash /\ Len(t[at].children) = 1),
           NEW d, NEW v, NEW H, NEW route, PassSpells(t, at, path, d, v, H, route),
           IndexOf(t[at], path[1]) = 0, path[1] \in Wildcards
    PROVE  InsertSpells(t, at, path, d, v, H, route)
<1>1. route \notin H
  BY NoByte DEF Diverge
<1>2. v[at] \subseteq H \cup {route}
  BY DEF PassSpells, Passed, Through
<1> QED BY <1>1, <1>2 DEF PassSpells, InsertSpells, Placing

\* A byte that is not there yet gets a child, in which the rest is to be placed.
LEMMA GrownTold ==
    ASSUME NEW t, NEW at, NEW path, Passed(t, at, path), t[at].wildChild = FALSE, Distinct,
           ~(t[at].nType = "param" /\ path[1] = Slash /\ Len(t[at].children) = 1),
           NEW d, NEW v, NEW H, NEW route, PassSpells(t, at, path, d, v, H, route),
           IndexOf(t[at], path[1]) = 0, path[1] \notin Wildcards
    PROVE  Told(Turn(GrowChild(t, at, path[1]), Len(t) + 1, path, "insert"), H, route)
<1> DEFINE e == d[at] + Len(t[at].path)
           n == t[at]
           N == Len(t)
           c == path[1]
           u == GrowChild(t, at, c)
           f == With(d, N, e)
           w == With(v, N, {route})
<1>0. /\ Ordered(t) /\ InShape(t) /\ at \in 1..N /\ t \in Seq(Node) /\ Hung(t) /\ N \in Nat
      /\ path \in Seq(STRING) /\ path # <<>> /\ 1 \in 1..Len(path)
      /\ Spells(t, d, v, H, 0, at) /\ Behind(t, at, v, H, path, route, e)
  BY PassedFacts, Places
<1>1. /\ e \in Nat /\ route \in Seq(STRING) /\ Len(route) > e /\ route[e + 1] = path[1]
  BY <1>0, NextToken
<1>2. /\ route \notin H
      /\ \A r \in v[at] \cap H : Len(r) # e =>
             Len(r) > e /\ r[e + 1] # route[e + 1] /\ r[e + 1] \notin Wildcards
  <2>1. Diverge(v, at, H, route, e)
    BY NoByte
  <2> QED BY <2>1 DEF Diverge
<1>3. n.nType = "param" => n.children = <<>> /\ path[1] = Slash
  BY BytesOfPassed
<1>4. n \in Node /\ \A k \in 1..Len(n.indices) : n.indices[k] # path[1]
  BY <1>0, Places, IndexOfChild
<1>5. n.path # <<>>
  BY PassedHasPath
<1>6. c \in STRING \ Wildcards
  BY <1>0
<1>7. n.nType # "catchAll"
  BY DEF PassSpells
<1>8. /\ u \in Seq(Node) /\ Len(u) = N + 1 /\ Fresh(u[N + 1])
  BY <1>0, <1>3, <1>4, <1>5, <1>6, ChildGrown
<1>9. v[at] \subseteq H \cup {route} /\ route \in v[at] /\ Through(v, N, H \cup {route})
      /\ Rivals(v, at, H, route) /\ Remains(path, e, route) /\ Fine(route, e)
  BY <1>0 DEF PassSpells, Through
<1>10. Spells(u, f, w, H, 0, N + 1)
  <2>1. e = d[at] + Len(t[at].path) /\ route[e + 1] = c
    BY <1>1
  <2> HIDE DEF e, c, u
  <2> QED BY <1>0, <1>1, <1>2, <1>3, <1>4, <1>5, <1>6, <1>7, <1>9, <2>1, GrownSpells DEF u, c
<1>11. /\ f[N + 1] = e /\ w[N + 1] = {route}
       /\ \A j \in 1..N : w[j] = v[j]
  <2> HIDE DEF N, e
  <2>0. N \in Nat
    BY <1>0
  <2>1. Extends(f, d, N, e) /\ Extends(w, v, N, {route})
    BY <2>0, WithExtends
  <2> HIDE DEF f, w
  <2> QED BY <2>1 DEF Extends
<1>12. 1 \in 1..N /\ \A j \in 1..N + 1 : j \in 1..N \/ j = N + 1
  BY <1>0
<1>13. ASSUME NEW r \in v[at] \cap H PROVE ~Conflict(route, r)
  <2>1. Beside(t, at, v, route, r, e)
    BY <1>0 DEF Behind
  <2> HIDE DEF e
  <2>2. CASE Len(r) = e
    <3>1. route[e + 1] \notin CatchAlls
      BY <1>1 DEF Wildcards
    <3> QED BY <1>1, <2>1, <2>2, <3>1, ApartBehind
  <2>3. CASE Len(r) # e
    <3>1. Len(r) > e /\ r[e + 1] # route[e + 1] /\ r[e + 1] \notin Wildcards
      BY <1>2, <2>3
    <3> QED BY <1>1, <2>1, <3>1, ApartNext
  <2> QED BY <2>2, <2>3
<1> HIDE DEF u, f, w, e
<1>14. Through(w, Len(u), H \cup {route})
  BY <1>8, <1>9, <1>11, <1>12 DEF Through
<1>15. Rivals(w, N + 1, H, route)
  BY <1>9, <1>11, <1>13 DEF Rivals
<1>16. f[N + 1] + Len(u[N + 1].path) = e
  <2>1. Len(<<>>) = 0
    OBVIOUS
  <2> QED BY <1>1, <1>8, <1>11, <2>1 DEF Fresh
<1>17. Placing(u, f, w, H, N + 1, path, route)
  BY <1>2, <1>8, <1>9, <1>10, <1>11, <1>16 DEF Placing, Fresh
<1>18. ~u[N + 1].wildChild
  BY <1>8 DEF Fresh
<1> HIDE DEF N
<1>19. InsertSpells(u, N + 1, path, f, w, H, route)
  BY <1>9, <1>11, <1>14, <1>15, <1>16, <1>17, <1>18 DEF InsertSpells
<1>20. Told(Turn(u, N + 1, path, "insert"), H, route)
  BY <1>19, ToldInsert
<1> QED BY <1>20 DEF u, N

\* The walk below the node whose path is passed.
LEMMA DescendTold ==
    ASSUME NEW t, NEW at, NEW path, Passed(t, at, path), Distinct,
           NEW d, NEW v, NEW H, NEW route, PassSpells(t, at, path, d, v, H, route), Held(H)
    PROVE  Told(Descend(t, at, path), H, route)
<1> DEFINE n == t[at]
           pos == IndexOf(n, path[1])
<1>1. n.wildChild \in BOOLEAN
  BY Places, FieldTypes DEF Passed, Ordered, InShape
<1>2. CASE n.wildChild /\ Continues(t[n.children[1]], path)
  BY <1>2, ParamTold
<1>3. CASE n.wildChild /\ ~Continues(t[n.children[1]], path)
  <2>1. ~Welcome(route, H)
    BY <1>3, WildcardRefused
  <2>2. Descend(t, at, path) = Panic(Bump(t, n.children[1]))
    BY <1>3 DEF Descend
  <2>3. n.children[1] \in 1..Len(t) /\ InShape(t) /\ Ordered(t)
    <3>1. Ordered(t) /\ at \in 1..Len(t) /\ InShape(t) /\ t \in Seq(Node) /\ Hung(t) /\ Fits(t, n)
      BY Places DEF Passed, Ordered, InShape
    <3>2. Len(n.children) = 1
      BY <1>3, <3>1 DEF Fits
    <3> QED BY <3>1, <3>2, ChildrenInRange
  <2>4. Ordered(Bump(t, n.children[1])) /\ Len(Bump(t, n.children[1])) = Len(t)
    BY <2>3, BumpedInOrder
  <2>5. Spells(Bump(t, n.children[1]), d, v, H, 0, at)
    BY <2>3, BumpSpells DEF PassSpells
  <2>6. Tells(Bump(t, n.children[1]), H)
    BY <2>4, <2>5, PassTells
  <2> QED BY <2>1, <2>2, <2>6, ToldPanic
<1>4. CASE n.wildChild = FALSE /\ n.nType = "param" /\ path[1] = Slash /\ Len(n.children) = 1
  BY <1>4, SegmentTold
<1>5. CASE /\ n.wildChild = FALSE /\ ~(n.nType = "param" /\ path[1] = Slash /\ Len(n.children) = 1)
           /\ pos # 0
  <2>1. Descend(t, at, path) = Turn(IncrementChildPrio(t, at, pos), n.children[pos], path, "walk")
    BY <1>5 DEF Descend
  <2> QED BY <1>5, <2>1, ByteTold
<1>6. CASE /\ n.wildChild = FALSE /\ ~(n.nType = "param" /\ path[1] = Slash /\ Len(n.children) = 1)
           /\ pos = 0 /\ path[1] \in Wildcards
  <2>1. Descend(t, at, path) = Turn(t, at, path, "insert")
    BY <1>6 DEF Descend
  <2>2. InsertSpells(t, at, path, d, v, H, route)
    BY <1>6, WildcardTold
  <2> QED BY <2>1, <2>2, ToldInsert
<1>7. CASE /\ n.wildChild = FALSE /\ ~(n.nType = "param" /\ path[1] = Slash /\ Len(n.children) = 1)
           /\ pos = 0 /\ path[1] \notin Wildcards
  <2>1. Descend(t, at, path) = Turn(GrowChild(t, at, path[1]), Len(t) + 1, path, "insert")
    BY <1>7 DEF Descend
  <2> QED BY <1>7, <2>1, GrownTold
<1> QED BY <1>1, <1>2, <1>3, <1>4, <1>5, <1>6, <1>7

\* A route has the first i tokens of a path, which it leaves there unless it
\* passes it.
Leaves(p, path, e, r, i) ==
    /\ i \in 0..Len(path) /\ i <= Len(p)
    /\ Spelt(UpTo(p, i), e, r) /\ (i < Len(p) => ~Spelt(p, e, r))
    /\ i = Len(p) => Spelt(p, e, r)
    /\ \A k \in 1..i : r[e + k] = path[k] /\ p[k] = path[k]
    /\ Remains(From(path, i + 1), e + i, r)

\* What a route has passed of a path when it leaves it.
LEMMA SharedSpelt ==
    ASSUME NEW p \in Seq(STRING), NEW path \in Seq(STRING), NEW e \in Nat, NEW r,
           Remains(path, e, r), NEW i, i = Len(LongestCommonPrefix({path, p}))
    PROVE  Leaves(p, path, e, r, i)
<1>1. /\ i \in 0..Len(path) /\ i <= Len(p) /\ \A k \in 1..i : path[k] = p[k]
      /\ \A d \in 0..Len(path) : d <= Len(p) /\ (\A k \in 1..d : path[k] = p[k]) => d <= i
  BY CommonLength
<1>2. /\ r \in Seq(STRING) /\ Len(r) = e + Len(path) /\ \A k \in 1..Len(path) : path[k] = r[e + k]
  BY DEF Remains
<1>3. Len(p) \in Nat /\ Len(path) \in Nat /\ i \in Nat /\ i \in 0..Len(p)
  BY <1>1
<1>4. \A k \in 1..i : k \in 1..Len(path) /\ k \in 1..Len(p)
  BY <1>1, <1>3
<1>5. \A k \in 1..i : r[e + k] = path[k] /\ p[k] = path[k]
  BY <1>1, <1>2, <1>4
<1>6. Spelt(UpTo(p, i), e, r)
  <2>1. Len(UpTo(p, i)) = i /\ \A k \in 1..i : UpTo(p, i)[k] = p[k]
    BY <1>3, HeadOf
  <2>2. Len(r) >= e + i
    BY <1>1, <1>2, <1>3
  <2> QED BY <1>5, <2>1, <2>2 DEF Spelt
<1>7. ASSUME i < Len(p), Spelt(p, e, r) PROVE FALSE
  <2>1. Len(r) >= e + Len(p) /\ \A k \in 1..Len(p) : r[e + k] = p[k]
    BY <1>7 DEF Spelt
  <2> DEFINE l == Len(p)
             m == Len(path)
  <2>2. /\ l \in Nat /\ m \in Nat /\ e + m >= e + l /\ i < l
        /\ \A k \in 1..l : r[e + k] = p[k] /\ \A j \in 1..m : path[j] = r[e + j]
    BY <1>2, <1>3, <1>7, <2>1
  <2> HIDE DEF l, m
  <2>3. i + 1 \in 0..m /\ i + 1 <= l /\ ~(i + 1 <= i)
    BY <1>3, <2>2
  <2>4. \A k \in 1..i + 1 : k \in 1..l /\ k \in 1..m
    BY <1>3, <2>2, <2>3
  <2>5. \A k \in 1..i + 1 : path[k] = p[k]
    BY <2>1, <1>2, <2>4 DEF l, m
  <2> QED BY <1>1, <2>3, <2>5 DEF l, m
<1>8. ASSUME i = Len(p) PROVE Spelt(p, e, r)
  <2>1. Len(r) >= e + i
    BY <1>1, <1>2, <1>3
  <2> QED BY <1>5, <1>8, <2>1 DEF Spelt
<1>9. Remains(From(path, i + 1), e + i, r)
  <2> DEFINE q == From(path, i + 1)
  <2>1. i + 1 \in 1..Len(path) + 1
    BY <1>1, <1>3
  <2>2. /\ Len(q) = Len(path) - (i + 1) + 1
        /\ \A k \in 1..Len(path) - (i + 1) + 1 : q[k] = path[(i + 1) + k - 1]
    BY <2>1, TailOf
  <2> HIDE DEF q
  <2>3. Len(r) = (e + i) + Len(q)
    BY <1>1, <1>2, <1>3, <2>2
  <2>4. ASSUME NEW k \in 1..Len(q) PROVE q[k] = r[(e + i) + k]
    <3>1. k \in 1..Len(path) - (i + 1) + 1 /\ (i + 1) + k - 1 = i + k /\ i + k \in 1..Len(path)
          /\ e + (i + k) = (e + i) + k
      BY <1>1, <1>3, <2>2
    <3> QED BY <1>2, <2>2, <3>1
  <2>5. Remains(q, e + i, r)
    BY <1>2, <2>3, <2>4 DEF Remains
  <2> QED BY <2>5 DEF q
<1> QED BY <1>1, <1>5, <1>6, <1>7, <1>8, <1>9 DEF Leaves

\* The tokens that a route shares with a node are fine.
LEMMA SharedFine ==
    ASSUME NEW t, NEW at, NEW path, Walking(Turn(t, at, path, "walk")), Distinct,
           NEW d, NEW v, NEW H, NEW route, WalkSpells(t, at, path, d, v, H, route), Held(H),
           NEW i \in Nat, i <= Len(t[at].path), t[at].path # <<>> => i >= 1,
           \A k \in 1..i : route[d[at] + k] = path[k] /\ t[at].path[k] = path[k],
           i \in 0..Len(path)
    PROVE  Fine(route, d[at] + i)
<1> DEFINE n == t[at]
           e == d[at]
<1>1. /\ at \in 1..Len(t) /\ t \in Seq(Node) /\ n \in Node /\ path \in Seq(STRING)
      /\ Tokenised(path) /\ (n.nType = "param" => Len(path) = 1 \/ path[2] = Slash)
      /\ (n.nType = "param" => Len(n.path) = 1)
  BY Places DEF Walking, Turn, Ordered, InShape, Toward
<1>2. /\ n.path \in Seq(STRING) /\ Len(n.path) \in Nat /\ n.nType \in NodeType /\ Len(path) \in Nat
  BY <1>1, FieldTypes
<1>3. /\ Kinds(t, n) /\ e \in Nat /\ Fine(route, e) /\ Remains(path, e, route)
      /\ Spells(t, d, v, H, at, at)
  BY <1>1 DEF WalkSpells, Spells, NodeSpells
<1>4. \A k \in 1..i : k \in 1..Len(n.path) /\ k \in 1..Len(path)
  BY <1>2
<1> SUFFICES ASSUME NEW k \in 1..i PROVE FineAt(route, e + k)
  <2>1. \A j \in 1..e + i : j \in 1..e \/ (j - e \in 1..i /\ j = e + (j - e))
    BY <1>3
  <2> HIDE DEF e
  <2>2. \A j \in 1..e + i : FineAt(route, j)
    BY <1>3, <2>1 DEF Fine
  <2> QED BY <2>2 DEF Fine, e
<1>5. route[e + k] = path[k] /\ n.path[k] = path[k] /\ k \in 1..Len(n.path) /\ k \in 1..Len(path)
  BY <1>4
<1>6. CASE n.nType \in {"static", "root"}
  <2>1. path[k] \notin Wildcards
    BY <1>3, <1>5, <1>6 DEF Kinds
  <2>2. path[k] \notin Unnamed
    BY <1>1, <1>5, <2>1 DEF Tokenised
  <2> QED BY <1>5, <2>1, <2>2, StaticIsFine
<1>7. CASE n.nType = "catchAll"
  <2>1. n.path = <<>>
    BY <1>3, <1>7 DEF Kinds, WalkSpells
  <2>2. Len(n.path) = 0
    BY <2>1
  <2> HIDE DEF n
  <2> QED BY <1>5, <2>2
<1>8. CASE n.nType = "param"
  <2>1. k = 1 /\ path[1] \in ParamTokens
    <3>1. k \in 1..1
      BY <1>1, <1>5, <1>8
    <3>2. n.path[1] \in ParamTokens
      BY <1>3, <1>8 DEF Kinds
    <3> QED BY <1>5, <3>1, <3>2
  <2>2. PICK r \in v[at] : r \in H
    BY <1>1 DEF WalkSpells, Used
  <2>3. r \in Seq(STRING) /\ Spelt(n.path, e, r) /\ Valid(r)
    <3>1. r \in Seq(STRING) /\ Spelt(n.path, e, r)
      BY <1>1, <1>3, <2>2, GoesOn
    <3> QED BY <2>2, <3>1 DEF Held
  <2>4. Len(r) \in Nat /\ Len(r) >= e + 1 /\ r[e + 1] = path[1]
    <3>1. Len(n.path) = 1
      BY <1>1, <1>8
    <3> QED BY <1>5, <2>1, <2>3, <3>1 DEF Spelt
  <2>5. path[1] \notin Unnamed
    <3>1. e + 1 \in 1..Len(r)
      BY <1>3, <2>4
    <3> QED BY <2>3, <2>4, <3>1 DEF Valid
  <2>6. ASSUME e + 1 < Len(route) PROVE route[(e + 1) + 1] = Slash
    <3>1. Len(route) = e + Len(path) /\ \A j \in 1..Len(path) : path[j] = route[e + j]
      BY <1>3 DEF Remains
    <3> HIDE DEF e, n
    <3>2. Len(path) # 1 /\ 2 \in 1..Len(path) /\ (e + 1) + 1 = e + 2
      BY <1>2, <1>3, <2>6, <3>1
    <3> QED BY <1>1, <1>8, <3>1, <3>2
  <2>7. path[1] \notin CatchAlls
    BY <2>1 DEF Distinct
  <2> HIDE DEF e
  <2> QED BY <1>5, <2>1, <2>5, <2>6, <2>7 DEF FineAt
<1> QED BY <1>2, <1>6, <1>7, <1>8 DEF NodeType

\* The node that the walk splits keeps what the route shares with it.
LEMMA SplitNode ==
    ASSUME NEW t \in Seq(Node), NEW at \in 1..Len(t), t[at].priority >= 1,
           NEW i \in 1..Len(t[at].path) - 1
    PROVE  LET u == SplitEdge(t, at, i)
           IN  /\ Len(u) = Len(t) + 1 /\ u[at].path = UpTo(t[at].path, i) /\ Len(u[at].path) = i
               /\ u[at].nType = t[at].nType
<1> DEFINE N == Len(t)
           n == t[at]
           up == UpperHalf(n, i, N + 1)
           low == LowerHalf(n, i)
           x == [t EXCEPT ![at] = up]
<1>1. N \in Nat /\ n \in Node /\ n.path \in Seq(STRING)
  BY Places, FieldTypes
<1>2. up \in Node /\ low \in Node /\ up.nType = n.nType
  <2> HIDE DEF n, up, low
  <2>1. Halves(n, i, N + 1)
    BY <1>1, HalvesAre DEF n
  <2> QED BY <2>1 DEF Halves, up, low
<1>3. up.path = UpTo(n.path, i)
  BY <1>1 DEF Node, UpperHalf
<1>4. Len(UpTo(n.path, i)) = i
  BY <1>1, HeadOf
<1> HIDE DEF up, low
<1>5. x \in Seq(Node) /\ Len(x) = N /\ x[at] = up
  BY <1>2, Put
<1> HIDE DEF x
<1>6. Append(x, low)[at] = up /\ Len(Append(x, low)) = N + 1
  BY <1>2, <1>5, PutLast
<1> QED BY <1>2, <1>3, <1>4, <1>6 DEF SplitEdge, x, up, low

\* Where the route leaves the path of a node, the walk has passed the upper half.
LEMMA SplitPassed ==
    ASSUME NEW t, NEW at, NEW path, Walking(Turn(t, at, path, "walk")),
           NEW d, NEW v, NEW H, NEW route, WalkSpells(t, at, path, d, v, H, route),
           NEW i \in 1..Len(t[at].path) - 1, NEW rest, Remains(rest, d[at] + i, route),
           Fine(route, d[at] + i),
           ~Spelt(t[at].path, d[at], route), Spelt(UpTo(t[at].path, i), d[at], route)
    PROVE  LET w == With(v, Len(t), {r \in v[at] : Spelt(t[at].path, d[at], r)})
           IN  PassSpells(SplitEdge(t, at, i), at, rest, With(d, Len(t), d[at] + i), w, H, route)
<1> DEFINE N == Len(t)
           u == SplitEdge(t, at, i)
           S == {r \in v[at] : Spelt(t[at].path, d[at], r)}
           f == With(d, N, d[at] + i)
           w == With(v, N, S)
<1>1. /\ at \in 1..N /\ t \in Seq(Node) /\ InShape(t) /\ t[at].priority >= 1
      /\ N \in Nat /\ 1 \in 1..N
  BY Places DEF Walking, Turn, Ordered, InShape
<1>2. /\ Spells(t, d, v, H, at, at) /\ Used(t, v, H) /\ Through(v, N, H \cup {route})
      /\ route \in v[at] /\ Rivals(v, at, H, route)
      /\ t[at].nType = "catchAll" => t[at].wildChild
  BY DEF WalkSpells
<1>3. v[at] \subseteq H \cup {route}
  BY <1>1, <1>2 DEF Through
<1>4. Spells(u, f, w, H, 0, at) /\ Used(u, w, H)
  <2> HIDE DEF f, w, u, S
  <2> QED BY <1>1, <1>2, <1>3, SplitSpells DEF f, w, u, S
<1>5. Extends(f, d, N, d[at] + i) /\ Extends(w, v, N, S)
  <2> HIDE DEF N, S, f, w
  <2> QED BY <1>1, WithExtends DEF f, w
<1>6. Len(u) = N + 1 /\ Len(u[at].path) = i /\ u[at].nType = t[at].nType
  BY <1>1, SplitNode
<1>7. t[at].nType # "catchAll"
  <2> SUFFICES ASSUME t[at].nType = "catchAll" PROVE FALSE
    OBVIOUS
  <2>1. t[at].path = <<>>
    BY <1>1, <1>2 DEF Spells, Kinds
  <2>2. Len(t[at].path) = 0
    BY <2>1
  <2>3. i \in 1..0 - 1
    BY <2>2
  <2> QED BY <2>3
<1>8. S \subseteq v[at]
  OBVIOUS
<1> HIDE DEF u, f, w, S
<1>9. f[at] = d[at] /\ w[at] = v[at] /\ w[1] = v[1] /\ w[N + 1] = S /\ \A j \in 1..N : w[j] = v[j]
  BY <1>1, <1>5 DEF Extends
<1>10. Through(w, Len(u), H \cup {route})
  <2>1. w[1] = H \cup {route}
    BY <1>2, <1>9 DEF Through
  <2>2. ASSUME NEW j \in 1..N + 1 PROVE w[j] # {} /\ w[j] \subseteq H \cup {route}
    <3>1. CASE j = N + 1
      <4>1. j \in 1..Len(u)
        BY <1>6
      <4>2. w[j] \cap H # {}
        BY <1>4, <4>1 DEF Used
      <4>3. w[j] \subseteq H \cup {route}
        BY <1>3, <1>8, <1>9, <3>1
      <4> QED BY <4>2, <4>3
    <3>2. CASE j # N + 1
      <4>1. j \in 1..N
        BY <1>1, <3>2
      <4> QED BY <1>2, <1>9, <4>1 DEF Through
    <3> QED BY <3>1, <3>2
  <2> QED BY <1>6, <2>1, <2>2 DEF Through
<1>11. Rivals(w, at, H, route)
  BY <1>2, <1>9 DEF Rivals
<1>12. PassSpells(u, at, rest, f, w, H, route)
  BY <1>2, <1>4, <1>6, <1>7, <1>9, <1>10, <1>11 DEF PassSpells
<1> QED BY <1>12 DEF u, f, w, S

\* A turn of the walk keeps what a registration tells.
LEMMA WalkTurnTold ==
    ASSUME NEW t, NEW at, NEW path, Walking(Turn(t, at, path, "walk")), Distinct,
           NEW d, NEW v, NEW H, NEW route, WalkSpells(t, at, path, d, v, H, route), Held(H)
    PROVE  Told(WalkTurn(t, at, path, route), H, route)
<1> DEFINE i == Shared(t, at, path)
           u == Split(t, at, path)
           rest == From(path, i + 1)
           p == t[at].path
           e == d[at]
<1>1. PathPassed(t, at, path, i, u)
  BY WalkPasses
<1>2. WalkTurn(t, at, path, route) = IF i = Len(path) THEN AddHandle(u, at, route)
                                     ELSE Descend(u, at, rest)
  BY DEF WalkTurn, Shared, Split
<1>3. /\ at \in 1..Len(t) /\ t \in Seq(Node) /\ InShape(t) /\ path \in Seq(STRING)
      /\ p \in Seq(STRING) /\ Len(p) \in Nat /\ Len(path) \in Nat
  <2>1. at \in 1..Len(t) /\ t \in Seq(Node) /\ InShape(t) /\ path \in Seq(STRING)
    BY DEF Walking, Turn, Ordered, InShape, Toward
  <2> QED BY <2>1, Places, FieldTypes
<1>4. /\ Spells(t, d, v, H, at, at) /\ Remains(path, e, route) /\ e \in Nat
  BY <1>3 DEF WalkSpells, Spells, NodeSpells
<1>5. /\ i \in 0..Len(path) /\ i <= Len(p)
      /\ Spelt(UpTo(p, i), e, route) /\ (i < Len(p) => ~Spelt(p, e, route))
      /\ i = Len(p) => Spelt(p, e, route)
      /\ \A k \in 1..i : route[e + k] = path[k] /\ p[k] = path[k]
      /\ Remains(rest, e + i, route)
  <2> HIDE DEF e, p
  <2>1. i = Len(LongestCommonPrefix({path, p}))
    BY DEF Shared, p
  <2>2. p \in Seq(STRING) /\ path \in Seq(STRING) /\ e \in Nat /\ Remains(path, e, route)
    BY <1>3, <1>4
  <2> HIDE DEF i
  <2>3. Leaves(p, path, e, route, i)
    BY <2>1, <2>2, SharedSpelt
  <2> QED BY <2>3 DEF Leaves, rest
<1>6. u = IF i < Len(p) THEN SplitEdge(t, at, i) ELSE t
  BY DEF Split
<1>7. /\ p # <<>> => i >= 1
      /\ i < Len(p) => i \in 1..Len(p) - 1
      /\ Ordered(u) /\ at \in 1..Len(u)
      /\ i = Len(path) => u[at].path # <<>>
      /\ i # Len(path) => Passed(u, at, rest)
  BY <1>1 DEF PathPassed
<1>8. Fine(route, e + i)
  <2> HIDE DEF i
  <2>1. i \in Nat
    BY <1>3, <1>5
  <2> QED BY <1>5, <1>7, <2>1, SharedFine
<1>9. rest \in Seq(STRING) /\ (i = Len(path) => rest = <<>>)
  <2> HIDE DEF i
  <2>1. i + 1 \in 1..Len(path) + 1
    BY <1>3, <1>5
  <2>2. rest \in Seq(STRING) /\ Len(rest) = Len(path) - (i + 1) + 1
    BY <1>3, <2>1, TailOf
  <2>3. i = Len(path) => Len(rest) = 0
    BY <1>3, <2>2
  <2> HIDE DEF rest
  <2> QED BY <2>2, <2>3
<1> HIDE DEF i, u, rest
<1>10. \E f, w : PassSpells(u, at, rest, f, w, H, route)
  <2>1. CASE i < Len(p)
    <3>1. i \in 1..Len(t[at].path) - 1 /\ u = SplitEdge(t, at, i)
      BY <1>6, <1>7, <2>1
    <3> DEFINE w == With(v, Len(t), {r \in v[at] : Spelt(t[at].path, d[at], r)})
               f == With(d, Len(t), d[at] + i)
    <3>2. PassSpells(SplitEdge(t, at, i), at, rest, f, w, H, route)
      BY <1>5, <1>8, <2>1, <3>1, SplitPassed
    <3> HIDE DEF w, f
    <3> QED BY <3>1, <3>2
  <2>2. CASE ~(i < Len(p))
    <3>1. u = t /\ i = Len(p)
      BY <1>3, <1>5, <1>6, <2>2
    <3>2. v[at] \subseteq H \cup {route}
      BY <1>3 DEF WalkSpells, Through
    <3>3. Spells(t, d, v, H, 0, at)
      BY <1>4, <1>5, <3>1, <3>2, PassedPath
    <3>4. PassSpells(t, at, rest, d, v, H, route)
      BY <1>5, <1>8, <3>1, <3>3 DEF WalkSpells, PassSpells
    <3> QED BY <3>1, <3>4
  <2> QED BY <2>1, <2>2
<1>11. PICK f, w : PassSpells(u, at, rest, f, w, H, route)
  BY <1>10
<1>12. CASE i = Len(path)
  <2>1. WalkTurn(t, at, path, route) = AddHandle(u, at, route)
    BY <1>2, <1>12
  <2>2. Told(AddHandle(u, at, route), H, route)
    BY <1>7, <1>9, <1>11, <1>12, WalkEnds
  <2> QED BY <2>1, <2>2
<1>13. CASE i # Len(path)
  <2>1. WalkTurn(t, at, path, route) = Descend(u, at, rest)
    BY <1>2, <1>13
  <2>2. Told(Descend(u, at, rest), H, route)
    BY <1>7, <1>11, <1>13, DescendTold
  <2> QED BY <2>1, <2>2
<1> QED BY <1>12, <1>13

-----------------------------------------------------------------------------
(* What insertChild tells *)

\* The rest of the route, whose first wildcard is in position w, is to be placed
\* below a node that e of its tokens lead to: in the node if that is new, below
\* it if a wildcard comes next.
Inserts(t, at, path, d, v, H, route, e, w) ==
    /\ InShape(t) /\ at \in 1..Len(t) /\ t \in Seq(Node) /\ Hung(t) /\ Len(t) \in Nat /\ 1 \in 1..Len(t)
    /\ path \in Seq(STRING) /\ path # <<>> /\ Tokenised(path) /\ Len(path) \in Nat
    /\ w \in 0..Len(path) /\ (w # 0 => path[w] \in Wildcards)
    /\ \A k \in 1..Len(path) : path[k] \in Wildcards => w # 0 /\ w <= k
    /\ e = d[at] + Len(t[at].path) /\ e \in Nat /\ d[at] \in Nat
    /\ Behind(t, at, v, H, path, route, e) /\ Fine(route, e)
    /\ Placing(t, d, v, H, at, path, route) /\ Through(v, Len(t), H \cup {route})
    /\ Rivals(v, at, H, route) /\ route \notin H
    /\ ~t[at].wildChild /\ t[at].nType \in {"static", "root"}
    /\ IF w = 1 THEN Used(t, v, H) /\ t[at].path # <<>>
       ELSE v[at] = {route} /\ Fresh(t[at]) /\ e = d[at]

\* What is known at the node where the rest is to be placed.
LEMMA InsertFacts ==
    ASSUME NEW t, NEW at, NEW path, Toward(path),
           IF path[1] \in Wildcards THEN Ready(t, at, 0, Slash) ELSE Ready(t, at, at, path[1]),
           NEW d, NEW v, NEW H, NEW route, InsertSpells(t, at, path, d, v, H, route)
    PROVE  Inserts(t, at, path, d, v, H, route, d[at] + Len(t[at].path), FirstWildcard(path))
<1> DEFINE e == d[at] + Len(t[at].path)
           w == FirstWildcard(path)
<1>1. /\ path \in Seq(STRING) /\ path # <<>> /\ Tokenised(path) /\ Len(path) \in Nat
      /\ 1 \in 1..Len(path) /\ InShape(t) /\ at \in 1..Len(t) /\ t[at].nType # "param" /\ at # 0
  BY DEF Toward, Ready
<1>2. t \in Seq(Node) /\ Hung(t) /\ Len(t) \in Nat /\ 1 \in 1..Len(t) /\ t[at].nType \in NodeType
  <2>1. t \in Seq(Node) /\ Hung(t) /\ t # <<>>
    BY <1>1 DEF InShape
  <2> QED BY <1>1, <2>1, Places, FieldTypes
<1>3. /\ w \in 0..Len(path) /\ (w # 0 => path[w] \in Wildcards)
      /\ \A k \in 1..Len(path) : path[k] \in Wildcards => w # 0 /\ w <= k
  BY <1>1, FirstWildcardOf
<1> HIDE DEF w
<1>4. w = 1 <=> path[1] \in Wildcards
  BY <1>1, <1>3
<1>5. /\ Placing(t, d, v, H, at, path, route) /\ Through(v, Len(t), H \cup {route})
      /\ Rivals(v, at, H, route) /\ Fine(route, e) /\ ~t[at].wildChild
      /\ IF path[1] \in Wildcards THEN Used(t, v, H) ELSE v[at] = {route}
  BY DEF InsertSpells
<1>6. /\ d[at] \in Nat /\ e \in Nat /\ (t[at].path = <<>> => e = d[at])
  BY <1>1, <1>2, <1>5, PlacedAt
<1>7. t[at].nType \in {"static", "root"} /\ route \notin H
  BY <1>1, <1>2, <1>5 DEF Placing, NodeType
<1>8. e = d[at] + Len(t[at].path)
  OBVIOUS
<1> HIDE DEF e
<1>9. Behind(t, at, v, H, path, route, e)
  <2>1. Spells(t, d, v, H, 0, at) /\ route \in v[at] /\ Remains(path, e, route)
    BY <1>5, <1>8 DEF Placing
  <2> QED BY <1>1, <1>8, <2>1, PassedBy
<1>10. IF w = 1 THEN Used(t, v, H) /\ t[at].path # <<>>
       ELSE v[at] = {route} /\ Fresh(t[at]) /\ e = d[at]
  <2>1. CASE w = 1
    <3>1. Ready(t, at, 0, Slash)
      BY <1>4, <2>1
    <3> QED BY <1>1, <1>4, <1>5, <2>1, <3>1 DEF Ready
  <2>2. CASE w # 1
    <3>1. Ready(t, at, at, path[1])
      BY <1>4, <2>2
    <3>2. Fresh(t[at])
      BY <3>1 DEF Ready
    <3> QED BY <1>4, <1>5, <1>6, <2>2, <3>2 DEF Fresh
  <2> QED BY <2>1, <2>2
<1>11. Inserts(t, at, path, d, v, H, route, e, w)
  BY <1>1, <1>2, <1>3, <1>5, <1>6, <1>7, <1>8, <1>9, <1>10 DEF Inserts
<1> QED BY <1>11 DEF e, w

\* The tokens of the rest are those of the route.
LEMMA RestTokens ==
    ASSUME NEW t, NEW at, NEW path, NEW d, NEW v, NEW H, NEW route, NEW e, NEW w,
           Inserts(t, at, path, d, v, H, route, e, w)
    PROVE  /\ e \in Nat /\ route \in Seq(STRING) /\ Len(route) \in Nat /\ Len(path) \in Nat
           /\ Len(route) = e + Len(path) /\ \A k \in 1..Len(path) : route[e + k] = path[k]
           /\ Len(path) # 0
BY DEF Inserts, Behind

\* A token of the rest that is no wildcard is fine.
LEMMA RestIsFine ==
    ASSUME NEW t, NEW at, NEW path, NEW d, NEW v, NEW H, NEW route, NEW e, NEW w,
           Inserts(t, at, path, d, v, H, route, e, w), NEW l \in 0..Len(path),
           \A k \in 1..l : path[k] \notin Wildcards
    PROVE  Fine(route, e + l)
<1>1. /\ e \in Nat /\ \A k \in 1..Len(path) : route[e + k] = path[k]
      /\ Len(path) \in Nat
  BY RestTokens
<1>2. Fine(route, e) /\ Tokenised(path)
  BY DEF Inserts
<1>3. ASSUME NEW k \in 1..l PROVE FineAt(route, e + k)
  <2>1. k \in 1..Len(path)
    BY <1>1
  <2>2. path[k] \notin Wildcards /\ path[k] \notin Unnamed
    BY <1>2, <2>1 DEF Tokenised
  <2> QED BY <1>1, <2>1, <2>2, StaticIsFine
<1>4. \A j \in 1..e + l : j \in 1..e \/ (j - e \in 1..l /\ j = e + (j - e))
  BY <1>1
<1>5. \A j \in 1..e + l : FineAt(route, j)
  BY <1>2, <1>3, <1>4 DEF Fine
<1> QED BY <1>5 DEF Fine

\* A wildcard that the router refuses: unnamed, followed by another, or next to
\* routes that go on with a byte.
LEMMA InsertRefused ==
    ASSUME NEW t, NEW at, NEW path, NEW d, NEW v, NEW H, NEW route, NEW e, NEW w,
           Inserts(t, at, path, d, v, H, route, e, w), Distinct, w # 0,
           \/ w < Len(path) /\ path[w + 1] \in Wildcards
           \/ path[w] \in Unnamed
           \/ t[at].children # <<>>
    PROVE  ~Welcome(route, H)
<1>1. /\ e \in Nat /\ route \in Seq(STRING) /\ Len(route) \in Nat /\ Len(path) \in Nat
      /\ Len(route) = e + Len(path) /\ \A k \in 1..Len(path) : route[e + k] = path[k]
  BY RestTokens
<1>2. w \in 1..Len(path) /\ path[w] \in Wildcards /\ e + w \in 1..Len(route) /\ route[e + w] = path[w]
  <2>1. w \in 1..Len(path) /\ path[w] \in Wildcards
    BY <1>1 DEF Inserts
  <2> QED BY <1>1, <2>1
<1>3. CASE w < Len(path) /\ path[w + 1] \in Wildcards
  <2>1. w + 1 \in 1..Len(path) /\ (e + w) + 1 = e + (w + 1) /\ e + w < Len(route)
    BY <1>1, <1>2, <1>3
  <2>2. route[(e + w) + 1] # Slash
    BY <1>1, <1>3, <2>1 DEF Distinct
  <2>3. ~FineAt(route, e + w)
    BY <1>2, <2>1, <2>2 DEF FineAt
  <2> QED BY <1>2, <2>3, Unwelcome
<1>4. CASE path[w] \in Unnamed
  <2>1. ~FineAt(route, e + w)
    BY <1>2, <1>4 DEF FineAt
  <2> QED BY <1>2, <2>1, Unwelcome
<1>5. CASE t[at].children # <<>>
  <2>1. w = 1 /\ Used(t, v, H)
    BY <1>5 DEF Inserts, Fresh
  <2>2. /\ InShape(t) /\ at \in 1..Len(t) /\ t \in Seq(Node) /\ Hung(t) /\ ~t[at].wildChild
        /\ e = d[at] + Len(t[at].path) /\ Behind(t, at, v, H, path, route, e)
    BY DEF Inserts
  <2>3. Spells(t, d, v, H, 0, at)
    BY DEF Inserts, Placing
  <2>4. 1 \in 1..Len(t[at].children)
    <3>1. t[at].children \in Seq(Nat)
      BY <2>2, Places, FieldTypes
    <3> QED BY <1>5, <3>1
  <2> DEFINE c == t[at].children[1]
  <2>5. c \in 1..Len(t)
    BY <2>2, <2>4, ChildrenInRange
  <2>6. /\ Key(t[at], 1) \notin Wildcards
        /\ \A e1, r : e1 = d[at] + Len(t[at].path) /\ r \in v[c] => r[e1 + 1] = Key(t[at], 1)
    BY <2>2, <2>3, <2>4, KeyIsStatic
  <2>7. Hangs(t, d, v, at, 1) /\ \A r \in v[c] : Follows(t, d, v, H, 0, at, c, r)
    BY <2>2, <2>3, <2>4, <2>5 DEF Spells, NodeSpells
  <2>8. PICK r \in v[c] : r \in H
    BY <2>1, <2>5 DEF Used
  <2>9. d[c] = e /\ r \in v[at] /\ Len(r) > e
    BY <2>2, <2>7, <2>8 DEF Hangs, Follows
  <2>10. Beside(t, at, v, route, r, e)
    BY <2>2, <2>8, <2>9 DEF Behind
  <2>11. r[e + 1] # route[e + 1] /\ route[e + 1] \in Wildcards
    <3>1. r[e + 1] = Key(t[at], 1)
      BY <2>2, <2>6, <2>8
    <3>2. route[e + 1] = path[1] /\ path[1] \in Wildcards
      BY <1>2, <2>1
    <3> QED BY <2>6, <3>1, <3>2
  <2>12. Len(route) > e
    BY <1>1, <1>2
  <2> HIDE DEF c
  <2>13. Conflict(route, r)
    BY <1>1, <2>9, <2>10, <2>11, <2>12, TogetherNext
  <2> QED BY <2>8, <2>13 DEF Welcome
<1> QED BY <1>3, <1>4, <1>5

\* A catch-all that the router refuses: not at the end, right behind the end of
\* a route or of another token than a '/'.
LEMMA CatchAllRefused ==
    ASSUME NEW t, NEW at, NEW path, NEW d, NEW v, NEW H, NEW route, NEW e, NEW w,
           Inserts(t, at, path, d, v, H, route, e, w), Distinct, w # 0,
           t[at].children = <<>>, path[w] \in CatchAlls,
           \/ w # Len(path)
           \/ t[at].path # <<>> /\ Last(t[at].path) = Slash
           \/ w = 1
           \/ path[w - 1] # Slash
    PROVE  ~Welcome(route, H)
<1>1. /\ e \in Nat /\ route \in Seq(STRING) /\ Len(route) \in Nat /\ Len(path) \in Nat
      /\ Len(route) = e + Len(path) /\ \A k \in 1..Len(path) : route[e + k] = path[k]
  BY RestTokens
<1>2. w \in 1..Len(path) /\ e + w \in 1..Len(route) /\ route[e + w] = path[w]
  <2>1. w \in 1..Len(path)
    BY <1>1 DEF Inserts
  <2> QED BY <1>1, <2>1
<1>3. CASE w # Len(path)
  <2>1. e + w # Len(route)
    BY <1>1, <1>2, <1>3
  <2>2. ~FineAt(route, e + w)
    BY <1>2, <2>1 DEF FineAt
  <2> QED BY <1>2, <2>2, Unwelcome
<1>4. CASE w = 1
  <2>1. /\ Used(t, v, H) /\ at \in 1..Len(t) /\ Behind(t, at, v, H, path, route, e)
    BY <1>4 DEF Inserts
  <2>2. PICK r \in v[at] : r \in H
    BY <2>1 DEF Used
  <2>3. Beside(t, at, v, route, r, e)
    BY <2>1, <2>2 DEF Behind
  <2>4. Len(r) = e
    <3>1. Len(t[at].children) = 0
      OBVIOUS
    <3>2. \A k \in 1..Len(t[at].children) : FALSE
      BY <3>1
    <3> QED BY <2>3, <3>2 DEF Beside
  <2>5. Len(route) > e /\ route[e + 1] \in CatchAlls
    BY <1>1, <1>2, <1>4
  <2>6. Conflict(route, r)
    BY <1>1, <2>3, <2>4, <2>5, ApartBehind
  <2> QED BY <2>2, <2>6 DEF Welcome
<1>5. CASE t[at].path # <<>>
  <2>1. w = 1
    BY <1>5 DEF Inserts, Fresh
  <2> QED BY <1>4, <2>1
<1>6. CASE w # 1 /\ path[w - 1] # Slash
  <2>1. w - 1 \in 1..Len(path) /\ e + (w - 1) = (e + w) - 1
    BY <1>1, <1>2, <1>6
  <2>2. route[(e + w) - 1] # Slash
    BY <1>1, <1>6, <2>1
  <2>3. ~FineAt(route, e + w)
    BY <1>2, <2>2 DEF FineAt
  <2> QED BY <1>2, <2>3, Unwelcome
<1> QED BY <1>3, <1>4, <1>5, <1>6

\* No route that ends right before a parameter is in conflict with one that has it.
LEMMA Unrivalled ==
    ASSUME NEW t, NEW at, NEW path, NEW d, NEW v, NEW H, NEW route, NEW e, NEW w,
           Inserts(t, at, path, d, v, H, route, e, w), Distinct,
           t[at].children = <<>>, w = 1 => path[1] \in ParamTokens
    PROVE  \A r \in v[at] \cap H : ~Conflict(route, r)
<1> SUFFICES ASSUME NEW r \in v[at] \cap H PROVE ~Conflict(route, r)
  OBVIOUS
<1>1. /\ e \in Nat /\ route \in Seq(STRING) /\ Len(route) \in Nat /\ Len(path) \in Nat
      /\ Len(route) = e + Len(path) /\ \A k \in 1..Len(path) : route[e + k] = path[k]
      /\ Len(path) # 0
  BY RestTokens
<1>2. w = 1
  BY DEF Inserts
<1>3. Beside(t, at, v, route, r, e)
  BY DEF Inserts, Behind
<1>4. Len(r) = e
  <2>1. Len(t[at].children) = 0
    OBVIOUS
  <2>2. \A k \in 1..Len(t[at].children) : FALSE
    BY <2>1
  <2> QED BY <1>3, <2>2 DEF Beside
<1>5. Len(route) > e /\ 1 \in 1..Len(path)
  BY <1>1
<1>6. route[e + 1] \notin CatchAlls
  BY <1>1, <1>2, <1>5 DEF Distinct
<1> QED BY <1>1, <1>3, <1>4, <1>5, <1>6, ApartBehind

\* A node more for the route, and two.
LEMMA ThroughMore ==
    ASSUME NEW v, NEW n \in Nat, 1 \in 1..n, NEW G, Through(v, n, G), NEW route \in G,
           NEW g, Extends(g, v, n, {route})
    PROVE  Through(g, n + 1, G)
<1>1. \A i \in 1..n + 1 : i \in 1..n \/ i = n + 1
  OBVIOUS
<1> QED BY <1>1 DEF Through, Extends

\* ... and with two nodes more.
LEMMA ThroughTwo ==
    ASSUME NEW v, NEW n \in Nat, 1 \in 1..n, NEW G, Through(v, n, G), NEW route \in G,
           NEW g, TwoMore(g, v, n, {route}, {route})
    PROVE  Through(g, n + 1 + 1, G)
<1>1. \A i \in 1..n + 1 + 1 : i \in 1..n \/ i = n + 1 \/ i = n + 1 + 1
  OBVIOUS
<1> QED BY <1>1 DEF Through, TwoMore

\* How many nodes a wildcard adds.
LEMMA NodesAdded ==
    ASSUME NEW t \in Seq(Node), NEW at \in 1..Len(t), NEW path \in Seq(STRING), NEW w \in 1..Len(path),
           NEW route \in Seq(STRING)
    PROVE  /\ Len(LastParamTree(t, at, path, w, route)) = Len(t) + 1
           /\ Len(ParamTree(t, at, path, w)) = Len(t) + 1 + 1
           /\ Len(path) > 1 /\ path[Len(path) - 1] = Slash /\ Fresh(t[at]) =>
                  Len(CatchAllTree(t, at, path, route)) = Len(t) + 1 + 1
<1> DEFINE N == Len(t)
           n == t[at]
           m == AboveParam(n, path, w, N + 1)
           p == [ParamChild(path[w]) EXCEPT !.handle = route]
           q == [ParamChild(path[w]) EXCEPT !.children = <<N + 1 + 1>>]
           x == [EmptyNode EXCEPT !.priority = 1]
<1>1. n \in Node /\ N \in Nat /\ N + 1 \in Nat /\ N + 1 + 1 \in Nat /\ path[w] \in STRING
  BY Places
<1>2. p \in Node /\ q \in Node /\ x \in Node
  <2> DEFINE c == N + 1 + 1
             token == path[w]
  <2>1. c \in Nat /\ token \in STRING
    BY <1>1
  <2> HIDE DEF c, token
  <2>2. /\ [ParamChild(token) EXCEPT !.handle = route] \in Node
        /\ [ParamChild(token) EXCEPT !.children = <<c>>] \in Node
        /\ [EmptyNode EXCEPT !.priority = 1] \in Node
    BY <2>1, ParamChildIs
  <2> QED BY <2>2 DEF c, token
<1>3. m \in Node
  <2> DEFINE c == N + 1
  <2>1. c \in Nat
    BY <1>1
  <2> HIDE DEF c, n
  <2>2. AboveParam(n, path, w, c) \in Node
    BY <1>1, <2>1, AboveParamIs, Zenon
  <2> QED BY <2>2 DEF c
<1> HIDE DEF m, p, q, x
<1>4. Len(LastParamTree(t, at, path, w, route)) = N + 1
  <2> DEFINE y == [t EXCEPT ![at] = m]
  <2>1. y \in Seq(Node) /\ Len(y) = N
    BY <1>3, Put
  <2>2. LastParamTree(t, at, path, w, route) = Append(y, p)
    BY DEF LastParamTree, m, p
  <2> HIDE DEF y
  <2>3. Len(Append(y, p)) = N + 1
    BY <1>2, <2>1, PutLast
  <2> QED BY <2>2, <2>3
<1>5. Len(ParamTree(t, at, path, w)) = N + 1 + 1
  <2>1. Planted([t EXCEPT ![at] = m] \o <<q, x>>, t, at, m, q, x)
    BY <1>2, <1>3, TwoAppended
  <2>2. ParamTree(t, at, path, w) = [t EXCEPT ![at] = m] \o <<q, x>>
    BY DEF ParamTree, m, q, x
  <2> QED BY <2>1, <2>2 DEF Planted
<1>6. ASSUME Len(path) > 1, path[Len(path) - 1] = Slash, Fresh(n)
      PROVE  Len(CatchAllTree(t, at, path, route)) = N + 1 + 1
  <2> DEFINE M == N + 1
             L == N + 1 + 1
             a == AboveCatchAll(n, path, M)
             b == Marker(L)
             c == CatchAllLeaf(path, route)
  <2>1. M \in Nat /\ L \in Nat /\ L # 0 /\ M # 0
    BY <1>1
  <2>2. a \in Node /\ b \in Node /\ c \in Node
    <3> HIDE DEF M, L, n
    <3>1. IsAboveCatchAll(AboveCatchAll(n, path, M), M, path[1])
      BY <1>1, <1>6, <2>1, CatchAllNodesAre
    <3>2. IsMarker(Marker(L), L) /\ IsCatchAllLeaf(CatchAllLeaf(path, route), route)
      BY <1>1, <1>6, <2>1, CatchAllNodesAre
    <3> QED BY <3>1, <3>2 DEF IsAboveCatchAll, IsMarker, IsCatchAllLeaf
  <2>3. CatchAllTree(t, at, path, route) = [t EXCEPT ![at] = a] \o <<b, c>>
    BY DEF CatchAllTree, Marker, CatchAllLeaf
  <2> HIDE DEF a, b, c
  <2>4. Planted([t EXCEPT ![at] = a] \o <<b, c>>, t, at, a, b, c)
    BY <2>2, TwoAppended
  <2> QED BY <2>3, <2>4 DEF Planted
<1> QED BY <1>4, <1>5, <1>6

\* The rest without wildcards is placed in the new node, and the route is welcome.
LEMMA LeafTold ==
    ASSUME NEW t, NEW at, NEW path, NEW d, NEW v, NEW H, NEW route, NEW e, NEW w,
           Inserts(t, at, path, d, v, H, route, e, w), Distinct, w = 0
    PROVE  Told(Done(LeafTree(t, at, path, route)), H, route)
<1> DEFINE u == LeafTree(t, at, path, route)
<1>1. /\ e \in Nat /\ route \in Seq(STRING) /\ Len(path) \in Nat /\ Len(route) = e + Len(path)
  BY RestTokens
<1>2. /\ InShape(t) /\ at \in 1..Len(t) /\ t \in Seq(Node) /\ path \in Seq(STRING)
      /\ Fresh(t[at]) /\ v[at] = {route} /\ route \notin H /\ Placing(t, d, v, H, at, path, route)
      /\ Through(v, Len(t), H \cup {route}) /\ Rivals(v, at, H, route)
      /\ \A k \in 1..Len(path) : path[k] \notin Wildcards
  BY DEF Inserts
<1>3. Spells(u, d, v, H \cup {route}, 0, 0)
  BY <1>2, LeafSpells
<1>4. Len(u) = Len(t)
  BY <1>2 DEF LeafTree
<1>5. Fine(route, Len(route))
  <2>1. Len(path) \in 0..Len(path)
    BY <1>1
  <2>2. Fine(route, e + Len(path))
    BY <1>2, <2>1, RestIsFine
  <2> QED BY <1>1, <2>2
<1>6. \A r \in v[at] \cap H : ~Conflict(route, r)
  BY <1>2
<1>7. Welcome(route, H)
  BY <1>2, <1>5, <1>6, Welcomed
<1> HIDE DEF u
<1>8. Through(v, Len(u), H \cup {route})
  BY <1>2, <1>4
<1>9. Told(Done(u), H, route)
  BY <1>3, <1>7, <1>8, ToldDone
<1> QED BY <1>9 DEF u

\* The parameter is the next token the node above it leads to.
LEMMA InsertsParam ==
    ASSUME NEW t, NEW at, NEW path, NEW d, NEW v, NEW H, NEW route, NEW e, NEW w,
           Inserts(t, at, path, d, v, H, route, e, w), w # 0, Distinct,
           t[at].children = <<>>, path[w] \in ParamTokens, path[w] \notin Unnamed,
           w < Len(path) => path[w + 1] = Slash
    PROVE  /\ w \in 1..Len(path) /\ ParamNext(t[at], path, w, v[at], route)
           /\ Fine(route, e + w) /\ \A r \in v[at] \cap H : ~Conflict(route, r)
<1>1. /\ e \in Nat /\ route \in Seq(STRING) /\ Len(path) \in Nat /\ Len(route) = e + Len(path)
      /\ \A k \in 1..Len(path) : route[e + k] = path[k]
  BY RestTokens
<1>2. /\ w \in 0..Len(path) /\ \A k \in 1..Len(path) : path[k] \in Wildcards => w # 0 /\ w <= k
      /\ t[at].nType \in {"static", "root"}
      /\ IF w = 1 THEN t[at].path # <<>> ELSE v[at] = {route} /\ Fresh(t[at])
  BY DEF Inserts
<1>3. w \in 1..Len(path) /\ w - 1 \in 0..Len(path)
  BY <1>1, <1>2
<1>4. \A k \in 1..w - 1 : path[k] \notin Wildcards
  <2>1. \A k \in 1..w - 1 : k \in 1..Len(path) /\ ~(w <= k)
    BY <1>1, <1>3
  <2> QED BY <1>2, <2>1
<1>5. ParamNext(t[at], path, w, v[at], route)
  <2>1. Fresh(t[at]) => v[at] = {route}
    BY <1>2 DEF Fresh
  <2> QED BY <1>2, <1>4, <2>1 DEF ParamNext
<1>6. Fine(route, e + (w - 1))
  BY <1>3, <1>4, RestIsFine
<1>7. FineAt(route, e + w)
  <2>1. route[e + w] = path[w] /\ path[w] \notin CatchAlls
    BY <1>1, <1>3 DEF Distinct
  <2>2. ASSUME e + w < Len(route) PROVE route[(e + w) + 1] = Slash
    <3>1. w < Len(path) /\ w + 1 \in 1..Len(path) /\ (e + w) + 1 = e + (w + 1)
      BY <1>1, <1>3, <2>2
    <3> QED BY <1>1, <3>1
  <2> QED BY <2>1, <2>2 DEF FineAt
<1>8. Fine(route, e + w)
  <2>1. \A j \in 1..e + w : j \in 1..e + (w - 1) \/ j = e + w
    BY <1>1, <1>3
  <2> QED BY <1>6, <1>7, <2>1 DEF Fine
<1>9. \A r \in v[at] \cap H : ~Conflict(route, r)
  BY Unrivalled
<1> QED BY <1>3, <1>5, <1>8, <1>9

\* A parameter that ends the route is placed, and the route is welcome.
LEMMA LastParamTold ==
    ASSUME NEW t, NEW at, NEW path, NEW d, NEW v, NEW H, NEW route, NEW e, NEW w,
           Inserts(t, at, path, d, v, H, route, e, w), Distinct, w = Len(path),
           t[at].children = <<>>, path[w] \in ParamTokens, path[w] \notin Unnamed
    PROVE  Told(Done(LastParamTree(t, at, path, w, route)), H, route)
<1> DEFINE N == Len(t)
           u == LastParamTree(t, at, path, w, route)
           G == H \cup {route}
           y == d[at] + Len(t[at].path) + (w - 1)
           f == With(d, N, y)
           g == With(v, N, {route})
<1>1. /\ e \in Nat /\ route \in Seq(STRING) /\ Len(path) \in Nat /\ Len(route) = e + Len(path)
      /\ Len(path) # 0
  BY RestTokens
<1>2. /\ InShape(t) /\ at \in 1..N /\ t \in Seq(Node) /\ path \in Seq(STRING) /\ path # <<>>
      /\ Placing(t, d, v, H, at, path, route) /\ N \in Nat /\ 1 \in 1..N
      /\ Through(v, N, G) /\ Rivals(v, at, H, route)
  BY DEF Inserts
<1>3. /\ w \in 1..Len(path) /\ ParamNext(t[at], path, w, v[at], route)
      /\ Fine(route, e + w) /\ \A r \in v[at] \cap H : ~Conflict(route, r)
  BY <1>1, InsertsParam
<1>4. Spells(u, f, g, G, 0, 0)
  BY <1>2, <1>3, LastParamSpells
<1>5. Len(u) = N + 1
  BY <1>1, <1>2, <1>3, NodesAdded
<1>6. Welcome(route, H)
  <2>1. Fine(route, Len(route))
    BY <1>1, <1>3
  <2> QED BY <1>2, <1>3, <2>1, Welcomed
<1>7. Extends(g, v, N, {route})
  <2> HIDE DEF N
  <2> QED BY <1>2, WithExtends
<1> HIDE DEF u, f, g, y, N
<1>8. Through(g, Len(u), G)
  <2>1. route \in G
    OBVIOUS
  <2> HIDE DEF G
  <2>2. Through(g, N + 1, G)
    BY <1>2, <1>7, <2>1, ThroughMore
  <2> QED BY <1>5, <2>2
<1>9. Told(Done(u), H, route)
  BY <1>4, <1>6, <1>8, ToldDone
<1> QED BY <1>9 DEF u

\* A parameter in the middle of the route is placed, and the rest remains to be.
LEMMA ParamInsertedTold ==
    ASSUME NEW t, NEW at, NEW path, NEW d, NEW v, NEW H, NEW route, NEW e, NEW w,
           Inserts(t, at, path, d, v, H, route, e, w), Distinct, w # 0, w < Len(path),
           t[at].children = <<>>, path[w] \in ParamTokens, path[w] \notin Unnamed,
           path[w + 1] = Slash, Fresh(ParamTree(t, at, path, w)[Len(t) + 1 + 1])
    PROVE  Told(Turn(ParamTree(t, at, path, w), Len(t) + 1 + 1, From(path, w + 1), "insert"), H, route)
<1> DEFINE N == Len(t)
           L == N + 1 + 1
           u == ParamTree(t, at, path, w)
           G == H \cup {route}
           y == d[at] + Len(t[at].path) + (w - 1)
           rest == From(path, w + 1)
<1>1. /\ e \in Nat /\ route \in Seq(STRING) /\ Len(path) \in Nat /\ Len(route) = e + Len(path)
      /\ Len(path) # 0
  BY RestTokens
<1>2. /\ InShape(t) /\ at \in 1..N /\ t \in Seq(Node) /\ path \in Seq(STRING) /\ path # <<>>
      /\ Placing(t, d, v, H, at, path, route) /\ N \in Nat /\ 1 \in 1..N
      /\ Through(v, N, G) /\ Rivals(v, at, H, route) /\ e = d[at] + Len(t[at].path)
  BY DEF Inserts
<1>3. /\ w \in 1..Len(path) /\ ParamNext(t[at], path, w, v[at], route)
      /\ Fine(route, e + w) /\ \A r \in v[at] \cap H : ~Conflict(route, r)
  BY <1>1, InsertsParam
<1>4. w \in 1..Len(path) - 1
  BY <1>1, <1>3
<1>5. PICK f : TwoMore(f, d, N, y, y + 1)
  <2> HIDE DEF N, y
  <2> QED BY <1>2, ExtendedTwice
<1>6. PICK g : TwoMore(g, v, N, {route}, {route})
  <2> HIDE DEF N
  <2> QED BY <1>2, ExtendedTwice
<1>7. Placing(u, f, g, H, L, rest, route)
  <2>1. y = d[at] + Len(t[at].path) + (w - 1)
    OBVIOUS
  <2> HIDE DEF y
  <2> QED BY <1>2, <1>3, <1>4, <1>5, <1>6, <2>1, ParamSpells
<1>8. Len(u) = L
  BY <1>1, <1>2, <1>3, NodesAdded
<1>9. y + 1 = e + w
  BY <1>1, <1>2, <1>3
<1>10. f[L] = y + 1 /\ g[L] = {route} /\ Fresh(u[L])
  BY <1>5, <1>6 DEF TwoMore
<1>11. rest[1] = Slash
  <2>1. w + 1 \in 1..Len(path) + 1 /\ 1 \in 1..Len(path) - (w + 1) + 1 /\ (w + 1) + 1 - 1 = w + 1
    BY <1>1, <1>4
  <2>2. \A k \in 1..Len(path) - (w + 1) + 1 : rest[k] = path[(w + 1) + k - 1]
    BY <1>2, <2>1, TailOf
  <2> HIDE DEF rest
  <2> QED BY <2>1, <2>2
<1> HIDE DEF u, y, rest
<1>12. Through(g, Len(u), G)
  <2>1. route \in G
    OBVIOUS
  <2> HIDE DEF G
  <2>2. Through(g, N + 1 + 1, G)
    <3> HIDE DEF N
    <3> QED BY <1>2, <1>6, <2>1, ThroughTwo
  <2> QED BY <1>8, <2>2
<1> HIDE DEF L
<1>13. Rivals(g, L, H, route)
  BY <1>2, <1>3, <1>10 DEF Rivals
<1>14. Fine(route, f[L] + Len(u[L].path))
  <2>1. u[L].path = <<>> /\ Len(<<>>) = 0
    BY <1>10 DEF Fresh
  <2>2. f[L] + Len(u[L].path) = e + w
    BY <1>1, <1>3, <1>9, <1>10, <2>1
  <2> QED BY <1>3, <2>2
<1>15. rest[1] \notin Wildcards /\ ~u[L].wildChild
  BY <1>10, <1>11 DEF Distinct, Fresh
<1>16. InsertSpells(u, L, rest, f, g, H, route)
  BY <1>7, <1>10, <1>12, <1>13, <1>14, <1>15 DEF InsertSpells
<1>17. Told(Turn(u, L, rest, "insert"), H, route)
  BY <1>16, ToldInsert
<1> QED BY <1>17 DEF u, L, rest

\* A catch-all at the end of the route is placed, and the route is welcome.
LEMMA CatchAllTold ==
    ASSUME NEW t, NEW at, NEW path, NEW d, NEW v, NEW H, NEW route, NEW e, NEW w,
           Inserts(t, at, path, d, v, H, route, e, w), Distinct, w = Len(path), w # 1,
           t[at].children = <<>>, path[w] \in CatchAlls, path[w] \notin Unnamed,
           path[w - 1] = Slash
    PROVE  Told(Done(CatchAllTree(t, at, path, route)), H, route)
<1> DEFINE N == Len(t)
           u == CatchAllTree(t, at, path, route)
           G == H \cup {route}
           y == d[at] + (Len(path) - 2)
<1>1. /\ e \in Nat /\ route \in Seq(STRING) /\ Len(path) \in Nat /\ Len(route) = e + Len(path)
      /\ Len(path) # 0 /\ \A k \in 1..Len(path) : route[e + k] = path[k]
  BY RestTokens
<1>2. /\ InShape(t) /\ at \in 1..N /\ t \in Seq(Node) /\ path \in Seq(STRING) /\ path # <<>>
      /\ Placing(t, d, v, H, at, path, route) /\ N \in Nat /\ 1 \in 1..N
      /\ Through(v, N, G) /\ Rivals(v, at, H, route) /\ route \notin H
      /\ v[at] = {route} /\ Fresh(t[at]) /\ e = d[at]
      /\ \A k \in 1..Len(path) : path[k] \in Wildcards => w <= k
  BY DEF Inserts
<1>3. Len(path) > 1 /\ w \in 1..Len(path) /\ w - 1 \in 1..Len(path) /\ w - 1 \in 0..Len(path)
  BY <1>1
<1>4. \A k \in 1..Len(path) - 1 : path[k] \notin Wildcards
  <2>1. \A k \in 1..Len(path) - 1 : k \in 1..Len(path) /\ ~(w <= k)
    BY <1>1
  <2> QED BY <1>2, <2>1
<1>5. PICK f : TwoMore(f, d, N, y, y)
  <2> HIDE DEF N, y
  <2> QED BY <1>2, ExtendedTwice
<1>6. PICK g : TwoMore(g, v, N, {route}, {route})
  <2> HIDE DEF N
  <2> QED BY <1>2, ExtendedTwice
<1>7. Spells(u, f, g, G, 0, 0)
  <2>1. y = d[at] + (Len(path) - 2)
    OBVIOUS
  <2> HIDE DEF y, N
  <2> QED BY <1>2, <1>3, <1>4, <1>5, <1>6, <2>1, CatchAllSpells DEF N
<1>8. Len(u) = N + 1 + 1
  BY <1>1, <1>2, <1>3, NodesAdded
<1>9. Welcome(route, H)
  <2>1. Fine(route, e + (w - 1))
    BY <1>3, <1>4, RestIsFine
  <2>2. FineAt(route, e + w)
    <3>1. route[e + w] = path[w] /\ e + w = Len(route)
      BY <1>1, <1>3
    <3>2. e + (w - 1) = (e + w) - 1
      BY <1>1, <1>3
    <3>3. route[(e + w) - 1] = Slash
      BY <1>1, <1>3, <3>2
    <3> QED BY <1>1, <3>1, <3>3 DEF FineAt
  <2>3. \A j \in 1..Len(route) : j \in 1..e + (w - 1) \/ j = e + w
    BY <1>1, <1>3
  <2>4. Fine(route, Len(route))
    BY <2>1, <2>2, <2>3 DEF Fine
  <2>5. \A r \in v[at] \cap H : ~Conflict(route, r)
    BY <1>2
  <2> QED BY <1>2, <2>4, <2>5, Welcomed
<1> HIDE DEF u, y, N
<1>10. Through(g, Len(u), G)
  <2>1. route \in G
    OBVIOUS
  <2> HIDE DEF G
  <2>2. Through(g, N + 1 + 1, G)
    BY <1>2, <1>6, <2>1, ThroughTwo
  <2> QED BY <1>8, <2>2
<1>11. Told(Done(u), H, route)
  BY <1>7, <1>9, <1>10, ToldDone
<1> QED BY <1>11 DEF u

\* A turn of insertChild keeps what a registration tells.
LEMMA InsertTurnTold ==
    ASSUME NEW t, NEW at, NEW path, Toward(path), Distinct,
           IF path[1] \in Wildcards THEN Ready(t, at, 0, Slash) ELSE Ready(t, at, at, path[1]),
           NEW d, NEW v, NEW H, NEW route, InsertSpells(t, at, path, d, v, H, route)
    PROVE  Told(InsertTurn(t, at, path, route), H, route)
<1> DEFINE e == d[at] + Len(t[at].path)
           w == FirstWildcard(path)
           s == InsertTurn(t, at, path, route)
           refused == \/ w < Len(path) /\ path[w + 1] \in Wildcards
                      \/ path[w] \in Unnamed
                      \/ t[at].children # <<>>
           misplaced == \/ w # Len(path)
                        \/ t[at].path # <<>> /\ Last(t[at].path) = Slash
                        \/ w = 1
                        \/ path[w - 1] # Slash
<1>1. Inserts(t, at, path, d, v, H, route, e, w)
  BY InsertFacts
<1>2. s = IF w = 0 THEN Done(LeafTree(t, at, path, route))
          ELSE IF refused THEN Panic(t)
          ELSE IF path[w] \in ParamTokens THEN InsertParam(t, at, path, w, route)
          ELSE InsertCatchAll(t, at, path, w, route)
  BY DEF InsertTurn, FirstWildcard, LeafTree
<1> HIDE DEF e, w, s
<1>3. /\ w \in 0..Len(path) /\ Len(path) \in Nat /\ (w # 0 => path[w] \in Wildcards)
      /\ path \in Seq(STRING) /\ Tokenised(path)
  BY <1>1 DEF Inserts
<1>4. CASE w = 0
  BY <1>1, <1>2, <1>4, LeafTold DEF s
<1>5. CASE w # 0 /\ refused
  <2>1. ~Welcome(route, H)
    BY <1>1, <1>5, InsertRefused
  <2>2. s = Panic(t)
    BY <1>2, <1>5
  <2> QED BY <2>1, <2>2, InsertTells, ToldPanic DEF s
<1>6. CASE w # 0 /\ ~refused /\ path[w] \in ParamTokens /\ w < Len(path)
  <2> DEFINE u == ParamTree(t, at, path, w)
             L == Len(t) + 1 + 1
             rest == From(path, w + 1)
  <2>1. path[w + 1] = Slash
    <3>1. w \in 1..Len(path) - 1 /\ path[w] \in Wildcards
      BY <1>3, <1>6
    <3>2. path[w + 1] \in Wildcards \cup {Slash}
      BY <1>3, <3>1 DEF Tokenised
    <3> QED BY <1>6, <3>2
  <2>2. Fresh(u[L])
    <3>1. PICK fresh, c : AtWildcard(t, at, fresh, c, path, w)
      <4>1. CASE path[1] \in Wildcards
        <5>1. w = 1
          <6>1. \A k \in 1..Len(path) : path[k] \in Wildcards => w <= k
            BY <1>1 DEF Inserts
          <6>2. 1 \in 1..Len(path)
            BY <1>3, <1>6
          <6> QED BY <1>3, <1>6, <4>1, <6>1, <6>2
        <5>2. Ready(t, at, 0, Slash) /\ at # 0
          BY <4>1 DEF Ready
        <5> QED BY <1>6, <5>1, <5>2 DEF AtWildcard
      <4>2. CASE path[1] \notin Wildcards
        <5>1. w # 1 /\ Ready(t, at, at, path[1])
          BY <1>3, <1>6, <4>2
        <5>2. w > 1
          BY <1>3, <1>6, <5>1
        <5> QED BY <1>6, <5>1, <5>2 DEF AtWildcard
      <4> QED BY <4>1, <4>2
    <3>2. w \in 1..Len(path)
      BY <1>3, <1>6
    <3>3. Ready(u, L, L, Slash)
      BY <1>3, <3>1, <3>2, ParamInserted
    <3> QED BY <3>3 DEF Ready
  <2>3. s = Turn(u, L, rest, "insert")
    BY <1>2, <1>6 DEF InsertParam, ParamTree
  <2>4. Told(Turn(u, L, rest, "insert"), H, route)
    BY <1>1, <1>6, <2>1, <2>2, ParamInsertedTold
  <2> QED BY <2>3, <2>4 DEF s
<1>7. CASE w # 0 /\ ~refused /\ path[w] \in ParamTokens /\ ~(w < Len(path))
  <2>1. w = Len(path)
    BY <1>3, <1>7
  <2>2. s = Done(LastParamTree(t, at, path, w, route))
    BY <1>2, <1>7 DEF InsertParam, LastParamTree
  <2>3. Told(Done(LastParamTree(t, at, path, w, route)), H, route)
    BY <1>1, <1>7, <2>1, LastParamTold
  <2> QED BY <2>2, <2>3 DEF s
<1>8. CASE w # 0 /\ ~refused /\ path[w] \notin ParamTokens
  <2>1. path[w] \in CatchAlls
    BY <1>3, <1>8 DEF Wildcards
  <2>2. s = InsertCatchAll(t, at, path, w, route)
    BY <1>2, <1>8
  <2>3. CASE misplaced
    <3>1. s = Panic(t)
      BY <2>2, <2>3 DEF InsertCatchAll
    <3>2. ~Welcome(route, H)
      BY <1>1, <1>8, <2>1, <2>3, CatchAllRefused
    <3> QED BY <3>1, <3>2, InsertTells, ToldPanic DEF s
  <2>4. CASE ~misplaced
    <3>1. s = Done(CatchAllTree(t, at, path, route))
      BY <2>2, <2>4 DEF InsertCatchAll, CatchAllTree
    <3>2. Told(Done(CatchAllTree(t, at, path, route)), H, route)
      BY <1>1, <1>8, <2>1, <2>4, CatchAllTold
    <3> QED BY <3>1, <3>2 DEF s
  <2> QED BY <2>3, <2>4
<1> QED BY <1>4, <1>5, <1>6, <1>7, <1>8

\* Every turn keeps what a registration tells.
LEMMA NextTurnTold ==
    ASSUME NEW s, NEW H, NEW route, Good(s, H, route), Told(s, H, route), Held(H), Distinct
    PROVE  Told(NextTurn(s, route), H, route)
<1>1. CASE s.phase = "walk"
  <2>1. PICK d, v : WalkSpells(s.tree, s.at, s.path, d, v, H, route)
    BY <1>1 DEF Told
  <2>2. Walking(Turn(s.tree, s.at, s.path, "walk"))
    BY <1>1 DEF Good, Walking, Turn
  <2>3. Told(WalkTurn(s.tree, s.at, s.path, route), H, route)
    BY <2>1, <2>2, WalkTurnTold
  <2>4. NextTurn(s, route) = WalkTurn(s.tree, s.at, s.path, route)
    BY <1>1 DEF NextTurn
  <2> QED BY <2>3, <2>4
<1>2. CASE s.phase = "insert"
  <2>1. PICK d, v : InsertSpells(s.tree, s.at, s.path, d, v, H, route)
    BY <1>2 DEF Told
  <2>2. /\ Toward(s.path)
        /\ IF s.path[1] \in Wildcards THEN Ready(s.tree, s.at, 0, Slash)
           ELSE Ready(s.tree, s.at, s.at, s.path[1])
    BY <1>2 DEF Good, Inserting
  <2>3. Told(InsertTurn(s.tree, s.at, s.path, route), H, route)
    BY <2>1, <2>2, InsertTurnTold
  <2>4. NextTurn(s, route) = InsertTurn(s.tree, s.at, s.path, route)
    BY <1>2 DEF NextTurn
  <2> QED BY <2>3, <2>4
<1>3. CASE s.phase \notin {"walk", "insert"}
  BY <1>3 DEF NextTurn
<1> QED BY <1>1, <1>2, <1>3

-----------------------------------------------------------------------------
(* What a whole registration tells *)

\* At the root, before its path, every tree spells the routes it holds and one
\* that is to be added: all of them begin with a '/'.
LEMMA RootReached ==
    ASSUME NEW t, InShape(t), NEW d, NEW v, NEW H, Spells(t, d, v, H, 0, 0),
           Through(v, Len(t), H), Held(H), NEW route \in Seq(STRING), route # <<>>, route[1] = Slash
    PROVE  Spells(t, d, Also(v, Len(t), 1, route), H, 1, 1)
<1> DEFINE N == Len(t)
           w == Also(v, N, 1, route)
<1>1. t \in Seq(Node) /\ Hung(t) /\ N \in Nat /\ 1 \in 1..N
  BY Places DEF InShape
<1>2. w[1] = v[1] \cup {route} /\ \A j \in 1..N : j # 1 => w[j] = v[j]
  <2> HIDE DEF N
  <2> QED BY <1>1, AlsoIs
<1> HIDE DEF w
<1>3. v[1] = H /\ d[1] = 0 /\ Len(route) > 0 /\ 0 + 1 = 1
  BY DEF Through, Spells
<1>4. ASSUME NEW i \in 1..N PROVE NodeSpells(t, d, v, H, 0, 0, i) /\ Kinds(t, t[i]) /\ i # 0
  BY <1>1 DEF Spells
<1>5. ASSUME NEW i \in 1..N, NEW r \in v[i] PROVE Follows(t, d, w, H, 1, 1, i, r)
  <2>1. Follows(t, d, v, H, 0, 0, i, r) /\ i # 0
    BY <1>4 DEF NodeSpells
  <2>2. \A k \in 1..Len(t[i].children) : v[t[i].children[k]] = w[t[i].children[k]]
    <3>1. \A k \in 1..Len(t[i].children) : t[i].children[k] \in 2..N
      BY <1>1, ChildrenInRange
    <3>2. \A k \in 1..Len(t[i].children) : t[i].children[k] \in 1..N /\ t[i].children[k] # 1
      BY <1>1, <3>1
    <3> QED BY <1>2, <3>2
  <2> QED BY <2>1, <2>2 DEF Follows
<1>6. ASSUME NEW i \in 1..N, NEW k \in 1..Len(t[i].children) PROVE Hangs(t, d, w, i, k)
  <2>1. Hangs(t, d, v, i, k)
    BY <1>4 DEF NodeSpells
  <2>2. t[i].children[k] \in 2..N
    BY <1>1, ChildrenInRange
  <2>3. t[i].children[k] \in 1..N /\ t[i].children[k] # 1
    BY <1>1, <2>2
  <2>4. w[t[i].children[k]] = v[t[i].children[k]] /\ v[i] \subseteq w[i]
    BY <1>2, <2>3
  <2> QED BY <2>1, <2>4 DEF Hangs
<1>7. ASSUME NEW i \in 1..N PROVE Ends(t, d, w, H, i)
  <2>1. Ends(t, d, v, H, i) /\ v[i] \subseteq w[i]
    BY <1>2, <1>4 DEF NodeSpells
  <2> QED BY <2>1 DEF Ends
<1>8. ASSUME NEW i \in 1..N, i # 1 PROVE NodeSpells(t, d, w, H, 1, 1, i)
  <2>1. w[i] = v[i]
    BY <1>2, <1>8
  <2> QED BY <1>4, <1>5, <1>6, <1>7, <2>1 DEF NodeSpells
<1>9. NodeSpells(t, d, w, H, 1, 1, 1)
  <2>1. ASSUME NEW r \in w[1] PROVE Follows(t, d, w, H, 1, 1, 1, r)
    <3>1. CASE r \in v[1]
      BY <1>1, <1>5, <3>1
    <3>2. CASE r \notin v[1]
      <4>1. r = route /\ route \notin H
        BY <1>2, <1>3, <2>1, <3>2
      <4> QED BY <1>3, <4>1 DEF Follows
    <3> QED BY <3>1, <3>2
  <2>2. ASSUME NEW r \in w[1], NEW s \in w[1] PROVE Share(r, s, d[1] + 1)
    <3>1. r[1] = Slash /\ s[1] = Slash
      BY <1>2, <1>3, <2>2 DEF Held
    <3>2. \A k \in 1..d[1] + 1 : k = 1
      BY <1>3
    <3> QED BY <3>1, <3>2 DEF Share
  <2>3. d[1] \in Nat
    BY <1>3
  <2> QED BY <1>1, <1>6, <1>7, <2>1, <2>2, <2>3 DEF NodeSpells
<1>10. \A i \in 1..N : NodeSpells(t, d, w, H, 1, 1, i)
  BY <1>8, <1>9
<1>11. Spells(t, d, w, H, 1, 1)
  BY <1>3, <1>4, <1>10 DEF Spells
<1> QED BY <1>11 DEF w

\* A registration starts at the root of a tree that holds routes ...
LEMMA StartedInTree ==
    ASSUME NEW t, Ordered(t), NEW H, SpelledOut(t, H), Held(H),
           NEW route \in Seq(STRING), route # <<>>, route[1] = Slash
    PROVE  Told(Started(t, route), H, route)
<1> DEFINE u == Bump(t, 1)
           N == Len(t)
<1>1. /\ InShape(t) /\ t \in Seq(Node) /\ N \in Nat /\ 1 \in 1..N
      /\ t[1].nType # "catchAll" /\ ~Unused(t)
  BY Places, OrderedIsUsed DEF Ordered, InShape
<1>2. PICK d, v : Spells(t, d, v, H, 0, 0) /\ Through(v, N, H)
  BY DEF SpelledOut
<1> DEFINE w == Also(v, N, 1, route)
<1>3. Spells(t, d, w, H, 1, 1)
  BY <1>1, <1>2, RootReached
<1>4. w[1] = v[1] \cup {route} /\ \A j \in 1..N : j # 1 => w[j] = v[j]
  <2> HIDE DEF N
  <2> QED BY <1>1, AlsoIs
<1> HIDE DEF w
<1>5. Spells(u, d, w, H, 1, 1)
  BY <1>1, <1>3, BumpSpells
<1>6. Len(u) = N /\ u[1].nType = t[1].nType
  <2>1. Len(u) = Len(t) /\ SameLinks(t[1], u[1])
    BY <1>1, Bumped
  <2> QED BY <2>1 DEF SameLinks
<1>7. Started(t, route) = Turn(u, 1, route, "walk")
  BY <1>1 DEF Started
<1> HIDE DEF u
<1>8. v[1] = H /\ \A i \in 1..N : v[i] # {} /\ v[i] \subseteq H
  BY <1>2 DEF Through
<1>9. Through(w, Len(u), H \cup {route}) /\ Used(u, w, H)
  <2>1. ASSUME NEW i \in 1..N
        PROVE  w[i] # {} /\ w[i] \subseteq H \cup {route} /\ w[i] \cap H # {}
    <3>1. v[i] \subseteq w[i] /\ w[i] \subseteq v[i] \cup {route}
      BY <1>4
    <3> QED BY <1>8, <3>1
  <2>2. w[1] = H \cup {route}
    BY <1>4, <1>8
  <2> QED BY <1>6, <2>1, <2>2 DEF Through, Used
<1>10. Remains(route, d[1], route) /\ Fine(route, d[1])
  <2>1. d[1] = 0
    BY <1>2 DEF Spells
  <2>2. Len(route) \in Nat /\ Len(route) = 0 + Len(route) /\ \A k \in 1..Len(route) : 0 + k = k
    OBVIOUS
  <2>3. \A k \in 1..0 : FALSE
    OBVIOUS
  <2> QED BY <2>1, <2>2, <2>3 DEF Remains, Fine
<1>11. WalkSpells(u, 1, route, d, w, H, route)
  <2>1. route \in w[1] /\ Rivals(w, 1, H, route)
    BY <1>4, <1>8 DEF Rivals
  <2> QED BY <1>1, <1>5, <1>6, <1>9, <1>10, <2>1 DEF WalkSpells
<1> QED BY <1>7, <1>11, ToldWalk

\* ... or in the root of one that holds none.
LEMMA StartedInEmpty ==
    ASSUME NEW route \in Seq(STRING), route # <<>>, route[1] = Slash, Distinct
    PROVE  Told(Started(EmptyTree, route), {}, route)
<1> DEFINE t == EmptyTree
           u == Bump(t, 1)
           d == <<0>>
           v == <<{route}>>
           H == {}
<1>1. InShape(t) /\ Unused(t) /\ Fresh(t[1]) /\ 1 \in 1..Len(t) /\ Len(t) = 1
  <2>1. InShape(t) /\ Unused(t) /\ Fresh(t[1])
    BY EmptyTreeInShape
  <2>2. Len(t) = 1
    BY DEF EmptyTree
  <2> QED BY <2>1, <2>2
<1>2. /\ Len(u) = Len(t)
      /\ \A i \in 1..Len(t) : /\ SameLinks(t[i], u[i]) /\ u[i].path = t[i].path
                              /\ u[i].handle = t[i].handle
  <2> HIDE DEF t
  <2> QED BY <1>1, Bumped
<1>3. Started(t, route) = Turn(u, 1, route, "insert")
  BY <1>1 DEF Started
<1> HIDE DEF u, t
<1>4. Fresh(u[1]) /\ Len(u) = 1
  BY <1>1, <1>2 DEF Fresh, SameLinks
<1>5. d[1] = 0 /\ v[1] = {route} /\ Len(<<>>) = 0 /\ Len(route) \in Nat /\ Len(route) > 0
  OBVIOUS
<1> HIDE DEF d, v
<1>6. u[1].path = <<>> /\ Len(u[1].children) = 0 /\ Len(u[1].indices) = 0 /\ Len(u[1].path) = 0
  BY <1>4, <1>5 DEF Fresh
<1>7. NodeSpells(u, d, v, H, 0, 1, 1)
  <2>1. Ends(u, d, v, H, 1)
    BY <1>4 DEF Ends, Fresh
  <2>2. Follows(u, d, v, H, 0, 1, 1, route)
    <3>1. Spelt(<<>>, 0, route)
      BY <1>5 DEF Spelt
    <3> QED BY <1>5, <1>6, <3>1 DEF Follows
  <2>3. Share(route, route, d[1] + 1)
    BY DEF Share
  <2> QED BY <1>5, <1>6, <2>1, <2>2, <2>3 DEF NodeSpells
<1>8. Kinds(u, u[1])
  BY <1>4, <1>6 DEF Kinds, Fresh
<1>9. Spells(u, d, v, H, 0, 1)
  BY <1>4, <1>5, <1>7, <1>8 DEF Spells
<1>10. Remains(route, d[1] + Len(u[1].path), route) /\ Fine(route, d[1] + Len(u[1].path))
  <2>1. d[1] + Len(u[1].path) = 0
    BY <1>5, <1>6
  <2>2. Len(route) = 0 + Len(route) /\ \A k \in 1..Len(route) : 0 + k = k
    BY <1>5
  <2>3. \A k \in 1..0 : FALSE
    OBVIOUS
  <2> QED BY <2>1, <2>2, <2>3 DEF Remains, Fine
<1>11. Placing(u, d, v, H, 1, route, route)
  BY <1>4, <1>5, <1>9, <1>10 DEF Placing, Fresh
<1>12. Through(v, Len(u), H \cup {route})
  <2>1. H \cup {route} = {route}
    OBVIOUS
  <2>2. v[1] = {route} /\ Len(u) = 1 /\ \A i \in 1..1 : i = 1
    BY <1>4, <1>5
  <2>3. {route} # {}
    OBVIOUS
  <2> HIDE DEF H
  <2> QED BY <2>1, <2>2, <2>3 DEF Through
<1>13. Rivals(v, 1, H, route)
  BY DEF Rivals
<1>14. InsertSpells(u, 1, route, d, v, H, route)
  BY <1>4, <1>5, <1>10, <1>11, <1>12, <1>13 DEF InsertSpells, Fresh, Distinct
<1>15. Told(Turn(u, 1, route, "insert"), H, route)
  BY <1>14, ToldInsert
<1> QED BY <1>3, <1>15 DEF t, H

\* A tree is told what it should be from the first turn to the last.
LEMMA RegistrationTold ==
    ASSUME NEW t, NEW H, H = Handles(t), t = EmptyTree \/ (Ordered(t) /\ SpelledOut(t, H)),
           Held(H), NEW route, Toward(route), route[1] = Slash, Distinct
    PROVE  /\ Good(Registration(t, route), H, route) /\ Ended(Registration(t, route))
           /\ Told(Registration(t, route), H, route)
<1> DEFINE S == {s \in Turns : Good(s, H, route) /\ Told(s, H, route)}
<1>1. route \in Seq(STRING) /\ route # <<>> /\ Slash \notin Wildcards
  BY DEF Toward, Distinct
<1>2. \A s \in S : Good(s, H, route)
  OBVIOUS
<1>3. ASSUME NEW s \in S PROVE NextTurn(s, route) \in S
  <2>1. Good(s, H, route) /\ Told(s, H, route)
    BY <1>3
  <2>2. Good(NextTurn(s, route), H, route)
    BY <1>1, <2>1, NextTurnGood
  <2>3. Told(NextTurn(s, route), H, route)
    BY <2>1, NextTurnTold
  <2> QED BY <2>2, <2>3 DEF Good
<1>4. Started(t, route) \in S
  <2>1. Good(Started(t, route), H, route)
    BY <1>1, StartedGood
  <2>2. Told(Started(t, route), H, route)
    <3>1. CASE t = EmptyTree
      <4>1. H = {}
        BY <3>1, EmptyTreeInShape
      <4> QED BY <1>1, <3>1, <4>1, StartedInEmpty
    <3>2. CASE Ordered(t) /\ SpelledOut(t, H)
      BY <1>1, <3>2, StartedInTree
    <3> QED BY <3>1, <3>2
  <2> QED BY <2>1, <2>2 DEF Good
<1>5. Registration(t, route) \in S /\ Ended(Registration(t, route))
  <2> HIDE DEF S
  <2> QED BY <1>2, <1>3, <1>4, TurnsStayIn
<1> QED BY <1>5

(* A registration is refused exactly when its route is not valid or is in   *)
(* conflict with one the tree holds; otherwise the tree spells it too       *)
(* (tree.go:107-319).                                                       *)
LEMMA RouteTold ==
    ASSUME NEW t, NEW H, H = Handles(t), t = EmptyTree \/ (Ordered(t) /\ SpelledOut(t, H)),
           Held(H), NEW route, Toward(route), route[1] = Slash, Distinct
    PROVE  /\ AddRoute(t, route).panic = ~Welcome(route, H)
           /\ ~AddRoute(t, route).panic => SpelledOut(AddRoute(t, route).tree, H \cup {route})
           /\ AddRoute(t, route).panic => Tells(AddRoute(t, route).tree, H)
<1> DEFINE end == Registration(t, route)
           result == AddRoute(t, route)
           r == [end.tree EXCEPT ![1].nType = "root"]
           G == H \cup {route}
<1>1. Good(end, H, route) /\ Ended(end) /\ Told(end, H, route)
  BY RegistrationTold
<1>2. result = [tree  |-> IF Unused(t) /\ end.phase = "done" THEN r ELSE end.tree,
                panic |-> end.phase # "done"]
  BY DEF AddRoute
<1> HIDE DEF end, result
<1>3. CASE end.phase = "done"
  <2>1. Ordered(end.tree) /\ Welcome(route, H) /\ SpelledOut(end.tree, G)
    BY <1>1, <1>3 DEF Good, Told
  <2>2. PICK d, v : Spells(end.tree, d, v, G, 0, 0) /\ Through(v, Len(end.tree), G)
    BY <2>1 DEF SpelledOut
  <2>3. Spells(r, d, v, G, 0, 0)
    BY <2>1, <2>2, RootSpells
  <2>4. Len(r) = Len(end.tree)
    BY <2>1 DEF Ordered, InShape
  <2>5. SpelledOut(r, G)
    BY <2>2, <2>3, <2>4 DEF SpelledOut
  <2>6. result.panic = FALSE /\ (result.tree = r \/ result.tree = end.tree)
    BY <1>2, <1>3
  <2> HIDE DEF r
  <2> QED BY <2>1, <2>5, <2>6 DEF result
<1>4. CASE end.phase # "done"
  <2>1. ~Welcome(route, H) /\ Tells(end.tree, H)
    BY <1>1, <1>4 DEF Ended, Told
  <2>2. result.panic = TRUE /\ result.tree = end.tree
    BY <1>2, <1>4
  <2> QED BY <2>1, <2>2 DEF result
<1> QED BY <1>3, <1>4
=============================================================================
