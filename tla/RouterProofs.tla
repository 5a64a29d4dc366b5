---------------------------- MODULE RouterProofs ----------------------------
(***************************************************************************)
(* The tree of one method, and the router of all methods.                  *)
(*                                                                         *)
(* For all routes, in all orders of registration: a tree accepts a route   *)
(* exactly when the router can hold it and it conflicts with no route that *)
(* was registered before, and it forgets none.  The tree implements the    *)
(* table of routes of module RouteTable.  And for all requests, in every   *)
(* state: a lookup answers the one registered route that matches.          *)
(* The order in which siblings are tried is that of the handles they lead  *)
(* to: while a route is added, every node the registration has passed      *)
(* counts it, and the one it is at owes it (Counted).                      *)
(*                                                                         *)
(* For all methods too: the trees of the router stay in order through      *)
(* every registration, a registration is refused exactly when its route is *)
(* invalid or conflicts with one of its method, and then loses nothing,    *)
(* and one that is not adds its route and no other; the cached "OPTIONS *" *)
(* and the parameters' room follow the registered routes; and every answer *)
(* is the one the registered routes call for, along every redirect, which  *)
(* leads to the cleaned path up to case and one slash at its end.  A       *)
(* redirect's path is cleaned after it was looked up or searched for, so   *)
(* that needs what cleaning does to a path that is spelled differently or  *)
(* has another end (CleanedAlike, CleanedToggle).                          *)
(***************************************************************************)
EXTENDS RouteTree, Router, TreeLookupProofs

-----------------------------------------------------------------------------
(* Sums of the elements of a sequence *)

Adds(w, m, x) ==
    \E f \in [0..m -> Nat] : /\ f[0] = 0 /\ f[m] = x
                             /\ \A k \in 1..m : f[k] = f[k - 1] + w[k]

\* An element added to a sum.
LEMMA AddsMore ==
    ASSUME NEW m \in Nat, NEW w, NEW x, Adds(w, m, x), NEW v, \A k \in 1..m : v[k] = w[k],
           v[m + 1] \in Nat
    PROVE  Adds(v, m + 1, x + v[m + 1])
<1>1. PICK f \in [0..m -> Nat] : /\ f[0] = 0 /\ f[m] = x
                                 /\ \A k \in 1..m : f[k] = f[k - 1] + w[k]
  BY DEF Adds
<1> DEFINE g == [k \in 0..m + 1 |-> IF k = m + 1 THEN x + v[m + 1] ELSE f[k]]
<1>2. x \in Nat /\ \A k \in 0..m : f[k] \in Nat /\ g[k] = f[k]
  BY <1>1
<1>3. g \in [0..m + 1 -> Nat] /\ g[m + 1] = x + v[m + 1] /\ g[0] = 0
  BY <1>1, <1>2
<1>4. ASSUME NEW k \in 1..m + 1 PROVE g[k] = g[k - 1] + v[k]
  <2>1. k - 1 \in 0..m /\ g[k - 1] = f[k - 1]
    BY <1>2
  <2>2. CASE k = m + 1
    BY <1>1, <1>3, <2>1, <2>2
  <2>3. CASE k # m + 1
    <3>1. k \in 1..m /\ g[k] = f[k]
      BY <1>2, <2>3
    <3> QED BY <1>1, <2>1, <3>1
  <2> QED BY <2>2, <2>3
<1> HIDE DEF g
<1> QED BY <1>3, <1>4 DEF Adds

\* The sums of no and of one element.
LEMMA AddsFew ==
    ASSUME NEW w
    PROVE  Adds(w, 0, 0) /\ (w[1] \in Nat => Adds(w, 1, w[1]))
<1>1. Adds(w, 0, 0)
  <2> DEFINE f == [k \in 0..0 |-> 0]
  <2>1. f \in [0..0 -> Nat] /\ f[0] = 0 /\ \A k \in 1..0 : f[k] = f[k - 1] + w[k]
    OBVIOUS
  <2> HIDE DEF f
  <2> QED BY <2>1 DEF Adds
<1>2. ASSUME w[1] \in Nat PROVE Adds(w, 1, w[1])
  <2>1. w[0 + 1] \in Nat /\ 0 + 1 = 1 /\ 0 + w[0 + 1] = w[1]
    BY <1>2
  <2>2. Adds(w, 0 + 1, 0 + w[0 + 1])
    BY <1>1, <2>1, AddsMore
  <2> QED BY <2>1, <2>2
<1> QED BY <1>1, <1>2

\* An element raised by one.
LEMMA AddsRaised ==
    ASSUME NEW m \in Nat, NEW w, NEW x, Adds(w, m, x), NEW pos \in 1..m,
           \A k \in 1..m : w[k] \in Nat, NEW v,
           \A k \in 1..m : v[k] = IF k = pos THEN w[k] + 1 ELSE w[k]
    PROVE  Adds(v, m, x + 1)
<1>1. PICK f \in [0..m -> Nat] : /\ f[0] = 0 /\ f[m] = x
                                 /\ \A k \in 1..m : f[k] = f[k - 1] + w[k]
  BY DEF Adds
<1> DEFINE g == [k \in 0..m |-> IF pos <= k THEN f[k] + 1 ELSE f[k]]
<1>2. g \in [0..m -> Nat] /\ g[0] = 0 /\ g[m] = x + 1
  BY <1>1
<1>3. ASSUME NEW k \in 1..m PROVE g[k] = g[k - 1] + v[k]
  <2>1. k - 1 \in 0..m /\ k \in 0..m /\ f[k] = f[k - 1] + w[k] /\ f[k - 1] \in Nat /\ w[k] \in Nat
    BY <1>1
  <2>2. v[k] = IF k = pos THEN w[k] + 1 ELSE w[k]
    OBVIOUS
  <2>3. /\ g[k] = IF pos <= k THEN f[k] + 1 ELSE f[k]
        /\ g[k - 1] = IF pos <= k - 1 THEN f[k - 1] + 1 ELSE f[k - 1]
    BY <2>1
  <2> HIDE DEF g
  <2> DEFINE a == f[k - 1]
             b == w[k]
  <2>4. a \in Nat /\ b \in Nat /\ f[k] = a + b
    BY <2>1
  <2>5. CASE k = pos
    <3>1. g[k] = f[k] + 1 /\ g[k - 1] = a /\ v[k] = b + 1
      BY <2>2, <2>3, <2>5
    <3> HIDE DEF a, b
    <3> QED BY <2>4, <3>1
  <2>6. CASE k < pos
    <3>1. g[k] = f[k] /\ g[k - 1] = a /\ v[k] = b
      BY <2>2, <2>3, <2>6
    <3> HIDE DEF a, b
    <3> QED BY <2>4, <3>1
  <2>7. CASE pos < k
    <3>1. g[k] = f[k] + 1 /\ g[k - 1] = a + 1 /\ v[k] = b
      BY <2>2, <2>3, <2>7
    <3> HIDE DEF a, b
    <3> QED BY <2>4, <3>1
  <2> QED BY <2>5, <2>6, <2>7
<1> HIDE DEF g
<1> QED BY <1>2, <1>3 DEF Adds

\* An element moved forward.
LEMMA AddsMoved ==
    ASSUME NEW m \in Nat, NEW w, NEW x, Adds(w, m, x), NEW from \in 1..m, NEW to \in 1..from,
           \A k \in 1..m : w[k] \in Nat, NEW v,
           \A k \in 1..m : v[k] = w[Origin(from, to, k)]
    PROVE  Adds(v, m, x)
<1>1. PICK f \in [0..m -> Nat] : /\ f[0] = 0 /\ f[m] = x
                                 /\ \A k \in 1..m : f[k] = f[k - 1] + w[k]
  BY DEF Adds
<1> DEFINE g == [k \in 0..m |-> IF to <= k /\ k < from THEN f[k - 1] + w[from] ELSE f[k]]
<1>2. g \in [0..m -> Nat] /\ g[0] = 0 /\ g[m] = x
  <2>1. \A k \in 0..m : to <= k => k - 1 \in 0..m
    OBVIOUS
  <2>2. w[from] \in Nat
    OBVIOUS
  <2>3. \A k \in 0..m : g[k] = IF to <= k /\ k < from THEN f[k - 1] + w[from] ELSE f[k]
    OBVIOUS
  <2>4. \A k \in 0..m : g[k] \in Nat
    <3> SUFFICES ASSUME NEW k \in 0..m PROVE g[k] \in Nat
      OBVIOUS
    <3>1. f[k] \in Nat /\ (to <= k => f[k - 1] \in Nat)
      BY <2>1
    <3>2. g[k] = IF to <= k /\ k < from THEN f[k - 1] + w[from] ELSE f[k]
      OBVIOUS
    <3> HIDE DEF g
    <3>3. CASE to <= k /\ k < from
      BY <2>2, <3>1, <3>2, <3>3
    <3>4. CASE ~(to <= k /\ k < from)
      BY <3>1, <3>2, <3>4
    <3> QED BY <3>3, <3>4
  <2>5. g[0] = 0 /\ g[m] = x
    <3>1. 0 \in 0..m /\ m \in 0..m /\ ~(to <= 0) /\ ~(m < from)
      OBVIOUS
    <3> HIDE DEF g
    <3> QED BY <1>1, <2>3, <3>1
  <2>6. g \in [0..m -> Nat]
    BY <2>4
  <2> QED BY <2>5, <2>6
<1>3. ASSUME NEW k \in 1..m PROVE g[k] = g[k - 1] + v[k]
  <2>1. k - 1 \in 0..m /\ k \in 0..m /\ f[k] = f[k - 1] + w[k] /\ f[k - 1] \in Nat /\ w[k] \in Nat
        /\ w[from] \in Nat
    BY <1>1
  <2>2. /\ g[k] = IF to <= k /\ k < from THEN f[k - 1] + w[from] ELSE f[k]
        /\ g[k - 1] = IF to <= k - 1 /\ k - 1 < from THEN f[(k - 1) - 1] + w[from] ELSE f[k - 1]
    BY <2>1
  <2> HIDE DEF g
  <2>3. CASE k < to
    <3>1. v[k] = w[k]
      BY <2>3 DEF Origin
    <3>2. g[k] = f[k] /\ g[k - 1] = f[k - 1]
      BY <2>2, <2>3
    <3> QED BY <2>1, <3>1, <3>2
  <2>4. CASE k = to
    <3>1. v[k] = w[from]
      BY <2>4 DEF Origin
    <3>2. g[k - 1] = f[k - 1]
      BY <2>2, <2>4
    <3>3. g[k] = f[k - 1] + w[from]
      <4>1. CASE k = from
        BY <2>1, <2>2, <4>1
      <4>2. CASE k # from
        <5>1. k < from
          BY <2>4, <4>2
        <5> QED BY <2>2, <2>4, <5>1
      <4> QED BY <4>1, <4>2
    <3> QED BY <3>1, <3>2, <3>3
  <2>5. CASE to < k /\ k <= from
    <3>1. v[k] = w[k - 1]
      BY <2>5 DEF Origin
    <3>2. /\ k - 1 \in 1..m /\ (k - 1) - 1 \in 0..m /\ w[k - 1] \in Nat /\ f[(k - 1) - 1] \in Nat
          /\ f[k - 1] = f[(k - 1) - 1] + w[k - 1]
      BY <1>1, <2>5
    <3>3. g[k - 1] = f[(k - 1) - 1] + w[from]
      BY <2>2, <2>5
    <3>4. g[k] = f[k - 1] + w[from]
      <4>1. CASE k = from
        BY <2>1, <2>2, <4>1
      <4>2. CASE k # from
        BY <2>2, <2>5, <4>2
      <4> QED BY <4>1, <4>2
    <3> DEFINE a == f[k - 1]
               b == f[(k - 1) - 1]
               c == w[k - 1]
               e == w[from]
    <3>5. /\ a \in Nat /\ b \in Nat /\ c \in Nat /\ e \in Nat /\ a = b + c
          /\ g[k] = a + e /\ g[k - 1] = b + e /\ v[k] = c
      BY <2>1, <3>1, <3>2, <3>3, <3>4
    <3> HIDE DEF a, b, c, e
    <3>6. a + e = (b + e) + c
      BY <3>5
    <3> QED BY <3>5, <3>6
  <2>6. CASE from < k
    <3>1. v[k] = w[k]
      BY <2>6 DEF Origin
    <3>2. g[k] = f[k] /\ g[k - 1] = f[k - 1]
      BY <2>2, <2>6
    <3> QED BY <2>1, <3>1, <3>2
  <2> QED BY <2>3, <2>4, <2>5, <2>6
<1> HIDE DEF g
<1> QED BY <1>2, <1>3 DEF Adds

Falls(w, m) == \A k, l \in 1..m : k < l => w[k] >= w[l]

\* An element is raised and moves in front of the smaller ones.
Overtakes(w, m, from, to, v) ==
    /\ m \in Nat /\ from \in 1..m /\ to \in 1..from /\ \A k \in 1..m : w[k] \in Nat
    /\ \A q \in to..from - 1 : w[q] < w[from] + 1
    /\ to = 1 \/ w[to - 1] >= w[from] + 1
    /\ \A k \in 1..m : v[k] = IF k = to THEN w[from] + 1 ELSE w[Origin(from, to, k)]

\* The elements stay in order then.
LEMMA FallsMoved ==
    ASSUME NEW m, NEW w, Falls(w, m), NEW from, NEW to, NEW v, Overtakes(w, m, from, to, v)
    PROVE  Falls(v, m)
<1>0. /\ m \in Nat /\ from \in 1..m /\ to \in 1..from /\ \A k \in 1..m : w[k] \in Nat
      /\ \A q \in to..from - 1 : w[q] < w[from] + 1
      /\ to = 1 \/ w[to - 1] >= w[from] + 1
      /\ \A k \in 1..m : v[k] = IF k = to THEN w[from] + 1 ELSE w[Origin(from, to, k)]
  BY DEF Overtakes
<1> SUFFICES ASSUME NEW k \in 1..m, NEW l \in 1..m, k < l PROVE v[k] >= v[l]
  BY DEF Falls
<1>1. \A i, j \in 1..m : i <= j => w[i] >= w[j]
  BY <1>0 DEF Falls
<1>2. \A j \in 1..m :
          /\ j < to \/ from < j => v[j] = w[j]
          /\ to < j /\ j <= from => v[j] = w[j - 1] /\ j - 1 \in to..from - 1 /\ j - 1 \in 1..m
          /\ j = to => v[j] = w[from] + 1
  BY <1>0 DEF Origin
<1>3. w[from] \in Nat /\ w[k] \in Nat /\ w[l] \in Nat
  BY <1>0
<1>4. CASE k = to
  <2>1. v[k] = w[from] + 1
    BY <1>0, <1>2, <1>4
  <2>2. CASE l <= from
    <3>1. v[l] = w[l - 1] /\ w[l - 1] < w[from] + 1 /\ w[l - 1] \in Nat
      BY <1>0, <1>2, <1>4, <2>2
    <3> QED BY <1>0, <1>3, <2>1, <3>1
  <2>3. CASE from < l
    <3>1. v[l] = w[l] /\ w[from] >= w[l]
      BY <1>0, <1>1, <1>2, <2>3
    <3> QED BY <1>0, <1>3, <2>1, <3>1
  <2>4. l \in Nat /\ from \in Nat
    BY <1>0
  <2> QED BY <2>2, <2>3, <2>4
<1>5. CASE l = to
  <2>1. v[l] = w[from] + 1 /\ v[k] = w[k]
    BY <1>0, <1>2, <1>5
  <2>2. to - 1 \in 1..m /\ w[to - 1] >= w[from] + 1 /\ w[k] >= w[to - 1] /\ w[to - 1] \in Nat
    BY <1>0, <1>1, <1>5
  <2> QED BY <1>0, <1>3, <2>1, <2>2
<1>6. CASE k # to /\ l # to
  <2> DEFINE o(j) == IF to < j /\ j <= from THEN j - 1 ELSE j
  <2>1. o(k) \in 1..m /\ o(l) \in 1..m /\ o(k) <= o(l)
    BY <1>0, <1>6
  <2>2. v[k] = w[o(k)] /\ v[l] = w[o(l)]
    BY <1>0, <1>2, <1>6
  <2> DEFINE a == o(k)
             b == o(l)
  <2>3. a \in 1..m /\ b \in 1..m /\ a <= b
    BY <2>1
  <2>4. v[k] = w[a] /\ v[l] = w[b]
    BY <2>2
  <2> HIDE DEF o, a, b
  <2>5. w[a] >= w[b]
    BY <1>1, <2>3
  <2> QED BY <2>4, <2>5, Zenon
<1> QED BY <1>4, <1>5, <1>6

-----------------------------------------------------------------------------
(* What the priorities of a tree count *)

Own(n) == IF n.handle = NoHandle THEN 0 ELSE 1

Weights(t, cs) == [k \in 1..Len(cs) |-> t[cs[k]].priority]

\* The priority of a node counts its handle, the priorities of its children,
\* which are in order, and what it owes: the route that is on its way.
Weighs(t, n, owed) ==
    /\ \E x \in Nat : /\ Adds(Weights(t, n.children), Len(n.children), x)
                      /\ n.priority = x + Own(n) + owed
    /\ Falls(Weights(t, n.children), Len(n.children))

Owed(i, at) == IF i = at THEN 1 ELSE 0
Counted(t, at) == \A i \in 1..Len(t) : Weighs(t, t[i], Owed(i, at))

\* The weights below a node.
LEMMA WeightsAre ==
    ASSUME NEW t \in Seq(Node), NEW cs \in Seq(Nat), \A k \in 1..Len(cs) : cs[k] \in 1..Len(t)
    PROVE  /\ Len(cs) \in Nat
           /\ \A k \in 1..Len(cs) : Weights(t, cs)[k] = t[cs[k]].priority /\ Weights(t, cs)[k] \in Nat
<1> SUFFICES ASSUME NEW k \in 1..Len(cs) PROVE Weights(t, cs)[k] \in Nat
  BY DEF Weights
<1>1. t[cs[k]] \in Node
  BY Places
<1>2. Weights(t, cs)[k] = t[cs[k]].priority
  BY DEF Weights
<1> QED BY <1>1, <1>2, FieldTypes

\* A node whose children weigh what they did.
LEMMA StillWeighs ==
    ASSUME NEW t, NEW u, NEW n, NEW m, NEW owed, Weighs(t, n, owed),
           m.children = n.children, m.handle = n.handle, m.priority = n.priority,
           \A k \in 1..Len(n.children) : u[n.children[k]].priority = t[n.children[k]].priority
    PROVE  Weighs(u, m, owed)
<1>1. Weights(u, m.children) = Weights(t, n.children)
  BY DEF Weights
<1> QED BY <1>1 DEF Weighs, Own

\* A node without children.
LEMMA LeafWeighs ==
    ASSUME NEW u, NEW n, NEW owed \in Nat, n.children = <<>>, n.priority = Own(n) + owed
    PROVE  Weighs(u, n, owed)
<1>1. Len(n.children) = 0 /\ Own(n) \in Nat
  BY DEF Own
<1>2. Adds(Weights(u, n.children), Len(n.children), 0)
  BY <1>1, AddsFew
<1>3. n.priority = 0 + Own(n) + owed
  BY <1>1
<1>4. Falls(Weights(u, n.children), Len(n.children))
  BY <1>1 DEF Falls
<1> QED BY <1>2, <1>3, <1>4 DEF Weighs

\* A node with one child.
LEMMA StemWeighs ==
    ASSUME NEW u, NEW n, NEW owed \in Nat, NEW child, n.children = <<child>>,
           u[child].priority \in Nat, n.priority = u[child].priority + Own(n) + owed
    PROVE  Weighs(u, n, owed)
<1> DEFINE w == Weights(u, n.children)
           x == u[child].priority
<1>1. Len(n.children) = 1 /\ w[1] = x /\ x \in Nat
  BY DEF Weights
<1> HIDE DEF w, x
<1>2. Adds(w, Len(n.children), x)
  BY <1>1, AddsFew
<1>3. Falls(w, Len(n.children))
  BY <1>1 DEF Falls
<1> QED BY <1>1, <1>2, <1>3 DEF Weighs, w, x

\* The children of a node in a tree, and what they weigh.
LEMMA WeightsBelow ==
    ASSUME NEW t \in Seq(Node), Hung(t), NEW i \in 1..Len(t)
    PROVE  LET cs == t[i].children
           IN  /\ cs \in Seq(Nat) /\ Len(cs) \in Nat /\ DOMAIN cs = 1..Len(cs)
               /\ \A k \in 1..Len(cs) : /\ cs[k] \in 2..Len(t) /\ cs[k] \in 1..Len(t)
                                        /\ Weights(t, cs)[k] = t[cs[k]].priority
                                        /\ Weights(t, cs)[k] \in Nat
<1> DEFINE cs == t[i].children
<1>1. cs \in Seq(Nat)
  BY Places, FieldTypes
<1>2. DOMAIN cs = 1..Len(cs) /\ \A k \in 1..Len(cs) : cs[k] \in 2..Len(t) /\ cs[k] \in 1..Len(t)
  BY ChildrenInRange
<1> HIDE DEF cs
<1>3. /\ Len(cs) \in Nat
      /\ \A k \in 1..Len(cs) : Weights(t, cs)[k] = t[cs[k]].priority /\ Weights(t, cs)[k] \in Nat
  BY <1>1, <1>2, WeightsAre
<1> QED BY <1>1, <1>2, <1>3 DEF cs

\* What happens when the walk goes on with a child: its priority is raised, and
\* it may move forward among its siblings.
PassesOn(t, u, at, pos, to) ==
    LET child == t[at].children[pos]
    IN  /\ u \in Seq(Node) /\ Len(u) = Len(t)
        /\ \A i \in 1..Len(t) : /\ u[i].handle = t[i].handle
                                /\ u[i].priority = t[i].priority + Owed(i, child)
                                /\ i # at => u[i].children = t[i].children
        /\ Len(u[at].children) = Len(t[at].children)
        /\ \A k \in 1..Len(t[at].children) :
               u[at].children[k] = t[at].children[Origin(pos, to, k)]

\* The child then owes what its parent owed.
LEMMA PassedOn ==
    ASSUME NEW t \in Seq(Node), Hung(t), NEW at \in 1..Len(t),
           NEW pos \in 1..Len(t[at].children), NEW to \in 1..pos, NEW u,
           PassesOn(t, u, at, pos, to), Counted(t, at),
           Falls(Weights(u, u[at].children), Len(u[at].children))
    PROVE  Counted(u, t[at].children[pos])
<1> DEFINE child == t[at].children[pos]
           cs == t[at].children
           m == Len(cs)
           w == Weights(t, cs)
           v == [k \in 1..m |-> IF k = pos THEN w[k] + 1 ELSE w[k]]
           z == Weights(u, u[at].children)
<1>1. /\ cs \in Seq(Nat) /\ m \in Nat /\ DOMAIN cs = 1..m
      /\ \A k \in 1..m : /\ cs[k] \in 2..Len(t) /\ cs[k] \in 1..Len(t)
                         /\ w[k] = t[cs[k]].priority /\ w[k] \in Nat
  BY WeightsBelow
<1>2. /\ u \in Seq(Node) /\ Len(u) = Len(t)
      /\ \A i \in 1..Len(t) : /\ u[i].handle = t[i].handle
                              /\ u[i].priority = t[i].priority + Owed(i, child)
                              /\ i # at => u[i].children = t[i].children
      /\ Len(u[at].children) = m
      /\ \A k \in 1..m : u[at].children[k] = cs[Origin(pos, to, k)]
  BY DEF PassesOn
<1>3. \A i \in 1..Len(t) : \A k \in 1..Len(t[i].children) :
          t[i].children[k] = child => i = at /\ k = pos
  <2>1. NoneIsShared(t) /\ DOMAIN t = 1..Len(t)
    BY Places DEF Hung
  <2>2. \A i \in 1..Len(t) : DOMAIN t[i].children = 1..Len(t[i].children)
    BY WeightsBelow
  <2> QED BY <2>1, <2>2 DEF NoneIsShared
<1>4. \A i \in 1..Len(t) : t[i].priority \in Nat
  BY Places, FieldTypes
<1> SUFFICES ASSUME NEW i \in 1..Len(t) PROVE Weighs(u, u[i], Owed(i, child))
  BY <1>2 DEF Counted
<1>5. CASE i # at
  <2> DEFINE ds == t[i].children
  <2>1. \A k \in 1..Len(ds) : ds[k] \in 1..Len(t) /\ ds[k] # child
    BY <1>3, <1>5, WeightsBelow
  <2> HIDE DEF child
  <2>2. \A k \in 1..Len(ds) : t[ds[k]].priority \in Nat /\ u[ds[k]].priority = t[ds[k]].priority
    BY <1>2, <1>4, <2>1 DEF Owed
  <2>3. Weights(u, ds) = Weights(t, ds)
    BY <2>2 DEF Weights
  <2>4. Weighs(t, t[i], 0)
    BY <1>5 DEF Counted, Owed
  <2>5. PICK x \in Nat : /\ Adds(Weights(t, ds), Len(ds), x)
                         /\ t[i].priority = x + Own(t[i]) + 0
    BY <2>4 DEF Weighs
  <2>6. Own(u[i]) = Own(t[i]) /\ Own(t[i]) \in Nat /\ u[i].children = ds
    BY <1>2, <1>5 DEF Own
  <2>7. u[i].priority = x + Own(u[i]) + Owed(i, child)
    BY <1>2, <2>5, <2>6 DEF Owed
  <2>8. Falls(Weights(t, ds), Len(ds))
    BY <2>4 DEF Weighs
  <2> QED BY <2>3, <2>5, <2>6, <2>7, <2>8 DEF Weighs
<1>6. CASE i = at
  <2>1. Weighs(t, t[at], 1)
    BY DEF Counted, Owed
  <2>2. PICK x \in Nat : Adds(w, m, x) /\ t[at].priority = x + Own(t[at]) + 1
    BY <2>1 DEF Weighs
  <2>3. \A k \in 1..m : u[cs[k]].priority = v[k] /\ v[k] \in Nat
    <3> SUFFICES ASSUME NEW k \in 1..m PROVE u[cs[k]].priority = v[k] /\ v[k] \in Nat
      OBVIOUS
    <3>1. cs[k] = child <=> k = pos
      BY <1>3
    <3>2. u[cs[k]].priority = w[k] + Owed(cs[k], child) /\ w[k] \in Nat
      BY <1>1, <1>2
    <3> HIDE DEF child, cs, w, m
    <3>3. v[k] = IF k = pos THEN w[k] + 1 ELSE w[k]
      OBVIOUS
    <3> QED BY <3>1, <3>2, <3>3 DEF Owed
  <2>4. \A k \in 1..m : Origin(pos, to, k) \in 1..m
    BY <1>1 DEF Origin
  <2>5. \A k \in 1..m : z[k] = v[Origin(pos, to, k)]
    <3> SUFFICES ASSUME NEW k \in 1..m PROVE z[k] = v[Origin(pos, to, k)]
      OBVIOUS
    <3>1. z[k] = u[u[at].children[k]].priority
      BY <1>2 DEF Weights
    <3> HIDE DEF v, cs, m
    <3> QED BY <1>2, <2>3, <2>4, <3>1
  <2> HIDE DEF z
  <2>6. \A k \in 1..m : v[k] = IF k = pos THEN w[k] + 1 ELSE w[k]
    OBVIOUS
  <2> HIDE DEF v, w
  <2>7. pos \in 1..m /\ \A k \in 1..m : w[k] \in Nat
    BY <1>1
  <2> HIDE DEF m
  <2>8. Adds(v, m, x + 1)
    BY <1>1, <2>2, <2>6, <2>7, AddsRaised
  <2>9. \A k \in 1..m : v[k] \in Nat
    BY <2>3
  <2>10. Adds(z, m, x + 1)
    <3> DEFINE y == x + 1
    <3>1. Adds(v, m, y) /\ m \in Nat /\ pos \in 1..m /\ to \in 1..pos
      BY <1>1, <2>7, <2>8
    <3> HIDE DEF y
    <3>2. Adds(z, m, y)
      BY <2>5, <2>9, <3>1, AddsMoved, Zenon
    <3> QED BY <3>2 DEF y
  <2>11. Own(u[at]) = Own(t[at]) /\ Own(t[at]) \in Nat
    BY <1>2 DEF Own
  <2>12. u[at].priority = (x + 1) + Own(u[at]) + Owed(at, child)
    <3> HIDE DEF child
    <3> QED BY <1>2, <2>2, <2>11 DEF Owed
  <2>13. Adds(z, Len(u[at].children), x + 1) /\ x + 1 \in Nat
    BY <1>2, <2>10 DEF m
  <2>14. Weighs(u, u[at], Owed(at, child))
    <3> HIDE DEF child
    <3> QED BY <2>12, <2>13 DEF Weighs, z
  <2> QED BY <1>6, <2>14
<1> QED BY <1>5, <1>6

\* A raised priority.
LEMMA BumpRaises ==
    ASSUME NEW t \in Seq(Node), NEW c \in 1..Len(t)
    PROVE  LET u == Bump(t, c)
           IN  /\ u \in Seq(Node) /\ Len(u) = Len(t)
               /\ \A i \in 1..Len(t) : /\ u[i].priority = t[i].priority + Owed(i, c)
                                       /\ u[i].children = t[i].children
                                       /\ u[i].indices = t[i].indices
                                       /\ u[i].handle = t[i].handle
<1> DEFINE m == [t[c] EXCEPT !.priority = @ + 1]
           u == Bump(t, c)
<1>1. t[c] \in Node /\ \A i \in 1..Len(t) : t[i] \in Node /\ t[i].priority \in Nat
  BY Places, FieldTypes
<1>2. /\ m \in Node /\ m.priority = t[c].priority + 1 /\ m.children = t[c].children
      /\ m.indices = t[c].indices /\ m.handle = t[c].handle
  <2> DEFINE p == t[c].priority + 1
  <2>1. p \in Nat
    BY <1>1
  <2> HIDE DEF p
  <2> QED BY <1>1, <2>1 DEF Node, p
<1>3. u = [t EXCEPT ![c] = m]
  BY <1>1 DEF Bump
<1> HIDE DEF m, u
<1>4. /\ u \in Seq(Node) /\ Len(u) = Len(t) /\ u[c] = m
      /\ \A i \in 1..Len(t) : i # c => u[i] = t[i]
  BY <1>2, <1>3, Put
<1>5. \A i \in 1..Len(t) : u[i].priority = t[i].priority + Owed(i, c)
  BY <1>1, <1>2, <1>4 DEF Owed
<1> QED BY <1>2, <1>4, <1>5 DEF u

\* A registration begins at the root.
LEMMA RootCounts ==
    ASSUME NEW t \in Seq(Node), Hung(t), 1 \in 1..Len(t), Counted(t, 0)
    PROVE  Counted(Bump(t, 1), 1)
<1> DEFINE u == Bump(t, 1)
<1>1. /\ u \in Seq(Node) /\ Len(u) = Len(t)
      /\ \A i \in 1..Len(t) : /\ u[i].priority = t[i].priority + Owed(i, 1)
                              /\ u[i].children = t[i].children
                              /\ u[i].handle = t[i].handle
  BY BumpRaises
<1> HIDE DEF u
<1> SUFFICES ASSUME NEW i \in 1..Len(t) PROVE Weighs(u, u[i], Owed(i, 1))
  BY <1>1 DEF Counted, u
<1> DEFINE ds == t[i].children
<1>2. \A k \in 1..Len(ds) : ds[k] \in 1..Len(t) /\ ds[k] # 1
  <2>1. \A k \in 1..Len(ds) : ds[k] \in 2..Len(t) /\ ds[k] \in 1..Len(t)
    BY WeightsBelow
  <2> HIDE DEF ds
  <2> QED BY <2>1
<1>3. \A k \in 1..Len(ds) : u[ds[k]].priority = t[ds[k]].priority
  <2> SUFFICES ASSUME NEW k \in 1..Len(ds) PROVE u[ds[k]].priority = t[ds[k]].priority
    OBVIOUS
  <2> HIDE DEF ds
  <2>1. t[ds[k]].priority \in Nat
    BY <1>2, Places, FieldTypes
  <2> QED BY <1>1, <1>2, <2>1 DEF Owed
<1>4. Weights(u, ds) = Weights(t, ds)
  BY <1>3 DEF Weights
<1>5. Weighs(t, t[i], 0) /\ i # 0
  BY DEF Counted, Owed
<1>6. PICK x \in Nat : /\ Adds(Weights(t, ds), Len(ds), x)
                       /\ t[i].priority = x + Own(t[i]) + 0
  BY <1>5 DEF Weighs
<1>7. Own(u[i]) = Own(t[i]) /\ Own(t[i]) \in Nat /\ u[i].children = ds
  BY <1>1 DEF Own
<1>8. u[i].priority = x + Own(u[i]) + Owed(i, 1)
  BY <1>1, <1>6, <1>7 DEF Owed
<1>9. Falls(Weights(t, ds), Len(ds))
  BY <1>5 DEF Weighs
<1> QED BY <1>4, <1>6, <1>7, <1>8, <1>9 DEF Weighs

\* The walk goes on with the only child of a node.
LEMMA OnlyChildCounts ==
    ASSUME NEW t, InShape(t), NEW at \in 1..Len(t), Len(t[at].children) = 1, Counted(t, at)
    PROVE  Counted(Bump(t, t[at].children[1]), t[at].children[1])
<1> DEFINE child == t[at].children[1]
           u == Bump(t, child)
<1>1. t \in Seq(Node) /\ Hung(t) /\ 1 \in 1..Len(t[at].children)
  BY DEF InShape
<1>2. child \in 1..Len(t)
  BY <1>1, WeightsBelow
<1>3. /\ u \in Seq(Node) /\ Len(u) = Len(t)
      /\ \A i \in 1..Len(t) : /\ u[i].priority = t[i].priority + Owed(i, child)
                              /\ u[i].children = t[i].children
                              /\ u[i].handle = t[i].handle
  <2> HIDE DEF child
  <2> QED BY <1>1, <1>2, BumpRaises
<1> HIDE DEF u
<1>4. \A k \in 1..1 : k = 1 /\ Origin(1, 1, k) = k
  BY DEF Origin
<1>5. PassesOn(t, u, at, 1, 1)
  BY <1>3, <1>4 DEF PassesOn
<1>6. Falls(Weights(u, u[at].children), Len(u[at].children))
  <2>1. Len(u[at].children) = 1 /\ \A k, l \in 1..1 : ~(k < l)
    BY <1>3
  <2> QED BY <2>1 DEF Falls
<1>7. 1 \in 1..1
  OBVIOUS
<1>8. Counted(u, t[at].children[1])
  BY <1>1, <1>5, <1>6, <1>7, PassedOn
<1> QED BY <1>8 DEF u

\* The walk goes on along an index byte.
LEMMA ChildPrioCounts ==
    ASSUME NEW t, InShape(t), NEW at \in 1..Len(t),
           Len(t[at].indices) = Len(t[at].children), NEW pos \in 1..Len(t[at].children),
           Counted(t, at)
    PROVE  Counted(IncrementChildPrio(t, at, pos), t[at].children[pos])
<1> DEFINE N == Len(t)
           cs == t[at].children
           m == Len(cs)
           child == cs[pos]
           v == Bump(t, child)
           to == NewPos(v, v[at].children, pos)
           ds == Moved(v[at].children, pos, to)
           is == Moved(v[at].indices, pos, to)
           n == [v[at] EXCEPT !.children = ds, !.indices = is]
           u == IncrementChildPrio(t, at, pos)
           w == Weights(t, cs)
           z == Weights(u, u[at].children)
<1>1. t \in Seq(Node) /\ Hung(t) /\ N \in Nat
  BY Places DEF InShape
<1>2. /\ cs \in Seq(Nat) /\ m \in Nat /\ pos \in 1..m
      /\ \A k \in 1..m : cs[k] \in 1..N /\ w[k] = t[cs[k]].priority /\ w[k] \in Nat
  BY <1>1, WeightsBelow
<1>3. child \in 1..N
  BY <1>2
<1>4. /\ v \in Seq(Node) /\ Len(v) = N
      /\ \A i \in 1..N : /\ v[i].priority = t[i].priority + Owed(i, child)
                         /\ v[i].children = t[i].children
                         /\ v[i].indices = t[i].indices
                         /\ v[i].handle = t[i].handle
  <2> HIDE DEF child
  <2> QED BY <1>1, <1>3, BumpRaises
<1>5. /\ v[at].children = cs /\ v[at].indices \in Seq(STRING)
      /\ Len(v[at].indices) = m /\ v[at] \in Node
  <2>1. v[at] \in Node /\ v[at].children = cs /\ v[at].indices = t[at].indices
    BY <1>4, Places
  <2> QED BY <2>1, FieldTypes
<1> HIDE DEF v
<1>6. /\ to \in 1..pos
      /\ \A q \in to..pos - 1 : v[cs[q]].priority < v[cs[pos]].priority
      /\ to = 1 \/ v[cs[to - 1]].priority >= v[cs[pos]].priority
  <2> HIDE DEF cs
  <2>1. \A k \in 1..Len(cs) : cs[k] \in 1..Len(v)
    BY <1>2, <1>4
  <2> QED BY <1>2, <1>4, <1>5, <2>1, NewPosition
<1> HIDE DEF to
<1>7. /\ ds \in Seq(Nat) /\ Len(ds) = m /\ is \in Seq(STRING)
      /\ \A k \in 1..m : ds[k] = cs[Origin(pos, to, k)]
  <2> DEFINE b == v[at].indices
  <2>1. b \in Seq(STRING) /\ Len(b) = m /\ pos \in 1..Len(b) /\ pos \in 1..Len(cs)
    BY <1>2, <1>5
  <2>2. v[at].children = cs
    BY <1>5
  <2> HIDE DEF b, cs
  <2>3. /\ Moved(cs, pos, to) \in Seq(Nat) /\ Len(Moved(cs, pos, to)) = Len(cs)
        /\ \A k \in 1..Len(cs) : Moved(cs, pos, to)[k] = cs[Origin(pos, to, k)]
    BY <1>2, <1>6, <2>1, MovedElements, Zenon
  <2>4. Moved(b, pos, to) \in Seq(STRING)
    BY <1>6, <2>1, MovedElements, Zenon
  <2> QED BY <2>2, <2>3, <2>4 DEF b
<1>8. u = [v EXCEPT ![at] = n]
  BY <1>4, <1>5 DEF IncrementChildPrio, v, to, child
<1> HIDE DEF ds, is
<1>9. /\ n \in Node /\ n.children = ds /\ n.handle = v[at].handle /\ n.priority = v[at].priority
  BY <1>5, <1>7 DEF Node
<1> HIDE DEF n, u
<1>10. /\ u \in Seq(Node) /\ Len(u) = N /\ u[at] = n
       /\ \A i \in 1..N : i # at => u[i] = v[i]
  BY <1>4, <1>8, <1>9, Put
<1>11. \A i \in 1..N : /\ u[i].handle = t[i].handle
                       /\ u[i].priority = v[i].priority
                       /\ u[i].priority = t[i].priority + Owed(i, child)
                       /\ i # at => u[i].children = t[i].children
  BY <1>4, <1>9, <1>10
<1>12. Len(u[at].children) = m /\ \A k \in 1..m : u[at].children[k] = cs[Origin(pos, to, k)]
  BY <1>7, <1>9, <1>10
<1>13. PassesOn(t, u, at, pos, to)
  BY <1>10, <1>11, <1>12 DEF PassesOn
<1>14. \A k \in 1..m : v[cs[k]].priority = w[k] + (IF k = pos THEN 1 ELSE 0)
  <2> SUFFICES ASSUME NEW k \in 1..m
               PROVE  v[cs[k]].priority = w[k] + (IF k = pos THEN 1 ELSE 0)
    OBVIOUS
  <2>1. cs[k] = child <=> k = pos
    <3>1. NoneIsShared(t) /\ at \in DOMAIN t /\ k \in DOMAIN cs /\ pos \in DOMAIN cs
      <4>1. NoneIsShared(t) /\ DOMAIN t = 1..N
        BY <1>1, Places DEF Hung
      <4> HIDE DEF cs
      <4>2. DOMAIN cs = 1..m
        BY <1>2
      <4> QED BY <1>2, <4>1, <4>2
    <3>2. cs[k] = cs[pos] => k = pos
      BY <3>1, Zenon DEF NoneIsShared
    <3> QED BY ONLY <3>2 DEF child
  <2>2. v[cs[k]].priority = w[k] + Owed(cs[k], child)
    BY <1>2, <1>4
  <2> HIDE DEF child, cs, w, m
  <2> QED BY <2>1, <2>2 DEF Owed
<1>15. \A k \in 1..m : Origin(pos, to, k) \in 1..m /\ (Origin(pos, to, k) = pos <=> k = to)
  BY <1>2, <1>6 DEF Origin
<1>16. \A k \in 1..m : z[k] = v[cs[Origin(pos, to, k)]].priority
  <2> SUFFICES ASSUME NEW k \in 1..m PROVE z[k] = v[cs[Origin(pos, to, k)]].priority
    OBVIOUS
  <2>1. z[k] = u[u[at].children[k]].priority
    BY <1>12 DEF Weights
  <2> HIDE DEF cs, m
  <2> QED BY <1>2, <1>11, <1>12, <1>15, <2>1
<1> HIDE DEF z, w, cs, m, child
<1>17. \A k \in 1..m : z[k] = IF k = to THEN w[pos] + 1 ELSE w[Origin(pos, to, k)]
  <2> SUFFICES ASSUME NEW k \in 1..m
               PROVE  z[k] = IF k = to THEN w[pos] + 1 ELSE w[Origin(pos, to, k)]
    OBVIOUS
  <2> DEFINE o == Origin(pos, to, k)
  <2>1. o \in 1..m /\ (o = pos <=> k = to) /\ z[k] = v[cs[o]].priority
    BY <1>15, <1>16
  <2>2. w[o] \in Nat /\ v[cs[o]].priority = w[o] + (IF o = pos THEN 1 ELSE 0)
    BY <1>2, <1>14, <2>1
  <2> HIDE DEF o
  <2>3. z[k] = IF k = to THEN w[pos] + 1 ELSE w[o]
    BY <2>1, <2>2
  <2> QED BY <2>3 DEF o
<1>18. \A q \in to..pos - 1 : w[q] < w[pos] + 1
  <2> SUFFICES ASSUME NEW q \in to..pos - 1 PROVE w[q] < w[pos] + 1
    OBVIOUS
  <2>1. q \in 1..m /\ q # pos /\ pos \in 1..m
    BY <1>2, <1>6
  <2>2. v[cs[q]].priority = w[q] + 0 /\ w[q] \in Nat /\ v[cs[pos]].priority = w[pos] + 1
    BY <1>2, <1>14, <2>1
  <2>3. v[cs[q]].priority < v[cs[pos]].priority
    BY <1>6
  <2> QED BY <2>2, <2>3
<1>19. to = 1 \/ w[to - 1] >= w[pos] + 1
  BY <1>2, <1>6, <1>14
<1>20. Falls(w, m)
  BY DEF Counted, Weighs, w, m, cs
<1>21. Falls(z, m)
  <2>1. Overtakes(w, m, pos, to, z)
    BY <1>2, <1>6, <1>17, <1>18, <1>19 DEF Overtakes
  <2> QED BY <1>20, <2>1, FallsMoved
<1>22. Falls(Weights(u, u[at].children), Len(u[at].children))
  BY <1>12, <1>21 DEF z
<1>23. pos \in 1..Len(t[at].children)
  OBVIOUS
<1>24. Counted(u, t[at].children[pos])
  BY <1>1, <1>6, <1>13, <1>22, <1>23, PassedOn
<1> QED BY <1>24 DEF u

\* A split leaves what is counted.
LEMMA SplitCounts ==
    ASSUME NEW t, Ordered(t), NEW at \in 1..Len(t), NEW i \in 1..Len(t[at].path) - 1,
           Counted(t, at)
    PROVE  Counted(SplitEdge(t, at, i), at)
<1> DEFINE n == t[at]
           N == Len(t)
           up == UpperHalf(n, i, N + 1)
           low == LowerHalf(n, i)
           u == SplitEdge(t, at, i)
<1>1. /\ t \in Seq(Node) /\ Hung(t) /\ n \in Node /\ N \in Nat /\ at # N + 1
  BY Places DEF Ordered, InShape
<1>2. PICK x \in Nat : /\ Adds(Weights(t, n.children), Len(n.children), x)
                       /\ n.priority = x + Own(n) + 1
  BY DEF Counted, Weighs, Owed
<1>3. Own(n) \in Nat /\ n.priority - 1 = x + Own(n) + 0 /\ n.priority >= 1 /\ n.priority \in Nat
  <2>1. Own(n) \in Nat
    BY DEF Own
  <2> DEFINE o == Own(n)
             p == n.priority
  <2>2. o \in Nat /\ p = x + o + 1
    BY <1>2, <2>1
  <2> HIDE DEF o, p
  <2>3. p - 1 = x + o + 0 /\ p >= 1 /\ p \in Nat
    BY <2>2
  <2> QED BY <2>1, <2>3 DEF o, p
<1>4. /\ up \in Node /\ up.children = <<N + 1>> /\ up.priority = n.priority
      /\ up.handle = NoHandle
      /\ low \in Node /\ low.children = n.children /\ low.handle = n.handle
  <2>1. N + 1 \in Nat
    BY <1>1
  <2> QED BY <1>1, <1>3, <2>1, HalvesOf
<1>5. low.priority = n.priority - 1
  BY <1>1 DEF LowerHalf, Node
<1>6. u = Append([t EXCEPT ![at] = up], low)
  BY DEF SplitEdge
<1> HIDE DEF up, low, u
<1>7. /\ u \in Seq(Node) /\ Len(u) = N + 1 /\ u[at] = up /\ u[N + 1] = low
      /\ \A j \in 1..N : j # at => u[j] = t[j]
  <2> DEFINE v == [t EXCEPT ![at] = up]
  <2>1. /\ v \in Seq(Node) /\ Len(v) = N /\ v[at] = up
        /\ \A j \in 1..N : j # at => v[j] = t[j]
    BY <1>1, <1>4, Put
  <2> HIDE DEF v
  <2>2. /\ u \in Seq(Node) /\ Len(u) = Len(v) + 1 /\ u[Len(v) + 1] = low
        /\ \A j \in 1..Len(v) : u[j] = v[j]
    BY <1>4, <1>6, <2>1, PutLast DEF v
  <2> QED BY <1>1, <2>1, <2>2
<1>8. \A j \in 1..N : u[j].priority = t[j].priority
  BY <1>4, <1>7
<1>9. \A j \in 1..N : \A k \in 1..Len(t[j].children) :
          u[t[j].children[k]].priority = t[t[j].children[k]].priority
  <2>1. \A j \in 1..N : \A k \in 1..Len(t[j].children) : t[j].children[k] \in 1..N
    BY <1>1, WeightsBelow
  <2> QED BY <1>8, <2>1
<1> SUFFICES ASSUME NEW j \in 1..N + 1 PROVE Weighs(u, u[j], Owed(j, at))
  BY <1>7 DEF Counted, u
<1>10. CASE j = at
  <2>1. u[N + 1].priority \in Nat /\ up.handle = NoHandle /\ Own(up) = 0 /\ Own(n) \in {0, 1}
    BY <1>4, <1>7, FieldTypes DEF Own
  <2>2. up.priority = u[N + 1].priority + Own(up) + 1
    BY <1>3, <1>4, <1>5, <1>7, <2>1
  <2>3. Weighs(u, up, 1)
    BY <1>4, <2>1, <2>2, StemWeighs
  <2> QED BY <1>7, <1>10, <2>3 DEF Owed
<1>11. CASE j = N + 1
  <2>1. Weights(u, low.children) = Weights(t, n.children)
    BY <1>4, <1>9 DEF Weights
  <2>2. Own(low) = Own(n)
    BY <1>4 DEF Own
  <2>3. low.priority = x + Own(low) + 0
    BY <1>3, <1>5, <2>2
  <2>4. Falls(Weights(t, n.children), Len(n.children))
    BY DEF Counted, Weighs
  <2>5. Weighs(u, low, 0)
    BY <1>2, <1>4, <2>1, <2>3, <2>4 DEF Weighs
  <2>6. Owed(j, at) = 0
    BY <1>1, <1>11 DEF Owed
  <2> QED BY <1>7, <1>11, <2>5, <2>6
<1>12. CASE j \in 1..N /\ j # at
  <2>1. Weighs(t, t[j], Owed(j, at)) /\ u[j] = t[j]
    BY <1>7, <1>12 DEF Counted
  <2> QED BY <1>9, <1>12, <2>1, StillWeighs
<1> QED BY <1>1, <1>10, <1>11, <1>12

\* A handle put where the walk ends is what the walk owed.
LEMMA HandleCounts ==
    ASSUME NEW t \in Seq(Node), Hung(t), NEW at \in 1..Len(t), Counted(t, at),
           NEW m, m.children = t[at].children, m.priority = t[at].priority,
           t[at].handle = NoHandle, m.handle # NoHandle
    PROVE  Counted([t EXCEPT ![at] = m], 0)
<1> DEFINE u == [t EXCEPT ![at] = m]
           n == t[at]
<1>1. Len(u) = Len(t) /\ u[at] = m /\ \A i \in 1..Len(t) : i # at => u[i] = t[i]
  OBVIOUS
<1> SUFFICES Counted(u, 0)
  OBVIOUS
<1> HIDE DEF u
<1>2. \A j \in 1..Len(t) : u[j].priority = t[j].priority
  BY <1>1
<1>3. \A j \in 1..Len(t) : \A k \in 1..Len(t[j].children) :
          u[t[j].children[k]].priority = t[t[j].children[k]].priority
  <2>1. \A j \in 1..Len(t) : \A k \in 1..Len(t[j].children) : t[j].children[k] \in 1..Len(t)
    BY WeightsBelow
  <2> QED BY <1>2, <2>1
<1> SUFFICES ASSUME NEW j \in 1..Len(t) PROVE Weighs(u, u[j], 0)
  BY <1>1 DEF Counted, Owed
<1>4. CASE j = at
  <2>1. PICK x \in Nat : /\ Adds(Weights(t, n.children), Len(n.children), x)
                         /\ n.priority = x + Own(n) + 1
    BY DEF Counted, Weighs, Owed
  <2>2. Falls(Weights(t, n.children), Len(n.children))
    BY DEF Counted, Weighs
  <2>3. Weights(u, m.children) = Weights(t, n.children)
    BY <1>3 DEF Weights
  <2>4. m.priority = x + Own(m) + 0
    BY <2>1 DEF Own
  <2>5. Weighs(u, m, 0)
    BY <2>1, <2>2, <2>3, <2>4 DEF Weighs
  <2> QED BY <1>1, <1>4, <2>5
<1>5. CASE j # at
  <2>1. Weighs(t, t[j], 0) /\ u[j] = t[j]
    BY <1>1, <1>5 DEF Counted, Owed
  <2> QED BY <1>3, <2>1, StillWeighs
<1> QED BY <1>4, <1>5

\* A child appended with its first handle still on the way weighs nothing.
LEMMA GrownCounts ==
    ASSUME NEW t \in Seq(Node), Hung(t), NEW at \in 1..Len(t), NEW c, NEW v,
           GrownFrom(t, v, at, c), Counted(t, at)
    PROVE  Counted(v, at)
<1> DEFINE N == Len(t)
           cs == t[at].children
           K == Len(cs)
           ds == v[at].children
           w == Weights(t, cs)
           z == Weights(v, ds)
<1>1. /\ Len(v) = N + 1 /\ v[N + 1] = EmptyNode /\ N \in Nat /\ at # N + 1
      /\ \A i \in 1..N : i # at => v[i] = t[i]
      /\ v[at].handle = t[at].handle /\ v[at].priority = t[at].priority
      /\ K \in Nat /\ Len(ds) = K + 1 /\ ds[K + 1] = N + 1
      /\ \A k \in 1..K : ds[k] = cs[k]
  BY Places DEF GrownFrom
<1>2. \A k \in 1..K : cs[k] \in 1..N /\ w[k] = t[cs[k]].priority /\ w[k] \in Nat
  BY WeightsBelow
<1>3. \A j \in 1..N : v[j].priority = t[j].priority
  BY <1>1
<1>4. EmptyNode.priority = 0 /\ EmptyNode.children = <<>> /\ EmptyNode.handle = NoHandle
  BY EmptyNodeIs DEF NoHandle
<1> SUFFICES ASSUME NEW j \in 1..N + 1 PROVE Weighs(v, v[j], Owed(j, at))
  BY <1>1 DEF Counted
<1>5. CASE j = at
  <2>1. PICK x \in Nat : Adds(w, K, x) /\ t[at].priority = x + Own(t[at]) + 1
    BY DEF Counted, Weighs, Owed
  <2>2. Falls(w, K)
    BY DEF Counted, Weighs
  <2>3. \A k \in 1..K + 1 : z[k] = v[ds[k]].priority
    BY <1>1 DEF Weights
  <2> HIDE DEF z, w, ds, cs
  <2>4. \A k \in 1..K : z[k] = w[k] /\ z[k] \in Nat
    <3> SUFFICES ASSUME NEW k \in 1..K PROVE z[k] = w[k] /\ z[k] \in Nat
      OBVIOUS
    <3>1. k \in 1..K + 1 /\ ds[k] = cs[k] /\ cs[k] \in 1..N
      BY <1>1, <1>2
    <3> HIDE DEF K
    <3> QED BY <1>2, <1>3, <2>3, <3>1
  <2>5. z[K + 1] = 0
    <3>1. K + 1 \in 1..K + 1
      BY <1>1
    <3> HIDE DEF K
    <3> QED BY <1>1, <1>4, <2>3, <3>1
  <2> HIDE DEF K
  <2>6. Adds(z, K + 1, x + z[K + 1])
    BY <1>1, <2>1, <2>4, <2>5, AddsMore
  <2>7. Falls(z, K + 1)
    <3> SUFFICES ASSUME NEW k \in 1..K + 1, NEW l \in 1..K + 1, k < l PROVE z[k] >= z[l]
      BY DEF Falls
    <3>1. k \in 1..K
      BY <1>1
    <3>2. CASE l \in 1..K
      <4>1. w[k] >= w[l]
        BY <2>2, <3>1, <3>2 DEF Falls
      <4> QED BY <2>4, <3>1, <3>2, <4>1
    <3>3. CASE l = K + 1
      BY <2>4, <2>5, <3>1, <3>3
    <3> QED BY <1>1, <3>2, <3>3
  <2>8. x + z[K + 1] = x
    BY <2>5
  <2>9. v[at].priority = x + Own(v[at]) + 1
    BY <1>1, <2>1 DEF Own
  <2>10. Adds(z, Len(ds), x) /\ Falls(z, Len(ds))
    BY <1>1, <2>6, <2>7, <2>8
  <2>11. Weighs(v, v[at], 1)
    BY <2>9, <2>10 DEF Weighs, z, ds
  <2> QED BY <1>5, <2>11 DEF Owed
<1>6. CASE j = N + 1
  <2>1. EmptyNode.priority = Own(EmptyNode) + 0
    BY <1>4 DEF Own
  <2>2. Weighs(v, EmptyNode, 0)
    BY <1>4, <2>1, LeafWeighs
  <2>3. Owed(j, at) = 0
    BY <1>1, <1>6 DEF Owed
  <2> QED BY <1>1, <1>6, <2>2, <2>3
<1>7. CASE j \in 1..N /\ j # at
  <2>1. Weighs(t, t[j], Owed(j, at)) /\ v[j] = t[j]
    BY <1>1, <1>7 DEF Counted
  <2>2. \A k \in 1..Len(t[j].children) : t[j].children[k] \in 1..N
    BY <1>7, WeightsBelow
  <2>3. \A k \in 1..Len(t[j].children) :
            v[t[j].children[k]].priority = t[t[j].children[k]].priority
    BY <1>3, <2>2
  <2> QED BY <2>1, <2>3, StillWeighs
<1> QED BY <1>1, <1>5, <1>6, <1>7

\* The child grown for a new byte owes the route.
LEMMA GrowChildCounts ==
    ASSUME NEW t, Ordered(t), NEW at \in 1..Len(t), t[at].wildChild = FALSE,
           t[at].path # <<>>, NEW c \in STRING,
           \A k \in 1..Len(t[at].indices) : t[at].indices[k] # c,
           t[at].nType = "param" => c = Slash /\ t[at].children = <<>>, Counted(t, at)
    PROVE  Counted(GrowChild(t, at, c), Len(t) + 1)
<1> DEFINE N == Len(t)
           K == Len(t[at].children)
           v == Grown(t, at, c)
<1>1. GrownFrom(t, v, at, c) /\ GrowChild(t, at, c) = IncrementChildPrio(v, at, K + 1)
  BY ChildAppended
<1> HIDE DEF v
<1>2. /\ InShape(v) /\ Len(v) = N + 1 /\ K \in Nat /\ N \in Nat
      /\ Len(v[at].children) = K + 1 /\ Len(v[at].indices) = K + 1
      /\ v[at].children[K + 1] = N + 1
  BY <1>1, Places DEF GrownFrom, Ordered, InShape
<1>3. Counted(v, at)
  BY <1>1, GrownCounts DEF Ordered, InShape
<1>4. at \in 1..Len(v) /\ K + 1 \in 1..Len(v[at].children)
  BY <1>2
<1> HIDE DEF K
<1>5. Counted(IncrementChildPrio(v, at, K + 1), v[at].children[K + 1])
  BY <1>2, <1>3, <1>4, ChildPrioCounts
<1> QED BY <1>1, <1>2, <1>5

\* What a handle weighs.
LEMMA OwnIs ==
    ASSUME NEW n
    PROVE  /\ Own(n) \in {0, 1} /\ (n.handle = NoHandle => Own(n) = 0)
           /\ (n.handle # NoHandle => Own(n) = 1)
BY DEF Own

\* A node without children gets one of weight one, which owes the route if
\* `next' is not yet counted.
LEMMA GraftCounts ==
    ASSUME NEW t \in Seq(Node), Hung(t), NEW at \in 1..Len(t), t[at].children = <<>>,
           Counted(t, at), NEW u \in Seq(Node), Len(u) > Len(t),
           u[at].children = <<Len(t) + 1>>, u[at].handle = t[at].handle,
           u[at].priority = t[at].priority, u[Len(t) + 1].priority = 1,
           \A i \in 1..Len(t) : i # at => u[i] = t[i],
           NEW next, next \notin 1..Len(t),
           \A j \in 1..Len(u) : j > Len(t) => Weighs(u, u[j], Owed(j, next))
    PROVE  Counted(u, next)
<1> DEFINE N == Len(t)
           n == t[at]
<1>1. N \in Nat /\ Len(u) \in Nat
  BY Places
<1>2. \A j \in 1..N : u[j].priority = t[j].priority
  OBVIOUS
<1> SUFFICES ASSUME NEW j \in 1..Len(u) PROVE Weighs(u, u[j], Owed(j, next))
  BY DEF Counted
<1>3. CASE j > N
  BY <1>3
<1>4. CASE j = at
  <2>1. PICK x \in Nat : /\ Adds(Weights(t, n.children), Len(n.children), x)
                         /\ n.priority = x + Own(n) + 1
    BY DEF Counted, Weighs, Owed
  <2>2. x = 0
    <3>1. Len(n.children) = 0
      OBVIOUS
    <3>2. Adds(Weights(t, n.children), 0, x)
      BY <2>1, <3>1
    <3> QED BY <3>2 DEF Adds
  <2>3. Own(u[at]) = Own(n) /\ Own(n) \in {0, 1}
    BY OwnIs DEF Own
  <2>4. u[at].priority = u[N + 1].priority + Own(u[at]) + 0 /\ u[N + 1].priority \in Nat
    BY <2>1, <2>2, <2>3
  <2>5. Weighs(u, u[at], 0)
    BY <2>4, StemWeighs
  <2> QED BY <1>4, <2>5 DEF Owed
<1>5. CASE j \in 1..N /\ j # at
  <2>1. Weighs(t, t[j], 0) /\ u[j] = t[j] /\ Owed(j, next) = 0
    BY <1>5 DEF Counted, Owed
  <2>2. \A k \in 1..Len(t[j].children) : t[j].children[k] \in 1..N
    BY <1>5, WeightsBelow
  <2>3. \A k \in 1..Len(t[j].children) :
            u[t[j].children[k]].priority = t[t[j].children[k]].priority
    BY <1>2, <2>2
  <2> QED BY <2>1, <2>3, StillWeighs
<1> QED BY <1>1, <1>3, <1>4, <1>5

\* The handle of a rest without wildcards.
LEMMA LeafCounts ==
    ASSUME NEW t, NEW at, NEW c, Ready(t, at, at, c), Counted(t, at), NEW path,
           NEW route, route # <<>>
    PROVE  Counted(LeafTree(t, at, path, route), 0)
<1>1. t \in Seq(Node) /\ Hung(t) /\ at \in 1..Len(t) /\ Fresh(t[at]) /\ t[at] \in Node
  BY Places DEF Ready, InShape
<1> DEFINE m == [t[at] EXCEPT !.path = path, !.handle = route]
<1>2. LeafTree(t, at, path, route) = [t EXCEPT ![at] = m]
  BY <1>1 DEF LeafTree
<1>3. m.children = t[at].children /\ m.priority = t[at].priority /\ m.handle = route
  BY <1>1 DEF Node
<1>4. t[at].handle = NoHandle /\ m.handle # NoHandle
  BY <1>1, <1>3 DEF Fresh, NoHandle
<1> HIDE DEF m
<1>5. Counted([t EXCEPT ![at] = m], 0)
  BY <1>1, <1>3, <1>4, HandleCounts
<1> QED BY <1>2, <1>5

\* The handle of a last parameter.
LEMMA LastParamCounts ==
    ASSUME NEW t, NEW at, NEW fresh, NEW c, NEW path \in Seq(STRING), NEW w \in 1..Len(path),
           AtWildcard(t, at, fresh, c, path, w), Counted(t, at),
           NEW route \in Seq(STRING), route # <<>>
    PROVE  Counted(LastParamTree(t, at, path, w, route), 0)
<1> DEFINE N == Len(t)
           n == t[at]
           m == AboveParam(n, path, w, N + 1)
           p == [ParamChild(path[w]) EXCEPT !.handle = route]
           v == [t EXCEPT ![at] = m]
           u == LastParamTree(t, at, path, w, route)
<1>1. /\ t \in Seq(Node) /\ Hung(t) /\ at \in 1..N /\ n \in Node /\ n.children = <<>>
      /\ N \in Nat
  BY Places DEF AtWildcard, Ready, InShape
<1>2. /\ m \in Node /\ m.children = <<N + 1>> /\ m.handle = n.handle
  <2>1. IsAboveWildcard(t, at, fresh, c, m)
    BY AboveWildcard
  <2> QED BY <2>1, Zenon DEF IsAboveWildcard
<1>3. m.priority = n.priority
  BY <1>1 DEF AboveParam, Node
<1>4. p \in Node /\ p.children = <<>> /\ p.handle = route
  <2>1. path[w] \in STRING /\ 0 \in Nat
    OBVIOUS
  <2> QED BY <2>1, ParamChildIs
<1>5. p.priority = 1
  BY DEF ParamChild, EmptyNode
<1>6. u = Append(v, p)
  BY DEF LastParamTree
<1> HIDE DEF m, p, u
<1>7. /\ v \in Seq(Node) /\ Len(v) = N /\ v[at] = m
      /\ \A i \in 1..N : i # at => v[i] = t[i]
  BY <1>1, <1>2, Put
<1> HIDE DEF v
<1>8. /\ u \in Seq(Node) /\ Len(u) = N + 1 /\ u[N + 1] = p /\ u[at] = m
      /\ \A i \in 1..N : i # at => u[i] = t[i]
  <2>1. /\ u \in Seq(Node) /\ Len(u) = Len(v) + 1 /\ u[Len(v) + 1] = p
        /\ \A i \in 1..Len(v) : u[i] = v[i]
    BY <1>4, <1>6, <1>7, PutLast
  <2> QED BY <1>1, <1>7, <2>1
<1>9. Weighs(u, p, 0)
  <2>1. p.priority = Own(p) + 0
    BY <1>4, <1>5, OwnIs DEF NoHandle
  <2> QED BY <1>4, <2>1, LeafWeighs
<1>10. \A j \in 1..Len(u) : j > N => Weighs(u, u[j], Owed(j, 0))
  <2> SUFFICES ASSUME NEW j \in 1..N + 1, j > N PROVE Weighs(u, u[j], Owed(j, 0))
    BY <1>8
  <2>1. j = N + 1 /\ j # 0
    BY <1>1
  <2> QED BY <1>8, <1>9, <2>1 DEF Owed
<1>11. Len(u) > N /\ 0 \notin 1..N
  BY <1>1, <1>8
<1>12. Counted(u, 0)
  BY <1>1, <1>2, <1>3, <1>5, <1>8, <1>10, <1>11, GraftCounts
<1> QED BY <1>12 DEF u

\* The two nodes behind a tree, of which the second hangs below the first.
LEMMA TwoGrafted ==
    ASSUME NEW t \in Seq(Node), Hung(t), NEW at \in 1..Len(t), t[at].children = <<>>,
           Counted(t, at), NEW m \in Node, m.children = <<Len(t) + 1>>,
           m.handle = t[at].handle, m.priority = t[at].priority,
           NEW p \in Node, p.children = <<Len(t) + 1 + 1>>, p.handle = NoHandle, p.priority = 1,
           NEW e \in Node, e.children = <<>>, e.priority = 1,
           NEW next, next = IF e.handle = NoHandle THEN Len(t) + 1 + 1 ELSE 0
    PROVE  Counted([t EXCEPT ![at] = m] \o <<p, e>>, next)
<1> DEFINE N == Len(t)
           last == N + 1 + 1
           v == [t EXCEPT ![at] = m]
           u == v \o <<p, e>>
<1>1. N \in Nat /\ last = N + 1 + 1 /\ next \notin 1..N /\ last # N + 1
      /\ Owed(N + 1, next) = 0 /\ e.priority = Own(e) + Owed(last, next)
      /\ Owed(last, next) \in Nat
  <2>1. N \in Nat
    BY Places
  <2>2. next # N + 1 /\ next \notin 1..N /\ last # N + 1 /\ last # 0 /\ last = N + 1 + 1
    BY <2>1
  <2>3. IF e.handle = NoHandle THEN next = last ELSE next # last
    BY <2>2
  <2> HIDE DEF last
  <2> QED BY <2>1, <2>2, <2>3 DEF Owed, Own
<1>2. v \in Seq(Node) /\ Len(v) = N /\ v[at] = m /\ \A i \in 1..N : i # at => v[i] = t[i]
  BY Put
<1> HIDE DEF v
<1>3. /\ u \in Seq(Node) /\ Len(u) = Len(v) + 2 /\ u[Len(v) + 1] = p /\ u[Len(v) + 2] = e
      /\ \A i \in 1..Len(v) : u[i] = v[i]
  <2>1. v \in Seq(Node)
    BY <1>2
  <2> QED BY <2>1, PutTwo
<1> SUFFICES Counted(u, next)
  BY DEF v
<1> HIDE DEF u
<1>4. /\ Len(u) = N + 2 /\ u[N + 1] = p /\ u[last] = e /\ u[at] = m /\ Len(u) > N
      /\ \A i \in 1..N : i # at => u[i] = t[i]
      /\ \A i \in 1..Len(u) : i > N => i = N + 1 \/ i = last
  <2>1. Len(u) = N + 2 /\ u[N + 1] = p /\ u[N + 2] = e
    BY <1>2, <1>3
  <2>2. \A i \in 1..N : u[i] = v[i]
    BY <1>2, <1>3
  <2>3. /\ N + 2 > N /\ N + 2 = last
        /\ \A i \in 1..N + 2 : i > N => i = N + 1 \/ i = last
    <3>1. N \in Nat
      BY <1>1
    <3> HIDE DEF N
    <3> QED BY <3>1, TwoBehind
  <2> QED BY <1>2, <2>1, <2>2, <2>3
<1> HIDE DEF last
<1>5. Weighs(u, e, Owed(last, next))
  BY <1>1, LeafWeighs
<1>6. Weighs(u, p, 0)
  <2>1. p.children = <<last>> /\ u[last].priority = 1
    BY <1>4 DEF last
  <2>2. p.priority = u[last].priority + Own(p) + 0 /\ u[last].priority \in Nat
    BY <2>1, OwnIs
  <2> QED BY <2>1, <2>2, StemWeighs
<1>7. \A j \in 1..Len(u) : j > N => Weighs(u, u[j], Owed(j, next))
  BY <1>1, <1>4, <1>5, <1>6
<1> QED BY <1>1, <1>3, <1>4, <1>7, GraftCounts

\* The rest behind a parameter owes the route.
LEMMA ParamCounts ==
    ASSUME NEW t, NEW at, NEW fresh, NEW c, NEW path \in Seq(STRING), NEW w \in 1..Len(path),
           AtWildcard(t, at, fresh, c, path, w), Counted(t, at)
    PROVE  Counted(ParamTree(t, at, path, w), Len(t) + 1 + 1)
<1> DEFINE N == Len(t)
           n == t[at]
           m == AboveParam(n, path, w, N + 1)
           p == [ParamChild(path[w]) EXCEPT !.children = <<N + 1 + 1>>]
           e == [EmptyNode EXCEPT !.priority = 1]
<1>1. /\ t \in Seq(Node) /\ Hung(t) /\ at \in 1..N /\ n \in Node /\ n.children = <<>>
      /\ N \in Nat
  BY Places DEF AtWildcard, Ready, InShape
<1>2. /\ m \in Node /\ m.children = <<N + 1>> /\ m.handle = n.handle
  <2>1. IsAboveWildcard(t, at, fresh, c, m)
    BY AboveWildcard
  <2> QED BY <2>1, Zenon DEF IsAboveWildcard
<1>3. m.priority = n.priority
  BY <1>1 DEF AboveParam, Node
<1>4. /\ p \in Node /\ p.children = <<N + 1 + 1>> /\ p.handle = NoHandle
      /\ e \in Node /\ Fresh(e) /\ e.priority = 1
  <2>1. path[w] \in STRING /\ N + 1 + 1 \in Nat /\ <<>> \in Seq(STRING)
    BY <1>1
  <2> QED BY <2>1, ParamChildIs
<1>5. p.priority = 1
  BY DEF ParamChild, EmptyNode
<1>6. ParamTree(t, at, path, w) = [t EXCEPT ![at] = m] \o <<p, e>>
  BY <1>1 DEF ParamTree
<1>7. e.children = <<>> /\ e.handle = NoHandle
  BY <1>4 DEF Fresh
<1> HIDE DEF m, p, e
<1> QED BY <1>1, <1>2, <1>3, <1>4, <1>5, <1>6, <1>7, TwoGrafted

\* The handle of a catch-all.
LEMMA CatchAllCounts ==
    ASSUME NEW t, NEW at, NEW path \in Seq(STRING), Ready(t, at, at, path[1]), Len(path) > 1,
           path[Len(path) - 1] = Slash, NEW route \in Seq(STRING), route # <<>>,
           Counted(t, at)
    PROVE  Counted(CatchAllTree(t, at, path, route), 0)
<1> DEFINE N == Len(t)
           n == t[at]
           m == AboveCatchAll(n, path, N + 1)
           p == Marker(N + 1 + 1)
           e == CatchAllLeaf(path, route)
<1>1. /\ t \in Seq(Node) /\ Hung(t) /\ at \in 1..N /\ n \in Node /\ n.children = <<>>
      /\ N \in Nat /\ Fresh(n) /\ n.handle = NoHandle
  BY Places DEF Ready, InShape, Fresh
<1>2. /\ m \in Node /\ m.children = <<N + 1>> /\ m.handle = n.handle
      /\ p \in Node /\ p.children = <<N + 1 + 1>> /\ p.handle = NoHandle
      /\ e \in Node /\ e.children = <<>> /\ e.handle = route
  <2>1. N + 1 \in Nat /\ N + 1 + 1 \in Nat
    BY <1>1
  <2>2. IsAboveCatchAll(m, N + 1, path[1])
    BY <1>1, <2>1, CatchAllNodesAre
  <2>3. IsMarker(p, N + 1 + 1) /\ IsCatchAllLeaf(e, route)
    BY <1>1, <2>1, CatchAllNodesAre
  <2> QED BY <1>1, <2>2, <2>3 DEF IsAboveCatchAll, IsMarker, IsCatchAllLeaf
<1>3. m.priority = n.priority
  BY <1>1 DEF AboveCatchAll, Node
<1>4. p.priority = 1 /\ e.priority = 1
  BY DEF Marker, CatchAllLeaf, EmptyNode
<1>5. CatchAllTree(t, at, path, route) = [t EXCEPT ![at] = m] \o <<p, e>>
  BY <1>1 DEF Marker, CatchAllLeaf, CatchAllTree
<1>6. e.handle # NoHandle
  BY <1>2 DEF NoHandle
<1> HIDE DEF m, p, e
<1> QED BY <1>1, <1>2, <1>3, <1>4, <1>5, <1>6, TwoGrafted

\* A registration counts its route where it is, and not at all if it is done.
CountedSoFar(s) ==
    /\ s.phase \in {"walk", "insert"} => Counted(s.tree, s.at)
    /\ s.phase = "done" => Counted(s.tree, 0)

LEMMA CountedTurns ==
    ASSUME NEW t
    PROVE  /\ CountedSoFar(Panic(t))
           /\ Counted(t, 0) => CountedSoFar(Done(t))
           /\ \A at, path, phase : phase \in {"walk", "insert"} /\ Counted(t, at) =>
                  CountedSoFar(Turn(t, at, path, phase))
BY DEF CountedSoFar, Panic, Done, Turn

\* A turn of insertChild (tree.go:217-319).
LEMMA InsertTurnCounts ==
    ASSUME NEW t, NEW at, NEW path, Toward(path), Slash \notin Wildcards,
           IF path[1] \in Wildcards THEN Ready(t, at, 0, Slash) ELSE Ready(t, at, at, path[1]),
           NEW route \in Seq(STRING), route # <<>>, Counted(t, at)
    PROVE  CountedSoFar(InsertTurn(t, at, path, route))
<1> DEFINE w == FirstWildcard(path)
           s == InsertTurn(t, at, path, route)
           N == Len(t)
<1>1. /\ path \in Seq(STRING) /\ path # <<>> /\ Len(path) \in Nat
      /\ 1 \in 1..Len(path) /\ at # 0
  BY DEF Toward, Ready
<1>2. /\ w \in 0..Len(path) /\ (w # 0 => path[w] \in Wildcards)
      /\ \A k \in 1..Len(path) : path[k] \in Wildcards => w # 0 /\ w <= k
  BY <1>1, FirstWildcardOf
<1>3. s = IF w = 0 THEN
            Done([t EXCEPT ![at].path = path, ![at].handle = route])
          ELSE IF \/ w < Len(path) /\ path[w + 1] \in Wildcards
                  \/ path[w] \in Unnamed
                  \/ t[at].children # <<>> THEN
            Panic(t)
          ELSE IF path[w] \in ParamTokens THEN
            InsertParam(t, at, path, w, route)
          ELSE InsertCatchAll(t, at, path, w, route)
  BY DEF InsertTurn, FirstWildcard
<1> HIDE DEF w, s
<1>4. w \in Nat /\ (w = 1 \/ path[1] \notin Wildcards)
  BY <1>1, <1>2
<1>5. CASE w = 0
  <2>1. Ready(t, at, at, path[1])
    BY <1>4, <1>5
  <2>2. Counted(LeafTree(t, at, path, route), 0)
    BY <2>1, LeafCounts
  <2>3. s = Done(LeafTree(t, at, path, route))
    BY <1>3, <1>5 DEF LeafTree
  <2> QED BY <2>2, <2>3, CountedTurns DEF s
<1>6. CASE /\ w # 0
           /\ \/ w < Len(path) /\ path[w + 1] \in Wildcards
              \/ path[w] \in Unnamed
              \/ t[at].children # <<>>
  <2>1. s = Panic(t)
    BY <1>3, <1>6
  <2> QED BY <2>1, CountedTurns DEF s
<1>7. CASE /\ w # 0
           /\ ~ \/ w < Len(path) /\ path[w + 1] \in Wildcards
                \/ path[w] \in Unnamed
                \/ t[at].children # <<>>
  <2>1. w \in 1..Len(path) /\ t[at].children = <<>> /\ path[w] \in Wildcards
    BY <1>2, <1>7
  <2>2. PICK fresh : \E c : AtWildcard(t, at, fresh, c, path, w)
    <3>1. CASE path[1] \in Wildcards
      <4>1. w = 1 /\ Ready(t, at, 0, Slash)
        BY <1>4, <3>1
      <4> QED BY <1>1, <2>1, <4>1 DEF AtWildcard
    <3>2. CASE path[1] \notin Wildcards
      <4>1. w # 1 /\ Ready(t, at, at, path[1])
        BY <2>1, <3>2
      <4>2. w > 1
        BY <2>1, <4>1
      <4> QED BY <2>1, <4>1, <4>2 DEF AtWildcard
    <3> QED BY <3>1, <3>2
  <2>3. PICK c : AtWildcard(t, at, fresh, c, path, w)
    BY <2>2
  <2>4. CASE path[w] \in ParamTokens /\ w < Len(path)
    <3>1. Counted(ParamTree(t, at, path, w), N + 1 + 1)
      BY <1>1, <2>1, <2>3, ParamCounts
    <3>2. s = Turn(ParamTree(t, at, path, w), N + 1 + 1, From(path, w + 1), "insert")
      BY <1>3, <1>7, <2>4 DEF InsertParam, ParamTree
    <3> QED BY <3>1, <3>2, CountedTurns DEF s
  <2>5. CASE path[w] \in ParamTokens /\ ~(w < Len(path))
    <3>1. Counted(LastParamTree(t, at, path, w, route), 0)
      BY <1>1, <2>1, <2>3, LastParamCounts
    <3>2. s = Done(LastParamTree(t, at, path, w, route))
      BY <1>3, <1>7, <2>5 DEF InsertParam, LastParamTree
    <3> QED BY <3>1, <3>2, CountedTurns DEF s
  <2>6. CASE path[w] \notin ParamTokens
    <3>1. s = InsertCatchAll(t, at, path, w, route)
      BY <1>3, <1>7, <2>6
    <3>2. CASE \/ w # Len(path)
               \/ t[at].path # <<>> /\ Last(t[at].path) = Slash
               \/ w = 1
               \/ path[w - 1] # Slash
      <4>1. s = Panic(t)
        BY <3>1, <3>2 DEF InsertCatchAll
      <4> QED BY <4>1, CountedTurns DEF s
    <3>3. CASE ~ \/ w # Len(path)
                 \/ t[at].path # <<>> /\ Last(t[at].path) = Slash
                 \/ w = 1
                 \/ path[w - 1] # Slash
      <4>1. w = Len(path) /\ Len(path) > 1 /\ path[Len(path) - 1] = Slash
        BY <2>1, <3>3
      <4>2. Ready(t, at, at, path[1])
        BY <1>4, <3>3
      <4>3. Counted(CatchAllTree(t, at, path, route), 0)
        BY <1>1, <4>1, <4>2, CatchAllCounts
      <4>4. s = Done(CatchAllTree(t, at, path, route))
        BY <3>1, <3>3, <4>1 DEF InsertCatchAll, CatchAllTree
      <4> QED BY <4>3, <4>4, CountedTurns DEF s
    <3> QED BY <3>2, <3>3
  <2> QED BY <2>4, <2>5, <2>6
<1> QED BY <1>5, <1>6, <1>7

\* The walk below the node whose path is passed (tree.go:147-205).
LEMMA DescendCounts ==
    ASSUME NEW t, NEW at, NEW path, Passed(t, at, path), Counted(t, at)
    PROVE  CountedSoFar(Descend(t, at, path))
<1> DEFINE n == t[at]
           first == n.children[1]
           pos == IndexOf(n, path[1])
           s == Descend(t, at, path)
<1>1. /\ InShape(t) /\ Ordered(t) /\ at \in 1..Len(t) /\ n \in Node /\ n.wildChild \in BOOLEAN
      /\ Fits(t, n)
  BY Places, FieldTypes DEF Passed, Ordered, InShape
<1>2. s = IF n.wildChild THEN
            IF Continues(t[first], path) THEN Turn(Bump(t, first), first, path, "walk")
            ELSE Panic(Bump(t, first))
          ELSE IF n.nType = "param" /\ path[1] = Slash /\ Len(n.children) = 1 THEN
            Turn(Bump(t, first), first, path, "walk")
          ELSE IF pos # 0 THEN
            Turn(IncrementChildPrio(t, at, pos), n.children[pos], path, "walk")
          ELSE IF path[1] \in Wildcards THEN
            Turn(t, at, path, "insert")
          ELSE
            Turn(GrowChild(t, at, path[1]), Len(t) + 1, path, "insert")
  BY DEF Descend
<1>3. Len(n.children) = 1 => Counted(Bump(t, first), first)
  BY <1>1, OnlyChildCounts
<1>4. n.wildChild => Len(n.children) = 1
  BY <1>1 DEF Fits
<1> SUFFICES CountedSoFar(s)
  OBVIOUS
<1> HIDE DEF s, first
<1>5. CASE n.wildChild /\ ~Continues(t[first], path)
  <2>1. s = Panic(Bump(t, first))
    BY <1>2, <1>5
  <2> QED BY <2>1, CountedTurns
<1>6. CASE \/ n.wildChild /\ Continues(t[first], path)
           \/ ~n.wildChild /\ n.nType = "param" /\ path[1] = Slash /\ Len(n.children) = 1
  <2>1. s = Turn(Bump(t, first), first, path, "walk") /\ Counted(Bump(t, first), first)
    BY <1>2, <1>3, <1>4, <1>6
  <2> QED BY <2>1, CountedTurns
<1>7. CASE /\ ~n.wildChild /\ ~(n.nType = "param" /\ path[1] = Slash /\ Len(n.children) = 1)
           /\ pos # 0
  <2>1. n.wildChild = FALSE
    BY <1>1, <1>7
  <2>2. Len(n.indices) = Len(n.children)
    BY <1>7, <2>1, BytesOfPassed
  <2>3. pos \in 1..Len(n.children)
    <3>1. pos \in 0..Len(n.indices) /\ Len(n.indices) \in Nat
      BY <1>1, IndexOfChild, FieldTypes
    <3> HIDE DEF pos
    <3> QED BY <1>7, <2>2, <3>1
  <2> HIDE DEF pos
  <2>4. Counted(IncrementChildPrio(t, at, pos), n.children[pos])
    BY <1>1, <2>2, <2>3, ChildPrioCounts
  <2>5. s = Turn(IncrementChildPrio(t, at, pos), n.children[pos], path, "walk")
    BY <1>2, <1>7
  <2> QED BY <2>4, <2>5, CountedTurns
<1>8. CASE /\ ~n.wildChild /\ ~(n.nType = "param" /\ path[1] = Slash /\ Len(n.children) = 1)
           /\ pos = 0 /\ path[1] \in Wildcards
  <2>1. s = Turn(t, at, path, "insert")
    BY <1>2, <1>8
  <2> QED BY <2>1, CountedTurns
<1>9. CASE /\ ~n.wildChild /\ ~(n.nType = "param" /\ path[1] = Slash /\ Len(n.children) = 1)
           /\ pos = 0 /\ path[1] \notin Wildcards
  <2> DEFINE c == path[1]
  <2>1. n.wildChild = FALSE
    BY <1>1, <1>9
  <2>2. \A k \in 1..Len(n.indices) : n.indices[k] # c
    BY <1>1, <1>9, IndexOfChild
  <2>3. n.path # <<>>
    BY <1>9, <2>1, PassedHasPath
  <2>4. n.nType = "param" => c = Slash /\ n.children = <<>>
    BY <1>9, <2>1, BytesOfPassed
  <2>5. c \in STRING
    <3>1. path \in Seq(STRING) /\ path # <<>>
      BY DEF Passed, Toward
    <3> QED BY <3>1
  <2> HIDE DEF c, pos
  <2>6. Counted(GrowChild(t, at, c), Len(t) + 1)
    BY <1>1, <2>1, <2>2, <2>3, <2>4, <2>5, GrowChildCounts
  <2>7. s = Turn(GrowChild(t, at, c), Len(t) + 1, path, "insert")
    BY <1>2, <1>9 DEF c
  <2> QED BY <2>6, <2>7, CountedTurns
<1> QED BY <1>5, <1>6, <1>7, <1>8, <1>9

\* A turn of the walk of addRoute (tree.go:118-213).
LEMMA WalkTurnCounts ==
    ASSUME NEW t, NEW at, NEW path, NEW route \in Seq(STRING), route # <<>>,
           Walking(Turn(t, at, path, "walk")), Counted(t, at)
    PROVE  CountedSoFar(WalkTurn(t, at, path, route))
<1> DEFINE i == Shared(t, at, path)
           u == Split(t, at, path)
           rest == From(path, i + 1)
<1>1. PathPassed(t, at, path, i, u)
  BY WalkPasses
<1>2. WalkTurn(t, at, path, route) = IF i = Len(path) THEN AddHandle(u, at, route)
                                     ELSE Descend(u, at, rest)
  BY DEF WalkTurn, Shared, Split
<1>3. u = IF i < Len(t[at].path) THEN SplitEdge(t, at, i) ELSE t
  BY DEF Split
<1> HIDE DEF i, u
<1>4. Ordered(u) /\ at \in 1..Len(u) /\ u \in Seq(Node) /\ Hung(u)
  BY <1>1 DEF PathPassed, Ordered, InShape
<1>5. Counted(u, at)
  <2>1. CASE i < Len(t[at].path)
    <3>1. i \in 1..Len(t[at].path) - 1 /\ Ordered(t) /\ at \in 1..Len(t)
      BY <1>1, <2>1 DEF PathPassed, Walking, Turn
    <3>2. Counted(SplitEdge(t, at, i), at)
      BY <3>1, SplitCounts
    <3> QED BY <1>3, <2>1, <3>2
  <2>2. CASE ~(i < Len(t[at].path))
    BY <1>3, <2>2
  <2> QED BY <2>1, <2>2
<1>6. CASE i = Len(path) /\ u[at].handle # NoHandle
  <2>1. WalkTurn(t, at, path, route) = Panic(u)
    BY <1>2, <1>6 DEF AddHandle
  <2> QED BY <2>1, CountedTurns
<1>7. CASE i = Len(path) /\ u[at].handle = NoHandle
  <2> DEFINE m == [u[at] EXCEPT !.handle = route]
             v == [u EXCEPT ![at].handle = route]
  <2>1. WalkTurn(t, at, path, route) = Done(v)
    BY <1>2, <1>7 DEF AddHandle
  <2>2. u[at] \in Node
    BY <1>4, Places
  <2>3. v = [u EXCEPT ![at] = m]
    BY <1>4
  <2>4. /\ m.children = u[at].children /\ m.priority = u[at].priority
        /\ m.handle # NoHandle
    BY <2>2 DEF Node, NoHandle
  <2> HIDE DEF m, v
  <2>5. Counted([u EXCEPT ![at] = m], 0)
    BY <1>4, <1>5, <1>7, <2>4, HandleCounts
  <2> QED BY <2>1, <2>3, <2>5, CountedTurns
<1>8. CASE i # Len(path)
  <2> HIDE DEF rest
  <2>1. WalkTurn(t, at, path, route) = Descend(u, at, rest)
    BY <1>2, <1>8
  <2>2. Passed(u, at, rest)
    BY <1>1, <1>8 DEF PathPassed, rest
  <2> QED BY <1>5, <2>1, <2>2, DescendCounts
<1> QED BY <1>6, <1>7, <1>8

\* Every turn counts.
LEMMA NextTurnCounts ==
    ASSUME NEW s, NEW H, NEW route \in Seq(STRING), route # <<>>, Good(s, H, route),
           CountedSoFar(s), Slash \notin Wildcards
    PROVE  CountedSoFar(NextTurn(s, route))
<1>1. CASE s.phase = "walk"
  <2>1. Walking(Turn(s.tree, s.at, s.path, "walk")) /\ Counted(s.tree, s.at)
    BY <1>1 DEF Good, Walking, Turn, CountedSoFar
  <2>2. NextTurn(s, route) = WalkTurn(s.tree, s.at, s.path, route)
    BY <1>1 DEF NextTurn
  <2> QED BY <2>1, <2>2, WalkTurnCounts
<1>2. CASE s.phase = "insert"
  <2>1. /\ Toward(s.path) /\ Counted(s.tree, s.at)
        /\ IF s.path[1] \in Wildcards THEN Ready(s.tree, s.at, 0, Slash)
           ELSE Ready(s.tree, s.at, s.at, s.path[1])
    BY <1>2 DEF Good, Inserting, CountedSoFar
  <2>2. NextTurn(s, route) = InsertTurn(s.tree, s.at, s.path, route)
    BY <1>2 DEF NextTurn
  <2> QED BY <2>1, <2>2, InsertTurnCounts
<1>3. CASE s.phase \notin {"walk", "insert"}
  BY <1>3 DEF NextTurn
<1> QED BY <1>1, <1>2, <1>3

\* A tree without routes counts none.
LEMMA EmptyTreeCounts == Counted(EmptyTree, 0)
<1>1. Len(EmptyTree) = 1 /\ EmptyTree[1] = EmptyNode
  BY DEF EmptyTree
<1>2. EmptyNode.children = <<>> /\ EmptyNode.priority = Own(EmptyNode) + 0
  BY EmptyNodeIs, OwnIs DEF NoHandle
<1>3. Weighs(EmptyTree, EmptyNode, 0)
  BY <1>2, LeafWeighs
<1>4. Owed(1, 0) = 0 /\ \A i \in 1..1 : i = 1
  BY DEF Owed
<1> QED BY <1>1, <1>3, <1>4 DEF Counted

(* A registration that is not refused counts its route in every node it    *)
(* passes and keeps the siblings in order (tree.go:85-105).                *)
LEMMA RouteCounts ==
    ASSUME NEW t, Ordered(t) \/ t = EmptyTree, NEW route, Toward(route), route[1] = Slash,
           Slash \notin Wildcards, Counted(t, 0), ~AddRoute(t, route).panic
    PROVE  Counted(AddRoute(t, route).tree, 0)
<1> DEFINE H == Handles(t)
           S == {s \in Turns : Good(s, H, route) /\ CountedSoFar(s)}
           end == Registration(t, route)
<1>1. route \in Seq(STRING) /\ route # <<>>
  BY DEF Toward
<1>2. \A s \in S : NextTurn(s, route) \in S
  <2> SUFFICES ASSUME NEW s, Good(s, H, route), CountedSoFar(s)
               PROVE  NextTurn(s, route) \in S
    OBVIOUS
  <2>1. Good(NextTurn(s, route), H, route) /\ CountedSoFar(NextTurn(s, route))
    BY <1>1, NextTurnGood, NextTurnCounts
  <2> QED BY <2>1 DEF Good
<1>3. Started(t, route) \in S
  <2>1. Good(Started(t, route), H, route)
    BY StartedGood
  <2>2. t \in Seq(Node) /\ Hung(t) /\ 1 \in 1..Len(t)
    <3>1. InShape(t)
      BY EmptyTreeInShape DEF Ordered
    <3> QED BY <3>1, Places DEF InShape
  <2>3. Counted(Bump(t, 1), 1)
    BY <2>2, RootCounts
  <2>4. CountedSoFar(Started(t, route))
    BY <2>3, CountedTurns DEF Started
  <2> QED BY <2>1, <2>4 DEF Good
<1>4. \A s \in S : Good(s, H, route)
  OBVIOUS
<1>5. end \in S
  <2> HIDE DEF S, H
  <2> QED BY <1>2, <1>3, <1>4, TurnsStayIn
<1>6. AddRoute(t, route) = [tree  |-> IF Unused(t) /\ end.phase = "done"
                                      THEN [end.tree EXCEPT ![1].nType = "root"] ELSE end.tree,
                            panic |-> end.phase # "done"]
  BY DEF AddRoute
<1>7. CountedSoFar(end) /\ Good(end, H, route)
  BY <1>5
<1> HIDE DEF end
<1>8. end.phase = "done"
  <2> SUFFICES ASSUME end.phase # "done" PROVE FALSE
    OBVIOUS
  <2> DEFINE z == IF Unused(t) /\ end.phase = "done"
                  THEN [end.tree EXCEPT ![1].nType = "root"] ELSE end.tree
  <2>1. AddRoute(t, route) = [tree |-> z, panic |-> TRUE]
    BY <1>6, Zenon
  <2> HIDE DEF z
  <2>2. AddRoute(t, route).panic = TRUE
    BY <2>1
  <2> QED BY <2>2
<1>9. Counted(end.tree, 0) /\ Ordered(end.tree)
  BY <1>7, <1>8 DEF CountedSoFar, Good
<1> DEFINE z == end.tree
           r == [z EXCEPT ![1].nType = "root"]
<1>10. AddRoute(t, route).tree \in {r, z}
  BY <1>6, <1>8
<1> HIDE DEF z
<1>11. z \in Seq(Node) /\ Hung(z) /\ 1 \in 1..Len(z) /\ \A i \in 1..Len(z) : z[i] \in Node
  BY <1>9, Places DEF Ordered, InShape, z
<1>12. Len(r) = Len(z) /\ \A i \in 1..Len(z) : /\ r[i].children = z[i].children
                                               /\ r[i].priority = z[i].priority
                                               /\ r[i].handle = z[i].handle
  BY <1>11 DEF Node
<1> HIDE DEF r
<1>13. Counted(r, 0)
  <2> SUFFICES ASSUME NEW i \in 1..Len(z) PROVE Weighs(r, r[i], Owed(i, 0))
    BY <1>12 DEF Counted
  <2>1. Weighs(z, z[i], Owed(i, 0))
    BY <1>9 DEF Counted, z
  <2>2. \A k \in 1..Len(z[i].children) : z[i].children[k] \in 1..Len(z)
    BY <1>11, WeightsBelow
  <2>3. \A k \in 1..Len(z[i].children) :
            r[z[i].children[k]].priority = z[z[i].children[k]].priority
    BY <1>12, <2>2
  <2> QED BY <1>12, <2>1, <2>3, StillWeighs
<1> QED BY <1>9, <1>10, <1>13 DEF z
\* What a recursion over the children adds up is the sum of their weights.
LEMMA AddedUp ==
    ASSUME NEW t, NEW cs, Len(cs) \in Nat, NEW x, Adds(Weights(t, cs), Len(cs), x)
    PROVE  LET sum[k \in 0..Len(cs)] == IF k = 0 THEN 0 ELSE sum[k - 1] + t[cs[k]].priority
           IN  sum[Len(cs)] = x
<1> DEFINE m == Len(cs)
<1>1. PICK f \in [0..m -> Nat] : /\ f[0] = 0 /\ f[m] = x
                                 /\ \A k \in 1..m : f[k] = f[k - 1] + t[cs[k]].priority
  BY DEF Adds, Weights
<1> DEFINE Body(g) == [k \in 0..m |-> IF k = 0 THEN 0 ELSE g[k - 1] + t[cs[k]].priority]
           sum == CHOOSE g : g = Body(g)
<1>2. f = Body(f)
  <2>1. \A k \in 0..m : f[k] = IF k = 0 THEN 0 ELSE f[k - 1] + t[cs[k]].priority
    BY <1>1
  <2> QED BY <2>1
<1>3. sum = Body(sum)
  <2> HIDE DEF Body
  <2> QED BY <1>2
<1>4. \A k \in 0..m : sum[k] = IF k = 0 THEN 0 ELSE sum[k - 1] + t[cs[k]].priority
  <2>1. \A k \in 0..m : sum[k] = Body(sum)[k]
    BY <1>3, Zenon
  <2>2. \A k \in 0..m : Body(sum)[k] = IF k = 0 THEN 0 ELSE sum[k - 1] + t[cs[k]].priority
    BY Zenon
  <2> HIDE DEF sum, Body
  <2> QED BY <2>1, <2>2, Zenon
<1> HIDE DEF sum, Body
<1> DEFINE S == {k \in Nat : k <= m => sum[k] = f[k]}
<1>5. 0 \in S
  BY <1>1, <1>4
<1>6. ASSUME NEW k \in Nat, k \in S PROVE k + 1 \in S
  <2> SUFFICES ASSUME k + 1 <= m PROVE sum[k + 1] = f[k + 1]
    OBVIOUS
  <2>1. k + 1 \in 1..m /\ k + 1 \in 0..m /\ (k + 1) - 1 = k /\ k + 1 # 0 /\ sum[k] = f[k]
    BY <1>6
  <2> QED BY <1>1, <1>4, <2>1
<1>7. Nat \subseteq S
  <2> HIDE DEF S
  <2> QED BY <1>5, <1>6, NatSetInduction
<1>8. sum[m] = x
  BY <1>1, <1>7
<1> QED BY <1>8 DEF sum, Body

\* A node that weighs what it should has the priority the property asks for.
LEMMA WeighsIsCounted ==
    ASSUME NEW t \in Seq(Node), Hung(t), NEW i \in 1..Len(t), Weighs(t, t[i], 0)
    PROVE  LET n == t[i]
               sum[k \in 0..Len(n.children)] ==
                   IF k = 0 THEN 0 ELSE sum[k - 1] + t[n.children[k]].priority
           IN  /\ n.priority = sum[Len(n.children)] + (IF n.handle = NoHandle THEN 0 ELSE 1)
               /\ IsSorted(n.children, LAMBDA a, b : t[a].priority >= t[b].priority)
<1> DEFINE cs == t[i].children
           m == Len(cs)
           Body(g) == [k \in 0..m |-> IF k = 0 THEN 0 ELSE g[k - 1] + t[cs[k]].priority]
           sum == CHOOSE g : g = Body(g)
<1>1. cs \in Seq(Nat) /\ m \in Nat /\ DOMAIN cs = 1..m
  BY WeightsBelow
<1>2. PICK x \in Nat : /\ Adds(Weights(t, cs), m, x)
                       /\ t[i].priority = x + Own(t[i]) + 0
  BY DEF Weighs
<1>3. sum[m] = x
  <2> HIDE DEF cs
  <2>1. LET total[k \in 0..Len(cs)] == IF k = 0 THEN 0 ELSE total[k - 1] + t[cs[k]].priority
        IN  total[Len(cs)] = x
    BY <1>1, <1>2, AddedUp
  <2> QED BY <2>1, Zenon
<1>4. t[i].priority = sum[m] + (IF t[i].handle = NoHandle THEN 0 ELSE 1)
  <2> HIDE DEF sum
  <2> QED BY <1>2, <1>3 DEF Own
<1>5. IsSorted(cs, LAMBDA a, b : t[a].priority >= t[b].priority)
  <2> SUFFICES ASSUME NEW k \in 1..m, NEW l \in 1..m, k < l
               PROVE  t[cs[k]].priority >= t[cs[l]].priority
    BY <1>1 DEF IsSorted
  <2>1. Falls(Weights(t, cs), m)
    BY DEF Weighs
  <2> QED BY <2>1 DEF Falls, Weights
<1> QED BY <1>4, <1>5

-----------------------------------------------------------------------------
(* The routes of a tree *)

TreeInv ==
    /\ InShape(tree) /\ Held(TreeRoutes) /\ refused \in BOOLEAN
    /\ Tells(tree, TreeRoutes)
    /\ ~refused => tree = EmptyTree \/ (Ordered(tree) /\ SpelledOut(tree, TreeRoutes))

\* The routes that may be registered are rooted.
LEMMA CandidatesRooted ==
    ASSUME NEW route \in Candidates
    PROVE  Toward(route) /\ route[1] = Slash /\ route \in Seq(STRING) /\ route # <<>> /\ Distinct
BY RoutesRooted, TokensDisjoint DEF Toward, Distinct

LEMMA TreeInvInit == TreeInit => TreeInv
<1>1. Distinct
  BY TokensDisjoint DEF Distinct
<1> QED BY <1>1, EmptyTreeInShape, EmptyTells DEF TreeInit, TreeInv, TreeRoutes, Held

\* A registration accepts what is welcome, and what it accepts is registered.
LEMMA RegisterAnswers ==
    ASSUME TreeInv, NEW route \in Candidates, Register(route)
    PROVE  /\ refused' = ~Welcome(route, TreeRoutes)
           /\ TreeRoutes' = TreeRoutes \cup (IF refused' THEN {} ELSE {route})
           /\ refused = FALSE /\ TreeInv'
<1> DEFINE result == AddRoute(tree, route)
<1>1. /\ refused = FALSE /\ tree' = result.tree /\ refused' = result.panic
      /\ InShape(tree) /\ Held(TreeRoutes)
      /\ tree = EmptyTree \/ (Ordered(tree) /\ SpelledOut(tree, TreeRoutes))
  BY DEF Register, TreeInv
<1>2. Toward(route) /\ route[1] = Slash /\ route \in Seq(STRING) /\ route # <<>> /\ Distinct
  BY CandidatesRooted
<1>3. Slash \notin Wildcards
  BY <1>2 DEF Distinct
<1>4. result.panic \in BOOLEAN /\ Registers(result, tree, route)
  BY <1>1, <1>2, <1>3, RouteAdded
<1>5. /\ result.panic = ~Welcome(route, TreeRoutes)
      /\ ~result.panic => SpelledOut(result.tree, TreeRoutes \cup {route})
      /\ result.panic => Tells(result.tree, TreeRoutes)
  BY <1>1, <1>2, RouteTold DEF TreeRoutes
<1> HIDE DEF result
<1>6. /\ Handles(tree') = Handles(tree) \cup (IF refused' THEN {} ELSE {route})
      /\ InShape(tree') /\ (~refused' => Ordered(tree'))
  BY <1>1, <1>4 DEF Registers, Gains, Ordered
<1>7. TreeRoutes' = TreeRoutes \cup (IF refused' THEN {} ELSE {route})
  BY <1>6 DEF TreeRoutes
<1>8. ~refused' => SpelledOut(tree', TreeRoutes')
  BY <1>1, <1>5, <1>7
<1>9. Held(TreeRoutes')
  <2>1. ~refused' => Valid(route)
    BY <1>1, <1>5 DEF Welcome
  <2>2. \A r \in TreeRoutes' : r \in TreeRoutes \/ (r = route /\ ~refused')
    BY <1>7
  <2> QED BY <1>1, <1>2, <2>1, <2>2 DEF Held
<1>10. Tells(tree', TreeRoutes')
  <2>1. CASE refused'
    <3>1. TreeRoutes' = TreeRoutes
      BY <1>7, <2>1
    <3> QED BY <1>1, <1>5, <2>1, <3>1
  <2>2. CASE ~refused'
    BY <1>2, <1>6, <1>8, <2>2, OrderedTells
  <2> QED BY <2>1, <2>2
<1>11. TreeInv'
  BY <1>1, <1>4, <1>6, <1>8, <1>9, <1>10 DEF TreeInv
<1> QED BY <1>1, <1>5, <1>7, <1>11

LEMMA TreeInvStep == TreeInv /\ [TreeNext]_treeVars => TreeInv'
<1> SUFFICES ASSUME TreeInv, [TreeNext]_treeVars PROVE TreeInv'
  OBVIOUS
<1>1. CASE TreeNext
  BY <1>1, RegisterAnswers DEF TreeNext
<1>2. CASE UNCHANGED treeVars
  BY <1>2 DEF treeVars, TreeInv, TreeRoutes
<1> QED BY <1>1, <1>2

(* Between registrations a tree spells the routes it holds, all of which it *)
(* can hold; one that was refused may leave it half-way, but so that it     *)
(* still tells of the routes before (tree.go:107-319).                      *)
THEOREM TreeInvariant == TreeSpec => []TreeInv
BY TreeInvInit, TreeInvStep, PTL DEF TreeSpec

(* The heap stays well formed: every node hangs below one parent, index     *)
(* bytes and children stay aligned, and a byte leads to one child           *)
(* (tree.go:85-105, 128-145, 217-319).                                      *)
THEOREM TreeTypesKept == TreeSpec => []TreeTypeOK
<1>1. TreeInv => TreeTypeOK
  <2> SUFFICES ASSUME TreeInv PROVE TreeTypeOK
    OBVIOUS
  <2>1. Hung(tree) /\ Aligned(tree) /\ (Ordered(tree) => LeadsOn(tree))
    BY InShapeInOrder DEF TreeInv
  <2>2. LeadsOn(EmptyTree)
    BY EmptyNodeIs DEF LeadsOn, EmptyTree
  <2>3. tree \in Seq(Node)
    BY DEF TreeInv, InShape
  <2> QED BY <2>1, <2>2, <2>3 DEF TreeInv, TreeTypeOK
<1> QED BY <1>1, TreeInvariant, PTL

(* The order in which siblings are tried stays the order of their weights: *)
(* unless a registration was refused half-way, the priority of a node      *)
(* counts the handles at and below it, through every split, move and       *)
(* insertion, and siblings are sorted by it (tree.go:85-105, 107-319).     *)
THEOREM PrioritiesCount == TreeSpec => []PriorityCountsHandles
<1> DEFINE Counts == ~refused => Counted(tree, 0)
<1>1. TreeInit => Counts
  BY EmptyTreeCounts DEF TreeInit
<1>2. ASSUME TreeInv, Counts, [TreeNext]_treeVars PROVE Counts'
  <2>1. CASE UNCHANGED treeVars
    BY <1>2, <2>1 DEF treeVars
  <2>2. ASSUME NEW route \in Candidates, Register(route) PROVE Counts'
    <3> SUFFICES ASSUME ~refused' PROVE Counted(tree', 0)
      OBVIOUS
    <3>1. /\ ~refused /\ tree' = AddRoute(tree, route).tree
          /\ refused' = AddRoute(tree, route).panic
      BY <2>2 DEF Register
    <3>2. Ordered(tree) \/ tree = EmptyTree
      BY <1>2, <3>1 DEF TreeInv
    <3>3. Toward(route) /\ route[1] = Slash /\ Slash \notin Wildcards
      BY CandidatesRooted DEF Distinct
    <3>4. Counted(tree, 0) /\ ~AddRoute(tree, route).panic
      BY <1>2, <3>1
    <3>5. Counted(AddRoute(tree, route).tree, 0)
      BY <3>2, <3>3, <3>4, RouteCounts
    <3> QED BY <3>1, <3>5
  <2> QED BY <1>2, <2>1, <2>2 DEF TreeNext
<1>3. TreeInv /\ Counts => PriorityCountsHandles
  <2> SUFFICES ASSUME TreeInv, Counted(tree, 0), NEW i \in DOMAIN tree
               PROVE  LET n == tree[i]
                          sum[k \in 0..Len(n.children)] ==
                              IF k = 0 THEN 0 ELSE sum[k - 1] + tree[n.children[k]].priority
                      IN  /\ n.priority = sum[Len(n.children)] + (IF n.handle = NoHandle THEN 0 ELSE 1)
                          /\ IsSorted(n.children, LAMBDA a, b : tree[a].priority >= tree[b].priority)
    BY Zenon DEF PriorityCountsHandles
  <2>1. tree \in Seq(Node) /\ Hung(tree) /\ i \in 1..Len(tree) /\ i # 0
    BY Places DEF TreeInv, InShape
  <2>2. Weighs(tree, tree[i], 0)
    BY <2>1 DEF Counted, Owed
  <2> QED BY <2>1, <2>2, WeighsIsCounted, Zenon
<1> QED BY <1>1, <1>2, <1>3, TreeInvariant, PTL DEF TreeSpec

\* What the table accepts is what the tree does.
LEMMA TableAccepts ==
    ASSUME NEW route
    PROVE  Table!Acceptable(route) <=> Welcome(route, TreeRoutes)
<1>1. Table!Slash = Slash /\ Table!Wildcards = Wildcards /\ Table!Unnamed = Unnamed
  BY DEF Table!Slash, Slash, Table!Wildcards, Wildcards, Table!Unnamed, Unnamed
<1>2. Table!Valid(route) <=> Valid(route)
  BY <1>1 DEF Table!Valid, Valid
<1>3. ASSUME NEW r PROVE Table!Conflict(route, r) <=> Conflict(route, r)
  <2>1. Table!LongestCommonPrefix({route, r}) = LongestCommonPrefix({route, r})
    BY DEF Table!LongestCommonPrefix, LongestCommonPrefix, Table!CommonPrefixes, CommonPrefixes,
           Table!Prefixes, Prefixes, Table!IsPrefix, IsPrefix
  <2> QED BY <1>1, <2>1 DEF Table!Conflict, Conflict
<1> QED BY <1>2, <1>3 DEF Table!Acceptable, Welcome

\* Two routes are in conflict with each other or not at all.
LEMMA ConflictIsMutual ==
    ASSUME NEW r, NEW s PROVE Conflict(r, s) <=> Conflict(s, r)
<1>1. {r, s} = {s, r}
  OBVIOUS
<1> DEFINE l == Len(LongestCommonPrefix({r, s}))
<1>2. Conflict(r, s) <=>
          LET wild(p) == l < Len(p) /\ p[l + 1] \in Wildcards
              rest(p) == l < Len(p)
          IN  \/ r = s
              \/ rest(r) /\ rest(s) /\ (wild(r) \/ wild(s))
              \/ \E p \in {r, s} : rest(p) /\ p[l + 1] \in CatchAlls
  BY DEF Conflict
<1>3. Conflict(s, r) <=>
          LET wild(p) == l < Len(p) /\ p[l + 1] \in Wildcards
              rest(p) == l < Len(p)
          IN  \/ s = r
              \/ rest(s) /\ rest(r) /\ (wild(s) \/ wild(r))
              \/ \E p \in {s, r} : rest(p) /\ p[l + 1] \in CatchAlls
  BY <1>1 DEF Conflict
<1> HIDE DEF l
<1> QED BY <1>2, <1>3

Apart == \A r, s \in TreeRoutes : r # s => ~Conflict(r, s)

(* The routes of a tree never conflict, so that at most one of them can be  *)
(* meant by a request; and the router can hold each (tree.go:147-166,       *)
(* 217-319).                                                                *)
THEOREM RegisteredRoutesStayApart ==
    TreeSpec => [](Apart /\ \A r \in TreeRoutes : Valid(r))
<1>1. TreeInit => Apart
  BY EmptyTreeInShape DEF TreeInit, TreeRoutes, Apart
<1>2. ASSUME TreeInv, Apart, [TreeNext]_treeVars PROVE Apart'
  <2>1. CASE UNCHANGED treeVars
    BY <1>2, <2>1 DEF treeVars, Apart, TreeRoutes
  <2>2. ASSUME NEW route \in Candidates, Register(route) PROVE Apart'
    <3>1. /\ refused' = ~Welcome(route, TreeRoutes)
          /\ TreeRoutes' = TreeRoutes \cup (IF refused' THEN {} ELSE {route})
      BY <1>2, <2>2, RegisterAnswers
    <3>2. ~refused' => \A r \in TreeRoutes : ~Conflict(route, r) /\ ~Conflict(r, route)
      BY <3>1, ConflictIsMutual DEF Welcome
    <3>3. \A r \in TreeRoutes' : r \in TreeRoutes \/ (r = route /\ ~refused')
      BY <3>1
    <3> SUFFICES ASSUME NEW r \in TreeRoutes', NEW s \in TreeRoutes', r # s
                 PROVE  ~Conflict(r, s)
      BY DEF Apart
    <3> QED BY <1>2, <3>2, <3>3 DEF Apart
  <2> QED BY <1>2, <2>1, <2>2 DEF TreeNext
<1>3. TreeInv => \A r \in TreeRoutes : Valid(r)
  BY DEF TreeInv, Held
<1> QED BY <1>1, <1>2, <1>3, TreeInvariant, PTL DEF TreeSpec

(* Every registration is one of the table's: it accepts the route exactly   *)
(* when it is valid and in conflict with none before, and adds it and no    *)
(* other; or it refuses it, and what was registered before still is         *)
(* (tree.go:107-319).                                                       *)
THEOREM TreeImplementsTable == TreeSpec => ImplementsRouteTable
<1>1. TreeInit => Table!Init
  BY EmptyTreeInShape DEF TreeInit, Table!Init, TreeRoutes
<1>2. ASSUME TreeInv, [TreeNext]_treeVars PROVE [Table!Next]_(Table!vars)
  <2>1. CASE UNCHANGED treeVars
    BY <2>1 DEF treeVars, Table!vars, TreeRoutes
  <2>2. ASSUME NEW route \in Candidates, Register(route) PROVE Table!Next
    <3>1. /\ refused' = ~Welcome(route, TreeRoutes)
          /\ TreeRoutes' = TreeRoutes \cup (IF refused' THEN {} ELSE {route})
          /\ refused = FALSE
      BY <1>2, <2>2, RegisterAnswers
    <3>2. CASE Welcome(route, TreeRoutes)
      <4>1. Table!Accept(route)
        BY <3>1, <3>2, TableAccepts DEF Table!Accept
      <4> QED BY <4>1 DEF Table!Next
    <3>3. CASE ~Welcome(route, TreeRoutes)
      <4>1. Table!Refuse(route)
        BY <3>1, <3>3, TableAccepts DEF Table!Refuse
      <4> QED BY <4>1 DEF Table!Next
    <3> QED BY <3>2, <3>3
  <2> QED BY <1>2, <2>1, <2>2 DEF TreeNext
<1>3. TreeSpec => Table!Spec
  BY <1>1, <1>2, TreeInvariant, PTL DEF TreeSpec, Table!Spec
<1> QED BY <1>3 DEF ImplementsRouteTable

(* In every state, after a panic too, a lookup answers for every request    *)
(* the one registered route that matches, with the values of its wildcards  *)
(* in order, and no handle when none does (tree.go:326-463).                *)
THEOREM LookupServes == TreeSpec => []LookupServesTheMatch
<1>1. TreeInv => LookupServesTheMatch
  <2> SUFFICES ASSUME TreeInv, NEW p \in Requests
               PROVE  LET a == GetValue(tree, p)
                      IN  {m \in TreeRoutes \X {a.ps} : m[1] = a.handle} =
                          UNION {{<<r, ps>> : ps \in Match(r, p)} : r \in TreeRoutes}
    BY DEF LookupServesTheMatch
  <2> DEFINE a == GetValue(tree, p)
  <2>1. \A r \in TreeRoutes : Match(r, p) = IF r = a.handle THEN {a.ps} ELSE {}
    <3>1. p \in Seq(STRING)
      BY RequestsRooted
    <3> QED BY <3>1, LookupFinds DEF TreeInv
  <2> HIDE DEF a
  <2>2. \A x : x \in {m \in TreeRoutes \X {a.ps} : m[1] = a.handle} <=>
                a.handle \in TreeRoutes /\ x = <<a.handle, a.ps>>
    OBVIOUS
  <2>3. \A x : x \in UNION {{<<r, ps>> : ps \in Match(r, p)} : r \in TreeRoutes} <=>
                \E r \in TreeRoutes : \E ps \in Match(r, p) : x = <<r, ps>>
    OBVIOUS
  <2>4. \A x : (\E r \in TreeRoutes : \E ps \in Match(r, p) : x = <<r, ps>>) <=>
                a.handle \in TreeRoutes /\ x = <<a.handle, a.ps>>
    BY <2>1
  <2>5. {m \in TreeRoutes \X {a.ps} : m[1] = a.handle} =
        UNION {{<<r, ps>> : ps \in Match(r, p)} : r \in TreeRoutes}
    BY <2>2, <2>3, <2>4
  <2> QED BY <2>5 DEF a
<1> QED BY <1>1, TreeInvariant, PTL

\* A request is rooted and its bytes have a case, and bytes fold as letters do.
LEMMA RequestsSpell ==
    ASSUME NEW p \in Requests
    PROVE  /\ p \in Seq(STRING) /\ p # <<>> /\ p[1] = Slash /\ Spellable(p)
           /\ Slash \in STRING /\ Folding /\ Distinct
<1>1. p \in Seq(STRING) /\ Len(p) > 0 /\ p[1] = Slash
  BY RequestsRooted
<1>2. Len(p) \in Nat /\ 1 \in 1..Len(p) /\ p # <<>>
  BY <1>1
<1>3. Slash \in STRING
  <2>1. p[1] \in STRING
    BY <1>1, <1>2
  <2> QED BY <1>1, <2>1
<1>4. Spellable(p)
  <2>1. \A k \in 1..Len(p) : p[k] \in ToSet(p)
    BY <1>1 DEF ToSet
  <2> QED BY <2>1, LettersFold DEF Spellable
<1>5. Folding
  <2>1. Slash \in DOMAIN Lower
    BY <1>1, <1>2, <1>4 DEF Spellable
  <2> QED BY <2>1, LettersFold DEF Folding
<1>6. Distinct
  BY TokensDisjoint DEF Distinct
<1> QED BY <1>1, <1>2, <1>3, <1>4, <1>5, <1>6

(* Between registrations the case-insensitive search without slash fixing   *)
(* finds, whatever spellings it tries, only a path that is served, and that *)
(* equals the request up to case (tree.go:466-668).                         *)
THEOREM CaseSearchFinds == TreeSpec => []CaseSearchFindsAHandle
<1>1. TreeInv => CaseSearchFindsAHandle
  <2> SUFFICES ASSUME TreeInv, ~refused, NEW p \in Requests,
                      NEW q \in FindCaseInsensitivePath(tree, p, FALSE)
               PROVE  Served(q) /\ Fold(p) = Fold(q)
    BY DEF CaseSearchFindsAHandle
  <2>1. /\ p \in Seq(STRING) /\ p # <<>> /\ p[1] = Slash /\ Spellable(p)
        /\ Slash \in STRING /\ Folding /\ Distinct
    BY RequestsSpell
  <2>2. tree # EmptyTree
    BY <2>1, NothingToFind
  <2>3. Ordered(tree) /\ SpelledOut(tree, TreeRoutes) /\ Held(TreeRoutes) /\ Tells(tree, TreeRoutes)
    BY <2>2 DEF TreeInv
  <2>4. q \in Seq(STRING) /\ Near(FALSE, p, q) /\ \E r \in TreeRoutes : Match(r, q) # {}
    BY <2>1, <2>3, SearchRespells
  <2>5. Fold(p) = Fold(q)
    BY <2>1, <2>4, AlikeFolds DEF Near
  <2>6. PICK r \in TreeRoutes : Match(r, q) # {}
    BY <2>4
  <2>7. r = GetValue(tree, q).handle
    BY <2>3, <2>4, <2>6, LookupFinds
  <2>8. r # NoHandle
    BY DEF TreeRoutes, Handles
  <2> QED BY <2>5, <2>7, <2>8 DEF Served
<1> QED BY <1>1, TreeInvariant, PTL

-----------------------------------------------------------------------------
(* The trees of a router *)

\* The number of wildcards is a natural number.
LEMMA CountParamsType ==
    ASSUME NEW route \in Seq(STRING) PROVE CountParams(route) \in Nat
<1> DEFINE I == {i \in DOMAIN route : route[i] \in Wildcards}
<1>1. Len(route) \in Nat /\ DOMAIN route = 1..Len(route)
  OBVIOUS
<1>2. IsFiniteSet(1..Len(route))
  BY <1>1, FS_Interval
<1>3. IsFiniteSet(I)
  BY <1>1, <1>2, FS_Subset
<1>4. Cardinality(I) \in Nat
  <2> HIDE DEF I
  <2> QED BY <1>3, FS_CardinalityType
<1> QED BY <1>4 DEF CountParams

\* What is known of a pair that may be registered.
LEMMA Registrables ==
    ASSUME NEW mr \in Registrable
    PROVE  /\ mr = <<mr[1], mr[2]>> /\ mr[1] \in Methods /\ Toward(mr[2])
           /\ mr[2][1] = Slash /\ mr[2] \in Seq(STRING) /\ mr[2] # <<>>
BY RegistrableRooted DEF Toward

ClientStates == {"idle", "handled", "redirected", "options", "notAllowed", "notFound"}

\* Every tree is in shape and tells of its routes to a lookup, and it is in
\* order and spells them unless a registration stopped half-way.
TreesSound == \A m \in DOMAIN trees :
    /\ InShape(trees[m]) /\ Held(Handles(trees[m])) /\ Tells(trees[m], Handles(trees[m]))
    /\ ~panicked => Ordered(trees[m]) /\ SpelledOut(trees[m], Handles(trees[m]))

\* The routes a method's tree holds.
RoutesOf(m) == IF m \in DOMAIN trees THEN Handles(trees[m]) ELSE {}

\* A tree holds routes of its method only, and one at least.
HandlesFit == \A m \in DOMAIN trees :
    /\ \A h \in Handles(trees[m]) : <<m, h>> \in Registrable
    /\ ~panicked => Handles(trees[m]) # {}

AllowedFits == ~panicked => globalAllowed = AllowedAnywhere(DOMAIN trees)

\* The paths a redirect may lead to.
Repairs(path, location) ==
    /\ location \in Spellings
    /\ \E q \in {Cleaned(path), ToggleSlash(Cleaned(path))} : Alike(q, location)

\* What is known of a request and of the answer to it.
Asked(c) == /\ c.method \in Methods /\ c.path \in Spellings
            /\ c.state = "redirected" => Repairs(c.path, c.location)

\* Only a router that serves has answered, and its answers fit.
ClientFits == /\ client.state # "idle" => serving /\ Asked(client)
              /\ AnswerFitsTheRoutes

RouterInv == /\ Typed /\ TreesSound /\ HandlesFit /\ AllowedFits /\ ParamsHaveRoom
             /\ ClientFits

\* What a registration does to the trees.
TreesAfter(method, route) ==
    /\ DOMAIN trees' = DOMAIN trees \cup {method}
    /\ \A m \in DOMAIN trees : m # method => trees'[m] = trees[m]
    /\ InShape(trees'[method]) /\ Held(Handles(trees'[method]))
    /\ Tells(trees'[method], Handles(trees'[method]))
    /\ ~panicked' => Ordered(trees'[method]) /\ SpelledOut(trees'[method], Handles(trees'[method]))
    /\ Handles(trees'[method]) = RoutesOf(method) \cup (IF panicked' THEN {} ELSE {route})
    /\ panicked' \in BOOLEAN /\ ~panicked /\ ~serving
    /\ panicked' = ~Welcome(route, RoutesOf(method))

\* A registration changes the tree of its method as AddRoute says.
LEMMA HandledTrees ==
    ASSUME RouterInv, NEW mr \in Registrable, Handle(mr[1], mr[2])
    PROVE  TreesAfter(mr[1], mr[2])
<1> DEFINE method == mr[1]
           route == mr[2]
           known == DOMAIN trees \cup {method}
           root == IF method \in DOMAIN trees THEN trees[method] ELSE EmptyTree
           result == AddRoute(root, route)
<1>1. /\ ~serving /\ ~panicked /\ panicked' = result.panic
      /\ trees' = [m \in known |-> IF m = method THEN result.tree ELSE trees[m]]
  BY DEF Handle
<1>2. /\ root = EmptyTree \/ (Ordered(root) /\ SpelledOut(root, Handles(root)))
      /\ Held(Handles(root))
  <2>1. Held({})
    BY DEF Held
  <2> QED BY <1>1, <2>1, EmptyTreeInShape DEF RouterInv, TreesSound
<1>3. Handles(root) = RoutesOf(method)
  BY EmptyTreeInShape DEF RoutesOf
<1>4. /\ Toward(route) /\ route[1] = Slash /\ Slash \notin Wildcards /\ Distinct
      /\ route \in Seq(STRING) /\ route # <<>>
  BY Registrables, TokensDisjoint DEF Distinct
<1> HIDE DEF root
<1>5. result.panic \in BOOLEAN /\ Registers(result, root, route)
  <2> HIDE DEF route
  <2> QED BY <1>2, <1>4, RouteAdded
<1>6. /\ result.panic = ~Welcome(route, Handles(root))
      /\ ~result.panic => SpelledOut(result.tree, Handles(root) \cup {route})
      /\ result.panic => Tells(result.tree, Handles(root))
  <2> HIDE DEF route
  <2> QED BY <1>2, <1>4, RouteTold
<1> HIDE DEF result
<1>7. /\ InShape(result.tree) /\ (~result.panic => Ordered(result.tree))
      /\ Handles(result.tree) = Handles(root) \cup (IF result.panic THEN {} ELSE {route})
  <2>1. CASE result.panic
    BY <1>5, <2>1 DEF Registers
  <2>2. CASE ~result.panic
    BY <1>5, <2>2 DEF Registers, Gains, Ordered
  <2> QED BY <2>1, <2>2
<1>8. Held(Handles(result.tree))
  <2>1. ~result.panic => Valid(route)
    BY <1>6 DEF Welcome
  <2>2. \A r \in Handles(result.tree) : r \in Handles(root) \/ (r = route /\ ~result.panic)
    BY <1>7
  <2> HIDE DEF route
  <2> QED BY <1>2, <1>4, <2>1, <2>2 DEF Held
<1>9. ~result.panic => SpelledOut(result.tree, Handles(result.tree))
  BY <1>6, <1>7
<1>10. Tells(result.tree, Handles(result.tree))
  <2>1. CASE result.panic
    <3>1. Handles(result.tree) = Handles(root)
      BY <1>7, <2>1
    <3> QED BY <1>6, <2>1, <3>1
  <2>2. CASE ~result.panic
    <3> QED BY <1>4, <1>7, <1>9, <2>2, OrderedTells
  <2> QED BY <1>5, <2>1, <2>2
<1>11. /\ DOMAIN trees' = known /\ trees'[method] = result.tree
       /\ \A m \in DOMAIN trees : m # method => trees'[m] = trees[m]
  <2> HIDE DEF method
  <2> QED BY <1>1
<1> QED BY <1>1, <1>3, <1>5, <1>6, <1>7, <1>8, <1>9, <1>10, <1>11 DEF TreesAfter

\* The routes that are registered, method by method.
LEMMA RegisteredIs ==
    ASSUME HandlesFit, NEW m, NEW r
    PROVE  <<m, r>> \in Registered <=> m \in DOMAIN trees /\ r \in Handles(trees[m])
<1>1. <<m, r>>[1] = m /\ <<m, r>>[2] = r
  OBVIOUS
<1> QED BY <1>1 DEF Registered, HandlesFit

\* What is registered after a registration.
LEMMA HandledRoutes ==
    ASSUME RouterInv, NEW mr \in Registrable, Handle(mr[1], mr[2])
    PROVE  /\ HandlesFit'
           /\ Registered' = IF panicked' THEN Registered ELSE Registered \cup {mr}
<1> DEFINE method == mr[1]
           route == mr[2]
<1>1. /\ DOMAIN trees' = DOMAIN trees \cup {method}
      /\ \A m \in DOMAIN trees : m # method => trees'[m] = trees[m]
      /\ Handles(trees'[method]) =
            (IF method \in DOMAIN trees THEN Handles(trees[method]) ELSE {})
            \cup (IF panicked' THEN {} ELSE {route})
      /\ panicked' \in BOOLEAN /\ ~panicked
  BY HandledTrees DEF TreesAfter, RoutesOf
<1>2. mr = <<method, route>> /\ HandlesFit
  BY Registrables DEF RouterInv
<1> HIDE DEF method, route
<1>3. ASSUME NEW m \in DOMAIN trees'
      PROVE  /\ \A h \in Handles(trees'[m]) : <<m, h>> \in Registrable
             /\ ~panicked' => Handles(trees'[m]) # {}
  <2>1. CASE m # method
    <3>1. m \in DOMAIN trees /\ trees'[m] = trees[m]
      BY <1>1, <1>3, <2>1
    <3> QED BY <1>1, <1>2, <3>1 DEF HandlesFit
  <2>2. CASE m = method
    <3>1. \A h \in Handles(trees'[m]) :
              h = route \/ (m \in DOMAIN trees /\ h \in Handles(trees[m]))
      BY <1>1, <2>2
    <3>2. ~panicked' => route \in Handles(trees'[m])
      BY <1>1, <2>2
    <3> QED BY <1>2, <2>2, <3>1, <3>2 DEF HandlesFit
  <2> QED BY <2>1, <2>2
<1>4. HandlesFit'
  BY <1>3 DEF HandlesFit
<1>5. ASSUME NEW x \in Registrable
      PROVE  x \in Registered' <=> x \in (IF panicked' THEN Registered ELSE Registered \cup {mr})
  <2> DEFINE m == x[1]
             r == x[2]
  <2>1. /\ x = <<m, r>>
        /\ x \in Registered' <=> m \in DOMAIN trees' /\ r \in Handles(trees'[m])
        /\ x \in Registered <=> m \in DOMAIN trees /\ r \in Handles(trees[m])
    BY Registrables DEF Registered
  <2> HIDE DEF m, r
  <2>2. x = mr <=> m = method /\ r = route
    BY <1>2, <2>1
  <2>3. CASE m # method
    BY <1>1, <2>1, <2>2, <2>3
  <2>4. CASE m = method
    BY <1>1, <2>1, <2>2, <2>4
  <2> QED BY <2>3, <2>4
<1>6. Registered' = IF panicked' THEN Registered ELSE Registered \cup {mr}
  <2>1. Registered' \subseteq Registrable /\ Registered \subseteq Registrable
    BY DEF Registered
  <2>2. CASE panicked'
    BY <1>5, <2>1, <2>2
  <2>3. CASE ~panicked'
    BY <1>5, <2>1, <2>3
  <2> QED BY <2>2, <2>3
<1> QED BY <1>4, <1>6

\* A registration is refused when its route is not acceptable, and only then.
LEMMA HandledAnswers ==
    ASSUME RouterInv, NEW mr \in Registrable, Handle(mr[1], mr[2])
    PROVE  panicked' = ~Acceptable(mr[1], mr[2])
<1> DEFINE method == mr[1]
           route == mr[2]
<1>1. panicked' = ~Welcome(route, RoutesOf(method)) /\ HandlesFit
  BY HandledTrees DEF TreesAfter, RouterInv
<1>2. \A r : <<method, r>> \in Registered <=> r \in RoutesOf(method)
  BY <1>1, RegisteredIs DEF RoutesOf
<1>3. \A x \in Registered : x = <<x[1], x[2]>>
  BY Registrables DEF Registered
<1> HIDE DEF method, route
<1>4. (\A x \in Registered : x[1] = method => ~Conflict(route, x[2]))
          <=> \A r \in RoutesOf(method) : ~Conflict(route, r)
  <2>1. ASSUME NEW x \in Registered, x[1] = method PROVE x[2] \in RoutesOf(method)
    BY <1>2, <1>3, <2>1
  <2>2. ASSUME NEW r \in RoutesOf(method)
        PROVE  \E x \in Registered : x[1] = method /\ x[2] = r
    <3>1. <<method, r>> \in Registered /\ <<method, r>>[1] = method /\ <<method, r>>[2] = r
      BY <1>2
    <3> QED BY <3>1
  <2> QED BY <2>1, <2>2
<1>5. panicked' = ~Acceptable(method, route)
  BY <1>1, <1>4 DEF Welcome, Acceptable
<1> QED BY <1>5 DEF method, route

\* A registration keeps the trees sound,
LEMMA HandledSound ==
    ASSUME RouterInv, NEW mr \in Registrable, Handle(mr[1], mr[2])
    PROVE  TreesSound'
<1>1. TreesAfter(mr[1], mr[2]) /\ TreesSound
  BY HandledTrees DEF RouterInv
<1>2. ASSUME NEW m \in DOMAIN trees'
      PROVE  /\ InShape(trees'[m]) /\ Held(Handles(trees'[m]))
             /\ Tells(trees'[m], Handles(trees'[m]))
             /\ ~panicked' => Ordered(trees'[m]) /\ SpelledOut(trees'[m], Handles(trees'[m]))
  <2>1. CASE m = mr[1]
    BY <1>1, <2>1 DEF TreesAfter
  <2>2. CASE m # mr[1]
    BY <1>1, <1>2, <2>2 DEF TreesAfter, TreesSound
  <2> QED BY <2>1, <2>2
<1> QED BY <1>2 DEF TreesSound

\* the cached methods current,
LEMMA HandledAllowed ==
    ASSUME RouterInv, NEW mr \in Registrable, Handle(mr[1], mr[2])
    PROVE  AllowedFits' /\ globalAllowed' \subseteq Methods
<1>1. /\ DOMAIN trees' = DOMAIN trees \cup {mr[1]} /\ ~panicked
      /\ globalAllowed = AllowedAnywhere(DOMAIN trees)
  BY HandledTrees DEF TreesAfter, RouterInv, AllowedFits
<1>2. globalAllowed' = NextGlobalAllowed(mr[1])
  BY DEF Handle
<1>3. DOMAIN trees \cup {mr[1]} \subseteq Methods
  BY Registrables DEF RouterInv, Typed
<1>4. globalAllowed' = AllowedAnywhere(DOMAIN trees \cup {mr[1]})
  <2>1. CASE mr[1] \in DOMAIN trees
    <3>1. DOMAIN trees \cup {mr[1]} = DOMAIN trees
      BY <2>1
    <3> QED BY <1>1, <1>2, <2>1, <3>1 DEF NextGlobalAllowed
  <2>2. CASE mr[1] \notin DOMAIN trees
    BY <1>2, <2>2 DEF NextGlobalAllowed
  <2> QED BY <2>1, <2>2
<1>5. \A ms : ms \subseteq Methods => AllowedAnywhere(ms) \subseteq Methods
  BY OptionsIsAMethod DEF AllowedAnywhere, WithOptions
<1> QED BY <1>1, <1>3, <1>4, <1>5 DEF AllowedFits

\* and room for the parameters of every route.
LEMMA HandledParams ==
    ASSUME RouterInv, NEW mr \in Registrable, Handle(mr[1], mr[2])
    PROVE  ParamsHaveRoom' /\ maxParams' \in Nat /\ poolReady' \in BOOLEAN
<1>1. /\ maxParams \in Nat /\ poolReady \in BOOLEAN /\ panicked' \in BOOLEAN
      /\ CountParams(mr[2]) \in Nat
      /\ \A x \in Registered : CountParams(x[2]) > 0 =>
             poolReady /\ CountParams(x[2]) <= maxParams
  BY Registrables, CountParamsType, HandledTrees DEF RouterInv, Typed, ParamsHaveRoom, TreesAfter
<1>2. Registered' = IF panicked' THEN Registered ELSE Registered \cup {mr}
  BY HandledRoutes
<1>3. \A x \in Registered : CountParams(x[2]) \in Nat
  BY Registrables, CountParamsType DEF Registered
<1>4. CASE panicked'
  <2>1. UNCHANGED <<maxParams, poolReady>>
    BY <1>4 DEF Handle
  <2> QED BY <1>1, <1>2, <1>4, <2>1 DEF ParamsHaveRoom
<1>5. CASE ~panicked'
  <2>1. maxParams' = NextMaxParams(mr[2]) /\ poolReady' = (poolReady \/ maxParams' > 0)
    BY <1>5 DEF Handle
  <2>2. maxParams' \in Nat /\ maxParams' >= maxParams /\ maxParams' >= CountParams(mr[2])
    BY <1>1, <2>1 DEF NextMaxParams
  <2>3. poolReady' \in BOOLEAN /\ (poolReady => poolReady') /\ (maxParams' > 0 => poolReady')
    BY <2>1
  <2>4. ASSUME NEW x \in Registered', CountParams(x[2]) > 0
        PROVE  poolReady' /\ CountParams(x[2]) <= maxParams'
    <3>1. CASE x \in Registered
      <4>1. poolReady /\ CountParams(x[2]) <= maxParams /\ CountParams(x[2]) \in Nat
        BY <1>1, <1>3, <2>4, <3>1
      <4>2. CountParams(x[2]) <= maxParams'
        BY <1>1, <2>2, <4>1
      <4> QED BY <2>3, <4>1, <4>2
    <3>2. CASE x \notin Registered
      <4>1. x = mr
        BY <1>2, <1>5, <2>4, <3>2
      <4>2. CountParams(x[2]) <= maxParams' /\ maxParams' > 0
        BY <1>1, <2>2, <2>4, <4>1
      <4> QED BY <2>3, <4>2
    <3> QED BY <3>1, <3>2
  <2>5. ParamsHaveRoom'
    BY <2>4 DEF ParamsHaveRoom, CountParams
  <2> QED BY <2>2, <2>3, <2>5
<1> QED BY <1>1, <1>4, <1>5

\* A registration keeps the invariant.
LEMMA HandleKeeps ==
    ASSUME RouterInv, NEW mr \in Registrable, Handle(mr[1], mr[2])
    PROVE  RouterInv'
<1>1. TreesSound' /\ AllowedFits' /\ HandlesFit' /\ ParamsHaveRoom'
  BY HandledSound, HandledAllowed, HandledRoutes, HandledParams
<1>2. /\ DOMAIN trees' \subseteq Methods /\ panicked' \in BOOLEAN /\ ~serving
      /\ \A m \in DOMAIN trees' : trees'[m] \in Seq(Node)
  <2>1. DOMAIN trees' = DOMAIN trees \cup {mr[1]} /\ panicked' \in BOOLEAN /\ ~serving
    BY HandledTrees DEF TreesAfter
  <2>2. DOMAIN trees \subseteq Methods /\ mr[1] \in Methods
    BY Registrables DEF RouterInv, Typed
  <2>3. \A m \in DOMAIN trees' : trees'[m] \in Seq(Node)
    BY <1>1 DEF TreesSound, InShape
  <2> QED BY <2>1, <2>2, <2>3
<1>3. globalAllowed' \subseteq Methods /\ maxParams' \in Nat /\ poolReady' \in BOOLEAN
  BY HandledAllowed, HandledParams
<1>4. UNCHANGED <<serving, client>>
  BY DEF Handle
<1>5. Typed'
  BY <1>2, <1>3, <1>4 DEF Typed, RouterInv
<1>6. ClientFits'
  <2>1. client.state = "idle"
    BY <1>2 DEF RouterInv, ClientFits
  <2> QED BY <1>4, <2>1 DEF ClientFits, AnswerFitsTheRoutes
<1> QED BY <1>1, <1>5, <1>6 DEF RouterInv

\* Only the handler or the client changes.
LEMMA TreesKept ==
    ASSUME RouterInv, UNCHANGED <<trees, globalAllowed, maxParams, poolReady, panicked>>,
           serving' \in BOOLEAN, serving' => ~panicked, client'.state \in ClientStates,
           ClientFits'
    PROVE  RouterInv'
<1>1. Typed'
  BY DEF RouterInv, Typed, ClientStates
<1>2. TreesSound' /\ HandlesFit' /\ AllowedFits'
  BY DEF RouterInv, TreesSound, HandlesFit, AllowedFits
<1>3. ParamsHaveRoom'
  BY DEF RouterInv, ParamsHaveRoom, Registered
<1> QED BY <1>1, <1>2, <1>3 DEF RouterInv

-----------------------------------------------------------------------------
(* What a redirect leads to *)

\* What is proved of cleaned paths, for paths of any bytes.
Cleaning == INSTANCE CleanPathProofs WITH
    Bytes <- STRING, Inputs <- Seq(STRING),
    p <- <<>>, r <- 0, w <- 0, buf <- <<>>, trailing <- FALSE, pc <- "done", out <- <<>>

LEMMA SameCleaned ==
    ASSUME NEW q
    PROVE  /\ Cleaning!Cleaned(q) = Cleaned(q) /\ Cleaning!Elements(q) = Elements(q)
           /\ Cleaning!Spelled(Cleaning!Elements(q)) = Spelled(Elements(q))
<1>1. \A s : Cleaning!AllButLast(s) = AllButLast(s)
  BY DEF Cleaning!AllButLast, AllButLast
<1>2. \A s : Cleaning!Stacked(s) = Stacked(s)
  BY <1>1 DEF Cleaning!Stacked, Stacked
<1>3. \A s, c : Cleaning!AfterByte(s, c) = AfterByte(s, c)
  BY <1>2, Zenon DEF Cleaning!AfterByte, AfterByte
<1>4. Cleaning!After = After
  BY <1>1, <1>3 DEF Cleaning!After, After, Cleaning!NothingRead, NothingRead
<1>5. Cleaning!Joined = Joined
  BY <1>1 DEF Cleaning!Joined, Joined
<1>6. \A s : Cleaning!EndsInSlash(s) <=> EndsInSlash(s)
  BY DEF Cleaning!EndsInSlash, EndsInSlash
<1>7. Cleaning!Elements(q) = Elements(q)
  BY <1>2, <1>4 DEF Cleaning!Elements, Elements
<1>8. \A s : Cleaning!Spelled(s) = Spelled(s)
  BY <1>5 DEF Cleaning!Spelled, Spelled
<1>9. Cleaning!Cleaned(q) = Cleaned(q)
  BY <1>6, <1>7, <1>8 DEF Cleaning!Cleaned, Cleaned
<1> QED BY <1>7, <1>8, <1>9

\* A '/' at the end of a path that has none.
Slashed(s) == Append(s, Slash)
Unslashed(s) == s # <<>> /\ s[Len(s)] # Slash

LEMMA SlashedIs ==
    ASSUME NEW s \in Seq(STRING)
    PROVE  /\ Slashed(s) \in Seq(STRING) /\ Len(Slashed(s)) = Len(s) + 1 /\ Slashed(s) # <<>>
           /\ \A k \in 1..Len(s) : Slashed(s)[k] = s[k]
           /\ Slashed(s)[Len(s) + 1] = Slash /\ Front(Slashed(s)) = s
<1>1. Slash \in STRING /\ Len(s) \in Nat
  BY BytesHaveCase DEF Slash
<1> DEFINE c == Slash
           t == Append(s, c)
<1>2. c \in STRING
  BY <1>1
<1> HIDE DEF c
<1>3. /\ t \in Seq(STRING) /\ Len(t) = Len(s) + 1 /\ t[Len(s) + 1] = c
      /\ \A k \in 1..Len(s) : t[k] = s[k]
  <2>1. Longer(t, s, c)
    BY <1>2, AppendLonger
  <2> HIDE DEF t
  <2> QED BY <2>1 DEF Longer
<1> HIDE DEF t
<1>4. Front(t) \in Seq(STRING) /\ Len(Front(t)) = Len(s) /\ \A k \in 1..Len(s) : Front(t)[k] = s[k]
  BY <1>1, <1>3 DEF Front
<1>5. Front(t) = s
  BY <1>4, SeqEqual
<1>6. t # <<>>
  BY <1>1, <1>3
<1> QED BY <1>3, <1>5, <1>6 DEF Slashed, c, t

LEMMA CleanedIs ==
    ASSUME NEW q \in Seq(STRING)
    PROVE  /\ Cleaned(q) \in Seq(STRING) /\ Cleaned(Cleaned(q)) = Cleaned(q)
           /\ Cleaned(q) # <<>> /\ Cleaned(q)[1] = Slash
           /\ \/ Cleaned(q) = Cleaned(Slashed(q))
              \/ Cleaned(Slashed(q)) = Slashed(Cleaned(q)) /\ Unslashed(Cleaned(q))
BY BytesHaveCase, SameCleaned, Cleaning!CleanedTwice, Cleaning!CleanedRooted, Cleaning!CleanedSlash
   DEF Slash, Slashed, Unslashed

\* Bytes of the same letter.
SameLetter == {bc \in (DOMAIN Lower) \X (DOMAIN Lower) : Lower[bc[1]] = Lower[bc[2]]}

LEMMA LettersUnmistaken == Cleaning!Unmistaken(SameLetter)
<1>1. <<"/", "/">> \in SameLetter
  BY BytesHaveCase DEF SameLetter
<1>2. ASSUME NEW b, NEW c, <<b, c>> \in SameLetter
      PROVE  (b = "/" <=> c = "/") /\ (b = "." <=> c = ".")
  <2>1. b \in DOMAIN Lower /\ c \in DOMAIN Lower /\ Lower[b] = Lower[c]
    BY <1>2 DEF SameLetter
  <2>2. \A x, y \in DOMAIN Lower : y \in {"/", "."} /\ Lower[x] = Lower[y] => x = y
    BY LettersFold DEF Slash
  <2> QED BY <2>1, <2>2
<1> QED BY <1>1, <1>2 DEF Cleaning!Unmistaken

\* Paths that spell the same are cleaned to paths that do.
LEMMA CleanedAlike ==
    ASSUME NEW s \in Spellings, NEW t \in Spellings, Alike(s, t)
    PROVE  Cleaned(s) \in Spellings /\ Cleaned(t) \in Spellings /\ Alike(Cleaned(s), Cleaned(t))
<1>1. s \in Seq(STRING) /\ t \in Seq(STRING) /\ Len(t) = Len(s)
      /\ \A k \in 1..Len(s) : s[k] \in DOMAIN Lower /\ t[k] \in DOMAIN Lower /\ Lower[t[k]] = Lower[s[k]]
  BY DEF Spellings, Spellable, Alike
<1>2. Cleaning!Akin(SameLetter, s, t)
  BY <1>1 DEF Cleaning!Akin, SameLetter
<1>3. Cleaning!Akin(SameLetter, Cleaned(s), Cleaned(t))
  BY BytesHaveCase, SameCleaned, LettersUnmistaken, Cleaning!CleanedAkin, <1>1, <1>2
<1> DEFINE u == Cleaned(s)
           v == Cleaned(t)
<1>4. u \in Seq(STRING) /\ v \in Seq(STRING)
  BY <1>1, CleanedIs
<1>5. Len(v) = Len(u) /\ \A k \in 1..Len(u) : <<u[k], v[k]>> \in SameLetter
  BY <1>3 DEF Cleaning!Akin
<1> HIDE DEF u, v
<1>6. \A k \in 1..Len(u) : u[k] \in DOMAIN Lower /\ v[k] \in DOMAIN Lower /\ Lower[v[k]] = Lower[u[k]]
  BY <1>5 DEF SameLetter
<1>7. u \in Spellings /\ v \in Spellings /\ Alike(u, v)
  BY <1>4, <1>5, <1>6 DEF Spellings, Spellable, Alike
<1> QED BY <1>7 DEF u, v

LEMMA CleanedSpells == ASSUME NEW s \in Spellings PROVE Cleaned(s) \in Spellings
BY CleanedAlike DEF Alike

\* Turning the slash at the end of a path, and of one that spells the same.
LEMMA ToggleSpells ==
    ASSUME NEW s \in Spellings
    PROVE  ToggleSlash(s) \in Spellings /\ Slashed(s) \in Spellings
<1>1. s \in Seq(STRING) /\ Len(s) \in Nat /\ Slash \in STRING /\ Slash \in DOMAIN Lower
  BY BytesHaveCase DEF Spellings, Slash
<1>2. Slashed(s) \in Spellings
  <2>1. /\ Slashed(s) \in Seq(STRING) /\ Len(Slashed(s)) = Len(s) + 1
        /\ \A k \in 1..Len(s) : Slashed(s)[k] = s[k]
        /\ Slashed(s)[Len(s) + 1] = Slash
    BY <1>1, SlashedIs
  <2>2. \A k \in 1..Len(s) + 1 : k \in 1..Len(s) \/ k = Len(s) + 1
    BY <1>1
  <2> QED BY <1>1, <2>1, <2>2 DEF Spellings, Spellable
<1>3. Len(s) > 1 => Front(s) \in Spellings
  <2> SUFFICES ASSUME Len(s) > 1 PROVE Front(s) \in Spellings
    OBVIOUS
  <2>1. /\ Front(s) \in Seq(STRING) /\ Len(Front(s)) = Len(s) - 1
        /\ \A k \in 1..Len(s) - 1 : Front(s)[k] = s[k] /\ k \in 1..Len(s)
    BY <1>1 DEF Front
  <2> QED BY <2>1 DEF Spellings, Spellable
<1> QED BY <1>2, <1>3 DEF ToggleSlash, Slashed

LEMMA ToggleAlike ==
    ASSUME NEW s \in Spellings, NEW t \in Spellings, Alike(s, t)
    PROVE  Alike(ToggleSlash(s), ToggleSlash(t)) /\ Alike(Slashed(s), Slashed(t))
<1>1. /\ s \in Seq(STRING) /\ t \in Seq(STRING) /\ Len(s) \in Nat /\ Len(t) = Len(s)
      /\ Slash \in STRING /\ Slash \in DOMAIN Lower
      /\ \A k \in 1..Len(s) : Lower[t[k]] = Lower[s[k]]
  BY BytesHaveCase DEF Spellings, Slash, Alike
<1>2. Alike(Slashed(s), Slashed(t))
  <2>1. \A q \in {s, t} : /\ Len(Slashed(q)) = Len(s) + 1 /\ Slashed(q)[Len(s) + 1] = Slash
                          /\ \A k \in 1..Len(s) : Slashed(q)[k] = q[k]
    BY <1>1, SlashedIs
  <2>2. \A k \in 1..Len(s) + 1 : k \in 1..Len(s) \/ k = Len(s) + 1
    BY <1>1
  <2> QED BY <1>1, <2>1, <2>2 DEF Alike
<1>3. Len(s) > 1 => Alike(Front(s), Front(t)) /\ (Last(s) = Slash <=> Last(t) = Slash)
  <2> SUFFICES ASSUME Len(s) > 1
               PROVE  Alike(Front(s), Front(t)) /\ (Last(s) = Slash <=> Last(t) = Slash)
    OBVIOUS
  <2>1. \A q \in {s, t} : /\ Len(Front(q)) = Len(s) - 1
                          /\ \A k \in 1..Len(s) - 1 : Front(q)[k] = q[k] /\ k \in 1..Len(s)
    BY <1>1 DEF Front
  <2>2. Alike(Front(s), Front(t))
    BY <1>1, <2>1 DEF Alike
  <2>3. /\ Len(s) \in 1..Len(s) /\ s[Len(s)] \in DOMAIN Lower /\ t[Len(s)] \in DOMAIN Lower
        /\ Lower[t[Len(s)]] = Lower[s[Len(s)]]
    BY <1>1 DEF Spellings, Spellable
  <2>4. s[Len(s)] = Slash <=> t[Len(s)] = Slash
    BY <1>1, <2>3, LettersFold
  <2> QED BY <1>1, <2>2, <2>4 DEF Last
<1>4. CASE Len(s) > 1 /\ Last(s) = Slash
  BY <1>1, <1>2, <1>3, <1>4 DEF ToggleSlash
<1>5. CASE ~(Len(s) > 1 /\ Last(s) = Slash)
  <2>1. ToggleSlash(s) = Slashed(s) /\ ToggleSlash(t) = Slashed(t)
    BY <1>1, <1>3, <1>5 DEF ToggleSlash, Slashed
  <2> QED BY <1>2, <2>1
<1> QED BY <1>4, <1>5

\* A slash at the end makes no more difference to a cleaned path than one.
LEMMA CleanedToggle ==
    ASSUME NEW q \in Seq(STRING)
    PROVE  /\ Cleaned(Slashed(q)) \in {Cleaned(q), ToggleSlash(Cleaned(q))}
           /\ Cleaned(q) \in {Cleaned(Slashed(q)), ToggleSlash(Cleaned(Slashed(q)))}
<1> DEFINE u == Cleaned(q)
           v == Cleaned(Slashed(q))
<1>1. u \in Seq(STRING) /\ (u = v \/ (v = Slashed(u) /\ Unslashed(u)))
  BY CleanedIs
<1> HIDE DEF u, v
<1>2. CASE u = v
  BY <1>2 DEF u, v
<1>3. CASE v = Slashed(u) /\ Unslashed(u)
  <2>1. Len(u) \in Nat /\ Len(u) > 0 /\ Slash \in STRING
    BY <1>1, <1>3, BytesHaveCase DEF Unslashed, Slash
  <2>2. ToggleSlash(u) = v
    BY <1>3, <2>1 DEF ToggleSlash, Last, Unslashed, Slashed
  <2>3. ToggleSlash(v) = u
    <3>1. Len(v) = Len(u) + 1 /\ v[Len(u) + 1] = Slash /\ Front(v) = u
      BY <1>1, <1>3, SlashedIs
    <3>2. Len(v) > 1 /\ Last(v) = Slash
      BY <2>1, <3>1 DEF Last
    <3> QED BY <3>1, <3>2 DEF ToggleSlash
  <2> QED BY <2>2, <2>3 DEF u, v
<1> QED BY <1>1, <1>2, <1>3

LEMMA AlikeSelf == ASSUME NEW s PROVE Alike(s, s)
BY DEF Alike

\* What http.Redirect makes of a path is the cleaned path but for a slash.
LEMMA LocationIs ==
    ASSUME NEW q \in Seq(STRING)
    PROVE  /\ Location(q) \in {Cleaned(q), ToggleSlash(Cleaned(q))}
           /\ Location(q) \in {Cleaned(Slashed(q)), ToggleSlash(Cleaned(Slashed(q)))}
           /\ q # <<>> /\ q[Len(q)] = Slash => Location(q) = Cleaned(q)
           /\ q = <<>> => Location(q) = <<Slash>>
<1> DEFINE st == Elements(q)
           t == Spelled(st)
           l == Location(q)
           u == Cleaned(q)
           v == Cleaned(Slashed(q))
<1>1. /\ t \in Seq(STRING) /\ Len(t) > 0 /\ t \o <<Slash>> = Slashed(t) /\ t \o <<>> = t
      /\ st = <<>> => t = <<Slash>>
      /\ q = <<>> => st = <<>>
      /\ Elements(Slashed(q)) = st
  BY BytesHaveCase, SameCleaned, Cleaning!CleanedSpelled, Cleaning!ElementsOfNothing, Cleaning!SlashEnds
     DEF Slash, Slashed
<1>2. /\ u = IF st # <<>> /\ EndsInSlash(q) THEN Slashed(t) ELSE t
      /\ l = IF st # <<>> /\ q[Len(q)] = Slash THEN Slashed(t) ELSE t
  BY <1>1 DEF Cleaned, Location, Slash, Last
<1>3. v = IF st # <<>> THEN Slashed(t) ELSE t
  <2>1. EndsInSlash(Slashed(q))
    <3>1. Len(Slashed(q)) = Len(q) + 1 /\ Len(q) \in Nat /\ Slashed(q)[Len(q) + 1] = Slash
      BY SlashedIs
    <3> QED BY <3>1 DEF EndsInSlash, Slash
  <2> QED BY <1>1, <2>1 DEF Cleaned, Slash
<1>4. ToggleSlash(Slashed(t)) = t
  <2> DEFINE s == Slashed(t)
  <2> HIDE DEF t
  <2>1. Len(s) = Len(t) + 1 /\ s[Len(t) + 1] = Slash /\ Front(s) = t /\ Len(t) \in Nat /\ Len(t) > 0
    BY <1>1, SlashedIs
  <2> HIDE DEF s
  <2>2. ToggleSlash(s) = t
    BY <2>1 DEF ToggleSlash, Last
  <2> QED BY <2>2 DEF s
<1>5. q # <<>> /\ q[Len(q)] = Slash => EndsInSlash(q)
  BY DEF EndsInSlash, Slash
<1> HIDE DEF st, t, l, u, v
<1>6. /\ l \in {u, ToggleSlash(u)} /\ l \in {v, ToggleSlash(v)}
      /\ q # <<>> /\ q[Len(q)] = Slash => l = u
      /\ q = <<>> => l = <<Slash>>
  BY <1>1, <1>2, <1>3, <1>4, <1>5
<1> QED BY <1>6 DEF l, u, v

LEMMA LocationSpells == ASSUME NEW q \in Spellings PROVE Location(q) \in Spellings
<1>1. q \in Seq(STRING)
  BY DEF Spellings
<1> QED BY <1>1, LocationIs, CleanedSpells, ToggleSpells

\* Turning the slash at the end repairs a path,
LEMMA TogglingRepairs ==
    ASSUME NEW path \in Spellings
    PROVE  Repairs(path, Location(ToggleSlash(path)))
<1> DEFINE clean == Cleaned(path)
           t == ToggleSlash(path)
<1>1. path \in Seq(STRING) /\ Len(path) \in Nat /\ Slash \in STRING
  BY BytesHaveCase DEF Spellings, Slash
<1>2. t \in Spellings
  BY ToggleSpells
<1>3. Location(t) \in {clean, ToggleSlash(clean)}
  <2>1. CASE Len(path) > 1 /\ Last(path) = Slash
    <3>1. /\ t = Front(path) /\ t \in Seq(STRING) /\ Len(t) = Len(path) - 1
          /\ \A k \in 1..Len(t) : t[k] = path[k]
      BY <1>1, <2>1 DEF ToggleSlash, Front
    <3>2. Slashed(t) = path
      <4> DEFINE s == Slashed(t)
      <4> HIDE DEF t
      <4>1. /\ s \in Seq(STRING) /\ Len(s) = Len(t) + 1 /\ s[Len(t) + 1] = Slash
            /\ \A k \in 1..Len(t) : s[k] = t[k]
        BY <3>1, SlashedIs
      <4> HIDE DEF s
      <4>2. path[Len(path)] = Slash
        BY <2>1 DEF Last
      <4>3. ASSUME NEW k \in 1..Len(path) PROVE s[k] = path[k]
        <5>1. k \in 1..Len(t) \/ (k = Len(path) /\ k = Len(t) + 1)
          BY <1>1, <3>1
        <5> QED BY <3>1, <4>1, <4>2, <5>1
      <4>4. Len(s) = Len(path)
        BY <1>1, <3>1, <4>1
      <4>5. s = path
        BY <1>1, <4>1, <4>3, <4>4, SeqEqual
      <4> QED BY <4>5 DEF s
    <3> HIDE DEF t
    <3>3. Location(t) \in {Cleaned(Slashed(t)), ToggleSlash(Cleaned(Slashed(t)))}
      BY <3>1, LocationIs
    <3> QED BY <3>2, <3>3
  <2>2. CASE ~(Len(path) > 1 /\ Last(path) = Slash)
    <3>1. t = Slashed(path)
      BY <2>2 DEF ToggleSlash, Slashed
    <3>2. t \in Seq(STRING) /\ t # <<>> /\ t[Len(t)] = Slash
      BY <1>1, <3>1, SlashedIs
    <3>3. Location(t) = Cleaned(t)
      BY <3>2, LocationIs
    <3> QED BY <1>1, <3>1, <3>3, CleanedToggle
  <2> QED BY <2>1, <2>2
<1>4. Location(t) \in Spellings
  BY <1>2, LocationSpells
<1>5. Alike(Location(t), Location(t))
  BY AlikeSelf
<1> QED BY <1>3, <1>4, <1>5 DEF Repairs

\* and so does spelling the cleaned path differently, up to a slash at the end.
LEMMA RespellingRepairs ==
    ASSUME NEW path \in Spellings, NEW q \in Spellings, Near(TRUE, Cleaned(path), q)
    PROVE  Repairs(path, Location(q))
<1> DEFINE clean == Cleaned(path)
           c == Cleaned(q)
           l == Location(q)
<1>1. /\ path \in Seq(STRING) /\ q \in Seq(STRING) /\ clean \in Spellings /\ c \in Spellings
      /\ l \in Spellings
      /\ clean \in Seq(STRING) /\ clean # <<>> /\ Cleaned(clean) = clean /\ clean[1] = Slash
      /\ Slashed(clean) \in Spellings /\ Slashed(q) \in Spellings /\ ToggleSlash(clean) \in Spellings
      /\ Slash \in STRING /\ Slash \in DOMAIN Lower
  <2>1. path \in Seq(STRING) /\ q \in Seq(STRING)
    BY DEF Spellings
  <2>2. clean \in Spellings /\ c \in Spellings /\ l \in Spellings
    BY CleanedSpells, LocationSpells
  <2> QED BY <2>1, <2>2, BytesHaveCase, CleanedIs, ToggleSpells DEF Spellings, Slash
<1>2. Alike(clean, q) \/ Alike(clean, Slashed(q)) \/ Alike(Slashed(clean), q)
  BY DEF Near, Slashed
<1>9. l \in {c, ToggleSlash(c)} /\ l \in {Cleaned(Slashed(q)), ToggleSlash(Cleaned(Slashed(q)))}
  BY <1>1, LocationIs
<1> HIDE DEF clean, c, l
<1>3. CASE q = <<>>
  <2>1. Len(clean) = 1
    <3>1. Len(clean) \in Nat /\ Len(clean) # 0 /\ Len(q) = 0
      BY <1>1, <1>3
    <3>2. Len(Slashed(clean)) = Len(clean) + 1 /\ Len(Slashed(q)) = 1
      BY <1>1, <1>3 DEF Slashed
    <3> QED BY <1>2, <3>1, <3>2 DEF Alike
  <2>2. clean = <<clean[1]>>
    BY <1>1, <2>1
  <2>3. Location(q) = clean
    BY <1>1, <1>3, <2>2, LocationIs
  <2> QED BY <1>1, <2>3, AlikeSelf DEF Repairs, clean
<1>4. CASE q # <<>>
  <2>2. Alike(clean, l) \/ Alike(ToggleSlash(clean), l)
    <3>1. CASE Alike(clean, q)
      <4>1. Alike(clean, c)
        <5>1. Alike(Cleaned(clean), Cleaned(q))
          BY <1>1, <3>1, CleanedAlike
        <5> QED BY <1>1, <5>1 DEF c
      <4>2. Alike(ToggleSlash(clean), ToggleSlash(c))
        BY <1>1, <4>1, ToggleAlike
      <4> QED BY <1>9, <4>1, <4>2
    <3>2. CASE Alike(clean, Slashed(q))
      <4> DEFINE s == Cleaned(Slashed(q))
      <4>1. Alike(Cleaned(clean), s) /\ s \in Spellings
        BY <1>1, <3>2, CleanedAlike
      <4>2. l \in {s, ToggleSlash(s)}
        BY <1>9
      <4> HIDE DEF s
      <4>3. Alike(clean, s) /\ Alike(ToggleSlash(clean), ToggleSlash(s))
        BY <1>1, <4>1, ToggleAlike
      <4> QED BY <4>2, <4>3
    <3>3. CASE Alike(Slashed(clean), q)
      <4>1. Alike(Cleaned(Slashed(clean)), c)
        BY <1>1, <3>3, CleanedAlike DEF c
      <4>2. Cleaned(Slashed(clean)) \in {clean, ToggleSlash(clean)}
        <5>1. Cleaned(Slashed(clean)) \in {Cleaned(clean), ToggleSlash(Cleaned(clean))}
          BY <1>1, CleanedToggle
        <5> QED BY <1>1, <5>1
      <4>3. l = c
        <5> DEFINE s == Slashed(clean)
        <5>1. /\ Len(s) = Len(clean) + 1 /\ s[Len(clean) + 1] = Slash /\ Len(clean) \in Nat
              /\ s \in Spellings
          <6>1. Len(clean) \in Nat /\ s \in Spellings
            BY <1>1
          <6>2. Len(s) = Len(clean) + 1 /\ s[Len(clean) + 1] = Slash
            BY <1>1, SlashedIs, Zenon
          <6> QED BY <6>1, <6>2
        <5> HIDE DEF s
        <5>2. Len(q) = Len(s) /\ Len(s) \in 1..Len(s) /\ Lower[q[Len(s)]] = Lower[s[Len(s)]]
          BY <3>3, <5>1 DEF Alike, s
        <5>3. q[Len(s)] \in DOMAIN Lower /\ s[Len(s)] = Slash
          BY <5>1, <5>2 DEF Spellings, Spellable
        <5>4. q[Len(q)] = Slash
          BY <1>1, <5>2, <5>3, LettersFold
        <5> QED BY <1>1, <1>4, <5>4, LocationIs DEF l, c
      <4> QED BY <4>1, <4>2, <4>3
    <3> QED BY <1>2, <3>1, <3>2, <3>3
  <2> QED BY <1>1, <2>2 DEF Repairs, clean, l
<1> QED BY <1>3, <1>4

-----------------------------------------------------------------------------
(* Dispatch *)

\* A lookup in the tree of a method answers for the routes of the method.
LEMMA LookedUp ==
    ASSUME RouterInv, NEW m \in DOMAIN trees, NEW path \in Seq(STRING)
    PROVE  LET a == GetValue(trees[m], path)
           IN  /\ a.handle # NoHandle <=> Serves(m, path)
               /\ a.handle # NoHandle => <<m, a.handle>> \in Registered
                                         /\ a.ps \in Match(a.handle, path)
<1> DEFINE H == Handles(trees[m])
           a == GetValue(trees[m], path)
<1>1. /\ a.handle = NoHandle \/ a.handle \in H
      /\ \A r \in H : Match(r, path) = IF r = a.handle THEN {a.ps} ELSE {}
  <2>1. Tells(trees[m], H)
    BY DEF RouterInv, TreesSound
  <2> HIDE DEF H
  <2> QED BY <2>1, LookupFinds
<1>2. \A r : <<m, r>> \in Registered <=> r \in H
  BY RegisteredIs DEF RouterInv
<1>3. \A r \in H : r # NoHandle
  <2> SUFFICES ASSUME NEW r \in H PROVE r # NoHandle
    OBVIOUS
  <2>1. <<m, r>> \in Registrable
    BY DEF RouterInv, HandlesFit
  <2>2. <<m, r>>[2] # <<>>
    BY <2>1, Registrables
  <2> QED BY <2>2 DEF NoHandle
<1>4. Serves(m, path) <=> \E r \in H : Match(r, path) # {}
  <2>1. ASSUME NEW mr \in Registered, mr[1] = m
        PROVE  mr[2] \in H
    <3>1. mr = <<m, mr[2]>>
      BY <2>1, Registrables DEF Registered
    <3> QED BY <1>2, <3>1
  <2>2. ASSUME NEW r \in H
        PROVE  \E mr \in Registered : mr[1] = m /\ mr[2] = r
    <3>1. <<m, r>> \in Registered /\ <<m, r>>[1] = m /\ <<m, r>>[2] = r
      BY <1>2
    <3> QED BY <3>1
  <2> QED BY <2>1, <2>2 DEF Serves
<1> HIDE DEF H, a
<1>5. a.handle # NoHandle <=> Serves(m, path)
  BY <1>1, <1>3, <1>4
<1>6. a.handle # NoHandle => <<m, a.handle>> \in Registered /\ a.ps \in Match(a.handle, path)
  BY <1>1, <1>2
<1> QED BY <1>5, <1>6 DEF a

\* Without a tree a method serves nothing.
LEMMA NoTreeServesNothing ==
    ASSUME RouterInv, NEW m, m \notin DOMAIN trees, NEW path
    PROVE  ~Serves(m, path)
BY DEF Serves, Registered

\* The other methods that serve a path.
Others(method, path) == {m \in Methods \ {method, "OPTIONS"} : Serves(m, path)}

\* The methods the answer to a request lists.
LEMMA AllowedAre ==
    ASSUME RouterInv, NEW method, NEW path \in Seq(STRING), path # <<"*">>
    PROVE  Allowed(path, method) = WithOptions(Others(method, path))
<1>1. DOMAIN trees \subseteq Methods
  BY DEF RouterInv, Typed
<1>2. \A m \in DOMAIN trees : GetValue(trees[m], path).handle # NoHandle <=> Serves(m, path)
  BY LookedUp
<1>3. \A m : Serves(m, path) => m \in DOMAIN trees
  BY NoTreeServesNothing
<1>4. {m \in DOMAIN trees \ {method, "OPTIONS"} : GetValue(trees[m], path).handle # NoHandle}
          = Others(method, path)
  BY <1>1, <1>2, <1>3 DEF Others
<1> QED BY <1>4 DEF Allowed

\* A redirect leads to the cleaned path up to case and one slash.
LEMMA RedirectsToRepairs ==
    ASSUME RouterInv, ~panicked, NEW m \in DOMAIN trees, NEW path \in Spellings,
           NEW q \in Redirect(trees[m], path)
    PROVE  Repairs(path, Location(q))
<1> DEFINE clean == Cleaned(path)
           found == FindCaseInsensitivePath(trees[m], clean, TRUE)
           H == Handles(trees[m])
<1>1. /\ path \in Seq(STRING) /\ clean \in Spellings /\ clean \in Seq(STRING) /\ clean # <<>>
      /\ clean[1] = Slash /\ Cleaned(clean) = clean /\ Slash \in STRING /\ Slash \in DOMAIN Lower
  BY BytesHaveCase, CleanedSpells, CleanedIs DEF Spellings, Slash
<1>2. Ordered(trees[m]) /\ SpelledOut(trees[m], H) /\ Held(H) /\ Distinct
  BY TokensDisjoint DEF RouterInv, TreesSound, Distinct
<1>3. Cased(H)
  <2>1. \A h \in H : <<m, h>> \in Registrable
    BY DEF RouterInv, HandlesFit
  <2>2. \A h \in H : \A k \in 1..Len(h) : h[k] \in ToSet(h)
    <3>1. \A h \in H : DOMAIN h = 1..Len(h)
      BY <2>1, RegistrableRooted
    <3> QED BY <3>1 DEF ToSet
  <2>3. \A h \in H : ToSet(h) \subseteq Wildcards \cup DOMAIN Lower
    BY <2>1, BytesHaveCase
  <2> HIDE DEF H
  <2> QED BY <2>2, <2>3 DEF Cased
<1>4. found \subseteq Spellings
  <2>1. found \in SUBSET Spellings
    <3> HIDE DEF clean, H
    <3> QED BY <1>1, <1>2, <1>3, SearchSpells
  <2> QED BY <2>1
<1>5. \A f \in found : Near(TRUE, clean, f)
  <2>1. Spellable(clean) /\ Folding
    BY <1>1, LettersFold DEF Spellings, Folding
  <2> HIDE DEF clean, H
  <2> QED BY <1>1, <1>2, <2>1, SearchRespells
<1>6. q \in (IF GetValue(trees[m], path).tsr THEN {ToggleSlash(path)} ELSE found)
  BY DEF Redirect
<1> HIDE DEF clean, found, H
<1>7. CASE q = ToggleSlash(path)
  BY <1>1, <1>7, TogglingRepairs DEF clean
<1>8. CASE q \in found
  <2>1. q \in Spellings /\ Near(TRUE, clean, q)
    BY <1>4, <1>5, <1>8
  <2> QED BY <2>1, RespellingRepairs DEF clean
<1> QED BY <1>6, <1>7, <1>8

\* What an answer owes to the routes: AnswerFitsTheRoutes of any answer.
Fit(c) ==
    /\ c.state = "handled" =>
         /\ <<c.method, c.route>> \in Registered
         /\ c.ps \in Match(c.route, c.path)
    /\ c.state \in {"notAllowed", "options"} =>
         /\ ~Serves(c.method, c.path)
         /\ c.path # <<"*">> => c.allow = Others(c.method, c.path) \cup {"OPTIONS"}
                                /\ Others(c.method, c.path) # {}
    /\ c.state = "notFound" =>
         ~Serves(c.method, c.path) /\ (c.path # <<"*">> => Others(c.method, c.path) = {})

\* Every answer of ServeHTTP is one of the known kinds, and fits.
LEMMA DispatchFits ==
    ASSUME RouterInv, serving, NEW method \in Methods, NEW path \in Spellings
    PROVE  LET c == ServeHTTP(method, path)
           IN  c.state \in ClientStates /\ Asked(c) /\ Fit(c)
<1> DEFINE has == method \in DOMAIN trees
           value == GetValue(trees[method], path)
           moved == Redirect(trees[method], path)
           allow == Allowed(path, method)
           c == ServeHTTP(method, path)
           handled == has /\ value.handle # NoHandle
           redirected == has /\ method # "CONNECT" /\ path # <<Slash>> /\ moved # {}
<1>1. c = IF handled THEN
             [state |-> "handled", method |-> method, path |-> path,
              route |-> value.handle, ps |-> value.ps]
          ELSE IF redirected THEN
             [state |-> "redirected", method |-> method, path |-> path,
              code |-> IF method = "GET" THEN 301 ELSE 308,
              location |-> Location(CHOOSE q \in moved : TRUE)]
          ELSE IF allow # {} THEN
             [state |-> IF method = "OPTIONS" THEN "options" ELSE "notAllowed",
              method |-> method, path |-> path, allow |-> allow]
          ELSE [state |-> "notFound", method |-> method, path |-> path]
  BY Zenon DEF ServeHTTP
<1>2. ~panicked /\ path \in Seq(STRING)
  BY DEF RouterInv, Typed, Spellings
<1>3. handled => <<method, value.handle>> \in Registered /\ value.ps \in Match(value.handle, path)
  BY <1>2, LookedUp
<1>4. ~handled => ~Serves(method, path)
  BY <1>2, LookedUp, NoTreeServesNothing
<1>5. redirected => Repairs(path, Location(CHOOSE q \in moved : TRUE))
  BY <1>2, RedirectsToRepairs
<1>6. path # <<"*">> => allow = WithOptions(Others(method, path))
  BY <1>2, AllowedAre
<1> HIDE DEF has, value, moved, allow, c, handled, redirected
<1>7. c.state \in ClientStates /\ Asked(c) /\ Fit(c)
  <2>1. CASE handled
    <3>1. c = [state |-> "handled", method |-> method, path |-> path,
               route |-> value.handle, ps |-> value.ps]
      BY <1>1, <2>1
    <3> QED BY <1>3, <2>1, <3>1 DEF ClientStates, Asked, Fit
  <2>2. CASE ~handled /\ redirected
    <3> DEFINE location == Location(CHOOSE q \in moved : TRUE)
               code == IF method = "GET" THEN 301 ELSE 308
    <3>1. c = [state |-> "redirected", method |-> method, path |-> path,
               code |-> code, location |-> location]
      BY <1>1, <2>2
    <3>2. Repairs(path, location)
      BY <1>5, <2>2
    <3> HIDE DEF location, code
    <3> QED BY <3>1, <3>2 DEF ClientStates, Asked, Fit
  <2>3. CASE ~handled /\ ~redirected /\ allow # {}
    <3>1. PICK state \in {"options", "notAllowed"} :
               c = [state |-> state, method |-> method, path |-> path, allow |-> allow]
      BY <1>1, <2>3
    <3>2. c.state = state /\ c.method = method /\ c.path = path /\ c.allow = allow
      BY <3>1
    <3>3. path # <<"*">> => allow = Others(method, path) \cup {"OPTIONS"} /\ Others(method, path) # {}
      BY <1>6, <2>3 DEF WithOptions
    <3> QED BY <1>4, <2>3, <3>2, <3>3 DEF ClientStates, Asked, Fit
  <2>4. CASE ~handled /\ ~redirected /\ allow = {}
    <3>1. c = [state |-> "notFound", method |-> method, path |-> path]
      BY <1>1, <2>4
    <3>2. path # <<"*">> => Others(method, path) = {}
      BY <1>6, <2>4 DEF WithOptions
    <3> QED BY <1>4, <2>4, <3>1, <3>2 DEF ClientStates, Asked, Fit
  <2> QED BY <2>1, <2>2, <2>3, <2>4
<1> QED BY <1>7 DEF c

\* An answer that fits is one the client may get.
LEMMA AnswerKeeps ==
    ASSUME RouterInv, serving, NEW method \in Methods, NEW path \in Spellings,
           client' = ServeHTTP(method, path),
           UNCHANGED <<trees, globalAllowed, maxParams, poolReady, panicked, serving>>
    PROVE  RouterInv'
<1>1. client'.state \in ClientStates /\ Asked(client') /\ Fit(client')
  BY DispatchFits
<1>2. Registered' = Registered
  BY DEF Registered
<1>3. \A m, q : Serves(m, q)' <=> Serves(m, q)
  BY <1>2 DEF Serves
<1>4. AnswerFitsTheRoutes'
  BY <1>1, <1>2, <1>3 DEF AnswerFitsTheRoutes, Fit, Others
<1>5. ClientFits'
  BY <1>1, <1>4 DEF ClientFits, Asked
<1> QED BY <1>1, <1>5, TreesKept DEF RouterInv, Typed

-----------------------------------------------------------------------------

\* The path of the server as a whole is one.
LEMMA ServerSpells == <<"*">> \in Spellings
<1>1. "*" \in STRING /\ "*" \in DOMAIN Lower
  BY BytesHaveCase
<1> DEFINE s == <<"*">>
<1>2. s \in Seq(STRING) /\ Len(s) = 1 /\ s[1] = "*"
  BY <1>1
<1> HIDE DEF s
<1>3. \A k \in 1..Len(s) : k = 1
  BY <1>2
<1> QED BY <1>1, <1>2, <1>3 DEF Spellings, Spellable, s

\* The invariant holds of a new router.
LEMMA RouterInvInit == Init => RouterInv
<1> SUFFICES ASSUME Init PROVE RouterInv
  OBVIOUS
<1>1. /\ trees = << >> /\ globalAllowed = {} /\ maxParams = 0 /\ poolReady = FALSE
      /\ panicked = FALSE /\ serving = FALSE /\ client.state = "idle"
  BY DEF Init, Idle
<1>2. DOMAIN trees = {}
  BY <1>1
<1>3. Registered = {}
  BY <1>2 DEF Registered
<1>4. Typed
  BY <1>1, <1>2 DEF Typed
<1>5. AllowedFits
  BY <1>1, <1>2 DEF AllowedFits, AllowedAnywhere, WithOptions
<1>6. ClientFits
  BY <1>1 DEF ClientFits, AnswerFitsTheRoutes
<1> QED BY <1>2, <1>3, <1>4, <1>5, <1>6 DEF RouterInv, TreesSound, HandlesFit, ParamsHaveRoom

\* Every step keeps the invariant.
LEMMA RouterInvStep == RouterInv /\ [Next]_vars => RouterInv'
<1> SUFFICES ASSUME RouterInv, [Next]_vars PROVE RouterInv'
  OBVIOUS
<1>1. /\ serving \in BOOLEAN /\ (serving => ~panicked) /\ client.state \in ClientStates
      /\ ClientFits
  BY DEF RouterInv, Typed, ClientStates
<1>2. ASSUME NEW mr \in Registrable, Handle(mr[1], mr[2]) PROVE RouterInv'
  BY <1>2, HandleKeeps
<1>3. CASE Install
  <2>1. client.state = "idle" /\ client' = client
    BY <1>1, <1>3 DEF Install, ClientFits
  <2>2. ClientFits'
    BY <2>1 DEF ClientFits, AnswerFitsTheRoutes
  <2> QED BY <1>1, <1>3, <2>1, <2>2, TreesKept DEF Install
<1>4. ASSUME NEW m \in Methods, NEW p \in Requests \cup {<<"*">>}, Request(m, p)
      PROVE  RouterInv'
  <2>1. p \in Spellings
    BY RequestsSpell, ServerSpells DEF Spellings
  <2> QED BY <1>4, <2>1, AnswerKeeps DEF Request
<1>5. CASE Follow
  <2>1. client.method \in Methods /\ client.location \in Spellings /\ serving
    BY <1>1, <1>5 DEF Follow, ClientFits, Asked, Repairs
  <2> QED BY <1>5, <2>1, AnswerKeeps DEF Follow
<1>6. CASE UNCHANGED vars
  <2>1. client' = client /\ serving' = serving
        /\ UNCHANGED <<trees, globalAllowed, maxParams, poolReady, panicked>>
    BY <1>6 DEF vars
  <2>2. ClientFits'
    BY <1>1, <2>1 DEF ClientFits, AnswerFitsTheRoutes, Asked, Serves, Registered
  <2> QED BY <1>1, <2>1, <2>2, TreesKept
<1> QED BY <1>2, <1>3, <1>4, <1>5, <1>6 DEF Next

(* The inductive invariant of the router. *)
THEOREM RouterInvariant == Spec => []RouterInv
BY RouterInvInit, RouterInvStep, PTL DEF Spec

(* Every tree is in order after any number of registrations of any routes,  *)
(* and hangs together even when the last one stopped half-way               *)
(* (tree.go:84-319).                                                        *)
THEOREM TreesStayInOrder == Spec => []TreesInOrder
<1>1. RouterInv => TreesInOrder
  <2> SUFFICES ASSUME RouterInv, NEW m \in DOMAIN trees
               PROVE  /\ Hung(trees[m]) /\ Aligned(trees[m])
                      /\ ~panicked => LeadsOn(trees[m])
    BY DEF TreesInOrder
  <2>1. InShape(trees[m]) /\ (~panicked => Ordered(trees[m]))
    BY DEF RouterInv, TreesSound
  <2> QED BY <2>1, InShapeInOrder
<1> QED BY <1>1, RouterInvariant, PTL

(* The router keeps its types, serves only if no registration panicked, and *)
(* has its trees in order, for all methods and routes (tree.go:84-319,      *)
(* router.go:293-342).                                                      *)
THEOREM TypesKept == Spec => []TypeOK
<1>1. RouterInv => Typed
  BY DEF RouterInv
<1>2. Spec => []Typed
  BY <1>1, RouterInvariant, PTL
<1>3. Typed /\ TreesInOrder => TypeOK
  BY DEF TypeOK
<1> QED BY <1>2, <1>3, TreesStayInOrder, PTL

(* Every answer is the one the registered routes call for, for all routes   *)
(* and requests, along every redirect that is followed: a handler gets its  *)
(* own parameters, 405 and the answer to OPTIONS list exactly the methods   *)
(* that serve the path, and 404 is sent only when no method but OPTIONS     *)
(* does (router.go:412-463, 466-547).                                       *)
THEOREM AnswersFit == Spec => []AnswerFitsTheRoutes
<1>1. RouterInv => AnswerFitsTheRoutes
  BY DEF RouterInv, ClientFits
<1> QED BY <1>1, RouterInvariant, PTL

(* A redirect only repairs the path, for all routes and requests: what it   *)
(* leads to is the cleaned path of the request, up to case and one slash at *)
(* the end, whatever the lookup and the case-insensitive search answer      *)
(* (router.go:487-509).                                                     *)
THEOREM RedirectsRepair == Spec => []RedirectRepairsThePath
<1>1. RouterInv => RedirectRepairsThePath
  <2> SUFFICES ASSUME RouterInv, client.state = "redirected"
               PROVE  \E q \in {Cleaned(client.path), ToggleSlash(Cleaned(client.path))} :
                          Fold(client.location) = Fold(q)
    BY DEF RedirectRepairsThePath
  <2> DEFINE clean == Cleaned(client.path)
  <2>1. client.path \in Spellings /\ Repairs(client.path, client.location)
    BY DEF RouterInv, ClientFits, Asked
  <2>2. clean \in Spellings /\ ToggleSlash(clean) \in Spellings
    BY <2>1, CleanedSpells, ToggleSpells
  <2>3. PICK q \in {clean, ToggleSlash(clean)} : Alike(q, client.location)
    BY <2>1 DEF Repairs
  <2>4. q \in Seq(STRING) /\ client.location \in Seq(STRING)
    BY <2>1, <2>2, <2>3 DEF Repairs, Spellings
  <2>5. Fold(q) = Fold(client.location)
    BY <2>3, <2>4, AlikeFolds
  <2> QED BY <2>3, <2>5
<1> QED BY <1>1, RouterInvariant, PTL

(* The cached answer to "OPTIONS *" is current, for all methods and routes  *)
(* (router.go:318-323).                                                     *)
THEOREM GlobalAllowedStaysCurrent == Spec => []GlobalAllowedIsCurrent
<1>1. RouterInv => GlobalAllowedIsCurrent
  <2> SUFFICES ASSUME RouterInv, ~panicked
               PROVE  globalAllowed = AllowedAnywhere({mr[1] : mr \in Registered})
    BY DEF GlobalAllowedIsCurrent
  <2>1. globalAllowed = AllowedAnywhere(DOMAIN trees) /\ HandlesFit
    BY DEF RouterInv, AllowedFits
  <2>2. ASSUME NEW m \in DOMAIN trees PROVE \E mr \in Registered : mr[1] = m
    <3>1. PICK h \in Handles(trees[m]) : TRUE
      BY <2>1 DEF HandlesFit
    <3>2. <<m, h>> \in Registered
      BY <2>1, <3>1, RegisteredIs
    <3> QED BY <3>2
  <2>3. {mr[1] : mr \in Registered} = DOMAIN trees
    BY <2>2 DEF Registered
  <2> QED BY <2>1, <2>3
<1> QED BY <1>1, RouterInvariant, PTL

(* The parameters of every route fit the buffers the pool hands out, for    *)
(* all methods and routes (router.go:325-337).                              *)
THEOREM ParamsAlwaysHaveRoom == Spec => []ParamsHaveRoom
<1>1. RouterInv => ParamsHaveRoom
  BY DEF RouterInv
<1> QED BY <1>1, RouterInvariant, PTL

(* A registration is refused exactly when its route is invalid or conflicts *)
(* with one of its method; it adds its route and loses none, and a refused  *)
(* one changes nothing that is registered, for all methods and routes       *)
(* (tree.go:107-319).                                                       *)
THEOREM RegistrationsKeepRoutes == Spec => RegistrationKeepsRoutes
<1>1. RouterInv /\ [Next]_vars =>
          [\A mr \in Registrable : Handle(mr[1], mr[2]) =>
               /\ panicked' = ~Acceptable(mr[1], mr[2])
               /\ Registered' = IF panicked' THEN Registered ELSE Registered \cup {mr}]_vars
  BY HandledRoutes, HandledAnswers
<1> QED BY <1>1, RouterInvariant, PTL DEF Spec, RegistrationKeepsRoutes

\* The tree a method has, the empty one before its first registration.
RootOf(method) == IF method \in DOMAIN trees THEN trees[method] ELSE EmptyTree

EveryRegistrationEnds == ~panicked =>
    \A mr \in Registrable : Ended(Registration(RootOf(mr[1]), mr[2]))

(* Whatever was registered before, the next registration of any route       *)
(* returns or panics: the loops of addRoute and insertChild end, and no      *)
(* later than after MaxTurns turns (tree.go:120-218).                       *)
THEOREM RegistrationsEnd == Spec => []EveryRegistrationEnds
<1>1. RouterInv => EveryRegistrationEnds
  <2> SUFFICES ASSUME RouterInv, ~panicked, NEW mr \in Registrable
               PROVE  Ended(Registration(RootOf(mr[1]), mr[2]))
    BY DEF EveryRegistrationEnds
  <2> DEFINE t == RootOf(mr[1])
             route == mr[2]
  <2>1. Ordered(t) \/ t = EmptyTree
    BY DEF RootOf, RouterInv, TreesSound
  <2>2. Toward(route) /\ route[1] = Slash /\ Slash \notin Wildcards
    BY Registrables, TokensDisjoint
  <2> HIDE DEF t, route
  <2>3. Ended(Registration(t, route))
    BY <2>1, <2>2, TurnsGood
  <2> QED BY <2>3 DEF t, route
<1> QED BY <1>1, RouterInvariant, PTL

=============================================================================
