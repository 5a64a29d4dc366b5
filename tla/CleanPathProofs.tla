-------------------------- MODULE CleanPathProofs ---------------------------
(***************************************************************************)
(* For paths of any length over any bytes, CleanPath never indexes outside *)
(* its input or its buffer, and what it returns is the canonical path of   *)
(* module CanonicalPath, which cleaning does not change again.             *)
(*                                                                         *)
(* The canonical path is read byte by byte (After), so the proof follows   *)
(* the loop: SInv says what was written in terms of the stack and the      *)
(* element of the bytes read so far, at the head of the loop, inside an    *)
(* element and while the last element is being removed.                    *)
(*                                                                         *)
(* CleanedAkin and CleanedSlash say what the router's redirects rest on:   *)
(* cleaning respects any likeness of bytes that tells '/' and '.' from the *)
(* others, and a '/' at the end stays or makes no difference.              *)
(***************************************************************************)
EXTENDS CleanPath, Integers, SequenceTheorems, WellFoundedInduction, TLAPS

-----------------------------------------------------------------------------
(* Induction and recursion, stated with sets and functions so that they can *)
(* be cited with a set of the citing proof: every natural number or every   *)
(* sequence is in a set closed under one more step, and a body that only    *)
(* looks at smaller arguments defines a function.                           *)

(* A set of natural numbers that is not empty has a smallest member. *)
LEMMA SmallestOf == ASSUME NEW T, T \subseteq Nat, T # {} PROVE \E m \in T : \A k \in T : m <= k
<1> DEFINE R == OpToRel(<, Nat)
<1>0. IsWellFoundedOn(R, Nat)
  BY NatLessThanWellFounded
<1>2. \A x,y \in Nat : y < x => <<y, x>> \in R
  BY DEF OpToRel
<1> HIDE DEF R
<1>1. PICK x \in T : \A y \in T : <<y, x>> \notin R
  BY <1>0, WFMin
<1>3. \A y \in T : ~(y < x)
  BY <1>1, <1>2
<1> QED BY <1>3

(* A set that has 0 and is closed under +1 has every natural number. *)
LEMMA NatSetInduction ==
    ASSUME NEW S, 0 \in S, \A k \in Nat : k \in S => k + 1 \in S
    PROVE  Nat \subseteq S
<1> DEFINE T == {k \in Nat : k \notin S}
<1> SUFFICES ASSUME T # {} PROVE FALSE
  OBVIOUS
<1>1. T \subseteq Nat
  OBVIOUS
<1>2. PICK m \in T : \A k \in T : m <= k
  <2> HIDE DEF T
  <2> QED BY <1>1, SmallestOf
<1>3. m # 0 /\ m - 1 \in Nat /\ m - 1 \notin T
  BY <1>2
<1>4. m - 1 \in S /\ (m - 1) + 1 = m
  BY <1>3
<1> QED BY <1>2, <1>3, <1>4

(* A set that has the empty sequence, and every sequence whose first part   *)
(* it has, has all sequences.                                               *)
LEMMA SeqInduction ==
    ASSUME NEW A, NEW S, <<>> \in S,
           \A q \in Seq(A) : q # <<>> /\ SubSeq(q, 1, Len(q) - 1) \in S => q \in S
    PROVE  Seq(A) \subseteq S
<1> DEFINE N == {k \in Nat : \A q \in Seq(A) : Len(q) = k => q \in S}
<1>1. 0 \in N
  OBVIOUS
<1>2. ASSUME NEW k \in Nat, k \in N PROVE k + 1 \in N
  <2> SUFFICES ASSUME NEW q \in Seq(A), Len(q) = k + 1 PROVE q \in S
    OBVIOUS
  <2>1. q # <<>> /\ SubSeq(q, 1, Len(q) - 1) \in Seq(A) /\ Len(SubSeq(q, 1, Len(q) - 1)) = k
    OBVIOUS
  <2> QED BY <1>2, <2>1
<1>3. Nat \subseteq N
  <2> HIDE DEF N
  <2> QED BY <1>1, <1>2, NatSetInduction
<1> QED BY <1>3

\* A body B of functions from D to C: what it yields for a function and an
\* argument is in C, and depends on smaller arguments only, m measuring them.
Yields(D, C, B) == \A g \in [D -> C], x \in D : B[<<g, x>>] \in C
LooksBelow(D, C, m, B) ==
    \A g, h \in [D -> C], x \in D :
        (\A y \in D : m[y] < m[x] => g[y] = h[y]) => B[<<g, x>>] = B[<<h, x>>]
Satisfiable(D, C, B) == \E f \in [D -> C] : \A x \in D : f[x] = B[<<f, x>>]

(* Recursion: a body that only looks at smaller arguments defines a function. *)
LEMMA WellDefined ==
    ASSUME NEW D, NEW C, NEW c \in C, NEW m \in [D -> Nat], NEW B,
           Yields(D, C, B), LooksBelow(D, C, m, B)
    PROVE  Satisfiable(D, C, B)
<1> USE DEF Yields, LooksBelow
<1> DEFINE Sol(limit, g) == g \in [D -> C] /\ \A x \in D : m[x] <= limit => g[x] = B[<<g,x>>]
<1>1. ASSUME NEW i \in Nat, NEW j \in Nat, NEW g, NEW h, Sol(i, g), Sol(j, h), NEW x \in D, m[x] <= i, m[x] <= j
      PROVE g[x] = h[x]
  <2> DEFINE T == {k \in Nat : \E y \in D : m[y] = k /\ k <= i /\ k <= j /\ g[y] # h[y]}
  <2> SUFFICES ASSUME T # {} PROVE FALSE
    BY <1>1
  <2>1. PICK k \in T : \A l \in T : k <= l
    <3> HIDE DEF T
    <3>1. T \subseteq Nat BY DEF T
    <3> QED BY <3>1, SmallestOf
  <2>2. PICK y \in D : m[y] = k /\ k <= i /\ k <= j /\ g[y] # h[y]
    BY <2>1
  <2>3. \A z \in D : m[z] < m[y] => g[z] = h[z]
    BY <2>1, <2>2
  <2>4. g[y] = B[<<g, y>>] /\ h[y] = B[<<h,y>>]
    BY <1>1, <2>2
  <2>5. B[<<g, y>>] = B[<<h,y>>]
    BY <1>1, <2>3
  <2> QED BY <2>2, <2>4, <2>5
<1>2. ASSUME NEW limit \in Nat PROVE \E g : Sol(limit, g)
  <2> DEFINE T == {k \in Nat : ~\E g : Sol(k, g)}
  <2> SUFFICES ASSUME T # {} PROVE FALSE
    OBVIOUS
  <2>1. PICK k \in T : \A l \in T : k <= l
    <3> HIDE DEF T
    <3>1. T \subseteq Nat BY DEF T
    <3> QED BY <3>1, SmallestOf
  <2>2. \E g \in [D -> C] : \A x \in D : m[x] <= k - 1 => g[x] = B[<<g,x>>]
    <3>1. CASE k = 0
      <4> WITNESS [x \in D |-> c] \in [D -> C]
      <4> QED BY <3>1
    <3>2. CASE k # 0
      <4>1. k - 1 \in Nat /\ k - 1 \notin T
         BY <3>2, <2>1
      <4>2. \E g : Sol(k - 1, g)
         BY <4>1
      <4> QED BY <4>2
    <3> QED BY <3>1, <3>2
  <2>3. PICK g \in [D -> C] : \A x \in D : m[x] <= k - 1 => g[x] = B[<<g,x>>]
    BY <2>2
  <2> DEFINE h == [x \in D |-> B[<<g, x>>]]
  <2>4. h \in [D -> C] OBVIOUS
  <2>5. ASSUME NEW x \in D, m[x] <= k PROVE h[x] = B[<<h, x>>]
    <3>1. \A y \in D : m[y] < m[x] => g[y] = h[y]
       BY <2>3, <2>5
    <3>2. B[<<g, x>>] = B[<<h, x>>]
       <4> HIDE DEF h
       <4> QED BY <2>4, <3>1
    <3> QED BY <3>2
  <2>6. Sol(k, h)
    <3> HIDE DEF h
    <3> QED BY <2>4, <2>5
  <2> QED BY <2>1, <2>6
<1> DEFINE G(limit) == CHOOSE g : Sol(limit, g)
           F == [x \in D |-> G(m[x])[x]]
<1>3. \A limit \in Nat : Sol(limit, G(limit))
  BY <1>2
<1> HIDE DEF G
<1>4. F \in [D -> C]
  <2>1. \A x \in D : m[x] \in Nat OBVIOUS
  <2> QED BY <1>3, <2>1
<1>5. ASSUME NEW x \in D PROVE F[x] = B[<<F, x>>]
  <2> DEFINE g == G(m[x])
  <2>1. Sol(m[x], g) /\ m[x] \in Nat BY <1>3
  <2>2. ASSUME NEW y \in D, m[y] < m[x] PROVE g[y] = F[y]
    <3>1. m[y] \in Nat /\ Sol(m[y], G(m[y]))
      BY <1>3
    <3>2. m[y] <= m[x] /\ m[y] <= m[y]
      BY <2>1, <2>2, <3>1
    <3> HIDE DEF Sol
    <3>3. G(m[y])[y] = g[y]
      BY <1>1, <2>1, <3>1, <3>2
    <3> QED BY <3>3
  <2>3. B[<<g, x>>] = B[<<F, x>>]
    <3> HIDE DEF F, g
    <3> QED BY <1>4, <2>1, <2>2
  <2> QED BY <2>1, <2>3
<1> QED BY <1>4, <1>5 DEF Satisfiable

\* The fold of the sequences over A from c by `step' exists.
Foldable(A, C, c, step) ==
    \E f \in [Seq(A) -> C] :
        /\ f[<<>>] = c
        /\ \A q \in Seq(A) : q # <<>> =>
               f[q] = step[<<f[SubSeq(q, 1, Len(q) - 1)], q[Len(q)]>>]

(* A fold over sequences: a start and a step define a function on them. *)
LEMMA SeqFold ==
    ASSUME NEW A, NEW C, NEW c \in C, NEW step \in [C \X A -> C]
    PROVE  Foldable(A, C, c, step)
<1> DEFINE D == Seq(A)
           Body(g, q) == IF q = <<>> THEN c
                         ELSE step[<<g[SubSeq(q, 1, Len(q) - 1)], q[Len(q)]>>]
           B == [pr \in [D -> C] \X D |-> Body(pr[1], pr[2])]
           m == [q \in D |-> Len(q)]
<1>1. m \in [D -> Nat] /\ \A q \in D : m[q] = Len(q)
  OBVIOUS
<1>2. \A g \in [D -> C], q \in D : B[<<g, q>>] = Body(g, q)
  OBVIOUS
<1>3. \A q \in D : q # <<>> => /\ SubSeq(q, 1, Len(q) - 1) \in D
                              /\ m[SubSeq(q, 1, Len(q) - 1)] < m[q]
                              /\ q[Len(q)] \in A
  OBVIOUS
<1> HIDE DEF m
<1> HIDE DEF B, D
<1>4. ASSUME NEW g \in [D -> C], NEW q \in D PROVE Body(g, q) \in C
  <2>1. q # <<>> => g[SubSeq(q, 1, Len(q) - 1)] \in C
    BY <1>3
  <2>2. q # <<>> => step[<<g[SubSeq(q, 1, Len(q) - 1)], q[Len(q)]>>] \in C
    BY <1>3, <2>1
  <2> QED BY <2>2
<1>5. ASSUME NEW g \in [D -> C], NEW h \in [D -> C], NEW q \in D,
             \A y \in D : m[y] < m[q] => g[y] = h[y]
      PROVE  Body(g, q) = Body(h, q)
  <2>1. q # <<>> => g[SubSeq(q, 1, Len(q) - 1)] = h[SubSeq(q, 1, Len(q) - 1)]
    BY <1>3, <1>5
  <2> QED BY <2>1
<1> HIDE DEF Body
<1>6. Yields(D, C, B)
  BY <1>2, <1>4 DEF Yields
<1>7. LooksBelow(D, C, m, B)
  <2> SUFFICES ASSUME NEW g \in [D -> C], NEW h \in [D -> C], NEW q \in D,
                      \A y \in D : m[y] < m[q] => g[y] = h[y]
               PROVE  B[<<g, q>>] = B[<<h, q>>]
    BY DEF LooksBelow
  <2>1. Body(g, q) = Body(h, q)
    BY <1>5, Zenon
  <2> QED BY <1>2, <2>1
<1>8. m \in [D -> Nat]
  BY <1>1
<1>9. Satisfiable(D, C, B)
  BY <1>6, <1>7, <1>8, WellDefined, Zenon
<1>10. PICK f \in [D -> C] : \A q \in D : f[q] = B[<<f, q>>]
  BY <1>9 DEF Satisfiable
<1>11. \A q \in D : f[q] = Body(f, q)
  BY <1>2, <1>10
<1>12. <<>> \in Seq(A)
  OBVIOUS
<1>13. f \in [Seq(A) -> C] /\ f[<<>>] = c
  BY <1>10, <1>11, <1>12 DEF D, Body
<1>14. \A q \in Seq(A) : q # <<>> =>
           f[q] = step[<<f[SubSeq(q, 1, Len(q) - 1)], q[Len(q)]>>]
  BY <1>11 DEF D, Body
<1> QED BY <1>13, <1>14 DEF Foldable

-----------------------------------------------------------------------------

(* The canonical path: its recursive functions satisfy their equations, its *)
(* stacks have real elements only, and a spelled stack reads as itself.      *)

LEMMA SingletonSeq == ASSUME NEW A, NEW c \in A PROVE <<c>> \in Seq(A)
OBVIOUS

\* A '/' alone is a text.
LEMMA SlashIsText == <<"/">> \in Seq(STRING)
<1>1. "/" \in STRING
  BY SpecialBytes, BytesAreStrings
<1> QED BY <1>1, SingletonSeq


\* What a path has been read as: a stack and the element behind it.
Read == [stack : Seq(Seq(STRING)), element : Seq(STRING)]

LEMMA StackedType == \A s \in Read : Stacked(s) \in Seq(Seq(STRING))
<1> SUFFICES ASSUME NEW s \in Read PROVE Stacked(s) \in Seq(Seq(STRING))
  OBVIOUS
<1>1. s.stack \in Seq(Seq(STRING)) /\ s.element \in Seq(STRING)
  BY DEF Read
<1>2. Append(s.stack, s.element) \in Seq(Seq(STRING)) /\ AllButLast(s.stack) \in Seq(Seq(STRING))
  BY <1>1 DEF AllButLast
<1> QED BY <1>1, <1>2 DEF Stacked

LEMMA AfterByteType == \A s \in Read, c \in STRING : AfterByte(s, c) \in Read
<1> SUFFICES ASSUME NEW s \in Read, NEW c \in STRING PROVE AfterByte(s, c) \in Read
  OBVIOUS
<1>1. s.stack \in Seq(Seq(STRING)) /\ s.element \in Seq(STRING) /\ Stacked(s) \in Seq(Seq(STRING))
  BY StackedType DEF Read
<1>2. Append(s.element, c) \in Seq(STRING)
  BY <1>1
<1> QED BY <1>1, <1>2 DEF AfterByte, Read

\* After satisfies its equation for every path.
LEMMA AfterDef ==
    /\ After[<<>>] = NothingRead
    /\ \A q \in Seq(STRING) :
           q # <<>> => After[q] = AfterByte(After[AllButLast(q)], q[Len(q)])
<1> DEFINE step == [sc \in Read \X STRING |-> AfterByte(sc[1], sc[2])]
           Body(g) == [q \in Seq(STRING) |->
                          IF q = <<>> THEN NothingRead
                          ELSE AfterByte(g[AllButLast(q)], q[Len(q)])]
<1>1. step \in [Read \X STRING -> Read]
  BY AfterByteType
<1>2. NothingRead \in Read
  BY DEF NothingRead, Read
<1>3. \A s \in Read, c \in STRING : step[<<s, c>>] = AfterByte(s, c)
  OBVIOUS
<1>4. PICK f \in [Seq(STRING) -> Read] :
               /\ f[<<>>] = NothingRead
               /\ \A q \in Seq(STRING) : q # <<>> =>
                      f[q] = step[<<f[SubSeq(q, 1, Len(q) - 1)], q[Len(q)]>>]
  <2> HIDE DEF step
  <2>1. Foldable(STRING, Read, NothingRead, step)
    BY <1>1, <1>2, SeqFold, Zenon
  <2> QED BY <2>1, Zenon DEF Foldable
<1> HIDE DEF step
<1>5. \A q \in Seq(STRING) : q # <<>> => AllButLast(q) \in Seq(STRING) /\ q[Len(q)] \in STRING
  BY DEF AllButLast
<1>6. ASSUME NEW q \in Seq(STRING), q # <<>>
      PROVE  f[q] = AfterByte(f[AllButLast(q)], q[Len(q)])
  BY <1>3, <1>4, <1>5, <1>6 DEF AllButLast
<1>7. f = Body(f)
  BY <1>4, <1>6
<1>8. After = CHOOSE g : g = Body(g)
  BY DEF After
<1>9. After = Body(After)
  <2> HIDE DEF Body
  <2> QED BY <1>7, <1>8
<1>10. \A q \in Seq(STRING) : After[q] = Body(After)[q]
  BY <1>9, Zenon
<1>11. <<>> \in Seq(STRING)
  OBVIOUS
<1>12. \A q \in Seq(STRING) : Body(After)[q] = IF q = <<>> THEN NothingRead
                          ELSE AfterByte(After[AllButLast(q)], q[Len(q)])
  BY Zenon
<1> HIDE DEF Body
<1> QED BY <1>10, <1>11, <1>12, Zenon

\* Every path is read as a stack of texts and a text.
LEMMA AfterType == \A q \in Seq(STRING) : After[q] \in Read
<1> DEFINE T == {q \in Seq(STRING) : After[q] \in Read}
<1>1. <<>> \in T
  <2>1. <<>> \in Seq(STRING) /\ NothingRead \in Read
    BY DEF NothingRead, Read
  <2> QED BY <2>1, AfterDef
<1>2. ASSUME NEW q \in Seq(STRING), q # <<>>, AllButLast(q) \in T PROVE q \in T
  <2>1. q[Len(q)] \in STRING /\ After[AllButLast(q)] \in Read
    BY <1>2
  <2>2. After[q] = AfterByte(After[AllButLast(q)], q[Len(q)])
    BY <1>2, AfterDef, Zenon
  <2> QED BY <2>1, <2>2, AfterByteType
<1>3. Seq(STRING) \subseteq T
  <2> HIDE DEF T
  <2>1. \A q \in Seq(STRING) : q # <<>> /\ SubSeq(q, 1, Len(q) - 1) \in T => q \in T
    BY <1>2 DEF AllButLast
  <2> QED BY <1>1, <2>1, SeqInduction
<1> QED BY <1>3

\* The first bytes of a sequence.
LEMMA FirstPart ==
    ASSUME NEW A, NEW s \in Seq(A), NEW k \in 0..Len(s)
    PROVE  /\ SubSeq(s, 1, k) \in Seq(A) /\ Len(SubSeq(s, 1, k)) = k
           /\ \A i \in 1..k : SubSeq(s, 1, k)[i] = s[i]
OBVIOUS

\* The first part and the last member of a sequence.
LEMMA Ends ==
    ASSUME NEW A, NEW s \in Seq(A), s # <<>>
    PROVE  /\ AllButLast(s) \in Seq(A) /\ s[Len(s)] \in A
           /\ Len(AllButLast(s)) = Len(s) - 1
           /\ \A i \in 1..Len(s) - 1 : AllButLast(s)[i] = s[i]
           /\ s = Append(AllButLast(s), s[Len(s)])
<1>1. Len(s) \in Nat \ {0} /\ \A i \in 1..Len(s) : s[i] \in A
  OBVIOUS
<1>2. /\ AllButLast(s) \in Seq(A) /\ s[Len(s)] \in A
      /\ Len(AllButLast(s)) = Len(s) - 1
      /\ \A i \in 1..Len(s) - 1 : AllButLast(s)[i] = s[i]
  <2>1. Len(s) - 1 \in 0..Len(s) /\ Len(s) \in 1..Len(s)
    BY <1>1
  <2>2. AllButLast(s) \in Seq(A) /\ Len(AllButLast(s)) = Len(s) - 1
    BY <2>1, FirstPart DEF AllButLast
  <2>3. \A i \in 1..Len(s) - 1 : AllButLast(s)[i] = s[i]
    BY <2>1, FirstPart DEF AllButLast
  <2> QED BY <1>1, <2>1, <2>2, <2>3
<1> DEFINE t == Append(AllButLast(s), s[Len(s)])
<1>3. t \in Seq(A) /\ Len(t) = Len(s) /\ \A i \in 1..Len(s) : t[i] = s[i]
  BY <1>1, <1>2
<1>4. s = t
  <2> HIDE DEF t
  <2> QED BY <1>3, SeqEqual
<1> QED BY <1>2, <1>4

LEMMA EndsOfAppend ==
    ASSUME NEW A, NEW s \in Seq(A), NEW a \in A
    PROVE  /\ Append(s, a) \in Seq(A) /\ Append(s, a) # <<>>
           /\ AllButLast(Append(s, a)) = s
           /\ Append(s, a)[Len(Append(s, a))] = a
BY DEF AllButLast

\* Reading one more byte.
LEMMA AfterAppend ==
    \A q \in Seq(STRING), c \in STRING : After[Append(q, c)] = AfterByte(After[q], c)
<1> SUFFICES ASSUME NEW q \in Seq(STRING), NEW c \in STRING
             PROVE  After[Append(q, c)] = AfterByte(After[q], c)
  OBVIOUS
<1>1. /\ Append(q, c) \in Seq(STRING) /\ Append(q, c) # <<>>
      /\ AllButLast(Append(q, c)) = q
      /\ Append(q, c)[Len(Append(q, c))] = c
  BY EndsOfAppend
<1> QED BY <1>1, AfterDef

\* Joined satisfies its equation for every stack, and yields a text.
LEMMA JoinedDef ==
    /\ Joined[<<>>] = <<>>
    /\ \A st \in Seq(Seq(STRING)) :
           st # <<>> => Joined[st] = Joined[AllButLast(st)] \o <<"/">> \o st[Len(st)]
    /\ \A st \in Seq(Seq(STRING)) : Joined[st] \in Seq(STRING)
<1> DEFINE step == [te \in Seq(STRING) \X Seq(STRING) |-> te[1] \o <<"/">> \o te[2]]
           Body(g) == [st \in Seq(Seq(STRING)) |->
                          IF st = <<>> THEN <<>>
                          ELSE g[AllButLast(st)] \o <<"/">> \o st[Len(st)]]
<1>0. ASSUME NEW s \in Seq(STRING), NEW t \in Seq(STRING)
      PROVE  s \o <<"/">> \o t \in Seq(STRING)
  <2>1. s \o <<"/">> \in Seq(STRING)
    BY SlashIsText, ConcatProperties
  <2> QED BY <2>1, ConcatProperties
<1>1. step \in [Seq(STRING) \X Seq(STRING) -> Seq(STRING)]
  BY <1>0
<1>2. <<>> \in Seq(STRING)
  OBVIOUS
<1>3. \A s, t \in Seq(STRING) : step[<<s, t>>] = s \o <<"/">> \o t
  BY Zenon
<1>4. PICK f \in [Seq(Seq(STRING)) -> Seq(STRING)] :
               /\ f[<<>>] = <<>>
               /\ \A q \in Seq(Seq(STRING)) : q # <<>> =>
                      f[q] = step[<<f[SubSeq(q, 1, Len(q) - 1)], q[Len(q)]>>]
  <2> HIDE DEF step
  <2>1. Foldable(Seq(STRING), Seq(STRING), <<>>, step)
    BY <1>1, <1>2, SeqFold, Zenon
  <2> QED BY <2>1, Zenon DEF Foldable
<1> HIDE DEF step
<1>5. \A q \in Seq(Seq(STRING)) :
          q # <<>> => AllButLast(q) \in Seq(Seq(STRING)) /\ q[Len(q)] \in Seq(STRING)
  BY DEF AllButLast
<1>6. ASSUME NEW q \in Seq(Seq(STRING)), q # <<>>
      PROVE  f[q] = f[AllButLast(q)] \o <<"/">> \o q[Len(q)]
  <2>1. f[AllButLast(q)] \in Seq(STRING) /\ q[Len(q)] \in Seq(STRING)
    BY <1>5, <1>6
  <2>2. f[q] = step[<<f[AllButLast(q)], q[Len(q)]>>]
    BY <1>4, <1>6 DEF AllButLast
  <2> QED BY <1>3, <2>1, <2>2, Zenon
<1>7. f = Body(f)
  BY <1>4, <1>6
<1>8. Joined = CHOOSE g : g = Body(g)
  BY DEF Joined
<1>9. Joined = Body(Joined)
  <2> HIDE DEF Body
  <2> QED BY <1>7, <1>8
<1>10. \A q \in Seq(Seq(STRING)) : Joined[q] = Body(Joined)[q]
  BY <1>9, Zenon
<1>11. <<>> \in Seq(Seq(STRING))
  OBVIOUS
<1>12. \A st \in Seq(Seq(STRING)) :
           Body(Joined)[st] = IF st = <<>> THEN <<>>
                              ELSE Joined[AllButLast(st)] \o <<"/">> \o st[Len(st)]
  BY Zenon
<1> HIDE DEF Body
<1>13. Joined[<<>>] = <<>>
  BY <1>10, <1>11, <1>12, Zenon
<1>14. ASSUME NEW st \in Seq(Seq(STRING)), st # <<>>
       PROVE  Joined[st] = Joined[AllButLast(st)] \o <<"/">> \o st[Len(st)]
  BY <1>10, <1>12, <1>14, Zenon
<1> DEFINE T == {st \in Seq(Seq(STRING)) : Joined[st] \in Seq(STRING)}
<1>15. <<>> \in T
  BY <1>2, <1>11, <1>13, Zenon
<1>16. ASSUME NEW st \in Seq(Seq(STRING)), st # <<>>, AllButLast(st) \in T PROVE st \in T
  <2>1. Joined[AllButLast(st)] \in Seq(STRING) /\ st[Len(st)] \in Seq(STRING)
    BY <1>5, <1>16
  <2>2. Joined[AllButLast(st)] \o <<"/">> \o st[Len(st)] \in Seq(STRING)
    BY <1>0, <2>1
  <2>3. Joined[st] \in Seq(STRING)
    BY <1>14, <1>16, <2>2
  <2> QED BY <2>3
<1>17. Seq(Seq(STRING)) \subseteq T
  <2> HIDE DEF T
  <2>1. \A q \in Seq(Seq(STRING)) : q # <<>> /\ SubSeq(q, 1, Len(q) - 1) \in T => q \in T
    BY <1>16 DEF AllButLast
  <2> QED BY <1>15, <2>1, SeqInduction
<1> QED BY <1>13, <1>14, <1>17

\* Elements as a stack has them: not empty, not "." or "..", without a '/'.
SlashFree(e) == \A i \in 1..Len(e) : e[i] # "/"
RealElement(e) == e \notin {<<>>, <<".">>, <<".", ".">>} /\ SlashFree(e)
Proper(stack) == stack \in Seq(Seq(STRING)) /\ \A i \in 1..Len(stack) : RealElement(stack[i])

LEMMA FrontProper ==
    ASSUME NEW st, Proper(st), st # <<>>
    PROVE  Proper(AllButLast(st)) /\ RealElement(st[Len(st)])
<1>1. st \in Seq(Seq(STRING)) /\ Len(st) \in 1..Len(st)
  BY DEF Proper
<1>2. /\ AllButLast(st) \in Seq(Seq(STRING)) /\ Len(AllButLast(st)) = Len(st) - 1
      /\ \A i \in 1..Len(st) - 1 : AllButLast(st)[i] = st[i]
  BY <1>1, Ends
<1> QED BY <1>1, <1>2 DEF Proper

LEMMA AppendProper ==
    ASSUME NEW st, Proper(st), NEW e \in Seq(STRING), RealElement(e)
    PROVE  Proper(Append(st, e))
BY AppendProperties DEF Proper

LEMMA StackedProper ==
    ASSUME NEW s \in Read, Proper(s.stack), SlashFree(s.element)
    PROVE  Proper(Stacked(s))
<1>1. s.stack \in Seq(Seq(STRING)) /\ s.element \in Seq(STRING)
  BY DEF Read
<1>2. CASE s.element \in {<<>>, <<".">>}
  BY <1>2 DEF Stacked
<1>3. CASE s.element = <<".", ".">> /\ s.element \notin {<<>>, <<".">>}
  <2>1. CASE s.stack = <<>>
    BY <1>3, <2>1 DEF Stacked
  <2>2. CASE s.stack # <<>>
    <3>1. Stacked(s) = AllButLast(s.stack)
      BY <1>3, <2>2 DEF Stacked
    <3> QED BY <2>2, <3>1, FrontProper
  <2> QED BY <2>1, <2>2
<1>4. CASE s.element \notin {<<>>, <<".">>, <<".", ".">>}
  <2>1. Stacked(s) = Append(s.stack, s.element) /\ RealElement(s.element)
    BY <1>4 DEF Stacked, RealElement
  <2> QED BY <1>1, <2>1, AppendProper
<1> QED BY <1>2, <1>3, <1>4

LEMMA AfterByteProper ==
    ASSUME NEW s \in Read, NEW c \in STRING, Proper(s.stack), SlashFree(s.element)
    PROVE  Proper(AfterByte(s, c).stack) /\ SlashFree(AfterByte(s, c).element)
<1>1. CASE c = "/"
  <2>1. AfterByte(s, c).stack = Stacked(s) /\ AfterByte(s, c).element = <<>>
    BY <1>1 DEF AfterByte
  <2>2. SlashFree(<<>>)
    BY DEF SlashFree
  <2> QED BY <2>1, <2>2, StackedProper
<1>2. CASE c # "/"
  <2>1. AfterByte(s, c).stack = s.stack /\ AfterByte(s, c).element = Append(s.element, c)
    BY <1>2 DEF AfterByte
  <2>2. s.element \in Seq(STRING)
    BY DEF Read
  <2>3. SlashFree(Append(s.element, c))
    BY <1>2, <2>2, AppendProperties DEF SlashFree
  <2> QED BY <2>1, <2>3
<1> QED BY <1>1, <1>2

\* A stack only ever has real elements.
LEMMA AfterProper ==
    \A q \in Seq(STRING) : Proper(After[q].stack) /\ SlashFree(After[q].element)
<1> DEFINE T == {q \in Seq(STRING) : Proper(After[q].stack) /\ SlashFree(After[q].element)}
<1>1. <<>> \in T
  <2>1. After[<<>>].stack = <<>> /\ After[<<>>].element = <<>>
    BY AfterDef DEF NothingRead
  <2>2. SlashFree(<<>>) /\ Proper(<<>>) /\ <<>> \in Seq(STRING)
    BY DEF SlashFree, Proper
  <2> QED BY <2>1, <2>2
<1>2. ASSUME NEW q \in Seq(STRING), q # <<>>, AllButLast(q) \in T PROVE q \in T
  <2>1. q[Len(q)] \in STRING /\ AllButLast(q) \in Seq(STRING)
    BY <1>2, Ends
  <2>2. After[AllButLast(q)] \in Read
    BY <2>1, AfterType
  <2>3. After[q] = AfterByte(After[AllButLast(q)], q[Len(q)])
    BY <1>2, AfterDef, Zenon
  <2>4. Proper(After[AllButLast(q)].stack) /\ SlashFree(After[AllButLast(q)].element)
    BY <1>2
  <2> QED BY <2>1, <2>2, <2>3, <2>4, AfterByteProper
<1>3. Seq(STRING) \subseteq T
  <2> HIDE DEF T
  <2>1. \A q \in Seq(STRING) : q # <<>> /\ SubSeq(q, 1, Len(q) - 1) \in T => q \in T
    BY <1>2 DEF AllButLast
  <2> QED BY <1>1, <2>1, SeqInduction
<1> QED BY <1>3

LEMMA JoinedAppend ==
    ASSUME NEW st \in Seq(Seq(STRING)), NEW e \in Seq(STRING)
    PROVE  Joined[Append(st, e)] = Joined[st] \o <<"/">> \o e
<1>1. /\ Append(st, e) \in Seq(Seq(STRING)) /\ Append(st, e) # <<>>
      /\ AllButLast(Append(st, e)) = st
      /\ Append(st, e)[Len(Append(st, e))] = e
  BY EndsOfAppend
<1> QED BY <1>1, JoinedDef

\* Two texts with a '/' in between, place by place.
LEMMA ConcatThree ==
    ASSUME NEW f \in Seq(STRING), NEW e \in Seq(STRING)
    PROVE  LET t == f \o <<"/">> \o e IN
           /\ t \in Seq(STRING) /\ Len(t) = Len(f) + 1 + Len(e)
           /\ \A i \in 1..Len(f) : t[i] = f[i]
           /\ t[Len(f) + 1] = "/"
           /\ \A i \in 1..Len(e) : t[Len(f) + 1 + i] = e[i]
<1> DEFINE h == f \o <<"/">>
           t == h \o e
<1>1. Len(f) \in Nat /\ Len(e) \in Nat /\ <<"/">> \in Seq(STRING) /\ Len(<<"/">>) = 1
  BY SlashIsText
<1>2. h \in Seq(STRING) /\ Len(h) = Len(f) + 1
  BY <1>1, ConcatProperties
<1>3. \A i \in 1..Len(f) + 1 : h[i] = IF i <= Len(f) THEN f[i] ELSE <<"/">>[i - Len(f)]
  BY <1>1, ConcatProperties
<1>4. (\A i \in 1..Len(f) : h[i] = f[i]) /\ h[Len(f) + 1] = "/"
  <2> HIDE DEF h
  <2>1. Len(f) + 1 - Len(f) = 1 /\ <<"/">>[1] = "/"
    BY <1>1
  <2> QED BY <1>1, <1>3, <2>1
<1> HIDE DEF h
<1>5. t \in Seq(STRING) /\ Len(t) = Len(f) + 1 + Len(e)
  <2>1. t \in Seq(STRING)
    BY <1>2, ConcatProperties
  <2>2. Len(t) = Len(h) + Len(e)
    BY <1>2, ConcatProperties
  <2> QED BY <1>1, <1>2, <2>1, <2>2
<1>6. \A i \in 1..Len(h) + Len(e) : t[i] = IF i <= Len(h) THEN h[i] ELSE e[i - Len(h)]
  BY <1>1, <1>2, ConcatProperties
<1> HIDE DEF t
<1>7. /\ \A i \in 1..Len(f) : t[i] = f[i]
      /\ t[Len(f) + 1] = "/"
      /\ \A i \in 1..Len(e) : t[Len(f) + 1 + i] = e[i]
  BY <1>1, <1>2, <1>4, <1>6
<1> QED BY <1>5, <1>7 DEF t, h

\* A joined stack ends in a '/' and the last element.
LEMMA JoinedShape ==
    ASSUME NEW st \in Seq(Seq(STRING)), st # <<>>
    PROVE  LET f == Joined[AllButLast(st)]
               e == st[Len(st)]
               t == Joined[st]
           IN  /\ f \in Seq(STRING) /\ e \in Seq(STRING) /\ t \in Seq(STRING)
               /\ Len(t) = Len(f) + 1 + Len(e)
               /\ \A i \in 1..Len(f) : t[i] = f[i]
               /\ t[Len(f) + 1] = "/"
               /\ \A i \in 1..Len(e) : t[Len(f) + 1 + i] = e[i]
<1>1. AllButLast(st) \in Seq(Seq(STRING)) /\ st[Len(st)] \in Seq(STRING)
  BY Ends
<1>2. Joined[AllButLast(st)] \in Seq(STRING) /\ Joined[st] \in Seq(STRING)
  BY <1>1, JoinedDef
<1>3. Joined[st] = Joined[AllButLast(st)] \o <<"/">> \o st[Len(st)]
  BY JoinedDef
<1> DEFINE f == Joined[AllButLast(st)]
           e == st[Len(st)]
           t == Joined[st]
<1>4. f \in Seq(STRING) /\ e \in Seq(STRING) /\ t \in Seq(STRING) /\ t = f \o <<"/">> \o e
  BY <1>1, <1>2, <1>3
<1> HIDE DEF f, e, t
<1>5. /\ Len(t) = Len(f) + 1 + Len(e)
      /\ \A i \in 1..Len(f) : t[i] = f[i]
      /\ t[Len(f) + 1] = "/"
      /\ \A i \in 1..Len(e) : t[Len(f) + 1 + i] = e[i]
  BY <1>4, ConcatThree, ZenonT(40)
<1> QED BY <1>4, <1>5 DEF f, e, t

(* Every joined stack but the empty one starts with a '/'. *)
LEMMA JoinedStart ==
    \A st \in Seq(Seq(STRING)) : st # <<>> => Len(Joined[st]) \in Nat \ {0} /\ Joined[st][1] = "/"
<1> DEFINE Starts(t) == Len(t) \in Nat \ {0} /\ t[1] = "/"
           T == {st \in Seq(Seq(STRING)) : st # <<>> => Starts(Joined[st])}
<1>1. <<>> \in T
  BY Zenon, EmptySeq
<1>2. ASSUME NEW st \in Seq(Seq(STRING)), st # <<>>, AllButLast(st) \in T PROVE st \in T
  <2> DEFINE f == Joined[AllButLast(st)]
             e == st[Len(st)]
             t == Joined[st]
  <2>1. /\ f \in Seq(STRING) /\ e \in Seq(STRING) /\ t \in Seq(STRING)
        /\ Len(t) = Len(f) + 1 + Len(e)
        /\ \A i \in 1..Len(f) : t[i] = f[i]
        /\ t[Len(f) + 1] = "/"
    BY <1>2, JoinedShape
  <2>2. AllButLast(st) # <<>> => Starts(f)
    BY <1>2
  <2>3. AllButLast(st) = <<>> => f = <<>>
    BY JoinedDef
  <2> HIDE DEF f, e, t
  <2>4. Starts(t)
    BY <2>1, <2>2, <2>3
  <2> QED BY <2>4 DEF t
<1>3. Seq(Seq(STRING)) \subseteq T
  <2> HIDE DEF T
  <2>1. \A q \in Seq(Seq(STRING)) : q # <<>> /\ SubSeq(q, 1, Len(q) - 1) \in T => q \in T
    BY <1>2 DEF AllButLast
  <2> QED BY <1>1, <2>1, SeqInduction
<1> QED BY <1>3

\* Bytes other than '/' are read into the element.
LEMMA AfterElement ==
    ASSUME NEW q \in Seq(STRING), After[q].element = <<>>,
           NEW e \in Seq(STRING), SlashFree(e)
    PROVE  After[q \o e] = [stack |-> After[q].stack, element |-> e]
<1> DEFINE Reads(x) == After[q \o x] = [stack |-> After[q].stack, element |-> x]
           T == {x \in Seq(STRING) : SlashFree(x) => Reads(x)}
<1>1. <<>> \in T
  <2>1. q \o <<>> = q /\ <<>> \in Seq(STRING)
    BY ConcatEmptySeq
  <2>2. After[q] \in Read
    BY AfterType
  <2>3. After[q] = [stack |-> After[q].stack, element |-> <<>>]
    BY <2>2 DEF Read
  <2> QED BY <2>1, <2>3
<1>2. ASSUME NEW x \in Seq(STRING), x # <<>>, AllButLast(x) \in T, SlashFree(x) PROVE Reads(x)
  <2> DEFINE y == AllButLast(x)
             c == x[Len(x)]
  <2>1. y \in Seq(STRING) /\ c \in STRING /\ x = Append(y, c) /\ Len(y) = Len(x) - 1
    BY <1>2, Ends
  <2>2. \A i \in 1..Len(x) - 1 : y[i] = x[i]
    BY <1>2, Ends
  <2>3. c # "/" /\ SlashFree(y)
    BY <1>2, <2>1, <2>2 DEF SlashFree
  <2>4. Reads(y)
    BY <1>2, <2>3
  <2> HIDE DEF y, c
  <2>5. q \o x = Append(q \o y, c) /\ q \o y \in Seq(STRING)
    BY <2>1
  <2>6. After[q \o x] = AfterByte(After[q \o y], c)
    BY <2>1, <2>5, AfterAppend
  <2> QED BY <2>1, <2>3, <2>4, <2>6 DEF AfterByte
<1>3. Seq(STRING) \subseteq T
  <2> HIDE DEF T
  <2>1. \A x \in Seq(STRING) : x # <<>> /\ SubSeq(x, 1, Len(x) - 1) \in T => x \in T
    <3>1. \A x \in Seq(STRING) : x # <<>> /\ AllButLast(x) \in T => x \in T
      BY <1>2 DEF T
    <3> QED BY <3>1 DEF AllButLast
  <2> QED BY <1>1, <2>1, SeqInduction
<1> QED BY <1>3

LEMMA StackedReal ==
    ASSUME NEW s, RealElement(s.element)
    PROVE  Stacked(s) = Append(s.stack, s.element)
BY DEF Stacked, RealElement

\* A '/' ends the element, and does not change the elements read.
LEMMA SlashEnds ==
    ASSUME NEW q \in Seq(STRING)
    PROVE  /\ Append(q, "/") \in Seq(STRING) /\ Append(q, "/") = q \o <<"/">>
           /\ After[Append(q, "/")] = [stack |-> Elements(q), element |-> <<>>]
           /\ Elements(Append(q, "/")) = Elements(q)
<1>1. "/" \in STRING
  BY SpecialBytes, BytesAreStrings
<1>2. Append(q, "/") \in Seq(STRING) /\ Append(q, "/") = q \o <<"/">>
  BY <1>1, AppendProperties, AppendIsConcat
<1>3. After[Append(q, "/")] = AfterByte(After[q], "/")
  BY <1>1, AfterAppend
<1>4. After[Append(q, "/")] = [stack |-> Elements(q), element |-> <<>>]
  BY <1>3 DEF AfterByte, Elements
<1>5. Elements(Append(q, "/")) = Elements(q)
  BY <1>4 DEF Elements, Stacked
<1> QED BY <1>2, <1>4, <1>5

LEMMA ElementsOfNothing == Elements(<<>>) = <<>>
BY AfterDef DEF Elements, Stacked, NothingRead

(* Reading a spelled stack gives the stack again. *)
LEMMA AfterJoined ==
    \A st \in Seq(Seq(STRING)) : Proper(st) /\ st # <<>> =>
        After[Joined[st]] = [stack |-> AllButLast(st), element |-> st[Len(st)]]
<1> DEFINE Reads(st) == After[Joined[st]] = [stack |-> AllButLast(st), element |-> st[Len(st)]]
           T == {st \in Seq(Seq(STRING)) : Proper(st) /\ st # <<>> => Reads(st)}
<1>1. <<>> \in T
  BY Zenon, EmptySeq
<1>2. ASSUME NEW st \in Seq(Seq(STRING)), st # <<>>, AllButLast(st) \in T, Proper(st)
      PROVE  Reads(st)
  <2> DEFINE F == AllButLast(st)
             e == st[Len(st)]
             f == Joined[F]
  <2>1. F \in Seq(Seq(STRING)) /\ e \in Seq(STRING) /\ f \in Seq(STRING)
    BY <1>2, Ends, JoinedDef
  <2>2. Proper(F) /\ RealElement(e)
    BY <1>2, FrontProper
  <2>3. F # <<>> => Reads(F)
    BY <1>2, <2>2
  <2>4. Joined[st] = f \o <<"/">> \o e
    BY <1>2, JoinedDef
  <2>5. Elements(f) = F
    <3>1. CASE F = <<>>
      <4>1. f = <<>>
        BY <3>1, JoinedDef
      <4> QED BY <3>1, <4>1, ElementsOfNothing
    <3>2. CASE F # <<>>
      <4>1. After[f].stack = AllButLast(F) /\ After[f].element = F[Len(F)]
        BY <2>3, <3>2
      <4>2. RealElement(F[Len(F)]) /\ F = Append(AllButLast(F), F[Len(F)])
        BY <2>1, <2>2, <3>2, FrontProper, Ends
      <4>3. Stacked(After[f]) = Append(After[f].stack, After[f].element)
        BY <4>1, <4>2, StackedReal
      <4> QED BY <4>1, <4>2, <4>3 DEF Elements
    <3> QED BY <3>1, <3>2
  <2> HIDE DEF F, e, f
  <2>6. After[f \o <<"/">>] = [stack |-> F, element |-> <<>>] /\ f \o <<"/">> \in Seq(STRING)
    BY <2>1, <2>5, SlashEnds
  <2>7. SlashFree(e)
    BY <2>2 DEF RealElement
  <2> DEFINE q == f \o <<"/">>
  <2>8. q \in Seq(STRING) /\ After[q].element = <<>> /\ After[q].stack = F
    BY <2>6
  <2> HIDE DEF q
  <2>9. After[q \o e] = [stack |-> F, element |-> e]
    BY <2>1, <2>7, <2>8, AfterElement
  <2> QED BY <2>4, <2>9 DEF q, F, e
<1>3. Seq(Seq(STRING)) \subseteq T
  <2> HIDE DEF T
  <2>1. \A st \in Seq(Seq(STRING)) : st # <<>> /\ SubSeq(st, 1, Len(st) - 1) \in T => st \in T
    <3>1. \A st \in Seq(Seq(STRING)) : st # <<>> /\ AllButLast(st) \in T => st \in T
      BY <1>2 DEF T
    <3> QED BY <3>1 DEF AllButLast
  <2> QED BY <1>1, <2>1, SeqInduction
<1> QED BY <1>3

\* So a canonical path has the elements it spells ...
LEMMA ElementsOfSpelled ==
    ASSUME NEW st, Proper(st)
    PROVE  Spelled(st) \in Seq(STRING) /\ Elements(Spelled(st)) = st
<1>1. CASE st = <<>>
  <2>1. Spelled(st) = Append(<<>>, "/") /\ <<>> \in Seq(STRING)
    BY <1>1 DEF Spelled
  <2> QED BY <1>1, <2>1, SlashEnds, ElementsOfNothing
<1>2. CASE st # <<>>
  <2>1. st \in Seq(Seq(STRING)) /\ Spelled(st) = Joined[st] /\ Joined[st] \in Seq(STRING)
    BY <1>2, JoinedDef DEF Spelled, Proper
  <2>2. After[Joined[st]] = [stack |-> AllButLast(st), element |-> st[Len(st)]]
    BY <1>2, <2>1, AfterJoined
  <2>3. RealElement(st[Len(st)]) /\ st = Append(AllButLast(st), st[Len(st)])
    BY <1>2, <2>1, FrontProper, Ends
  <2>4. Stacked(After[Joined[st]]) = Append(AllButLast(st), st[Len(st)])
    BY <2>2, <2>3, StackedReal
  <2> QED BY <2>1, <2>3, <2>4 DEF Elements
<1> QED BY <1>1, <1>2

\* ... and does not end like a directory unless a '/' is added.
LEMMA SpelledEnd ==
    ASSUME NEW st, Proper(st), st # <<>>
    PROVE  ~EndsInSlash(Spelled(st))
<1> DEFINE f == Joined[AllButLast(st)]
           e == st[Len(st)]
           t == Joined[st]
<1>1. st \in Seq(Seq(STRING)) /\ Spelled(st) = t
  BY DEF Spelled, Proper
<1>2. /\ f \in Seq(STRING) /\ e \in Seq(STRING) /\ t \in Seq(STRING)
      /\ Len(t) = Len(f) + 1 + Len(e)
      /\ t[Len(f) + 1] = "/"
      /\ \A i \in 1..Len(e) : t[Len(f) + 1 + i] = e[i]
  BY <1>1, JoinedShape
<1>3. RealElement(e)
  BY <1>1, FrontProper
<1> HIDE DEF f, e, t
<1>4. Len(e) # 0 /\ (\A i \in 1..Len(e) : e[i] # "/") /\ ~(Len(e) = 1 /\ e[1] = ".")
  BY <1>2, <1>3 DEF RealElement, SlashFree
<1>5. t[Len(t)] = e[Len(e)] /\ e[Len(e)] # "/"
  BY <1>2, <1>4
<1>6. Len(e) > 1 => t[Len(t) - 1] = e[Len(e) - 1] /\ e[Len(e) - 1] # "/"
  <2>0. Len(e) \in Nat /\ Len(f) \in Nat
    BY <1>2
  <2>1. Len(e) > 1 => Len(e) - 1 \in 1..Len(e) /\ Len(t) - 1 = Len(f) + 1 + (Len(e) - 1)
    BY <1>2, <2>0
  <2> QED BY <1>2, <1>4, <2>1
<1>7. ~EndsInSlash(t)
  <2>1. Len(e) \in Nat /\ Len(f) \in Nat /\ Len(t) > 0
    BY <1>2
  <2>2. CASE Len(e) = 1
    <3>1. t[Len(t)] # "/" /\ t[Len(t)] # "."
      BY <1>4, <1>5, <2>2
    <3> QED BY <3>1 DEF EndsInSlash
  <2>3. CASE Len(e) > 1
    <3>1. t[Len(t)] # "/" /\ t[Len(t) - 1] # "/" /\ Len(t) # 1
      BY <1>2, <1>5, <1>6, <2>1, <2>3
    <3> QED BY <3>1 DEF EndsInSlash
  <2>4. Len(e) = 1 \/ Len(e) > 1
    BY <1>4, <2>1
  <2> QED BY <2>2, <2>3, <2>4, Zenon
<1> QED BY <1>1, <1>7

(* A canonical path is its own canonical path (path_test.go:60-69). *)
LEMMA CleanedTwice ==
    ASSUME NEW q \in Seq(STRING)
    PROVE  Cleaned(q) \in Seq(STRING) /\ Cleaned(Cleaned(q)) = Cleaned(q)
<1> DEFINE st == Elements(q)
           t == Spelled(st)
<1>1. Proper(st)
  BY AfterType, AfterProper, StackedProper DEF Elements
<1>2. t \in Seq(STRING) /\ Elements(t) = st
  BY <1>1, ElementsOfSpelled
<1>3. /\ Append(t, "/") \in Seq(STRING) /\ Append(t, "/") = t \o <<"/">>
      /\ Elements(Append(t, "/")) = st
  BY <1>2, SlashEnds
<1>4. st # <<>> => ~EndsInSlash(t)
  BY <1>1, SpelledEnd
<1>5. EndsInSlash(Append(t, "/"))
  <2> HIDE DEF t
  <2> QED BY <1>2, AppendProperties DEF EndsInSlash
<1>6. t \o <<>> = t
  <2> HIDE DEF t
  <2> QED BY <1>2, ConcatEmptySeq
<1>7. Cleaned(q) = t \/ (st # <<>> /\ Cleaned(q) = Append(t, "/"))
  BY <1>3, <1>6 DEF Cleaned
<1>8. Cleaned(t) = t
  <2>1. ~(Elements(t) # <<>> /\ EndsInSlash(t))
    BY <1>2, <1>4
  <2>2. Cleaned(t) = Spelled(Elements(t)) \o <<>>
    BY <2>1 DEF Cleaned
  <2> QED BY <1>2, <1>6, <2>2
<1>9. st # <<>> => Cleaned(Append(t, "/")) = Append(t, "/")
  <2> SUFFICES ASSUME st # <<>> PROVE Cleaned(Append(t, "/")) = Append(t, "/")
    OBVIOUS
  <2>1. Cleaned(Append(t, "/")) = Spelled(Elements(Append(t, "/"))) \o <<"/">>
    BY <1>3, <1>5 DEF Cleaned
  <2> QED BY <1>3, <2>1
<1> HIDE DEF t, st
<1> QED BY <1>2, <1>3, <1>7, <1>8, <1>9

-----------------------------------------------------------------------------
(* Paths that are spelled alike stay alike when they are cleaned. *)

\* Sequences that differ only in members a relation takes for the same; bytes
\* may be taken for others, but not a '/' or a '.'.
Akin(R, s, t) == Len(t) = Len(s) /\ \A k \in 1..Len(s) : <<s[k], t[k]>> \in R
Unmistaken(R) ==
    /\ <<"/", "/">> \in R
    /\ \A b, c : <<b, c>> \in R => (b = "/" <=> c = "/") /\ (b = "." <=> c = ".")
Elementwise(R) == {ef \in Seq(STRING) \X Seq(STRING) : Akin(R, ef[1], ef[2])}
AkinRead(R, s, t) ==
    Akin(Elementwise(R), s.stack, t.stack) /\ Akin(R, s.element, t.element)

LEMMA AkinAppend ==
    ASSUME NEW A, NEW R, NEW s \in Seq(A), NEW t \in Seq(A), Akin(R, s, t),
           NEW a \in A, NEW b \in A, <<a, b>> \in R
    PROVE  Akin(R, Append(s, a), Append(t, b))
<1> DEFINE u == Append(s, a)
           v == Append(t, b)
<1>1. Len(s) \in Nat /\ Len(t) = Len(s)
  BY DEF Akin
<1>2. /\ Len(u) = Len(s) + 1 /\ Len(v) = Len(s) + 1
      /\ \A k \in 1..Len(s) : u[k] = s[k] /\ v[k] = t[k]
      /\ u[Len(s) + 1] = a /\ v[Len(s) + 1] = b
  BY <1>1, AppendProperties
<1> HIDE DEF u, v
<1>3. ASSUME NEW k \in 1..Len(u) PROVE <<u[k], v[k]>> \in R
  <2>1. k \in 1..Len(s) \/ k = Len(s) + 1
    BY <1>1, <1>2
  <2>2. CASE k \in 1..Len(s)
    BY <1>2, <2>2 DEF Akin
  <2>3. CASE k = Len(s) + 1
    BY <1>2, <2>3
  <2> QED BY <2>1, <2>2, <2>3
<1> QED BY <1>2, <1>3 DEF Akin, u, v

LEMMA AkinEnds ==
    ASSUME NEW A, NEW R, NEW s \in Seq(A), NEW t \in Seq(A), Akin(R, s, t), s # <<>>
    PROVE  /\ t # <<>> /\ Akin(R, AllButLast(s), AllButLast(t))
           /\ <<s[Len(s)], t[Len(t)]>> \in R
<1>1. Len(s) \in Nat \ {0} /\ Len(t) = Len(s)
  BY DEF Akin
<1>2. t # <<>>
  BY <1>1
<1>3. /\ Len(AllButLast(s)) = Len(s) - 1 /\ Len(AllButLast(t)) = Len(s) - 1
      /\ \A k \in 1..Len(s) - 1 : AllButLast(s)[k] = s[k] /\ AllButLast(t)[k] = t[k]
  BY <1>1, <1>2, Ends
<1>4. Len(s) \in 1..Len(s) /\ \A k \in 1..Len(s) - 1 : k \in 1..Len(s)
  BY <1>1
<1> QED BY <1>1, <1>2, <1>3, <1>4 DEF Akin

LEMMA AkinConcat ==
    ASSUME NEW R, NEW s \in Seq(STRING), NEW t \in Seq(STRING), Akin(R, s, t),
           NEW u \in Seq(STRING), NEW v \in Seq(STRING), Akin(R, u, v)
    PROVE  s \o u \in Seq(STRING) /\ t \o v \in Seq(STRING) /\ Akin(R, s \o u, t \o v)
<1> DEFINE x == s \o u
           y == t \o v
<1>1. Len(s) \in Nat /\ Len(u) \in Nat /\ Len(t) = Len(s) /\ Len(v) = Len(u)
  BY DEF Akin
<1>2. /\ x \in Seq(STRING) /\ y \in Seq(STRING)
      /\ Len(x) = Len(s) + Len(u) /\ Len(y) = Len(t) + Len(v)
      /\ \A k \in 1..Len(s) + Len(u) : x[k] = IF k <= Len(s) THEN s[k] ELSE u[k - Len(s)]
      /\ \A k \in 1..Len(t) + Len(v) : y[k] = IF k <= Len(t) THEN t[k] ELSE v[k - Len(t)]
  BY ConcatProperties
<1> HIDE DEF x, y
<1>3. ASSUME NEW k \in 1..Len(x) PROVE <<x[k], y[k]>> \in R
  <2>1. CASE k <= Len(s)
    <3>1. k \in 1..Len(s) /\ x[k] = s[k] /\ y[k] = t[k]
      BY <1>1, <1>2, <2>1
    <3> QED BY <3>1 DEF Akin
  <2>2. CASE ~(k <= Len(s))
    <3>1. k - Len(s) \in 1..Len(u) /\ x[k] = u[k - Len(s)] /\ y[k] = v[k - Len(s)]
      BY <1>1, <1>2, <2>2
    <3> QED BY <3>1 DEF Akin
  <2> QED BY <2>1, <2>2
<1> QED BY <1>1, <1>2, <1>3 DEF Akin, x, y

\* An element that is "", "." or ".." is so in every spelling.
LEMMA AkinDots ==
    ASSUME NEW R, Unmistaken(R), NEW s \in Seq(STRING), NEW t \in Seq(STRING), Akin(R, s, t)
    PROVE  /\ s = <<>> <=> t = <<>>
           /\ s = <<".">> <=> t = <<".">>
           /\ s = <<".", ".">> <=> t = <<".", ".">>
<1>1. Len(s) \in Nat /\ Len(t) = Len(s)
  BY DEF Akin
<1>2. \A k \in 1..Len(s) : s[k] = "." <=> t[k] = "."
  BY DEF Akin, Unmistaken
<1>3. ASSUME NEW q \in Seq(STRING)
      PROVE  /\ q = <<>> <=> Len(q) = 0
             /\ q = <<".">> <=> Len(q) = 1 /\ q[1] = "."
             /\ q = <<".", ".">> <=> Len(q) = 2 /\ q[1] = "." /\ q[2] = "."
  <2>1. q = <<>> <=> Len(q) = 0
    OBVIOUS
  <2>2. q = <<".">> <=> Len(q) = 1 /\ q[1] = "."
    OBVIOUS
  <2>3. q = <<".", ".">> <=> Len(q) = 2 /\ q[1] = "." /\ q[2] = "."
    OBVIOUS
  <2> QED BY <2>1, <2>2, <2>3
<1>4. Len(s) = 0 <=> Len(t) = 0
  BY <1>1
<1>5. Len(s) = 1 /\ s[1] = "." <=> Len(t) = 1 /\ t[1] = "."
  BY <1>1, <1>2
<1>6. Len(s) = 2 /\ s[1] = "." /\ s[2] = "." <=> Len(t) = 2 /\ t[1] = "." /\ t[2] = "."
  BY <1>1, <1>2
<1> QED BY <1>3, <1>4, <1>5, <1>6, Zenon

LEMMA AkinStacked ==
    ASSUME NEW R, Unmistaken(R), NEW s \in Read, NEW t \in Read, AkinRead(R, s, t)
    PROVE  Akin(Elementwise(R), Stacked(s), Stacked(t))
<1>1. /\ s.stack \in Seq(Seq(STRING)) /\ s.element \in Seq(STRING)
      /\ t.stack \in Seq(Seq(STRING)) /\ t.element \in Seq(STRING)
      /\ Akin(Elementwise(R), s.stack, t.stack) /\ Akin(R, s.element, t.element)
  BY DEF Read, AkinRead
<1>2. /\ s.element = <<>> <=> t.element = <<>>
      /\ s.element = <<".">> <=> t.element = <<".">>
      /\ s.element = <<".", ".">> <=> t.element = <<".", ".">>
  BY <1>1, AkinDots
<1>3. s.stack = <<>> <=> t.stack = <<>>
  <2>1. Len(s.stack) = Len(t.stack)
    BY <1>1 DEF Akin
  <2> QED BY <1>1, <2>1
<1>4. CASE s.element \in {<<>>, <<".">>}
  BY <1>1, <1>2, <1>4 DEF Stacked
<1>5. CASE s.element = <<".", ".">> /\ s.element \notin {<<>>, <<".">>}
  <2>1. CASE s.stack = <<>>
    <3>1. Stacked(s) = <<>> /\ Stacked(t) = <<>>
      BY <1>2, <1>3, <1>5, <2>1 DEF Stacked
    <3> QED BY <3>1 DEF Akin
  <2>2. CASE s.stack # <<>>
    <3>1. Stacked(s) = AllButLast(s.stack) /\ Stacked(t) = AllButLast(t.stack)
      BY <1>2, <1>3, <1>5, <2>2 DEF Stacked
    <3>2. Akin(Elementwise(R), AllButLast(s.stack), AllButLast(t.stack))
      BY <1>1, <2>2, AkinEnds
    <3> QED BY <3>1, <3>2, Zenon
  <2> QED BY <2>1, <2>2
<1>6. CASE s.element \notin {<<>>, <<".">>, <<".", ".">>}
  <2>1. Stacked(s) = Append(s.stack, s.element) /\ Stacked(t) = Append(t.stack, t.element)
    BY <1>2, <1>6 DEF Stacked
  <2>2. <<s.element, t.element>> \in Elementwise(R)
    BY <1>1 DEF Elementwise
  <2> QED BY <1>1, <2>1, <2>2, AkinAppend
<1> QED BY <1>4, <1>5, <1>6

LEMMA AkinAfterByte ==
    ASSUME NEW R, Unmistaken(R), NEW s \in Read, NEW t \in Read, AkinRead(R, s, t),
           NEW b \in STRING, NEW c \in STRING, <<b, c>> \in R
    PROVE  AkinRead(R, AfterByte(s, b), AfterByte(t, c))
<1>1. b = "/" <=> c = "/"
  BY DEF Unmistaken
<1>2. CASE b = "/"
  <2>1. /\ AfterByte(s, b).stack = Stacked(s) /\ AfterByte(t, c).stack = Stacked(t)
        /\ AfterByte(s, b).element = <<>> /\ AfterByte(t, c).element = <<>>
    BY <1>1, <1>2 DEF AfterByte
  <2>2. Akin(R, <<>>, <<>>)
    BY DEF Akin
  <2> QED BY <2>1, <2>2, AkinStacked DEF AkinRead
<1>3. CASE b # "/"
  <2>1. /\ AfterByte(s, b).stack = s.stack /\ AfterByte(t, c).stack = t.stack
        /\ AfterByte(s, b).element = Append(s.element, b)
        /\ AfterByte(t, c).element = Append(t.element, c)
    BY <1>1, <1>3 DEF AfterByte
  <2>2. s.element \in Seq(STRING) /\ t.element \in Seq(STRING)
    BY DEF Read
  <2>3. Akin(R, Append(s.element, b), Append(t.element, c))
    BY <2>2, AkinAppend DEF AkinRead
  <2> QED BY <2>1, <2>3 DEF AkinRead
<1> QED BY <1>2, <1>3

LEMMA AkinAfter ==
    ASSUME NEW R, Unmistaken(R)
    PROVE  \A p1, p2 \in Seq(STRING) : Akin(R, p1, p2) => AkinRead(R, After[p1], After[p2])
<1> DEFINE T == {q1 \in Seq(STRING) : \A q2 \in Seq(STRING) :
                    Akin(R, q1, q2) => AkinRead(R, After[q1], After[q2])}
<1>1. <<>> \in T
  <2> SUFFICES ASSUME NEW q2 \in Seq(STRING), Akin(R, <<>>, q2)
               PROVE  AkinRead(R, After[<<>>], After[q2])
    OBVIOUS
  <2>1. q2 = <<>>
    <3>1. Len(q2) = 0
      BY DEF Akin
    <3> QED BY <3>1
  <2>2. After[<<>>].stack = <<>> /\ After[<<>>].element = <<>>
    BY AfterDef DEF NothingRead
  <2> QED BY <2>1, <2>2 DEF AkinRead, Akin
<1>2. ASSUME NEW q1 \in Seq(STRING), q1 # <<>>, AllButLast(q1) \in T,
             NEW q2 \in Seq(STRING), Akin(R, q1, q2)
      PROVE  AkinRead(R, After[q1], After[q2])
  <2> DEFINE f1 == AllButLast(q1)
             f2 == AllButLast(q2)
             b == q1[Len(q1)]
             c == q2[Len(q2)]
  <2>1. q2 # <<>> /\ Akin(R, f1, f2) /\ <<b, c>> \in R
    BY <1>2, AkinEnds
  <2>2. f1 \in Seq(STRING) /\ f2 \in Seq(STRING) /\ b \in STRING /\ c \in STRING
    BY <1>2, <2>1, Ends
  <2>3. After[q1] = AfterByte(After[f1], b) /\ After[q2] = AfterByte(After[f2], c)
    BY <1>2, <2>1, AfterDef, Zenon
  <2>4. AkinRead(R, After[f1], After[f2])
    BY <1>2, <2>1, <2>2
  <2>5. After[f1] \in Read /\ After[f2] \in Read
    BY <2>2, AfterType
  <2> HIDE DEF f1, f2, b, c
  <2>6. AkinRead(R, AfterByte(After[f1], b), AfterByte(After[f2], c))
    BY <2>1, <2>2, <2>4, <2>5, AkinAfterByte
  <2> QED BY <2>3, <2>6
<1>3. Seq(STRING) \subseteq T
  <2>1. \A q \in Seq(STRING) : q # <<>> /\ AllButLast(q) \in T => q \in T
    BY <1>2
  <2> HIDE DEF T
  <2>2. \A q \in Seq(STRING) : q # <<>> /\ SubSeq(q, 1, Len(q) - 1) \in T => q \in T
    BY <2>1 DEF AllButLast
  <2> QED BY <1>1, <2>2, SeqInduction
<1> QED BY <1>3

LEMMA SlashAkin == ASSUME NEW R, Unmistaken(R) PROVE Akin(R, <<"/">>, <<"/">>)
<1> DEFINE s == <<"/">>
<1>1. Len(s) = 1 /\ s[1] = "/"
  OBVIOUS
<1> HIDE DEF s
<1>2. ASSUME NEW k \in 1..Len(s) PROVE <<s[k], s[k]>> \in R
  <2>1. k = 1
    BY <1>1
  <2>2. <<"/", "/">> \in R
    BY DEF Unmistaken
  <2> QED BY <1>1, <2>1, <2>2, Zenon
<1>3. Akin(R, s, s)
  BY <1>2 DEF Akin
<1> QED BY <1>3 DEF s

LEMMA AkinJoined ==
    ASSUME NEW R, Unmistaken(R)
    PROVE  \A st1, st2 \in Seq(Seq(STRING)) :
               Akin(Elementwise(R), st1, st2) => Akin(R, Joined[st1], Joined[st2])
<1> DEFINE E == Elementwise(R)
           T == {su1 \in Seq(Seq(STRING)) : \A su2 \in Seq(Seq(STRING)) :
                    Akin(E, su1, su2) => Akin(R, Joined[su1], Joined[su2])}
<1>1. <<>> \in T
  <2> SUFFICES ASSUME NEW su2 \in Seq(Seq(STRING)), Akin(E, <<>>, su2)
               PROVE  Akin(R, Joined[<<>>], Joined[su2])
    BY EmptySeq
  <2>1. su2 = <<>>
    <3>1. Len(su2) = 0
      BY DEF Akin
    <3> QED BY <3>1
  <2>2. Joined[<<>>] = <<>>
    BY JoinedDef
  <2> QED BY <2>1, <2>2 DEF Akin
<1>2. ASSUME NEW su1 \in Seq(Seq(STRING)), su1 # <<>>, AllButLast(su1) \in T,
             NEW su2 \in Seq(Seq(STRING)), Akin(E, su1, su2)
      PROVE  Akin(R, Joined[su1], Joined[su2])
  <2> DEFINE F1 == AllButLast(su1)
             F2 == AllButLast(su2)
             e1 == su1[Len(su1)]
             e2 == su2[Len(su2)]
             f1 == Joined[F1]
             f2 == Joined[F2]
             s == <<"/">>
  <2>1. su2 # <<>> /\ Akin(E, F1, F2) /\ <<e1, e2>> \in E
    BY <1>2, AkinEnds
  <2>2. F1 \in Seq(Seq(STRING)) /\ F2 \in Seq(Seq(STRING)) /\ e1 \in Seq(STRING) /\ e2 \in Seq(STRING)
    BY <1>2, <2>1, Ends
  <2>3. Joined[su1] = (f1 \o s) \o e1 /\ Joined[su2] = (f2 \o s) \o e2
    BY <1>2, <2>1, JoinedDef
  <2>4. Akin(R, f1, f2)
    BY <1>2, <2>1, <2>2
  <2>5. f1 \in Seq(STRING) /\ f2 \in Seq(STRING)
    BY <2>2, JoinedDef
  <2>6. s \in Seq(STRING) /\ Akin(R, s, s)
    BY SlashIsText, SlashAkin
  <2>7. Akin(R, e1, e2)
    BY <2>1 DEF Elementwise
  <2> HIDE DEF F1, F2, e1, e2, f1, f2, s
  <2>8. f1 \o s \in Seq(STRING) /\ f2 \o s \in Seq(STRING) /\ Akin(R, f1 \o s, f2 \o s)
    BY <2>4, <2>5, <2>6, AkinConcat
  <2> DEFINE x1 == f1 \o s
             x2 == f2 \o s
  <2>9. x1 \in Seq(STRING) /\ x2 \in Seq(STRING) /\ Akin(R, x1, x2)
    BY <2>8
  <2> HIDE DEF x1, x2
  <2>10. Akin(R, x1 \o e1, x2 \o e2)
    BY <2>2, <2>7, <2>9, AkinConcat
  <2> QED BY <2>3, <2>10 DEF x1, x2
<1>3. Seq(Seq(STRING)) \subseteq T
  <2>1. \A q \in Seq(Seq(STRING)) : q # <<>> /\ AllButLast(q) \in T => q \in T
    BY <1>2
  <2> HIDE DEF T
  <2>2. \A q \in Seq(Seq(STRING)) : q # <<>> /\ SubSeq(q, 1, Len(q) - 1) \in T => q \in T
    BY <2>1 DEF AllButLast
  <2> QED BY <1>1, <2>2, SeqInduction
<1> QED BY <1>3

LEMMA AkinEndInSlash ==
    ASSUME NEW R, Unmistaken(R), NEW s \in Seq(STRING), NEW t \in Seq(STRING), Akin(R, s, t)
    PROVE  EndsInSlash(s) <=> EndsInSlash(t)
<1>1. Len(s) \in Nat /\ Len(t) = Len(s)
  BY DEF Akin
<1>2. \A k \in 1..Len(s) : (s[k] = "/" <=> t[k] = "/") /\ (s[k] = "." <=> t[k] = ".")
  BY DEF Akin, Unmistaken
<1>3. Len(s) > 0 => Len(s) \in 1..Len(s)
  BY <1>1
<1>4. Len(s) > 0 /\ Len(s) # 1 => Len(s) - 1 \in 1..Len(s)
  BY <1>1
<1> QED BY <1>1, <1>2, <1>3, <1>4 DEF EndsInSlash

(* Spelling a path differently does not change how it is cleaned. *)
LEMMA CleanedAkin ==
    ASSUME NEW R, Unmistaken(R), NEW s \in Seq(STRING), NEW t \in Seq(STRING), Akin(R, s, t)
    PROVE  Akin(R, Cleaned(s), Cleaned(t))
<1> DEFINE st == Elements(s)
           su == Elements(t)
           slash == <<"/">>
           none == <<>>
<1>1. After[s] \in Read /\ After[t] \in Read /\ AkinRead(R, After[s], After[t])
  BY AfterType, AkinAfter
<1>2. st \in Seq(Seq(STRING)) /\ su \in Seq(Seq(STRING)) /\ Akin(Elementwise(R), st, su)
  BY <1>1, StackedType, AkinStacked DEF Elements
<1>3. slash \in Seq(STRING) /\ Akin(R, slash, slash) /\ none \in Seq(STRING) /\ Akin(R, none, none)
  BY SlashIsText, SlashAkin DEF Akin
<1>4. st = <<>> <=> su = <<>>
  <2> HIDE DEF st, su
  <2>1. Len(st) = Len(su)
    BY <1>2 DEF Akin
  <2> QED BY <1>2, <2>1
<1>5. EndsInSlash(s) <=> EndsInSlash(t)
  BY AkinEndInSlash
<1> HIDE DEF st, su
<1>6. Spelled(st) \in Seq(STRING) /\ Spelled(su) \in Seq(STRING) /\ Akin(R, Spelled(st), Spelled(su))
  <2>1. Joined[st] \in Seq(STRING) /\ Joined[su] \in Seq(STRING) /\ Akin(R, Joined[st], Joined[su])
    BY <1>2, AkinJoined, JoinedDef
  <2> QED BY <1>3, <1>4, <2>1 DEF Spelled
<1>7. \/ Cleaned(s) = Spelled(st) \o slash /\ Cleaned(t) = Spelled(su) \o slash
      \/ Cleaned(s) = Spelled(st) \o none /\ Cleaned(t) = Spelled(su) \o none
  BY <1>4, <1>5 DEF Cleaned, st, su
<1> DEFINE x == Spelled(st)
           y == Spelled(su)
<1>8. /\ x \in Seq(STRING) /\ y \in Seq(STRING) /\ Akin(R, x, y)
      /\ \/ Cleaned(s) = x \o slash /\ Cleaned(t) = y \o slash
         \/ Cleaned(s) = x \o none /\ Cleaned(t) = y \o none
  BY <1>6, <1>7
<1> HIDE DEF slash, none, x, y
<1>9. Akin(R, x \o slash, y \o slash) /\ Akin(R, x \o none, y \o none)
  BY <1>3, <1>8, AkinConcat
<1> QED BY <1>8, <1>9, Zenon

\* A cleaned path is its elements, with a '/' if the path ended in one.
LEMMA CleanedSpelled ==
    ASSUME NEW q \in Seq(STRING)
    PROVE  LET t == Spelled(Elements(q))
           IN  /\ t \in Seq(STRING) /\ Len(t) > 0 /\ t \o <<"/">> = Append(t, "/") /\ t \o <<>> = t
               /\ Elements(q) = <<>> => t = <<"/">>
<1> DEFINE st == Elements(q)
           t == Spelled(st)
<1>1. Proper(st)
  BY AfterType, AfterProper, StackedProper DEF Elements
<1>2. t \in Seq(STRING) /\ Len(t) > 0
  <2>1. t \in Seq(STRING)
    BY <1>1, ElementsOfSpelled
  <2>2. st \in Seq(Seq(STRING))
    BY <1>1 DEF Proper
  <2>3. CASE st = <<>>
    BY <2>1, <2>3 DEF Spelled
  <2>4. CASE st # <<>>
    <3>1. t = Joined[st]
      BY <2>4 DEF Spelled
    <3> HIDE DEF st
    <3> QED BY <2>1, <2>2, <2>4, <3>1, JoinedStart
  <2> QED BY <2>3, <2>4
<1>3. st = <<>> => t = <<"/">>
  BY DEF Spelled
<1> HIDE DEF st, t
<1>4. t \o <<"/">> = Append(t, "/")
  BY <1>2, SlashEnds
<1>5. t \o <<>> = t
  BY <1>2, ConcatEmptySeq
<1> QED BY <1>2, <1>3, <1>4, <1>5 DEF st, t

(* A '/' at the end stays when a path is cleaned, or makes no difference. *)
LEMMA CleanedSlash ==
    ASSUME NEW q \in Seq(STRING)
    PROVE  LET u == Cleaned(q)
               v == Cleaned(Append(q, "/"))
           IN  u = v \/ (v = Append(u, "/") /\ u # <<>> /\ u[Len(u)] # "/")
<1> DEFINE st == Elements(q)
           t == Spelled(st)
           u == Cleaned(q)
           v == Cleaned(Append(q, "/"))
<1>1. Proper(st)
  BY AfterType, AfterProper, StackedProper DEF Elements
<1>2. t \in Seq(STRING)
  BY <1>1, ElementsOfSpelled
<1>3. Append(q, "/") \in Seq(STRING) /\ Elements(Append(q, "/")) = st
  BY SlashEnds
<1>4. EndsInSlash(Append(q, "/"))
  BY AppendProperties DEF EndsInSlash
<1>5. Append(t, "/") = t \o <<"/">> /\ t \o <<>> = t
  <2>1. t \o <<"/">> = Append(t, "/")
    BY <1>2, SlashEnds
  <2> HIDE DEF t
  <2> QED BY <1>2, <2>1, ConcatEmptySeq
<1>6. st = <<>> => u = t /\ v = t
  BY <1>3, <1>5 DEF Cleaned
<1>7. st # <<>> => v = Append(t, "/") /\ (u = t \/ u = Append(t, "/"))
  BY <1>3, <1>4, <1>5 DEF Cleaned
<1>8. st # <<>> => t # <<>> /\ t[Len(t)] # "/"
  <2> SUFFICES ASSUME st # <<>> PROVE t # <<>> /\ t[Len(t)] # "/"
    OBVIOUS
  <2>1. ~EndsInSlash(t)
    BY <1>1, SpelledEnd
  <2>2. t = Joined[st] /\ st \in Seq(Seq(STRING))
    BY <1>1 DEF Spelled, Proper
  <2>3. Len(t) \in Nat \ {0}
    BY <2>2, JoinedStart
  <2> HIDE DEF t
  <2>4. t # <<>>
    BY <2>3
  <2> QED BY <2>1, <2>3, <2>4 DEF EndsInSlash
<1> HIDE DEF st, t, u, v
<1>9. u = v \/ (v = Append(u, "/") /\ u # <<>> /\ u[Len(u)] # "/")
  BY <1>6, <1>7, <1>8
<1> QED BY <1>9 DEF u, v

\* A cleaned path begins with a '/'.
LEMMA CleanedRooted ==
    ASSUME NEW q \in Seq(STRING)
    PROVE  Cleaned(q) # <<>> /\ Cleaned(q)[1] = "/"
<1> DEFINE st == Elements(q)
           t == Spelled(st)
           tail == IF st # <<>> /\ EndsInSlash(q) THEN <<"/">> ELSE <<>>
<1>1. Proper(st)
  BY AfterType, AfterProper, StackedProper DEF Elements
<1>2. t \in Seq(STRING) /\ tail \in Seq(STRING)
  <2>1. t \in Seq(STRING)
    BY <1>1, ElementsOfSpelled
  <2>2. <<"/">> \in Seq(STRING) /\ <<>> \in Seq(STRING)
    BY SlashIsText
  <2> QED BY <2>1, <2>2
<1>3. Len(t) \in Nat \ {0} /\ t[1] = "/"
  <2>1. st \in Seq(Seq(STRING))
    BY <1>1 DEF Proper
  <2> HIDE DEF st
  <2> QED BY <2>1, JoinedStart DEF Spelled
<1>4. Cleaned(q) = t \o tail
  BY DEF Cleaned
<1> DEFINE x == t \o tail
<1> HIDE DEF t, tail
<1>5. /\ Len(x) = Len(t) + Len(tail) /\ Len(tail) \in Nat
      /\ \A k \in 1..Len(t) + Len(tail) : x[k] = IF k <= Len(t) THEN t[k] ELSE tail[k - Len(t)]
  BY <1>2, ConcatProperties
<1> HIDE DEF x
<1>6. x # <<>> /\ x[1] = "/"
  BY <1>3, <1>5
<1> QED BY <1>4, <1>6 DEF x

-----------------------------------------------------------------------------
(* Every index is inside. *)

\* How far the writing position may run ahead: the path has no leading '/'.
Ahead == IF At(1, "/") THEN 0 ELSE 1

\* The writing position stays behind the reading one; strictly behind when a
\* real byte follows an element, because the '/' in between was skipped.
BufferSize ==
    /\ Ahead = 1 => buf # <<>>
    /\ buf # <<>> => Len(buf) = n + Ahead
Behind ==
    /\ w <= n + 1 + Ahead
    /\ pc \in {"loop", "element"} => w <= r + Ahead
    /\ (pc = "loop" /\ RealByte /\ w > 2) => w < r + Ahead
    /\ pc = "backtrack" => w < r + Ahead /\ w <= n + Ahead
RoomForTheSlash ==
    /\ trailing => p[n] = "/" \/ (r > n /\ pc \in {"loop", "done"})
    /\ (pc = "element" /\ r > n) => p[n] # "/"
    /\ (pc = "loop" /\ r > n /\ trailing /\ w > 2) => w <= n + Ahead

\* A buffer that is the one at hand, grown only from nothing to the input.
SizeKept(new) ==
    /\ new \in Seq(Bytes)
    /\ buf # <<>> => new # <<>> /\ Len(new) = Len(buf)
    /\ buf = <<>> => new = <<>> \/ Len(new) = n

IInv == TypeOK /\ (p # <<>> => BufferSize /\ Behind /\ RoomForTheSlash)

-----------------------------------------------------------------------------
(* Writing a byte in a place that exists keeps the buffer's size, or creates *)
(* one as long as the input (bufApp, path.go:128-150).                      *)
LEMMA BufAppSize ==
    ASSUME p \in Seq(Bytes), NEW b \in Seq(Bytes), NEW c \in Bytes,
           NEW i \in 1..(IF b = <<>> THEN n ELSE Len(b))
    PROVE  /\ BufApp(b, i, c) \in Seq(Bytes)
           /\ b # <<>> => BufApp(b, i, c) # <<>> /\ Len(BufApp(b, i, c)) = Len(b)
           /\ b = <<>> => BufApp(b, i, c) = <<>> \/ Len(BufApp(b, i, c)) = n
<1>1. CASE b # <<>>
  BY <1>1 DEF BufApp
<1>2. CASE b = <<>>
  <2>1. CASE p[i] = c
    BY <1>2, <2>1 DEF BufApp
  <2>2. CASE p[i] # c
    <3> DEFINE new == [j \in 1..n |-> IF j = i THEN c ELSE IF j < i THEN p[j] ELSE "/"]
    <3>1. BufApp(b, i, c) = new
      BY <1>2, <2>2 DEF BufApp
    <3>2. n \in Nat /\ \A j \in 1..n : new[j] \in Bytes
      BY SpecialBytes DEF n
    <3>3. new \in Seq(Bytes) /\ Len(new) = n
      BY <3>2
    <3> QED BY <1>2, <3>1, <3>3
  <2> QED BY <2>1, <2>2
<1> QED BY <1>1, <1>2

LEMMA InitIInv == Init => IInv
<1> SUFFICES ASSUME Init PROVE IInv
  OBVIOUS
<1>1. p \in Seq(Bytes) /\ n \in Nat
  BY InputsArePaths DEF Init, n
<1>2. p # <<>> => n > 0
  BY <1>1 DEF n
<1>3. Zeros(n + 1) \in Seq(Bytes) /\ Len(Zeros(n + 1)) = n + 1
  BY <1>1, SpecialBytes DEF Zeros
<1>4. TypeOK
  BY <1>1, <1>2, <1>3, SpecialBytes DEF Init, TypeOK, At, n
<1>5. ASSUME p # <<>> PROVE BufferSize /\ Behind /\ RoomForTheSlash
  <2>1. n \in Nat /\ n > 0
    BY <1>1, <1>2, <1>5
  <2>2. /\ Ahead = IF p[1] = "/" THEN 0 ELSE 1
        /\ r = IF p[1] = "/" THEN 2 ELSE 1
        /\ buf = IF p[1] = "/" THEN <<>> ELSE Zeros(n + 1)
    BY <1>5, <2>1 DEF Init, Ahead, At
  <2>3. BufferSize
    BY <1>3, <2>1, <2>2 DEF BufferSize
  <2>4. w = 2 /\ pc = "loop" /\ (trailing => p[n] = "/")
    BY DEF Init
  <2>5. Behind
    BY <2>1, <2>2, <2>4 DEF Behind
  <2>6. RoomForTheSlash
    BY <2>1, <2>2, <2>4 DEF RoomForTheSlash
  <2> QED BY <2>3, <2>5, <2>6
<1> QED BY <1>4, <1>5 DEF IInv

LEMMA StepIInv == IInv /\ [Next]_vars => IInv'
<1> SUFFICES ASSUME IInv, [Next]_vars PROVE IInv'
  OBVIOUS
<1> USE InputsArePaths DEF n
<1>1. p \in Seq(Bytes) /\ n \in Nat /\ (p # <<>> => n > 0)
  BY DEF IInv, TypeOK
<1>2. TypeOK /\ (p # <<>> => BufferSize /\ Behind /\ RoomForTheSlash)
  BY DEF IInv
<1>3. CASE Empty
  BY <1>1, <1>2, <1>3, SpecialBytes DEF Empty, IInv, TypeOK
<1>4. CASE Skip
  BY <1>1, <1>2, <1>4
     DEF Skip, Reading, IInv, TypeOK, BufferSize, Behind, RoomForTheSlash, Ahead, At, RealByte
<1>5. CASE SkipFinalDot
  BY <1>1, <1>2, <1>5
     DEF SkipFinalDot, FinalDot, Reading, IInv, TypeOK, BufferSize, Behind, RoomForTheSlash, Ahead, At, RealByte
<1>6. CASE SkipInnerDot
  BY <1>1, <1>2, <1>6
     DEF SkipInnerDot, InnerDot, Reading, IInv, TypeOK, BufferSize, Behind, RoomForTheSlash, Ahead, At, RealByte
<1>7. CASE Parent
  BY <1>1, <1>2, <1>7
     DEF Parent, DotDot, Reading, IInv, TypeOK, BufferSize, Behind, RoomForTheSlash, Ahead, At, RealByte
<1>8. CASE Backtrack
  BY <1>1, <1>2, <1>8
     DEF Backtrack, IInv, TypeOK, BufferSize, Behind, RoomForTheSlash, Ahead, At, RealByte
<1>9. CASE Element
  <2>1. p # <<>> /\ pc = "loop" /\ RealByte
    BY <1>9 DEF Element, Reading, RealByte, At
  <2>2. w > 2 => w \in 1..(IF buf = <<>> THEN n ELSE Len(buf))
    BY <1>1, <1>2, <2>1 DEF TypeOK, BufferSize, Behind, RealByte, Ahead
  <2>3. SizeKept(buf')
    BY <1>1, <1>2, <1>9, <2>2, SpecialBytes, BufAppSize
       DEF Element, TypeOK, SizeKept
  <2> QED
    BY <1>1, <1>2, <1>9, <2>1, <2>3
       DEF Element, IInv, TypeOK, SizeKept, BufferSize, Behind, RoomForTheSlash, Ahead, At, RealByte
<1>10. CASE CopyByte
  <2>1. CASE RealByte
    <3>1. p # <<>> /\ p[r] \in Bytes
      BY <1>1, <1>2, <2>1 DEF RealByte, TypeOK
    <3>2. w \in 1..(IF buf = <<>> THEN n ELSE Len(buf))
      BY <1>1, <1>2, <1>10, <2>1, <3>1
         DEF CopyByte, TypeOK, BufferSize, Behind, RealByte, Ahead
    <3>3. SizeKept(buf')
      BY <1>1, <1>2, <1>10, <2>1, <3>1, <3>2, BufAppSize
         DEF CopyByte, TypeOK, SizeKept, RealByte
    <3>4. /\ pc = "element" /\ pc' = "element" /\ w' = w + 1 /\ r' = r + 1
          /\ p' = p /\ trailing' = trailing /\ out' = out
      BY <1>10, <2>1 DEF CopyByte, RealByte
    <3> QED
      BY <1>1, <1>2, <2>1, <3>1, <3>3, <3>4
         DEF IInv, TypeOK, SizeKept, BufferSize, Behind, RoomForTheSlash, Ahead, At, RealByte
  <2>2. CASE ~RealByte
    BY <1>1, <1>2, <1>10, <2>2
       DEF CopyByte, IInv, TypeOK, BufferSize, Behind, RoomForTheSlash, Ahead, At, RealByte
  <2> QED BY <2>1, <2>2
<1>11. CASE Finish
  <2>1. p # <<>> /\ pc = "loop" /\ r > n
    BY <1>11 DEF Finish
  <2>2. (trailing /\ w > 2) => w \in 1..(IF buf = <<>> THEN n ELSE Len(buf))
    BY <1>1, <1>2, <2>1 DEF TypeOK, BufferSize, RoomForTheSlash, Ahead
  <2>3. SizeKept(buf')
    BY <1>1, <1>2, <1>11, <2>2, SpecialBytes, BufAppSize
       DEF Finish, TypeOK, SizeKept
  <2>4. /\ w' = IF trailing /\ w > 2 THEN w + 1 ELSE w
        /\ pc' = "done" /\ p' = p /\ r' = r /\ trailing' = trailing
    BY <1>11 DEF Finish
  <2>5. w' \in 2..n + 2 /\ w' <= n + 1 + Ahead
    BY <1>1, <1>2, <2>1, <2>4 DEF TypeOK, Behind, RoomForTheSlash, Ahead
  <2>6. buf' \in Seq(Bytes) /\ (p # <<>> => BufferSize')
    BY <1>1, <1>2, <2>3, <2>4 DEF TypeOK, SizeKept, BufferSize, Ahead, At
  <2>7. w' - 1 <= (IF buf' = <<>> THEN n ELSE Len(buf'))
    BY <1>1, <2>1, <2>4, <2>5, <2>6 DEF BufferSize, Ahead, At, TypeOK
  <2>8. out' \in Seq(Bytes)
    <3>1. out' = IF buf' = <<>> THEN SubSeq(p, 1, w' - 1) ELSE SubSeq(buf', 1, w' - 1)
      BY <1>11 DEF Finish
    <3>2. w' - 1 \in Nat
      <4>1. \A k \in Nat : \A x \in 2..k + 2 : x - 1 \in Nat
        OBVIOUS
      <4> QED BY <1>1, <2>5, <4>1
    <3>3. CASE buf' = <<>>
      BY <1>1, <2>7, <3>1, <3>2, <3>3
    <3>4. CASE buf' # <<>>
      BY <1>1, <2>6, <2>7, <3>1, <3>2, <3>4
    <3> QED BY <3>3, <3>4
  <2> QED
    BY <1>1, <1>2, <2>1, <2>4, <2>5, <2>6, <2>8
       DEF IInv, TypeOK, Behind, RoomForTheSlash, Ahead, At, RealByte
<1>12. CASE UNCHANGED vars
  BY <1>1, <1>2, <1>12
     DEF vars, IInv, TypeOK, BufferSize, Behind, RoomForTheSlash, Ahead, At, RealByte
<1> QED
  BY <1>3, <1>4, <1>5, <1>6, <1>7, <1>8, <1>9, <1>10, <1>11, <1>12 DEF Next

LEMMA IInvInBounds == IInv => InBounds
<1> SUFFICES ASSUME IInv, p # <<>> PROVE InBounds
  BY DEF InBounds
<1>1. p \in Seq(Bytes) /\ n \in Nat /\ n > 0
  BY InputsArePaths DEF IInv, TypeOK, n
<1> w \in Nat /\ r \in Nat /\ Ahead \in {0, 1}
  BY <1>1 DEF IInv, TypeOK, Ahead
<1>2. Capacity = n + Ahead
  BY <1>1 DEF IInv, BufferSize, Capacity, Ahead
<1>3. AboutToWrite => w <= n + Ahead
  BY <1>1 DEF IInv, TypeOK, AboutToWrite, Behind, RoomForTheSlash, RealByte, Ahead
<1> QED
  BY <1>1, <1>2, <1>3 DEF IInv, InBounds, Behind

(* Every index CleanPath uses lies inside its input or its buffer, for every *)
(* path whatever its length (path.go:21-150).                               *)
THEOREM StaysInBounds == Spec => []InBounds
<1>1. Init => IInv
  BY InitIInv
<1>2. IInv /\ [Next]_vars => IInv'
  BY StepIInv
<1>3. IInv => InBounds
  BY IInvInBounds
<1> QED BY <1>1, <1>2, <1>3, PTL DEF Spec

(* The positions, the buffer and the result keep their types (path.go:21-150). *)
THEOREM TypesKept == Spec => []TypeOK
<1>1. Init => IInv
  BY InitIInv
<1>2. IInv /\ [Next]_vars => IInv'
  BY StepIInv
<1>3. IInv => TypeOK
  BY DEF IInv
<1> QED BY <1>1, <1>2, <1>3, PTL DEF Spec
-----------------------------------------------------------------------------
(* What was written. *)

\* What was read after k bytes of the path.
ReadTo(k) == After[SubSeq(p, 1, k)]
\* The bytes of the loop's head: up to r, or all of them.
BeforeR == IF r > n THEN n ELSE r - 1
Byte(i) == IF buf = <<>> THEN p[i] ELSE buf[i]

\* An element starts in i that is neither empty nor "." nor "..".
RealStart(i) ==
    /\ i <= n /\ p[i] # "/"
    /\ p[i] = "." => i < n /\ p[i + 1] # "/"
    /\ (p[i] = "." /\ p[i + 1] = ".") => i + 1 < n /\ p[i + 2] # "/"

\* At the head of the loop the elements read are written, and a real byte
\* starts an element.
AtTheLoop == pc = "loop" =>
    /\ Written = Spelled(Stacked(ReadTo(BeforeR)))
    /\ RealByte => r = 1 \/ p[r - 1] = "/"
\* After "..", w is inside the last element of the stack read before it.
AtTheBacktrack == pc = "backtrack" =>
    LET stack == ReadTo(r - 4).stack
    IN  /\ r >= 4 /\ r <= n + 2
        /\ r <= n => p[r - 1] = "/"
        /\ stack # <<>>
        /\ Stacked(ReadTo(BeforeR)) = AllButLast(stack)
        /\ Len(Joined[AllButLast(stack)]) < w
        /\ w <= Len(Joined[stack])
        /\ \A i \in 1..w : Byte(i) = Joined[stack][i]
\* Inside an element the stack, a '/' and what was read of the element are
\* written, and the element is a real one.
AtTheElement == pc = "element" =>
    LET s == ReadTo(r - 1)
        start == r - Len(s.element)
    IN  /\ r - 1 <= n
        /\ Written = Joined[s.stack] \o <<"/">> \o s.element
        /\ start >= 1 /\ RealStart(start)
        /\ \A i \in 1..Len(s.element) : s.element[i] = p[start + i - 1]
\* The flag is first whether the path ends in '/', and in the end whether it
\* ends like a directory.
TrailingSlash ==
    /\ (r <= n \/ pc = "element") => trailing = (n > 1 /\ p[n] = "/")
    /\ (r > n /\ pc \in {"loop", "backtrack"}) =>
           trailing = (EndsInSlash(p) /\ p # <<"/">>)
\* The result is the canonical path.
AtTheEnd == pc = "done" => out = Cleaned(p)

LEMMA PathText ==
    ASSUME IInv PROVE p \in Seq(Bytes) /\ p \in Seq(STRING) /\ n \in Nat /\ n = Len(p)
<1>1. p \in Seq(Bytes)
  BY InputsArePaths DEF IInv, TypeOK
<1>2. p \in Seq(STRING)
  BY <1>1, BytesAreStrings, SeqMonotonic
<1> QED BY <1>1, <1>2 DEF n

LEMMA RootPath ==
    ASSUME NEW q \in Seq(STRING), Len(q) = 1, q[1] = "/"
    PROVE  q = <<"/">>
<1> DEFINE root == <<"/">>
<1>1. root \in Seq(STRING) /\ Len(root) = 1 /\ root[1] = "/"
  BY SlashIsText
<1> HIDE DEF root
<1>2. \A i \in 1..Len(q) : q[i] = root[i]
  BY <1>1
<1>3. q = root
  BY <1>1, <1>2, SeqEqual
<1> QED BY <1>3 DEF root

LEMMA ReadToTypes ==
    ASSUME p \in Seq(STRING), NEW k \in 0..n
    PROVE  /\ ReadTo(k) \in Read
           /\ Proper(ReadTo(k).stack) /\ SlashFree(ReadTo(k).element)
           /\ Proper(Stacked(ReadTo(k)))
<1>1. SubSeq(p, 1, k) \in Seq(STRING)
  BY FirstPart DEF n
<1>2. ReadTo(k) \in Read
  BY <1>1, AfterType DEF ReadTo
<1>3. Proper(ReadTo(k).stack) /\ SlashFree(ReadTo(k).element)
  BY <1>1, AfterProper DEF ReadTo
<1> QED BY <1>2, <1>3, StackedProper

\* The bytes of the path are read one after the other.
LEMMA ReadToStep ==
    ASSUME p \in Seq(STRING)
    PROVE  /\ ReadTo(0) = NothingRead
           /\ \A k \in 1..n : ReadTo(k) = AfterByte(ReadTo(k - 1), p[k])
           /\ ReadTo(n) = After[p]
<1>1. SubSeq(p, 1, 0) = <<>>
  BY SubSeqEmpty
<1>2. SubSeq(p, 1, n) = p
  BY SubSeqFull DEF n
<1>3. ASSUME NEW k \in 1..n PROVE ReadTo(k) = AfterByte(ReadTo(k - 1), p[k])
  <2> DEFINE q == SubSeq(p, 1, k)
             h == SubSeq(p, 1, k - 1)
  <2>1. k \in 0..Len(p) /\ k - 1 \in 0..Len(p) /\ p[k] \in STRING /\ Len(p) \in Nat
    BY DEF n
  <2>2. q \in Seq(STRING) /\ Len(q) = k /\ \A i \in 1..k : q[i] = p[i]
    BY <2>1, FirstPart
  <2>3. h \in Seq(STRING) /\ Len(h) = k - 1 /\ \A i \in 1..k - 1 : h[i] = p[i]
    BY <2>1, FirstPart
  <2> HIDE DEF q, h
  <2> DEFINE a == Append(h, p[k])
  <2>4. a \in Seq(STRING) /\ Len(a) = k /\ \A i \in 1..k : a[i] = p[i]
    BY <2>1, <2>3
  <2>5. q = a
    <3> HIDE DEF a
    <3> QED BY <2>2, <2>4, SeqEqual
  <2>6. After[a] = AfterByte(After[h], p[k])
    BY <2>1, <2>3, AfterAppend
  <2> QED BY <2>5, <2>6 DEF ReadTo, q, h
<1>4. ReadTo(0) = NothingRead
  BY <1>1, AfterDef DEF ReadTo
<1>5. ReadTo(n) = After[p]
  BY <1>2 DEF ReadTo
<1> QED BY <1>3, <1>4, <1>5

LEMMA ReadSlash ==
    ASSUME p \in Seq(STRING), NEW k \in 1..n, p[k] = "/"
    PROVE  /\ ReadTo(k).element = <<>>
           /\ ReadTo(k).stack = Stacked(ReadTo(k - 1))
           /\ Stacked(ReadTo(k)) = Stacked(ReadTo(k - 1))
<1>1. ReadTo(k) = AfterByte(ReadTo(k - 1), p[k])
  BY ReadToStep
<1> QED BY <1>1 DEF AfterByte, Stacked

LEMMA ReadByte ==
    ASSUME p \in Seq(STRING), NEW k \in 1..n, p[k] # "/"
    PROVE  /\ ReadTo(k).element = Append(ReadTo(k - 1).element, p[k])
           /\ ReadTo(k).stack = ReadTo(k - 1).stack
<1>1. ReadTo(k) = AfterByte(ReadTo(k - 1), p[k])
  BY ReadToStep
<1> QED BY <1>1 DEF AfterByte

\* Between two elements nothing is being read.
LEMMA Boundary ==
    ASSUME p \in Seq(STRING), NEW k \in 0..n, k = 0 \/ p[k] = "/"
    PROVE  ReadTo(k).element = <<>> /\ Stacked(ReadTo(k)) = ReadTo(k).stack
<1>1. n \in Nat
  BY DEF n
<1>2. ReadTo(k).element = <<>>
  <2>1. CASE k = 0
    BY <2>1, ReadToStep DEF NothingRead
  <2>2. CASE k # 0
    <3>1. k \in 1..n /\ p[k] = "/"
      BY <1>1, <2>2
    <3> QED BY <3>1, ReadSlash
  <2> QED BY <2>1, <2>2
<1> QED BY <1>2 DEF Stacked

\* "." changes nothing, ".." removes the last element.
LEMMA ReadDot ==
    ASSUME p \in Seq(STRING), NEW k \in 0..n - 1, k = 0 \/ p[k] = "/", p[k + 1] = "."
    PROVE  /\ ReadTo(k + 1).element = <<".">> /\ ReadTo(k + 1).stack = ReadTo(k).stack
           /\ Stacked(ReadTo(k + 1)) = Stacked(ReadTo(k))
<1>1. n \in Nat /\ k \in 0..n /\ k + 1 \in 1..n /\ (k + 1) - 1 = k
  BY DEF n
<1>2. ReadTo(k).element = <<>> /\ Stacked(ReadTo(k)) = ReadTo(k).stack
  BY <1>1, Boundary
<1>3. /\ ReadTo(k + 1).element = Append(ReadTo(k).element, ".")
      /\ ReadTo(k + 1).stack = ReadTo(k).stack
  BY <1>1, ReadByte
<1>4. ReadTo(k + 1).element = <<".">>
  <2>1. Append(<<>>, ".") = <<".">>
    OBVIOUS
  <2> QED BY <1>2, <1>3, <2>1, Zenon
<1> QED BY <1>2, <1>3, <1>4 DEF Stacked

LEMMA ReadDotDot ==
    ASSUME p \in Seq(STRING), NEW k \in 0..n - 2, k = 0 \/ p[k] = "/",
           p[k + 1] = ".", p[k + 2] = "."
    PROVE  Stacked(ReadTo(k + 2)) = IF ReadTo(k).stack = <<>> THEN <<>>
                                    ELSE AllButLast(ReadTo(k).stack)
<1>1. n \in Nat /\ k \in 0..n - 1 /\ k + 2 \in 1..n /\ (k + 2) - 1 = k + 1
  BY DEF n
<1>2. ReadTo(k + 1).element = <<".">> /\ ReadTo(k + 1).stack = ReadTo(k).stack
  BY <1>1, ReadDot
<1>3. /\ ReadTo(k + 2).element = Append(ReadTo(k + 1).element, ".")
      /\ ReadTo(k + 2).stack = ReadTo(k + 1).stack
  BY <1>1, ReadByte
<1>4. ReadTo(k + 2).element = <<".", ".">>
  <2>0. ReadTo(k + 2).element = Append(<<".">>, ".")
    BY <1>2, <1>3, Zenon
  <2>1. Append(<<".">>, ".") \in Seq({"."}) /\ <<".", ".">> \in Seq({"."})
    OBVIOUS
  <2>2. \A i \in 1..2 : Append(<<".">>, ".")[i] = <<".", ".">>[i]
    OBVIOUS
  <2>3. Len(Append(<<".">>, ".")) = 2 /\ Len(<<".", ".">>) = 2
    OBVIOUS
  <2>4. Append(<<".">>, ".") = <<".", ".">>
    BY <2>1, <2>2, <2>3, SeqEqual
  <2> QED BY <2>0, <2>4, Zenon
<1>5. <<".", ".">> \notin {<<>>, <<".">>}
  OBVIOUS
<1> QED BY <1>2, <1>3, <1>4, <1>5 DEF Stacked

\* What is written lies in the buffer, or in the input while there is none.
LEMMA WrittenBytes ==
    ASSUME IInv, p # <<>>
    PROVE  /\ Written \in Seq(Bytes) /\ Len(Written) = w - 1
           /\ \A i \in 1..w - 1 : Written[i] = Byte(i)
<1>1. p \in Seq(Bytes) /\ n \in Nat /\ n = Len(p)
  BY PathText
<1>2. w \in 2..n + 2 /\ buf \in Seq(Bytes) /\ BufferSize /\ w <= n + 1 + Ahead
  BY DEF IInv, TypeOK, Behind
<1>3. Ahead \in {0, 1}
  BY DEF Ahead
<1>4. w - 1 \in Nat
  BY <1>1, <1>2
<1>5. CASE buf = <<>>
  <2>1. w - 1 \in 0..Len(p)
    BY <1>1, <1>2, <1>3, <1>4, <1>5 DEF BufferSize
  <2> QED BY <1>1, <1>5, <2>1, FirstPart DEF Written, Byte
<1>6. CASE buf # <<>>
  <2>1. w - 1 \in 0..Len(buf)
    BY <1>1, <1>2, <1>3, <1>4, <1>6 DEF BufferSize
  <2> QED BY <1>2, <1>6, <2>1, FirstPart DEF Written, Byte
<1> QED BY <1>5, <1>6

\* bufApp changes one byte only (path.go:128-150) ...
LEMMA BufAppBytes ==
    ASSUME p \in Seq(Bytes), NEW b \in Seq(Bytes), NEW c \in Bytes,
           NEW i \in 1..(IF b = <<>> THEN n ELSE Len(b)), NEW j \in 1..i
    PROVE  (IF BufApp(b, i, c) = <<>> THEN p[j] ELSE BufApp(b, i, c)[j])
             = IF j = i THEN c ELSE IF b = <<>> THEN p[j] ELSE b[j]
<1>1. CASE b # <<>>
  BY <1>1 DEF BufApp
<1>2. CASE b = <<>>
  <2>1. CASE p[i] = c
    BY <1>2, <2>1 DEF BufApp
  <2>2. CASE p[i] # c
    <3> DEFINE new == [x \in 1..n |-> IF x = i THEN c ELSE IF x < i THEN p[x] ELSE "/"]
    <3>1. BufApp(b, i, c) = new
      BY <1>2, <2>2 DEF BufApp
    <3>2. n \in Nat /\ i \in 1..n /\ j \in 1..n
      BY <1>2 DEF n
    <3>3. new[j] = IF j = i THEN c ELSE p[j]
      BY <3>2
    <3>4. new # <<>>
      BY <3>2
    <3> QED BY <1>2, <3>1, <3>3, <3>4
  <2> QED BY <2>1, <2>2
<1> QED BY <1>1, <1>2

\* ... so it appends one byte to what is written.
LEMMA Writes ==
    ASSUME IInv, p # <<>>, NEW c \in Bytes,
           w \in 1..(IF buf = <<>> THEN n ELSE Len(buf)),
           p' = p, w' = w + 1, buf' = BufApp(buf, w, c)
    PROVE  Written' = Append(Written, c)
<1>1. p \in Seq(Bytes) /\ n \in Nat /\ n = Len(p) /\ buf \in Seq(Bytes) /\ w \in 2..n + 2
  BY PathText DEF IInv, TypeOK
<1>2. Written \in Seq(Bytes) /\ Len(Written) = w - 1 /\ \A i \in 1..w - 1 : Written[i] = Byte(i)
  BY WrittenBytes
<1> DEFINE B == IF buf' = <<>> THEN p ELSE buf'
<1>3. /\ buf' \in Seq(Bytes)
      /\ buf # <<>> => buf' # <<>> /\ Len(buf') = Len(buf)
      /\ buf = <<>> => buf' = <<>> \/ Len(buf') = n
  BY <1>1, BufAppSize
<1>4. B \in Seq(Bytes) /\ w \in 0..Len(B)
  BY <1>1, <1>3
<1>5. Written' = SubSeq(B, 1, w)
  <2>1. w' - 1 = w
    BY <1>1
  <2>2. Written' = SubSeq(B, 1, w' - 1)
    BY DEF Written
  <2> QED BY <2>1, <2>2
<1>6. ASSUME NEW j \in 1..w PROVE B[j] = IF j = w THEN c ELSE Byte(j)
  <2>1. (IF BufApp(buf, w, c) = <<>> THEN p[j] ELSE BufApp(buf, w, c)[j])
             = IF j = w THEN c ELSE IF buf = <<>> THEN p[j] ELSE buf[j]
    BY <1>1, BufAppBytes
  <2> QED BY <2>1 DEF Byte
<1> HIDE DEF B
<1>7. Written' \in Seq(Bytes) /\ Len(Written') = w /\ \A j \in 1..w : Written'[j] = B[j]
  BY <1>4, <1>5, FirstPart
<1> DEFINE a == Append(Written, c)
<1>8. a \in Seq(Bytes) /\ Len(a) = w /\ \A j \in 1..w : a[j] = IF j = w THEN c ELSE Written[j]
  BY <1>1, <1>2, AppendProperties
<1>9. \A j \in 1..w : Written'[j] = a[j]
  <2> HIDE DEF a
  <2> SUFFICES ASSUME NEW j \in 1..w PROVE Written'[j] = a[j]
    OBVIOUS
  <2>1. j # w => j \in 1..w - 1
    BY <1>1
  <2> QED BY <1>2, <1>6, <1>7, <1>8, <2>1
<1> HIDE DEF a
<1>10. Written' = a
  BY <1>7, <1>8, <1>9, SeqEqual
<1> QED BY <1>10 DEF a

LEMMA SpelledLength ==
    ASSUME NEW st, Proper(st)
    PROVE  /\ Spelled(st) \in Seq(STRING)
           /\ st = <<>> => Len(Spelled(st)) = 1
           /\ st # <<>> => Len(Spelled(st)) > 1
<1>1. Spelled(st) \in Seq(STRING)
  BY ElementsOfSpelled
<1>2. CASE st = <<>>
  BY <1>1, <1>2 DEF Spelled
<1>3. CASE st # <<>>
  <2> DEFINE f == Joined[AllButLast(st)]
             e == st[Len(st)]
  <2>1. st \in Seq(Seq(STRING)) /\ RealElement(e)
    BY <1>3, FrontProper DEF Proper
  <2>2. /\ f \in Seq(STRING) /\ e \in Seq(STRING)
        /\ Len(Joined[st]) = Len(f) + 1 + Len(e)
    BY <1>3, <2>1, JoinedShape
  <2> HIDE DEF e, f
  <2>3. Len(e) # 0 /\ Len(e) \in Nat /\ Len(f) \in Nat
    BY <2>1, <2>2 DEF RealElement
  <2> QED BY <1>1, <1>3, <2>2, <2>3 DEF Spelled
<1> QED BY <1>1, <1>2, <1>3

\* Something but the first '/' was written exactly if the stack has an element.
LEMMA Something ==
    ASSUME IInv, p # <<>>, NEW st, Proper(st), Written = Spelled(st)
    PROVE  (w > 2) <=> (st # <<>>)
<1>1. w \in Nat /\ Len(Written) = w - 1
  BY PathText, WrittenBytes DEF IInv, TypeOK
<1>2. /\ st = <<>> => Len(Written) = 1
      /\ st # <<>> => Len(Written) > 1
  BY SpelledLength
<1> QED BY <1>1, <1>2

\* What the loop's head knows before it reads a byte other than '/'.
LEMMA AtTheStart ==
    ASSUME IInv, p # <<>>, AtTheLoop, pc = "loop", RealByte
    PROVE  /\ r - 1 \in 0..n - 1 /\ (r - 1 = 0 \/ p[r - 1] = "/")
           /\ Proper(ReadTo(r - 1).stack) /\ ReadTo(r - 1).element = <<>>
           /\ Stacked(ReadTo(r - 1)) = ReadTo(r - 1).stack
           /\ Written = Spelled(ReadTo(r - 1).stack)
           /\ (w > 2) <=> (ReadTo(r - 1).stack # <<>>)
<1>1. p \in Seq(STRING) /\ n \in Nat /\ r \in 1..n + 2 /\ r <= n
  BY PathText DEF IInv, TypeOK, RealByte
<1>2. r - 1 \in 0..n - 1 /\ r - 1 \in 0..n /\ (r - 1 = 0 \/ p[r - 1] = "/")
  BY <1>1 DEF AtTheLoop
<1>3. ReadTo(r - 1).element = <<>> /\ Stacked(ReadTo(r - 1)) = ReadTo(r - 1).stack
  BY <1>1, <1>2, Boundary
<1>4. Proper(ReadTo(r - 1).stack)
  BY <1>1, <1>2, ReadToTypes
<1>5. BeforeR = r - 1
  BY <1>1 DEF BeforeR
<1>6. Written = Spelled(ReadTo(r - 1).stack)
  BY <1>3, <1>5 DEF AtTheLoop
<1>7. (w > 2) <=> (ReadTo(r - 1).stack # <<>>)
  BY <1>4, <1>6, Something
<1> QED BY <1>2, <1>3, <1>4, <1>6, <1>7

Spells == AtTheLoop /\ AtTheBacktrack /\ AtTheElement

\* Back at the head of the loop.
LEMMA LoopAgain ==
    ASSUME p' = p, pc' = "loop", NEW k, k = (IF r' > n THEN n ELSE r' - 1),
           Written' = Spelled(Stacked(ReadTo(k))),
           (r' <= n /\ p[r'] # "/") => r' = 1 \/ p[r' - 1] = "/"
    PROVE  Spells'
<1>1. n' = n
  BY DEF n
<1>2. BeforeR' = k
  BY <1>1 DEF BeforeR
<1>3. (Stacked(ReadTo(BeforeR)))' = Stacked(ReadTo(k))
  BY <1>2 DEF ReadTo, Stacked
<1>4. (Spelled(Stacked(ReadTo(BeforeR))))' = Spelled(Stacked(ReadTo(k)))
  BY <1>3 DEF Spelled
<1>5. RealByte' => r' = 1 \/ p'[r' - 1] = "/"
  BY <1>1 DEF RealByte
<1>6. AtTheLoop'
  BY <1>4, <1>5 DEF AtTheLoop
<1>7. AtTheBacktrack' /\ AtTheElement'
  BY DEF AtTheBacktrack, AtTheElement
<1> QED BY <1>6, <1>7 DEF Spells

\* Every step keeps Spells, action by action.
LEMMA SkipSpells ==
    ASSUME IInv, p # <<>>, Spells, Skip
    PROVE  Spells'
<1>1. p \in Seq(STRING) /\ n \in Nat /\ r \in 1..n /\ p[r] = "/" /\ pc = "loop"
  BY PathText DEF IInv, TypeOK, Skip, Reading, At
<1>2. p' = p /\ pc' = "loop" /\ r' = r + 1 /\ w' = w /\ buf' = buf
  BY <1>1 DEF Skip
<1>3. Written' = Written
  BY <1>2 DEF Written
<1>4. BeforeR = r - 1
  BY <1>1 DEF BeforeR
<1>5. Written = Spelled(Stacked(ReadTo(r - 1)))
  BY <1>1, <1>4 DEF Spells, AtTheLoop
<1>6. Stacked(ReadTo(r)) = Stacked(ReadTo(r - 1))
  BY <1>1, ReadSlash
<1>7. r = (IF r' > n THEN n ELSE r' - 1) /\ p[r' - 1] = "/"
  BY <1>1, <1>2
<1> QED BY <1>2, <1>3, <1>5, <1>6, <1>7, LoopAgain

LEMMA SkipFinalDotSpells ==
    ASSUME IInv, p # <<>>, Spells, SkipFinalDot
    PROVE  Spells'
<1>1. p \in Seq(STRING) /\ n \in Nat /\ r = n /\ r \in 1..n /\ p[r] = "." /\ pc = "loop"
  BY PathText DEF IInv, TypeOK, SkipFinalDot, FinalDot, Reading, At
<1>2. p' = p /\ pc' = "loop" /\ r' = r + 1 /\ w' = w /\ buf' = buf
  BY <1>1 DEF SkipFinalDot
<1>3. Written' = Written
  BY <1>2 DEF Written
<1>4. RealByte /\ AtTheLoop
  BY <1>1 DEF RealByte, Spells
<1>5. /\ r - 1 \in 0..n - 1 /\ (r - 1 = 0 \/ p[r - 1] = "/")
      /\ Stacked(ReadTo(r - 1)) = ReadTo(r - 1).stack
      /\ Written = Spelled(ReadTo(r - 1).stack)
  BY <1>1, <1>4, AtTheStart
<1>6. (r - 1) + 1 = r
  BY <1>1
<1>7. Stacked(ReadTo(r)) = Stacked(ReadTo(r - 1))
  BY <1>1, <1>5, <1>6, ReadDot
<1>8. r = (IF r' > n THEN n ELSE r' - 1) /\ ~(r' <= n)
  BY <1>1, <1>2
<1> QED BY <1>2, <1>3, <1>5, <1>7, <1>8, LoopAgain

LEMMA SkipInnerDotSpells ==
    ASSUME IInv, p # <<>>, Spells, SkipInnerDot
    PROVE  Spells'
<1>1. /\ p \in Seq(STRING) /\ n \in Nat /\ r \in 1..n /\ r + 1 \in 1..n
      /\ p[r] = "." /\ p[r + 1] = "/" /\ pc = "loop"
  BY PathText DEF IInv, TypeOK, SkipInnerDot, InnerDot, Reading, At
<1>2. p' = p /\ pc' = "loop" /\ r' = r + 2 /\ w' = w /\ buf' = buf
  BY <1>1 DEF SkipInnerDot
<1>3. Written' = Written
  BY <1>2 DEF Written
<1>4. RealByte /\ AtTheLoop
  BY <1>1 DEF RealByte, Spells
<1>5. /\ r - 1 \in 0..n - 1 /\ (r - 1 = 0 \/ p[r - 1] = "/")
      /\ Stacked(ReadTo(r - 1)) = ReadTo(r - 1).stack
      /\ Written = Spelled(ReadTo(r - 1).stack)
  BY <1>1, <1>4, AtTheStart
<1>6. (r - 1) + 1 = r /\ (r + 1) - 1 = r
  BY <1>1
<1>7. Stacked(ReadTo(r)) = Stacked(ReadTo(r - 1))
  BY <1>1, <1>5, <1>6, ReadDot
<1>8. Stacked(ReadTo(r + 1)) = Stacked(ReadTo(r))
  BY <1>1, <1>6, ReadSlash
<1>9. r + 1 = (IF r' > n THEN n ELSE r' - 1) /\ p[r' - 1] = "/"
  BY <1>1, <1>2
<1> QED BY <1>2, <1>3, <1>5, <1>7, <1>8, <1>9, LoopAgain

\* What ".." leaves of the stack, whether a '/' or the end of the path follows.
LEMMA ParentPops ==
    ASSUME IInv, p # <<>>, Spells, Parent
    PROVE  LET k == IF r + 3 > n THEN n ELSE r + 2
               stack == ReadTo(r - 1).stack
           IN  /\ Stacked(ReadTo(k)) = IF stack = <<>> THEN <<>> ELSE AllButLast(stack)
               /\ r + 3 <= n => p[r + 2] = "/"
               /\ r + 3 <= n + 2
<1>1. /\ p \in Seq(STRING) /\ n \in Nat /\ r \in 1..n /\ r + 1 \in 1..n
      /\ p[r] = "." /\ p[r + 1] = "." /\ pc = "loop"
      /\ r + 1 = n \/ (r + 2 \in 1..n /\ p[r + 2] = "/")
  BY PathText DEF IInv, TypeOK, Parent, DotDot, Reading, At
<1>2. RealByte /\ AtTheLoop
  BY <1>1 DEF RealByte, Spells
<1>3. r - 1 \in 0..n - 1 /\ (r - 1 = 0 \/ p[r - 1] = "/")
  BY <1>1, <1>2, AtTheStart
<1>4. /\ (r - 1) + 1 = r /\ (r - 1) + 2 = r + 1 /\ (r + 2) - 1 = r + 1
      /\ r - 1 \in 0..n - 2
  BY <1>1, <1>3
<1>5. Stacked(ReadTo(r + 1)) = IF ReadTo(r - 1).stack = <<>> THEN <<>>
                               ELSE AllButLast(ReadTo(r - 1).stack)
  BY <1>1, <1>3, <1>4, ReadDotDot
<1>6. CASE r + 1 = n
  BY <1>1, <1>5, <1>6
<1>7. CASE r + 2 \in 1..n /\ p[r + 2] = "/"
  <2>1. Stacked(ReadTo(r + 2)) = Stacked(ReadTo(r + 1))
    BY <1>1, <1>4, <1>7, ReadSlash
  <2>2. (IF r + 3 > n THEN n ELSE r + 2) = r + 2
    BY <1>1, <1>7
  <2> QED BY <1>1, <1>5, <1>7, <2>1, <2>2
<1> QED BY <1>1, <1>6, <1>7

\* Still, or from now on, removing the last element of a stack.
LEMMA BacktrackAgain ==
    ASSUME p' = p, buf' = buf, pc' = "backtrack",
           NEW k, k = (IF r' > n THEN n ELSE r' - 1),
           NEW stack, stack = ReadTo(r' - 4).stack,
           r' >= 4, r' <= n + 2, r' <= n => p[r' - 1] = "/",
           stack # <<>>, Stacked(ReadTo(k)) = AllButLast(stack),
           Len(Joined[AllButLast(stack)]) < w', w' <= Len(Joined[stack]),
           \A i \in 1..w' : Byte(i) = Joined[stack][i]
    PROVE  Spells'
<1>1. n' = n
  BY DEF n
<1>2. BeforeR' = k
  BY <1>1 DEF BeforeR
<1>3. (Stacked(ReadTo(BeforeR)))' = Stacked(ReadTo(k))
  BY <1>2 DEF ReadTo, Stacked
<1>4. (ReadTo(r - 4).stack)' = stack
  BY DEF ReadTo
<1>5. \A i \in 1..w' : Byte(i)' = Joined[stack][i]
  BY DEF Byte
<1>6. AtTheBacktrack'
  BY <1>1, <1>3, <1>4, <1>5 DEF AtTheBacktrack, AllButLast
<1>7. AtTheLoop' /\ AtTheElement'
  BY DEF AtTheLoop, AtTheElement
<1> QED BY <1>6, <1>7 DEF Spells

LEMMA ParentSpells ==
    ASSUME IInv, p # <<>>, Spells, Parent
    PROVE  Spells'
<1> DEFINE k == IF r + 3 > n THEN n ELSE r + 2
           stack == ReadTo(r - 1).stack
<1>1. n \in Nat /\ r \in 1..n /\ w \in Nat /\ p' = p /\ r' = r + 3 /\ buf' = buf /\ pc = "loop"
      /\ AtTheLoop /\ RealByte
  BY PathText DEF IInv, TypeOK, Parent, DotDot, Reading, At, Spells, RealByte
<1>2. /\ Stacked(ReadTo(k)) = IF stack = <<>> THEN <<>> ELSE AllButLast(stack)
      /\ r + 3 <= n => p[r + 2] = "/"
      /\ r + 3 <= n + 2
  BY ParentPops
<1>3. Proper(stack) /\ Written = Spelled(stack) /\ (w > 2 <=> stack # <<>>)
  BY <1>1, AtTheStart
<1>4. k = (IF r' > n THEN n ELSE r' - 1)
  BY <1>1
<1>5. CASE w > 2
  <2>1. w' = w - 1 /\ pc' = "backtrack"
    BY <1>1, <1>5 DEF Parent
  <2>2. r' - 4 = r - 1
    BY <1>1
  <2>3. stack # <<>> /\ stack \in Seq(Seq(STRING)) /\ Written = Joined[stack]
    BY <1>3, <1>5 DEF Proper, Spelled
  <2>4. RealElement(stack[Len(stack)])
    BY <1>3, <2>3, FrontProper
  <2>5. /\ Joined[AllButLast(stack)] \in Seq(STRING) /\ stack[Len(stack)] \in Seq(STRING)
        /\ Len(Joined[stack]) = Len(Joined[AllButLast(stack)]) + 1 + Len(stack[Len(stack)])
    BY <2>3, JoinedShape
  <2>6. Len(Written) = w - 1 /\ \A i \in 1..w - 1 : Written[i] = Byte(i)
    BY WrittenBytes
  <2>7. Len(stack[Len(stack)]) # 0
    BY <2>4, <2>5 DEF RealElement
  <2> HIDE DEF k, stack
  <2>8. Len(Joined[AllButLast(stack)]) < w' /\ w' <= Len(Joined[stack])
    <3>1. Len(Joined[AllButLast(stack)]) \in Nat /\ Len(stack[Len(stack)]) \in Nat
      BY <2>5
    <3>2. Len(Joined[stack]) = w - 1
      BY <2>3, <2>6
    <3> DEFINE a == Len(Joined[AllButLast(stack)])
               b == Len(stack[Len(stack)])
               c == Len(Joined[stack])
    <3>3. a \in Nat /\ b \in Nat /\ b # 0 /\ c = a + 1 + b /\ c = w - 1
      BY <2>5, <2>7, <3>1, <3>2
    <3> HIDE DEF a, b, c
    <3>4. a < w' /\ w' <= c
      BY <1>1, <2>1, <3>3
    <3> QED BY <3>4 DEF a, c
  <2>9. \A i \in 1..w' : Byte(i) = Joined[stack][i]
    BY <2>1, <2>3, <2>6
  <2>10. Stacked(ReadTo(k)) = AllButLast(stack)
    BY <1>2, <2>3
  <2>11. r' >= 4 /\ r' <= n + 2 /\ (r' <= n => p[r' - 1] = "/")
    BY <1>1, <1>2
  <2>12. stack = ReadTo(r' - 4).stack
    BY <2>2 DEF stack
  <2> QED BY <1>1, <1>4, <2>1, <2>3, <2>8, <2>9, <2>10, <2>11, <2>12, BacktrackAgain
<1>6. CASE ~(w > 2)
  <2>1. w' = w /\ pc' = "loop"
    BY <1>1, <1>6 DEF Parent
  <2>2. Written' = Written
    BY <1>1, <2>1 DEF Written
  <2>3. Stacked(ReadTo(k)) = stack
    BY <1>2, <1>3, <1>6
  <2>4. r' <= n => p[r' - 1] = "/"
    BY <1>1, <1>2
  <2> HIDE DEF k, stack
  <2> QED BY <1>1, <1>3, <1>4, <2>1, <2>2, <2>3, <2>4, LoopAgain
<1> QED BY <1>5, <1>6

LEMMA BacktrackSpells ==
    ASSUME IInv, p # <<>>, Spells, Backtrack
    PROVE  Spells'
<1> DEFINE k == IF r > n THEN n ELSE r - 1
           stack == ReadTo(r - 4).stack
           f == Joined[AllButLast(stack)]
           e == stack[Len(stack)]
           t == Joined[stack]
<1>1. /\ p \in Seq(STRING) /\ n \in Nat /\ r \in 1..n + 2 /\ w \in 2..n + 2
      /\ p' = p /\ r' = r /\ buf' = buf /\ pc = "backtrack"
  BY PathText DEF IInv, TypeOK, Backtrack
<1>2. /\ r >= 4 /\ r <= n + 2 /\ (r <= n => p[r - 1] = "/")
      /\ stack # <<>> /\ Stacked(ReadTo(k)) = AllButLast(stack)
      /\ Len(f) < w /\ w <= Len(t)
      /\ \A i \in 1..w : Byte(i) = t[i]
  BY <1>1 DEF Spells, AtTheBacktrack, BeforeR
<1>3. Proper(stack)
  BY <1>1, <1>2, ReadToTypes
<1>4. stack \in Seq(Seq(STRING)) /\ Proper(AllButLast(stack)) /\ RealElement(e)
  BY <1>2, <1>3, FrontProper DEF Proper
<1>5. /\ f \in Seq(STRING) /\ e \in Seq(STRING) /\ t \in Seq(STRING)
      /\ Len(t) = Len(f) + 1 + Len(e)
      /\ \A i \in 1..Len(f) : t[i] = f[i]
      /\ t[Len(f) + 1] = "/"
      /\ \A i \in 1..Len(e) : t[Len(f) + 1 + i] = e[i]
  BY <1>2, <1>4, JoinedShape
<1> HIDE DEF f, e, t
<1>6. Len(f) \in Nat /\ Len(e) \in Nat /\ Len(t) \in Nat
  BY <1>5
<1>7. Previous = t[w]
  BY <1>1, <1>2 DEF Previous, Byte
<1>8. t[w] = "/" <=> w = Len(f) + 1
  <2>1. ASSUME w # Len(f) + 1 PROVE t[w] # "/"
    <3>1. w - (Len(f) + 1) \in 1..Len(e) /\ Len(f) + 1 + (w - (Len(f) + 1)) = w
      BY <1>1, <1>2, <1>5, <1>6, <2>1
    <3>2. e[w - (Len(f) + 1)] # "/"
      BY <1>4, <3>1 DEF RealElement, SlashFree
    <3> QED BY <1>5, <3>1, <3>2
  <2> QED BY <1>5, <2>1
<1>9. CASE w > 2 /\ Previous # "/"
  <2>1. w' = w - 1 /\ pc' = "backtrack"
    BY <1>1, <1>9 DEF Backtrack
  <2>2. Len(f) < w' /\ w' <= Len(t)
    BY <1>1, <1>2, <1>6, <1>7, <1>8, <1>9, <2>1
  <2>3. \A i \in 1..w' : Byte(i) = t[i]
    BY <1>1, <1>2, <2>1
  <2>4. r' >= 4 /\ r' <= n + 2 /\ (r' <= n => p[r' - 1] = "/")
    BY <1>1, <1>2
  <2>5. stack = ReadTo(r' - 4).stack /\ k = (IF r' > n THEN n ELSE r' - 1)
    BY <1>1
  <2> HIDE DEF k, stack
  <2> QED BY <1>1, <1>2, <2>1, <2>2, <2>3, <2>4, <2>5, BacktrackAgain DEF f, t
<1>10. CASE ~(w > 2 /\ Previous # "/")
  <2>1. w' = w /\ pc' = "loop"
    BY <1>1, <1>10 DEF Backtrack
  <2>2. Written' = Written
    BY <1>1, <2>1 DEF Written
  <2>3. Written \in Seq(Bytes) /\ Len(Written) = w - 1 /\ \A i \in 1..w - 1 : Written[i] = Byte(i)
    BY WrittenBytes
  <2>4. Written \in Seq(STRING)
    BY <2>3, BytesAreStrings, SeqMonotonic
  <2>5. Written = Spelled(AllButLast(stack))
    <3>1. CASE w = Len(f) + 1
      <4>1. \A i \in 1..w - 1 : Written[i] = f[i]
        <5> SUFFICES ASSUME NEW i \in 1..w - 1 PROVE Written[i] = f[i]
          OBVIOUS
        <5>1. i \in 1..w /\ i \in 1..Len(f)
          BY <1>1, <1>6, <3>1
        <5> QED BY <1>2, <1>5, <2>3, <5>1
      <4>2. Len(Written) = Len(f)
        BY <1>6, <2>3, <3>1
      <4>3. Written = f
        <5> QED BY <1>5, <2>3, <2>4, <4>1, <4>2, SeqEqual
      <4>4. AllButLast(stack) # <<>>
        <5>1. AllButLast(stack) = <<>> => f = <<>>
          BY JoinedDef DEF f
        <5>2. f # <<>>
          BY <1>1, <1>5, <1>6, <3>1
        <5> QED BY <5>1, <5>2
      <4> QED BY <4>3, <4>4 DEF Spelled, f
    <3>2. CASE w # Len(f) + 1
      <4>1. w = 2 /\ Len(f) = 0
        <5>1. t[w] # "/"
          BY <1>8, <3>2
        <5>2. w = 2
          BY <1>1, <1>7, <1>10, <5>1
        <5> QED BY <1>2, <1>6, <3>2, <5>2
      <4>2. AllButLast(stack) = <<>>
        <5>1. AllButLast(stack) \in Seq(Seq(STRING))
          BY <1>4 DEF Proper
        <5>2. AllButLast(stack) # <<>> => Len(f) # 0
          BY <5>1, JoinedStart DEF f
        <5> QED BY <4>1, <5>2
      <4>3. Len(Written) = 1 /\ Written[1] = "/"
        <5>1. Byte(1) = t[1] /\ t[1] = "/"
          BY <1>2, <1>5, <4>1
        <5> QED BY <2>3, <4>1, <5>1
      <4>4. Written = <<"/">>
        BY <2>4, <4>3, RootPath
      <4> QED BY <4>2, <4>4 DEF Spelled
    <3> QED BY <3>1, <3>2
  <2>6. r' <= n => p[r' - 1] = "/"
    BY <1>1, <1>2
  <2>7. k = (IF r' > n THEN n ELSE r' - 1)
    BY <1>1
  <2> HIDE DEF k, stack
  <2> QED BY <1>1, <1>2, <2>1, <2>2, <2>5, <2>6, <2>7, LoopAgain
<1> QED BY <1>9, <1>10

\* Inside an element.
LEMMA ElementAgain ==
    ASSUME p' = p, pc' = "element", NEW s, s = ReadTo(r' - 1),
           NEW start, start = r' - Len(s.element),
           r' - 1 <= n, Written' = Joined[s.stack] \o <<"/">> \o s.element,
           start >= 1, RealStart(start),
           \A i \in 1..Len(s.element) : s.element[i] = p[start + i - 1]
    PROVE  Spells'
<1>1. n' = n
  BY DEF n
<1>2. ReadTo(r - 1)' = s
  BY DEF ReadTo
<1>3. RealStart(start)'
  BY <1>1 DEF RealStart
<1>4. AtTheElement'
  BY <1>1, <1>2, <1>3 DEF AtTheElement, RealStart
<1>5. AtTheLoop' /\ AtTheBacktrack'
  BY DEF AtTheLoop, AtTheBacktrack
<1> QED BY <1>4, <1>5 DEF Spells

LEMMA ElementSpells ==
    ASSUME IInv, p # <<>>, Spells, Element
    PROVE  Spells'
<1> DEFINE s == ReadTo(r - 1)
<1>1. /\ p \in Seq(STRING) /\ n \in Nat /\ r \in 1..n /\ w \in Nat /\ p[r] # "/"
      /\ pc = "loop" /\ RealByte /\ AtTheLoop
      /\ p' = p /\ r' = r /\ pc' = "element"
  BY PathText DEF IInv, TypeOK, Element, Reading, At, RealByte, Spells
<1>2. /\ Proper(s.stack) /\ s.element = <<>>
      /\ Written = Spelled(s.stack)
      /\ (w > 2) <=> (s.stack # <<>>)
  BY <1>1, AtTheStart
<1>3. RealStart(r)
  <2>1. p[r] = "." => r < n /\ p[r + 1] # "/"
    BY <1>1 DEF Element, FinalDot, InnerDot, At
  <2>2. (p[r] = "." /\ p[r + 1] = ".") => r + 1 < n /\ p[r + 2] # "/"
    BY <1>1, <2>1 DEF Element, DotDot, At
  <2> QED BY <1>1, <2>1, <2>2 DEF RealStart
<1>4. s.stack \in Seq(Seq(STRING)) /\ Joined[s.stack] \in Seq(STRING)
  BY <1>2, JoinedDef DEF Proper
<1>5. Joined[s.stack] \o <<"/">> \o s.element = Append(Joined[s.stack], "/")
  <2>1. Joined[s.stack] \o <<"/">> \in Seq(STRING)
    BY <1>4, SlashIsText, ConcatProperties
  <2>2. Joined[s.stack] \o <<"/">> \o <<>> = Joined[s.stack] \o <<"/">>
    BY <2>1, ConcatEmptySeq
  <2>3. "/" \in STRING
    BY SpecialBytes, BytesAreStrings
  <2>4. Append(Joined[s.stack], "/") = Joined[s.stack] \o <<"/">>
    BY <1>4, <2>3, AppendIsConcat
  <2> QED BY <1>2, <2>2, <2>4
<1>6. Written' = Append(Joined[s.stack], "/")
  <2>1. CASE w > 2
    <3>1. w \in 1..(IF buf = <<>> THEN n ELSE Len(buf))
      BY <1>1, <2>1 DEF IInv, TypeOK, BufferSize, Behind, RealByte, Ahead
    <3>2. w' = w + 1 /\ buf' = BufApp(buf, w, "/")
      BY <2>1 DEF Element
    <3>3. Written' = Append(Written, "/")
      BY <1>1, <3>1, <3>2, SpecialBytes, Writes
    <3> QED BY <1>2, <2>1, <3>3 DEF Spelled
  <2>2. CASE ~(w > 2)
    <3>1. w' = w /\ buf' = buf
      BY <2>2 DEF Element
    <3>2. Written' = Written
      BY <1>1, <3>1 DEF Written
    <3>3. Written = <<"/">> /\ Joined[s.stack] = <<>>
      BY <1>2, <2>2, JoinedDef DEF Spelled
    <3> QED BY <3>2, <3>3
  <2> QED BY <2>1, <2>2
<1>7. r' - Len(s.element) = r /\ r' - 1 <= n /\ Len(s.element) = 0
  BY <1>1, <1>2
<1>8. s = ReadTo(r' - 1) /\ r >= 1
  BY <1>1
<1> HIDE DEF s
<1>9. \A i \in 1..Len(s.element) : s.element[i] = p[r + i - 1]
  BY <1>7
<1> QED BY <1>1, <1>3, <1>5, <1>6, <1>7, <1>8, <1>9, ElementAgain

\* The element just copied is a real one.
LEMMA ElementIsReal ==
    ASSUME IInv, p # <<>>, Spells, pc = "element", ~RealByte
    PROVE  RealElement(ReadTo(r - 1).element)
<1> DEFINE e == ReadTo(r - 1).element
           start == r - Len(e)
<1>1. p \in Seq(STRING) /\ n \in Nat /\ r \in 1..n + 2
  BY PathText DEF IInv, TypeOK
<1>2. /\ r - 1 <= n /\ RealStart(start)
      /\ \A i \in 1..Len(e) : e[i] = p[start + i - 1]
  BY DEF Spells, AtTheElement
<1>3. e \in Seq(STRING) /\ SlashFree(e)
  <2>1. r - 1 \in 0..n
    BY <1>1, <1>2
  <2> QED BY <1>1, <2>1, ReadToTypes DEF Read
<1>4. ~(r <= n /\ p[r] # "/")
  BY DEF RealByte
<1> HIDE DEF e
<1>5. e # <<>>
  <2>1. e = <<>> => start = r
    BY <1>1
  <2> QED BY <1>2, <1>4, <2>1 DEF RealStart
<1>6. e # <<".">>
  <2> SUFFICES ASSUME e = <<".">> PROVE FALSE
    OBVIOUS
  <2>1. start = r - 1 /\ e[1] = p[start] /\ e[1] = "." /\ start + 1 = r
    BY <1>1, <1>2
  <2> QED BY <1>1, <1>2, <1>4, <2>1 DEF RealStart
<1>7. e # <<".", ".">>
  <2> SUFFICES ASSUME e = <<".", ".">> PROVE FALSE
    OBVIOUS
  <2>1. Len(e) = 2 /\ e[1] = "." /\ e[2] = "."
    OBVIOUS
  <2>2. start = r - 2 /\ start + 1 = r - 1 /\ start + 2 = r
    BY <1>1, <2>1
  <2>3. p[start] = "." /\ p[start + 1] = "."
    BY <1>1, <1>2, <2>1, <2>2
  <2> QED BY <1>1, <1>2, <1>4, <2>2, <2>3 DEF RealStart
<1> QED BY <1>3, <1>5, <1>6, <1>7 DEF RealElement, e

LEMMA CopyByteSpells ==
    ASSUME IInv, p # <<>>, Spells, CopyByte
    PROVE  Spells'
<1> DEFINE s == ReadTo(r - 1)
           start == r - Len(s.element)
<1>1. /\ p \in Seq(STRING) /\ p \in Seq(Bytes) /\ n \in Nat /\ r \in 1..n + 2 /\ w \in Nat
      /\ pc = "element" /\ p' = p
  BY PathText DEF IInv, TypeOK, CopyByte
<1>2. /\ r - 1 <= n /\ Written = Joined[s.stack] \o <<"/">> \o s.element
      /\ start >= 1 /\ RealStart(start)
      /\ \A i \in 1..Len(s.element) : s.element[i] = p[start + i - 1]
  BY <1>1 DEF Spells, AtTheElement
<1>3. r - 1 \in 0..n
  BY <1>1, <1>2
<1>4. s.stack \in Seq(Seq(STRING)) /\ s.element \in Seq(STRING) /\ Joined[s.stack] \in Seq(STRING)
  <2>1. s \in Read
    BY <1>1, <1>3, ReadToTypes
  <2> QED BY <2>1, JoinedDef DEF Read
<1>5. CASE RealByte
  <2>1. /\ p[r] \in Bytes /\ p[r] \in STRING /\ r \in 1..n /\ p[r] # "/"
        /\ pc' = "element" /\ w' = w + 1 /\ r' = r + 1 /\ buf' = BufApp(buf, w, p[r])
    BY <1>1, <1>5 DEF RealByte, CopyByte, n
  <2>2. w \in 1..(IF buf = <<>> THEN n ELSE Len(buf))
    BY <1>1, <1>5 DEF IInv, TypeOK, BufferSize, Behind, RealByte, Ahead
  <2>3. Written' = Append(Written, p[r])
    BY <1>1, <2>1, <2>2, Writes
  <2>4. ReadTo(r).element = Append(s.element, p[r]) /\ ReadTo(r).stack = s.stack
    BY <1>1, <2>1, ReadByte
  <2> HIDE DEF s
  <2>5. Append(Joined[s.stack] \o <<"/">> \o s.element, p[r])
          = Joined[s.stack] \o <<"/">> \o Append(s.element, p[r])
    <3>1. Joined[s.stack] \o <<"/">> \in Seq(STRING)
      BY <1>4, SlashIsText, ConcatProperties
    <3>2. \A x, y \in Seq(STRING), c \in STRING : Append(x \o y, c) = x \o Append(y, c)
      <4> SUFFICES ASSUME NEW x \in Seq(STRING), NEW y \in Seq(STRING), NEW c \in STRING
                   PROVE  Append(x \o y, c) = x \o Append(y, c)
        OBVIOUS
      <4>1. x \o y \in Seq(STRING) /\ <<c>> \in Seq(STRING)
        BY ConcatProperties, SingletonSeq
      <4>2. Append(x \o y, c) = (x \o y) \o <<c>> /\ Append(y, c) = y \o <<c>>
        BY <4>1, AppendIsConcat
      <4>3. (x \o y) \o <<c>> = x \o (y \o <<c>>)
        BY <4>1, ConcatAssociative
      <4> QED BY <4>2, <4>3
    <3> QED BY <1>4, <2>1, <3>1, <3>2
  <2> DEFINE u == ReadTo(r)
  <2>6. Written' = Joined[u.stack] \o <<"/">> \o u.element
    BY <1>2, <2>3, <2>4, <2>5
  <2>7. /\ u.element \in Seq(STRING) /\ Len(u.element) = Len(s.element) + 1
        /\ \A i \in 1..Len(s.element) : u.element[i] = s.element[i]
        /\ u.element[Len(s.element) + 1] = p[r]
    BY <1>4, <2>1, <2>4, AppendProperties
  <2>8. u = ReadTo(r' - 1) /\ r' - 1 <= n
    <3>1. r' - 1 = r
      BY <2>1
    <3> QED BY <2>1, <3>1
  <2> HIDE DEF u
  <2>9. start = r' - Len(u.element)
    BY <1>1, <1>4, <2>1, <2>7
  <2>10. ASSUME NEW i \in 1..Len(u.element) PROVE u.element[i] = p[start + i - 1]
    <3>1. CASE i \in 1..Len(s.element)
      BY <1>2, <2>7, <3>1
    <3>2. CASE i = Len(s.element) + 1
      <4>1. start + i - 1 = r
        BY <1>1, <1>4, <3>2
      <4> QED BY <2>7, <3>2, <4>1
    <3>3. i \in 1..Len(s.element) \/ i = Len(s.element) + 1
      BY <1>4, <2>7
    <3> QED BY <3>1, <3>2, <3>3
  <2> HIDE DEF start
  <2>11. p' = p /\ pc' = "element" /\ start >= 1 /\ RealStart(start)
    BY <1>1, <1>2, <2>1
  <2>12. \A i \in 1..Len(u.element) : u.element[i] = p[start + i - 1]
    BY <2>10, Zenon
  <2> QED BY <2>6, <2>8, <2>9, <2>11, <2>12, ElementAgain
<1>6. CASE ~RealByte
  <2>1. pc' = "loop" /\ w' = w /\ r' = r /\ buf' = buf
    BY <1>6 DEF RealByte, CopyByte
  <2>2. Written' = Written
    BY <1>1, <2>1 DEF Written
  <2>3. RealElement(s.element)
    BY <1>1, <1>6, ElementIsReal
  <2>4. Stacked(s) = Append(s.stack, s.element)
    BY <2>3, StackedReal
  <2>5. Spelled(Append(s.stack, s.element)) = Written
    <3>1. Append(s.stack, s.element) # <<>>
      BY <1>4, AppendProperties
    <3>2. Joined[Append(s.stack, s.element)] = Joined[s.stack] \o <<"/">> \o s.element
      BY <1>4, JoinedAppend
    <3> QED BY <1>2, <3>1, <3>2 DEF Spelled
  <2>6. r - 1 = (IF r' > n THEN n ELSE r' - 1)
    BY <1>1, <1>2, <2>1
  <2>7. ~(r' <= n /\ p[r'] # "/")
    BY <1>6, <2>1 DEF RealByte
  <2> QED BY <1>1, <2>1, <2>2, <2>4, <2>5, <2>6, <2>7, LoopAgain
<1> QED BY <1>5, <1>6

\* Every step keeps TrailingSlash.
LEMMA TrailingStep ==
    ASSUME IInv, p # <<>>, Spells, TrailingSlash, Next
    PROVE  TrailingSlash'
<1> DEFINE Slashed == n > 1 /\ p[n] = "/"
           Ends2 == EndsInSlash(p) /\ p # <<"/">>
<1>1. /\ p \in Seq(STRING) /\ n \in Nat /\ n = Len(p) /\ n # 0
      /\ r \in 1..n + 2 /\ w \in Nat
  BY PathText DEF IInv, TypeOK
<1>2. Ends2 <=> (p # <<"/">> /\ (p[n] = "/" \/ (p[n] = "." /\ (n = 1 \/ p[n - 1] = "/"))))
  BY <1>1 DEF EndsInSlash
<1>3. p = <<"/">> <=> n = 1 /\ p[1] = "/"
  <2>1. n = 1 /\ p[1] = "/" => p = <<"/">>
    <3> SUFFICES ASSUME n = 1, p[1] = "/" PROVE p = <<"/">>
      OBVIOUS
    <3> QED BY <1>1, RootPath
  <2> QED BY <1>1, <2>1
<1>4. /\ (r <= n \/ pc = "element") => trailing = Slashed
      /\ (r > n /\ pc \in {"loop", "backtrack"}) => trailing = Ends2
  BY DEF TrailingSlash
<1> SUFFICES
      ASSUME p' = p
      PROVE  /\ (r' <= n \/ pc' = "element") => trailing' = Slashed
             /\ (r' > n /\ pc' \in {"loop", "backtrack"}) => trailing' = Ends2
  <2>1. p' = p
    BY DEF Next, Empty, Skip, SkipFinalDot, SkipInnerDot, Parent, Backtrack, Element, CopyByte, Finish
  <2>2. n' = n /\ EndsInSlash(p)' = EndsInSlash(p)
    BY <2>1 DEF n, EndsInSlash
  <2> QED BY <2>1, <2>2 DEF TrailingSlash
<1>5. ASSUME Slashed PROVE Ends2
  BY <1>1, <1>2, <1>3, <1>5
<1>6. ASSUME p[n] = "/", ~Slashed PROVE ~Ends2
  BY <1>1, <1>2, <1>3, <1>6
<1>7. CASE Skip
  <2>1. p[r] = "/" /\ r <= n /\ r' = r + 1 /\ pc' = "loop" /\ trailing' = trailing
    BY <1>7 DEF Skip, Reading, At
  <2>2. r' > n => r = n
    BY <1>1, <2>1
  <2> QED BY <1>4, <1>5, <1>6, <2>1, <2>2
<1>8. CASE SkipFinalDot
  <2>1. p[n] = "." /\ r = n /\ r' = r + 1 /\ pc' = "loop" /\ trailing' = TRUE /\ pc = "loop"
    BY <1>8 DEF SkipFinalDot, FinalDot, Reading, At
  <2>2. RealByte /\ AtTheLoop
    BY <1>1, <2>1 DEF RealByte, Spells
  <2>3. n = 1 \/ p[n - 1] = "/"
    BY <2>1, <2>2 DEF AtTheLoop
  <2>4. Ends2
    BY <1>2, <1>3, <2>1, <2>3
  <2>5. ~(r' <= n)
    BY <1>1, <2>1
  <2> QED BY <2>1, <2>4, <2>5
<1>9. CASE SkipInnerDot
  <2>1. /\ p[r + 1] = "/" /\ r + 1 <= n /\ r <= n /\ r' = r + 2
        /\ pc' = "loop" /\ trailing' = trailing
    BY <1>9 DEF SkipInnerDot, InnerDot, Reading, At
  <2>2. r' > n => r + 1 = n
    BY <1>1, <2>1
  <2> QED BY <1>4, <1>5, <1>6, <2>1, <2>2
<1>10. CASE Parent
  <2>1. /\ p[r] = "." /\ p[r + 1] = "." /\ r <= n /\ r + 1 <= n /\ r' = r + 3
        /\ pc' # "element" /\ trailing' = trailing /\ (r + 1 = n \/ (r + 2 <= n /\ p[r + 2] = "/"))
    BY <1>10 DEF Parent, DotDot, Reading, At
  <2>2. trailing' = Slashed
    BY <1>4, <2>1
  <2>3. ASSUME r' > n PROVE Slashed <=> Ends2
    <3>1. CASE r + 2 <= n
      <4>1. p[n] = "/"
        BY <1>1, <2>1, <2>3, <3>1
      <4> QED BY <1>5, <1>6, <4>1
    <3>2. CASE r + 1 = n
      <4>1. p[n] = "." /\ n - 1 = r /\ n # 1
        BY <1>1, <2>1, <3>2
      <4> QED BY <1>2, <2>1, <4>1
    <3> QED BY <1>1, <2>1, <3>1, <3>2
  <2> QED BY <2>1, <2>2, <2>3
<1>11. CASE Backtrack
  <2>1. pc = "backtrack" /\ pc' \in {"loop", "backtrack"} /\ r' = r /\ trailing' = trailing
    BY <1>11 DEF Backtrack
  <2> QED BY <1>4, <2>1
<1>12. CASE Element
  <2>1. r <= n /\ r' = r /\ pc' = "element" /\ trailing' = trailing
    BY <1>12 DEF Element, Reading
  <2> QED BY <1>1, <1>4, <2>1
<1>13. CASE CopyByte
  <2>1. /\ pc = "element" /\ pc' \in {"element", "loop"} /\ trailing' = trailing
        /\ pc' = "loop" => ~RealByte /\ r' = r
    BY <1>13 DEF CopyByte, RealByte
  <2>2. trailing' = Slashed
    BY <1>4, <2>1
  <2>3. ASSUME pc' = "loop", r' > n PROVE ~Slashed /\ ~Ends2
    <3> DEFINE e == ReadTo(r - 1).element
               start == r - Len(e)
    <3>1. RealElement(e)
      BY <2>1, <2>3, ElementIsReal
    <3>2. r - 1 <= n /\ start >= 1 /\ \A i \in 1..Len(e) : e[i] = p[start + i - 1]
      BY <2>1 DEF Spells, AtTheElement
    <3>3. r = n + 1
      BY <1>1, <2>1, <2>3, <3>2
    <3>4. e \in Seq(STRING)
      <4>1. r - 1 \in 0..n
        BY <1>1, <3>2
      <4> QED BY <1>1, <4>1, ReadToTypes DEF Read
    <3> HIDE DEF e
    <3>5. /\ Len(e) \in Nat /\ Len(e) # 0 /\ \A i \in 1..Len(e) : e[i] # "/"
          /\ ~(Len(e) = 1 /\ e[1] = ".")
      BY <3>1, <3>4 DEF RealElement, SlashFree
    <3>6. e[Len(e)] = p[n] /\ p[n] # "/"
      <4>1. Len(e) \in 1..Len(e) /\ start + Len(e) - 1 = n
        BY <1>1, <3>3, <3>5
      <4> QED BY <3>2, <3>5, <4>1
    <3>7. p[n] = "." => n # 1 /\ p[n - 1] # "/"
      <4>1. SUFFICES ASSUME p[n] = "." PROVE n # 1 /\ p[n - 1] # "/"
        OBVIOUS
      <4>2. Len(e) # 1
        BY <3>5, <3>6, <4>1
      <4> DEFINE l == Len(e)
      <4>3. l \in Nat /\ l > 1 /\ start = n + 1 - l
        <5>1. Len(e) \in Nat /\ Len(e) # 0 /\ r = n + 1
          BY <3>3, <3>5
        <5>2. start = n + 1 - l
          BY <1>1, <5>1
        <5>3. \A k \in Nat : k # 0 /\ k # 1 => k > 1
          OBVIOUS
        <5> QED BY <4>2, <5>1, <5>2, <5>3
      <4> HIDE DEF l, start
      <4>4. l - 1 \in 1..l /\ start + (l - 1) - 1 = n - 1 /\ n # 1
        BY <1>1, <3>2, <4>3
      <4>5. e[l - 1] = p[n - 1] /\ e[l - 1] # "/"
        <5>1. \A i \in 1..l : e[i] = p[start + i - 1] /\ e[i] # "/"
          BY <3>2, <3>5 DEF l
        <5>2. e[l - 1] = p[start + (l - 1) - 1] /\ e[l - 1] # "/"
          BY <4>4, <5>1
        <5> QED BY <4>4, <5>2
      <4> QED BY <4>4, <4>5
    <3> QED BY <1>2, <3>6, <3>7
  <2> QED BY <2>1, <2>2, <2>3
<1>14. CASE Empty \/ Finish
  BY <1>1, <1>14 DEF Empty, Finish
<1> QED
  BY <1>7, <1>8, <1>9, <1>10, <1>11, <1>12, <1>13, <1>14 DEF Next

\* The last step returns the canonical path.
LEMMA FinishCleans ==
    ASSUME IInv, p # <<>>, Spells, TrailingSlash, Finish
    PROVE  out' = Cleaned(p)
<1> DEFINE st == Elements(p)
<1>1. /\ p \in Seq(STRING) /\ n \in Nat /\ w \in Nat /\ r > n /\ r \in 1..n + 2 /\ pc = "loop"
      /\ p' = p /\ out' = Written'
  BY PathText DEF IInv, TypeOK, Finish, Written
<1>2. ~(r <= n) /\ BeforeR = n
  BY <1>1 DEF BeforeR
<1>3. Stacked(ReadTo(n)) = st
  BY <1>1, ReadToStep DEF Elements
<1>4. Proper(st)
  BY <1>1, <1>3, ReadToTypes
<1>5. Written = Spelled(st)
  BY <1>1, <1>2, <1>3 DEF Spells, AtTheLoop
<1>6. (w > 2) <=> (st # <<>>)
  BY <1>4, <1>5, Something
<1>7. st # <<>> => p # <<"/">>
  <2>1. <<"/">> = Append(<<>>, "/") /\ <<>> \in Seq(STRING)
    OBVIOUS
  <2>2. Elements(<<"/">>) = <<>>
    BY <2>1, SlashEnds, ElementsOfNothing
  <2> QED BY <2>2
<1>8. (trailing /\ w > 2) <=> (st # <<>> /\ EndsInSlash(p))
  <2>1. trailing = (EndsInSlash(p) /\ p # <<"/">>)
    BY <1>1 DEF TrailingSlash
  <2> QED BY <1>6, <1>7, <2>1
<1>9. Written \in Seq(STRING)
  <2>1. Written \in Seq(Bytes)
    BY WrittenBytes
  <2> QED BY <2>1, BytesAreStrings, SeqMonotonic
<1>10. CASE trailing /\ w > 2
  <2>1. w \in 1..(IF buf = <<>> THEN n ELSE Len(buf))
    BY <1>1, <1>10 DEF IInv, TypeOK, BufferSize, RoomForTheSlash, Ahead
  <2>2. w' = w + 1 /\ buf' = BufApp(buf, w, "/")
    BY <1>10 DEF Finish
  <2>3. Written' = Append(Written, "/")
    BY <1>1, <2>1, <2>2, SpecialBytes, Writes
  <2>4. Append(Written, "/") = Written \o <<"/">>
    BY <1>9, SlashEnds
  <2>5. Cleaned(p) = Spelled(st) \o <<"/">>
    BY <1>8, <1>10 DEF Cleaned
  <2> QED BY <1>1, <1>5, <2>3, <2>4, <2>5
<1>11. CASE ~(trailing /\ w > 2)
  <2>1. w' = w /\ buf' = buf
    BY <1>11 DEF Finish
  <2>2. Written' = Written
    BY <1>1, <2>1 DEF Written
  <2>3. Cleaned(p) = Spelled(st) \o <<>>
    BY <1>8, <1>11 DEF Cleaned
  <2>4. Written \o <<>> = Written
    BY <1>9, ConcatEmptySeq
  <2> QED BY <1>1, <1>5, <2>2, <2>3, <2>4
<1> QED BY <1>10, <1>11

\* The inductive invariant.
SInv ==
    /\ IInv
    /\ p # <<>> => Spells /\ TrailingSlash
    /\ AtTheEnd

LEMMA InitSInv == Init => SInv
<1> SUFFICES ASSUME Init PROVE SInv
  OBVIOUS
<1>1. IInv /\ AtTheEnd
  BY InitIInv DEF Init, AtTheEnd
<1>2. ASSUME p # <<>> PROVE Spells /\ TrailingSlash
  <2>1. p \in Seq(STRING) /\ n \in Nat /\ n = Len(p) /\ n # 0
    BY <1>1, <1>2, PathText
  <2>2. /\ pc = "loop" /\ w = 2
        /\ r = IF p[1] = "/" THEN 2 ELSE 1
        /\ buf = IF p[1] = "/" THEN <<>> ELSE Zeros(n + 1)
        /\ trailing = (n > 1 /\ p[n] = "/")
    BY <1>2, <2>1 DEF Init, At
  <2>3. Written = <<"/">>
    <3>1. Written \in Seq(Bytes) /\ Len(Written) = 1 /\ Written[1] = Byte(1)
      BY <1>1, <1>2, <2>2, WrittenBytes
    <3>2. Byte(1) = "/"
      <4>1. Zeros(n + 1) # <<>> /\ Zeros(n + 1)[1] = "/"
        BY <2>1 DEF Zeros
      <4> QED BY <2>2, <4>1 DEF Byte
    <3>3. Written \in Seq(STRING)
      BY <3>1, BytesAreStrings, SeqMonotonic
    <3> QED BY <3>1, <3>2, <3>3, RootPath
  <2>4. Stacked(ReadTo(BeforeR)) = <<>>
    <3>1. Stacked(ReadTo(0)) = <<>>
      BY <2>1, ReadToStep DEF NothingRead, Stacked
    <3>2. CASE p[1] = "/"
      <4>1. BeforeR = 1 /\ 1 \in 1..n /\ 1 - 1 = 0
        BY <2>1, <2>2, <3>2 DEF BeforeR
      <4> QED BY <2>1, <3>1, <3>2, <4>1, ReadSlash
    <3>3. CASE p[1] # "/"
      <4>1. BeforeR = 0
        BY <2>1, <2>2, <3>3 DEF BeforeR
      <4> QED BY <3>1, <4>1
    <3> QED BY <3>2, <3>3
  <2>5. AtTheLoop
    <3>1. RealByte => r = 1 \/ p[r - 1] = "/"
      BY <2>2
    <3> QED BY <2>3, <2>4, <3>1 DEF AtTheLoop, Spelled
  <2>6. AtTheBacktrack /\ AtTheElement
    BY <2>2 DEF AtTheBacktrack, AtTheElement
  <2>7. TrailingSlash
    <3>1. r > n => p = <<"/">> /\ trailing = FALSE
      <4> SUFFICES ASSUME r > n PROVE p = <<"/">> /\ trailing = FALSE
        OBVIOUS
      <4>1. n = 1 /\ p[1] = "/"
        BY <2>1, <2>2
      <4>2. p = <<"/">>
        BY <2>1, <4>1, RootPath
      <4>3. ~(n > 1 /\ p[n] = "/")
        BY <4>1
      <4> QED BY <2>2, <4>2, <4>3
    <3> QED BY <2>2, <3>1 DEF TrailingSlash
  <2> QED BY <2>5, <2>6, <2>7 DEF Spells
<1> QED BY <1>1, <1>2 DEF SInv

LEMMA StepSInv == SInv /\ [Next]_vars => SInv'
<1> SUFFICES ASSUME SInv, [Next]_vars PROVE SInv'
  OBVIOUS
<1>1. IInv /\ IInv' /\ AtTheEnd /\ (p # <<>> => Spells /\ TrailingSlash)
  BY StepIInv DEF SInv
<1>2. CASE UNCHANGED vars
  <2>1. IInv' /\ AtTheEnd'
    BY <1>1, <1>2 DEF vars, AtTheEnd, Cleaned, Elements, Spelled, EndsInSlash
  <2>2. p' = p /\ r' = r /\ w' = w /\ buf' = buf /\ pc' = pc /\ trailing' = trailing
    BY <1>2 DEF vars
  <2>3. (Spells /\ TrailingSlash) => (Spells /\ TrailingSlash)'
    BY <2>2, ZenonT(60)
       DEF Spells, AtTheLoop, AtTheBacktrack, AtTheElement, TrailingSlash, Written, ReadTo,
           BeforeR, Byte, RealStart, RealByte, n, Stacked, Spelled, AllButLast, EndsInSlash
  <2> QED BY <1>1, <2>1, <2>2, <2>3 DEF SInv
<1>3. CASE Next
  <2>1. p' = p
    BY <1>3 DEF Next, Empty, Skip, SkipFinalDot, SkipInnerDot, Parent, Backtrack, Element, CopyByte, Finish
  <2>2. ASSUME p # <<>> PROVE Spells'
    <3>1. CASE Skip
      BY <1>1, <2>2, <3>1, SkipSpells
    <3>2. CASE SkipFinalDot
      BY <1>1, <2>2, <3>2, SkipFinalDotSpells
    <3>3. CASE SkipInnerDot
      BY <1>1, <2>2, <3>3, SkipInnerDotSpells
    <3>4. CASE Parent
      BY <1>1, <2>2, <3>4, ParentSpells
    <3>5. CASE Backtrack
      BY <1>1, <2>2, <3>5, BacktrackSpells
    <3>6. CASE Element
      BY <1>1, <2>2, <3>6, ElementSpells
    <3>7. CASE CopyByte
      BY <1>1, <2>2, <3>7, CopyByteSpells
    <3>8. CASE Empty \/ Finish
      <4>1. pc' = "done"
        BY <3>8 DEF Empty, Finish
      <4> QED BY <4>1 DEF Spells, AtTheLoop, AtTheBacktrack, AtTheElement
    <3> QED
      BY <1>3, <3>1, <3>2, <3>3, <3>4, <3>5, <3>6, <3>7, <3>8 DEF Next
  <2>3. p # <<>> => TrailingSlash'
    BY <1>1, <1>3, TrailingStep
  <2>4. AtTheEnd'
    <3> SUFFICES ASSUME pc' = "done" PROVE out' = Cleaned(p')
      BY DEF AtTheEnd, Cleaned, Elements, Spelled, EndsInSlash
    <3>1. CASE Empty
      <4>1. p = <<>> /\ out' = <<"/">>
        BY <3>1 DEF Empty
      <4>2. Cleaned(<<>>) = <<"/">> \o <<>>
        BY ElementsOfNothing DEF Cleaned, Spelled
      <4>3. <<"/">> \o <<>> = <<"/">>
        BY SlashIsText, ConcatEmptySeq
      <4> QED BY <2>1, <4>1, <4>2, <4>3
    <3>2. CASE Finish
      <4>1. p # <<>>
        BY <3>2 DEF Finish
      <4> QED BY <1>1, <2>1, <3>2, <4>1, FinishCleans
    <3>3. CASE Skip \/ SkipFinalDot \/ SkipInnerDot \/ Parent \/ Backtrack \/ Element \/ CopyByte
      BY <3>3 DEF Skip, SkipFinalDot, SkipInnerDot, Parent, Backtrack, Element, CopyByte, Reading
    <3> QED BY <1>3, <3>1, <3>2, <3>3 DEF Next
  <2> QED BY <1>1, <2>1, <2>2, <2>3, <2>4 DEF SInv
<1> QED BY <1>2, <1>3

LEMMA SInvSpells == SInv => WrittenSpellsTheStack
<1> SUFFICES ASSUME SInv, pc = "loop", p # <<>>
             PROVE  Written = Spelled(Elements(SubSeq(p, 1, IF r > n THEN n ELSE r - 1)))
  BY DEF WrittenSpellsTheStack
<1> QED BY DEF SInv, Spells, AtTheLoop, BeforeR, ReadTo, Elements

LEMMA SInvCleans == SInv => CleansThePath
<1> SUFFICES ASSUME SInv, pc = "done" PROVE out = Cleaned(p) /\ Cleaned(out) = out
  BY DEF CleansThePath
<1>1. p \in Seq(STRING)
  BY PathText DEF SInv
<1>2. out = Cleaned(p)
  BY DEF SInv, AtTheEnd
<1> QED BY <1>1, <1>2, CleanedTwice

(* Whenever the loop looks at the path again, what it has written spells the *)
(* elements of the bytes it has read: "" and "." are skipped and ".." removes *)
(* exactly one element, for every path (path.go:58-109).                     *)
THEOREM SpellsTheStack == Spec => []WrittenSpellsTheStack
<1>1. Init => SInv
  BY InitSInv
<1>2. SInv /\ [Next]_vars => SInv'
  BY StepSInv
<1>3. SInv => WrittenSpellsTheStack
  BY SInvSpells
<1> QED BY <1>1, <1>2, <1>3, PTL DEF Spec

(* CleanPath returns the canonical path, with the trailing slash of a path    *)
(* that ends like a directory, and cleaning the result changes nothing, for   *)
(* every path (path.go:7-124, path_test.go:60-69).                           *)
THEOREM Cleans == Spec => []CleansThePath
<1>1. Init => SInv
  BY InitSInv
<1>2. SInv /\ [Next]_vars => SInv'
  BY StepSInv
<1>3. SInv => CleansThePath
  BY SInvCleans
<1> QED BY <1>1, <1>2, <1>3, PTL DEF Spec
=============================================================================
