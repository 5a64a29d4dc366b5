-------------------------- MODULE CaddyfileProofs --------------------------
(***************************************************************************)
(* The nested loops of the parser and the braces of the text keep in step, *)
(* and the documents that are rejected are those with a line that may not  *)
(* stand where it does: for every document of any length.                  *)
(***************************************************************************)
EXTENDS Caddyfile, FiniteSetTheorems, SequenceTheorems, TLAPS

\* How deep a block is within the directive, and the block of a depth.
Rank == [lura |-> 0, endpoint |-> 1, backend |-> 2, mapping |-> 3]
Names == <<"lura", "endpoint", "backend", "mapping">>

Docs == Seq(FirstLines \cup Lines)

\* The depth of a text after n lines, and what a line changes.
DepthIn(text, n) == Cardinality({i \in 1..n : Opens(text[i])})
                    - Cardinality({i \in 1..n : Closes(text[i])})
Change(l) == (IF Opens(l) THEN 1 ELSE 0) - (IF Closes(l) THEN 1 ELSE 0)

\* Line j opens a block of depth d that is still open, and is named for it.
Opener(text, j, d) ==
    /\ Opens(text[j]) /\ DepthIn(text, j - 1) = d - 1 /\ text[j][1] = Names[d]
    /\ \A i \in j..Len(text) : DepthIn(text, i) >= d
OpenTo(text, depth) ==
    \A d \in 1..4 : d <= depth => \E j \in 1..Len(text) : Opener(text, j, d)

DispenserTyped == doc \in Docs /\ Len(doc) > 0 /\ col \in 1..Len(Line)
Typed == /\ DispenserTyped
         /\ pc \in {"next", "switch", "done", "failed"} /\ block \in Blocks
         /\ level \in [Blocks -> 0..3] /\ DOMAIN built = Blocks

\* The nesting is the depth of the text, less a brace that is yet to be read.
Pending == IF Opens(Line) /\ col < Len(Line) THEN 1 ELSE 0
Nested == nesting = DepthIn(doc, Len(doc)) - Pending

\* The loops that run were entered one in the other.
Levels == \A b \in Blocks : Rank[b] <= Rank[block] => level[b] = Rank[b]

\* A loop is before its block or in it; it looks at tokens in its block only.
Where == /\ pc = "next" => nesting \in {Rank[block], Rank[block] + 1}
         /\ pc = "switch" => /\ ~Closes(Line)
                             /\ nesting = Rank[block] + (IF Val = OpenBrace THEN 2 ELSE 1)
         /\ pc = "failed" => nesting > Rank[block]

\* Whatever is left of a line are its arguments, but for those of `mapping'.
Leftover == block = "mapping" \/ (block = "backend" /\ Line[1] = "mapping")
Consumed ==
    /\ (pc = "next" /\ nesting = Rank[block]) =>
         Line[1] = block /\ (block \in {"endpoint", "backend"} => col = ArgsEnd)
    /\ (pc = "next" /\ nesting = Rank[block] + 1) => Leftover \/ col = ArgsEnd
    /\ (pc = "switch" /\ Val # OpenBrace) => Leftover \/ col = 1

Opened == pc \in {"next", "switch"} =>
    OpenTo(doc, IF nesting > Rank[block] THEN Rank[block] + 1 ELSE Rank[block])

IInv == Typed /\ Nested /\ Levels /\ Where /\ Consumed /\ Opened

-----------------------------------------------------------------------------
(* Lines and depths *)

LEMMA LineShape ==
    ASSUME NEW l \in FirstLines \cup Lines
    PROVE  /\ Len(l) \in Nat /\ Len(l) > 0
           /\ l[1] # OpenBrace
           /\ \A i \in 1..Len(l) : l[i] = OpenBrace => i = Len(l)
           /\ \A i \in 1..Len(l) : l[i] = CloseBrace => Closes(l)
           /\ Closes(l) => Len(l) = 1 /\ l[1] = CloseBrace /\ ~Opens(l)
           /\ Opens(l) => Len(l) > 1
<1>1. l \in Seq(STRING) /\ l # <<>>
  BY LinesWellFormed
<1>2. Len(l) \in Nat /\ Len(l) > 0 /\ DOMAIN l = 1..Len(l)
  BY <1>1
<1>3. \A i \in 1..Len(l) :
        /\ l[i] = OpenBrace => 1 < i /\ i = Len(l)
        /\ l[i] = CloseBrace => l = <<CloseBrace>>
  BY <1>2, LinesWellFormed
<1>4. l[1] # OpenBrace /\ (Opens(l) => Len(l) > 1 /\ Len(l) # 1)
  BY <1>2, <1>3 DEF Opens
<1>5. Closes(l) => Len(l) = 1 /\ l[1] = CloseBrace
  BY DEF Closes
<1>6. Closes(l) => ~Opens(l)
  BY <1>4, <1>5, Zenon
<1> QED BY <1>2, <1>3, <1>4, <1>5, <1>6 DEF Closes

\* Counting up to n + 1.
LEMMA CountStep ==
    ASSUME NEW S, NEW n \in Nat
    PROVE  LET upTo(k) == {i \in 1..k : i \in S}
           IN  /\ Cardinality(upTo(n)) \in Nat
               /\ Cardinality(upTo(n + 1)) =
                    Cardinality(upTo(n)) + (IF n + 1 \in S THEN 1 ELSE 0)
<1> DEFINE upTo(k) == {i \in 1..k : i \in S}
<1>1. IsFiniteSet(1..n) /\ upTo(n) \subseteq 1..n
  BY FS_Interval
<1>2. IsFiniteSet(upTo(n))
  BY <1>1, FS_Subset
<1>3. Cardinality(upTo(n)) \in Nat
  BY <1>2, FS_CardinalityType
<1>4. CASE n + 1 \in S
  <2>1. upTo(n + 1) = upTo(n) \cup {n + 1} /\ n + 1 \notin upTo(n)
    BY <1>4
  <2>2. Cardinality(upTo(n) \cup {n + 1}) = Cardinality(upTo(n)) + 1
    BY <1>2, <2>1, FS_AddElement
  <2> QED BY <1>3, <1>4, <2>1, <2>2
<1>5. CASE n + 1 \notin S
  <2>1. upTo(n + 1) = upTo(n)
    BY <1>5
  <2> QED BY <1>3, <1>5, <2>1
<1> QED BY <1>4, <1>5

LEMMA DepthStep ==
    ASSUME NEW text, NEW n \in Nat
    PROVE  /\ DepthIn(text, n) \in Int
           /\ DepthIn(text, n + 1) = DepthIn(text, n) + Change(text[n + 1])
<1> DEFINE O == {i \in 1..n + 1 : Opens(text[i])}
           C == {i \in 1..n + 1 : Closes(text[i])}
<1>1. /\ {i \in 1..n : i \in O} = {i \in 1..n : Opens(text[i])}
      /\ {i \in 1..n + 1 : i \in O} = {i \in 1..n + 1 : Opens(text[i])}
      /\ {i \in 1..n : i \in C} = {i \in 1..n : Closes(text[i])}
      /\ {i \in 1..n + 1 : i \in C} = {i \in 1..n + 1 : Closes(text[i])}
      /\ n + 1 \in O <=> Opens(text[n + 1])
      /\ n + 1 \in C <=> Closes(text[n + 1])
  OBVIOUS
<1> HIDE DEF O, C
<1>2. /\ Cardinality({i \in 1..n : Opens(text[i])}) \in Nat
      /\ Cardinality({i \in 1..n + 1 : Opens(text[i])}) =
           Cardinality({i \in 1..n : Opens(text[i])}) + (IF Opens(text[n + 1]) THEN 1 ELSE 0)
  BY <1>1, CountStep
<1>3. /\ Cardinality({i \in 1..n : Closes(text[i])}) \in Nat
      /\ Cardinality({i \in 1..n + 1 : Closes(text[i])}) =
           Cardinality({i \in 1..n : Closes(text[i])}) + (IF Closes(text[n + 1]) THEN 1 ELSE 0)
  BY <1>1, CountStep
<1> QED BY <1>2, <1>3 DEF DepthIn, Change

LEMMA NoDepth == \A text : DepthIn(text, 0) = 0
<1>1. 1..0 = {}
  OBVIOUS
<1> QED BY <1>1, FS_EmptySet DEF DepthIn

(* A line is appended: the text before it stays, the depth follows it.      *)
LEMMA Appended ==
    ASSUME NEW text \in Docs, NEW l \in Lines, NEW new, new = Append(text, l)
    PROVE  /\ new \in Docs /\ Len(text) \in Nat /\ Len(new) = Len(text) + 1
           /\ new[Len(new)] = l
           /\ \A i \in 1..Len(text) : new[i] = text[i]
           /\ \A i \in 0..Len(text) : DepthIn(new, i) = DepthIn(text, i)
           /\ DepthIn(text, Len(text)) \in Int /\ DepthIn(new, Len(new)) \in Int
           /\ DepthIn(new, Len(new)) = DepthIn(text, Len(text)) + Change(l)
<1>1. text \in Seq(FirstLines \cup Lines) /\ Len(text) \in Nat
  BY DEF Docs
<1>2. /\ new \in Docs /\ Len(new) = Len(text) + 1 /\ new[Len(new)] = l
      /\ \A i \in 1..Len(text) : new[i] = text[i]
  BY <1>1 DEF Docs
<1>3. \A i \in 0..Len(text) : DepthIn(new, i) = DepthIn(text, i)
  <2> TAKE i \in 0..Len(text)
  <2>1. {k \in 1..i : Opens(new[k])} = {k \in 1..i : Opens(text[k])}
    BY <1>1, <1>2
  <2>2. {k \in 1..i : Closes(new[k])} = {k \in 1..i : Closes(text[k])}
    BY <1>1, <1>2
  <2> QED BY <2>1, <2>2 DEF DepthIn
<1>4. DepthIn(new, Len(text) + 1) = DepthIn(new, Len(text)) + Change(new[Len(text) + 1])
  BY <1>1, DepthStep
<1>5. DepthIn(text, Len(text)) \in Int /\ DepthIn(new, Len(new)) \in Int
  BY <1>1, <1>2, DepthStep
<1>6. DepthIn(new, Len(text)) = DepthIn(text, Len(text))
  BY <1>1, <1>3
<1> QED BY <1>1, <1>2, <1>3, <1>4, <1>5, <1>6

\* The blocks that are open stay open, down to the new depth.
LEMMA StillOpen ==
    ASSUME NEW text \in Docs, NEW l \in Lines, NEW new, new = Append(text, l),
           NEW depth \in Nat, OpenTo(text, depth), DepthIn(new, Len(new)) >= depth
    PROVE  OpenTo(new, depth)
<1> SUFFICES ASSUME NEW d \in 1..4, d <= depth
             PROVE  \E j \in 1..Len(new) : Opener(new, j, d)
  BY DEF OpenTo
<1>1. PICK j \in 1..Len(text) : Opener(text, j, d)
  BY DEF OpenTo
<1>2. /\ Len(text) \in Nat /\ Len(new) = Len(text) + 1
      /\ DepthIn(new, Len(new)) \in Int
  BY Appended
<1>3. \A i \in 1..Len(text) : new[i] = text[i]
  BY Appended
<1>4. \A i \in 0..Len(text) : DepthIn(new, i) = DepthIn(text, i)
  BY Appended, ZenonT(40)
<1>5. j \in 1..Len(new) /\ new[j] = text[j] /\ DepthIn(new, j - 1) = DepthIn(text, j - 1)
  <2>1. j \in 1..Len(new) /\ j - 1 \in 0..Len(text)
    BY <1>2
  <2> QED BY <1>3, <1>4, <2>1
<1>6. ASSUME NEW i \in j..Len(new) PROVE DepthIn(new, i) >= d
  <2>1. CASE i <= Len(text)
    <3>1. i \in j..Len(text) /\ i \in 0..Len(text)
      BY <1>2, <2>1
    <3> QED BY <1>1, <1>4, <3>1 DEF Opener
  <2>2. CASE i = Len(new)
    BY <1>2, <2>2
  <2> QED BY <1>2, <2>1, <2>2
<1> QED BY <1>1, <1>5, <1>6 DEF Opener

\* A line that has just opened a block.
LEMMA NowOpen ==
    ASSUME NEW text \in Docs, Len(text) > 0, NEW depth \in 0..3, OpenTo(text, depth),
           Opens(text[Len(text)]), DepthIn(text, Len(text)) = depth + 1,
           text[Len(text)][1] = Names[depth + 1]
    PROVE  OpenTo(text, depth + 1)
<1>1. Len(text) \in Nat /\ text[Len(text)] \in FirstLines \cup Lines
  BY DEF Docs
<1>2. Len(text) - 1 \in Nat
  BY <1>1
<1>3. ~Closes(text[Len(text)])
  BY <1>1, LineShape
<1>4. Change(text[Len(text)]) = 1
  BY <1>3 DEF Change
<1>5. /\ DepthIn(text, Len(text) - 1) \in Int
      /\ DepthIn(text, (Len(text) - 1) + 1)
           = DepthIn(text, Len(text) - 1) + Change(text[(Len(text) - 1) + 1])
  BY <1>2, DepthStep
<1>6. DepthIn(text, Len(text) - 1) = depth
  <2>1. (Len(text) - 1) + 1 = Len(text)
    BY <1>1
  <2> QED BY <1>4, <1>5, <2>1
<1>7. Opener(text, Len(text), depth + 1)
  BY <1>1, <1>6 DEF Opener
<1> QED BY <1>1, <1>7 DEF OpenTo
-----------------------------------------------------------------------------
(* The dispenser *)

LEMMA RankFacts ==
    /\ Rank \in [Blocks -> 0..3] /\ Rank.lura = 0
    /\ \A b \in Blocks : Names[Rank[b] + 1] = b
    /\ \A b, c \in Blocks : Rank[b] = Rank[c] => b = c
    /\ \A b \in Blocks \ {"lura"} : Outer[b] \in Blocks /\ Rank[Outer[b]] = Rank[b] - 1
BY DEF Rank, Names, Blocks, Outer

LEMMA NotABrace ==
    /\ OpenBrace # CloseBrace /\ OpenBrace \notin Blocks \cup Helpers \cup DOMAIN Parts
    /\ \A b \in Blocks : OpenBrace \notin Single[b]
    /\ OpenBrace # "allow" /\ OpenBrace # "to"
<1>1. OpenBrace \notin DOMAIN Parts
  BY PartsAreNoBraces
<1>2. OpenBrace # CloseBrace
  BY Zenon DEF OpenBrace, CloseBrace
<1>3. OpenBrace \notin Blocks \cup Helpers
  BY Zenon DEF OpenBrace, Blocks, Helpers
<1>4. OpenBrace # "allow" /\ OpenBrace # "to"
  BY Zenon DEF OpenBrace
<1>5. OpenBrace \notin {"timeout", "cache_ttl", "url_pattern", "method", "concurrent_calls",
                        "group"}
  BY Zenon DEF OpenBrace
<1>6. \A b \in Blocks : Single[b] \subseteq {"timeout", "cache_ttl", "url_pattern", "method",
                                             "concurrent_calls", "group"}
  BY DEF Blocks, Single
<1> QED BY <1>1, <1>2, <1>3, <1>4, <1>5, <1>6

LEMMA TheLine ==
    ASSUME DispenserTyped
    PROVE  /\ Line \in FirstLines \cup Lines /\ Len(doc) \in Nat
           /\ Len(Line) \in Nat /\ col \in Nat /\ col >= 1 /\ col <= Len(Line)
           /\ DepthIn(doc, Len(doc)) \in Int
<1>1. Line \in FirstLines \cup Lines /\ Len(doc) \in Nat
  BY DEF DispenserTyped, Docs, Line
<1>2. Len(Line) \in Nat /\ col \in Nat /\ col >= 1 /\ col <= Len(Line)
  BY <1>1, LineShape DEF DispenserTyped
<1> QED BY <1>1, <1>2, DepthStep

(* A line is read: what the dispenser and the depths are then.              *)
LEMMA LineRead ==
    ASSUME DispenserTyped, Nested, NextLine
    PROVE  /\ DispenserTyped' /\ col' = 1 /\ Val' = Line'[1]
           /\ DepthIn(doc', Len(doc')) = nesting + Pending + Change(Line')
           /\ Val' # OpenBrace /\ (Val' = CloseBrace <=> Closes(Line'))
           /\ Closes(Line') => Len(Line') = 1 /\ ~Opens(Line')
           /\ Pending' = IF Opens(Line') THEN 1 ELSE 0
           /\ \A depth \in Nat : OpenTo(doc, depth) /\ DepthIn(doc', Len(doc')) >= depth
                                   => OpenTo(doc', depth)
<1>1. PICK l \in Lines : doc' = Append(doc, l) /\ col' = 1
  BY DEF NextLine
<1>2. doc \in Docs
  BY DEF DispenserTyped
<1>3. /\ doc' \in Docs /\ Len(doc) \in Nat /\ Len(doc') = Len(doc) + 1
      /\ doc'[Len(doc')] = l /\ DepthIn(doc, Len(doc)) \in Int
      /\ DepthIn(doc', Len(doc')) = DepthIn(doc, Len(doc)) + Change(l)
  <2> DEFINE new == doc'
  <2>1. new = Append(doc, l)
    BY <1>1
  <2> HIDE DEF new
  <2>2. new \in Docs /\ Len(doc) \in Nat /\ Len(new) = Len(doc) + 1
    BY <1>2, <2>1, Appended
  <2>3. new[Len(new)] = l
    BY <1>2, <2>1, Appended
  <2>4. DepthIn(doc, Len(doc)) \in Int
    BY <2>2, DepthStep
  <2>5. DepthIn(new, Len(new)) = DepthIn(doc, Len(doc)) + Change(l)
    BY <1>2, <2>1, Appended, ZenonT(40)
  <2> QED BY <2>2, <2>3, <2>4, <2>5 DEF new
<1>4. Line' = l /\ Val' = l[1]
  BY <1>1, <1>3 DEF Line, Val
<1>5. /\ Len(l) \in Nat /\ Len(l) > 0 /\ l[1] # OpenBrace
      /\ l[1] = CloseBrace => Closes(l)
      /\ Closes(l) => Len(l) = 1 /\ l[1] = CloseBrace /\ ~Opens(l)
      /\ Opens(l) => Len(l) > 1
  BY LineShape
<1>6. DispenserTyped'
  BY <1>1, <1>3, <1>4, <1>5 DEF DispenserTyped
<1>7. Pending' = IF Opens(l) THEN 1 ELSE 0
  BY <1>1, <1>4, <1>5 DEF Pending
<1>8. DepthIn(doc, Len(doc)) = nesting + Pending
  BY <1>3 DEF Nested, Pending
<1>9. \A depth \in Nat : OpenTo(doc, depth) /\ DepthIn(doc', Len(doc')) >= depth
                           => OpenTo(doc', depth)
  BY <1>1, <1>2, StillOpen
<1> QED BY <1>1, <1>3, <1>4, <1>5, <1>6, <1>7, <1>8, <1>9

\* What holds before every iteration, in the terms of one number.
LEMMA BeforeBlock ==
    ASSUME IInv, pc = "next", NEW r, r = Rank[block]
    PROVE  /\ r \in 0..3 /\ level[block] = r /\ nesting \in {r, r + 1}
           /\ OpenTo(doc, nesting) /\ Names[r + 1] = block
           /\ nesting = DepthIn(doc, Len(doc)) - Pending
<1>1. block \in Blocks /\ r \in 0..3 /\ Names[r + 1] = block
  BY RankFacts DEF IInv, Typed
<1>2. level[block] = r
  BY <1>1 DEF IInv, Levels
<1>3. nesting \in {r, r + 1}
  BY DEF IInv, Where
<1>4. OpenTo(doc, nesting)
  BY <1>1, <1>3 DEF IInv, Opened
<1> QED BY <1>1, <1>2, <1>3, <1>4 DEF IInv, Nested

(* NextBlock, when it returns true: the loop is in its block.               *)
LEMMA More ==
    ASSUME IInv, pc = "next", NextBlock(TRUE), NEW r, r = Rank[block]
    PROVE  /\ DispenserTyped' /\ Nested' /\ ~Closes(Line')
           /\ nesting' = r + (IF Val' = OpenBrace THEN 2 ELSE 1)
           /\ OpenTo(doc', r + 1)
           /\ \/ Val' = OpenBrace \/ col' = 1
              \/ Leftover /\ Line' = Line
<1>1. /\ r \in 0..3 /\ level[block] = r /\ nesting \in {r, r + 1}
      /\ OpenTo(doc, nesting) /\ Names[r + 1] = block
      /\ nesting = DepthIn(doc, Len(doc)) - Pending
  BY BeforeBlock
<1>2. DispenserTyped /\ Nested
  BY DEF IInv, Typed
<1>3. /\ Line \in FirstLines \cup Lines /\ Len(doc) \in Nat
      /\ Len(Line) \in Nat /\ col \in Nat /\ col >= 1 /\ col <= Len(Line)
      /\ DepthIn(doc, Len(doc)) \in Int
  BY <1>2, TheLine
<1>4. /\ \A i \in 1..Len(Line) : Line[i] = OpenBrace => i = Len(Line)
      /\ \A i \in 1..Len(Line) : Line[i] = CloseBrace => Closes(Line)
      /\ Closes(Line) => Len(Line) = 1
  BY <1>3, LineShape
<1>5. CASE nesting = r + 1 /\ ~AtEnd /\ OnSameLine
  <2>1. /\ col' = col + 1 /\ doc' = doc /\ r < nesting'
        /\ nesting' = CASE Val' = CloseBrace -> nesting - 1
                        [] Val' = OpenBrace -> nesting + 1
                        [] OTHER -> nesting
    BY <1>1, <1>5 DEF NextBlock, NextToken
  <2>2. Line' = Line /\ Val' = Line[col + 1] /\ col + 1 \in 1..Len(Line) /\ Len(Line) # 1
    BY <1>3, <1>5, <2>1 DEF Line, Val, OnSameLine
  <2>3. DispenserTyped' /\ ~Closes(Line') /\ Val' # CloseBrace
    BY <1>2, <1>4, <2>1, <2>2 DEF DispenserTyped
  <2>4. OpenTo(doc', r + 1)
    BY <1>1, <1>5, <2>1
  <2>5. CASE Val' = OpenBrace
    <3>1. nesting' = r + 2
      BY <1>1, <1>5, <2>1, <2>3, <2>5
    <3>2. col + 1 = Len(Line) /\ Opens(Line)
      BY <1>4, <2>2, <2>5 DEF Opens
    <3>3. Pending = 1 /\ Pending' = 0
      BY <1>3, <2>1, <2>2, <3>2 DEF Pending
    <3>4. Nested'
      BY <1>1, <1>3, <1>5, <2>1, <3>1, <3>3 DEF Nested
    <3> QED BY <2>3, <2>4, <2>5, <3>1, <3>4
  <2>6. CASE Val' # OpenBrace
    <3>1. nesting' = r + 1
      BY <1>1, <1>5, <2>1, <2>3, <2>6
    <3>2. Opens(Line) => col + 1 < Len(Line)
      BY <1>3, <2>2, <2>6 DEF Opens
    <3>3. Pending' = Pending
      BY <1>3, <2>1, <2>2, <3>2 DEF Pending
    <3>4. Nested'
      BY <1>1, <1>5, <2>1, <3>1, <3>3 DEF Nested
    <3>5. col # ArgsEnd
      BY <1>3, <1>5, <3>2 DEF ArgsEnd, OnSameLine
    <3>6. Leftover
      BY <1>5, <3>5 DEF IInv, Consumed
    <3> QED BY <2>2, <2>3, <2>4, <2>6, <3>1, <3>4, <3>6
  <2> QED BY <2>5, <2>6
<1>6. CASE nesting = r + 1 /\ ~AtEnd /\ ~OnSameLine
  <2>1. /\ NextLine /\ r < nesting'
        /\ nesting' = CASE Val' = CloseBrace -> nesting - 1
                        [] Val' = OpenBrace -> nesting + 1
                        [] OTHER -> nesting
    BY <1>1, <1>6 DEF NextBlock, NextToken
  <2>2. /\ DispenserTyped' /\ col' = 1 /\ Val' # OpenBrace
        /\ Val' = CloseBrace <=> Closes(Line')
        /\ DepthIn(doc', Len(doc')) = nesting + Pending + Change(Line')
        /\ Pending' = IF Opens(Line') THEN 1 ELSE 0
        /\ \A depth \in Nat : OpenTo(doc, depth) /\ DepthIn(doc', Len(doc')) >= depth
                                => OpenTo(doc', depth)
    BY <1>2, <2>1, LineRead
  <2>3. Val' # CloseBrace
    <3> SUFFICES ASSUME Val' = CloseBrace PROVE FALSE
      OBVIOUS
    <3>1. nesting' = nesting - 1
      BY <2>1, <2>2
    <3> QED BY <1>1, <1>6, <2>1, <3>1
  <2>4. nesting' = r + 1 /\ ~Closes(Line')
    BY <1>6, <2>1, <2>2, <2>3
  <2>5. DepthIn(doc', Len(doc')) = r + 1 + Pending'
    BY <1>1, <1>3, <1>6, <2>2, <2>4 DEF Pending, OnSameLine, Change
  <2>6. Pending' \in Nat
    BY <2>2
  <2>7. Nested'
    BY <1>1, <2>4, <2>5, <2>6 DEF Nested
  <2>8. OpenTo(doc', r + 1)
    BY <1>1, <1>6, <2>2, <2>5, <2>6
  <2> QED BY <2>2, <2>4, <2>7, <2>8
<1>7. CASE nesting = r /\ OnSameLine /\ Line[col + 1] = OpenBrace
  <2>1. NextLine /\ Val' # CloseBrace /\ nesting' = r + 1
    BY <1>1, <1>7 DEF NextBlock
  <2>2. /\ DispenserTyped' /\ col' = 1 /\ Val' # OpenBrace
        /\ Val' = CloseBrace <=> Closes(Line')
        /\ DepthIn(doc', Len(doc')) = nesting + Pending + Change(Line')
        /\ Pending' = IF Opens(Line') THEN 1 ELSE 0
        /\ \A depth \in Nat : OpenTo(doc, depth) /\ DepthIn(doc', Len(doc')) >= depth
                                => OpenTo(doc', depth)
    BY <1>2, <2>1, LineRead
  <2>3. Opens(Line) /\ Pending = 1
    BY <1>3, <1>4, <1>7 DEF Opens, OnSameLine, Pending
  <2>4. ~Closes(Line')
    BY <2>1, <2>2
  <2>5. DepthIn(doc', Len(doc')) = r + 1 + Pending' /\ Pending' \in Nat
    <3>1. Change(Line') = Pending' /\ Pending' \in Nat
      BY <2>2, <2>4 DEF Change
    <3> QED BY <1>1, <1>7, <2>2, <2>3, <3>1
  <2>6. Nested'
    BY <1>1, <2>1, <2>5 DEF Nested
  <2>7. OpenTo(doc, r + 1)
    <3>1. doc[Len(doc)][1] = Names[r + 1]
      BY <1>1, <1>7 DEF IInv, Consumed, Line
    <3>2. DepthIn(doc, Len(doc)) = r + 1
      BY <1>1, <1>3, <1>7, <2>3
    <3> QED BY <1>1, <1>2, <1>7, <2>3, <3>1, <3>2, NowOpen DEF DispenserTyped, Line
  <2>8. OpenTo(doc', r + 1)
    BY <1>1, <2>2, <2>5, <2>7
  <2> QED BY <2>1, <2>2, <2>4, <2>6, <2>8
<1> QED BY <1>1, <1>5, <1>6, <1>7 DEF NextBlock

(* NextBlock, when it returns false: the loop is out of its block.          *)
LEMMA NoMore ==
    ASSUME IInv, pc = "next", NextBlock(FALSE), NEW r, r = Rank[block]
    PROVE  /\ DispenserTyped' /\ Nested' /\ nesting' = r /\ OpenTo(doc', r)
           /\ \/ col' = ArgsEnd' \/ block = "lura"
              \/ block = "mapping" /\ Line'[1] = "mapping"
<1>1. /\ r \in 0..3 /\ level[block] = r /\ nesting \in {r, r + 1}
      /\ OpenTo(doc, nesting) /\ Names[r + 1] = block
      /\ nesting = DepthIn(doc, Len(doc)) - Pending
  BY BeforeBlock
<1>2. DispenserTyped /\ Nested
  BY DEF IInv, Typed
<1>3. /\ Line \in FirstLines \cup Lines /\ Len(doc) \in Nat
      /\ Len(Line) \in Nat /\ col \in Nat /\ col >= 1 /\ col <= Len(Line)
      /\ DepthIn(doc, Len(doc)) \in Int
  BY <1>2, TheLine
<1>4. /\ \A i \in 1..Len(Line) : Line[i] = OpenBrace => i = Len(Line)
      /\ \A i \in 1..Len(Line) : Line[i] = CloseBrace => Closes(Line)
      /\ Closes(Line) => Len(Line) = 1
  BY <1>3, LineShape
<1>5. CASE nesting = r + 1 /\ ~AtEnd /\ OnSameLine
  <2>1. /\ col' = col + 1 /\ doc' = doc /\ ~(r < nesting')
        /\ nesting' = CASE Val' = CloseBrace -> nesting - 1
                        [] Val' = OpenBrace -> nesting + 1
                        [] OTHER -> nesting
    BY <1>1, <1>5 DEF NextBlock, NextToken
  <2>2. Val' = Line[col + 1] /\ col + 1 \in 1..Len(Line) /\ Len(Line) # 1
    BY <1>3, <1>5, <2>1 DEF Line, Val, OnSameLine
  <2>3. Val' # CloseBrace
    BY <1>4, <2>2
  <2>4. nesting' \in {r + 1, r + 2}
    BY <1>1, <1>5, <2>1, <2>3
  <2> QED BY <1>1, <2>1, <2>4
\* The line that is read closes the block.
<1>6. ASSUME NextLine, Val' = CloseBrace, nesting' = r,
             nesting + Pending = r + 1, OpenTo(doc, r)
      PROVE  /\ DispenserTyped' /\ Nested' /\ OpenTo(doc', r) /\ col' = ArgsEnd'
  <2>1. /\ DispenserTyped' /\ col' = 1
        /\ Val' = CloseBrace <=> Closes(Line')
        /\ Closes(Line') => Len(Line') = 1 /\ ~Opens(Line')
        /\ DepthIn(doc', Len(doc')) = nesting + Pending + Change(Line')
        /\ Pending' = IF Opens(Line') THEN 1 ELSE 0
        /\ \A depth \in Nat : OpenTo(doc, depth) /\ DepthIn(doc', Len(doc')) >= depth
                                => OpenTo(doc', depth)
    BY <1>2, <1>6, LineRead
  <2>2. Closes(Line') /\ Len(Line') = 1 /\ ~Opens(Line')
    BY <1>6, <2>1
  <2>3. Change(Line') = -1 /\ Pending' = 0
    BY <2>1, <2>2 DEF Change
  <2>4. DepthIn(doc', Len(doc')) = r
    BY <1>1, <1>6, <2>1, <2>3
  <2>5. Nested'
    BY <1>1, <1>6, <2>3, <2>4 DEF Nested
  <2>6. OpenTo(doc', r)
    BY <1>1, <1>6, <2>1, <2>4
  <2>7. col' = ArgsEnd'
    BY <2>1, <2>2 DEF ArgsEnd
  <2> QED BY <2>1, <2>5, <2>6, <2>7
<1>7. OpenTo(doc, r)
  BY <1>1 DEF OpenTo
<1>8. CASE nesting = r + 1 /\ ~AtEnd /\ ~OnSameLine
  <2>1. /\ NextLine /\ ~(r < nesting')
        /\ nesting' = CASE Val' = CloseBrace -> nesting - 1
                        [] Val' = OpenBrace -> nesting + 1
                        [] OTHER -> nesting
    BY <1>1, <1>8 DEF NextBlock, NextToken
  <2>2. Val' # OpenBrace
    BY <1>2, <2>1, LineRead
  <2>3. Val' = CloseBrace
    <3> SUFFICES ASSUME Val' # CloseBrace PROVE FALSE
      OBVIOUS
    <3>1. nesting' = nesting
      BY <2>1, <2>2
    <3> QED BY <1>1, <1>8, <2>1, <3>1
  <2>4. nesting' = r
    BY <1>1, <1>8, <2>1, <2>2, <2>3
  <2>5. nesting + Pending = r + 1
    BY <1>1, <1>3, <1>8 DEF Pending, OnSameLine
  <2> QED BY <1>6, <1>7, <2>1, <2>3, <2>4, <2>5
<1>9. CASE nesting = r /\ OnSameLine /\ Line[col + 1] = OpenBrace
  <2>1. NextLine /\ Val' = CloseBrace /\ nesting' = r
    BY <1>1, <1>9 DEF NextBlock
  <2>2. nesting + Pending = r + 1
    BY <1>1, <1>3, <1>4, <1>9 DEF Opens, OnSameLine, Pending
  <2> QED BY <1>6, <1>7, <2>1, <2>2
<1>10. CASE nesting = r + 1 /\ AtEnd
  <2>1. DepthIn(doc, Len(doc)) = 0 /\ ~OnSameLine
    BY <1>10 DEF AtEnd, Depth, DepthIn
  <2>2. Pending = 0
    BY <1>3, <2>1 DEF Pending, OnSameLine
  <2> QED BY <1>1, <1>10, <2>1, <2>2
<1>11. CASE nesting = r /\ ~(OnSameLine /\ Line[col + 1] = OpenBrace)
  <2>1. UNCHANGED reader
    BY <1>1, <1>11 DEF NextBlock
  <2>2. doc' = doc /\ col' = col /\ nesting' = r /\ Line' = Line
    BY <1>11, <2>1 DEF reader, Line
  <2>3. DispenserTyped' /\ Nested' /\ OpenTo(doc', r)
    BY <1>1, <1>2, <1>7, <1>11, <2>2 DEF DispenserTyped, Nested, Pending
  <2>4. ArgsEnd' = ArgsEnd
    BY <2>2 DEF ArgsEnd, OnSameLine
  <2>5. Line[1] = block /\ (block \in {"endpoint", "backend"} => col = ArgsEnd)
    BY <1>11 DEF IInv, Consumed
  <2>6. block \in Blocks
    BY DEF IInv, Typed
  <2> QED BY <2>2, <2>3, <2>4, <2>5, <2>6 DEF Blocks
<1> QED BY <1>1, <1>5, <1>8, <1>9, <1>10, <1>11

-----------------------------------------------------------------------------
(* The loops *)

\* An option or a host is taken, and the loop goes on.
LEMMA MovedOn ==
    ASSUME IInv, pc = "switch", Val # OpenBrace, pc' = "next", DOMAIN built' = Blocks,
           UNCHANGED <<doc, nesting, block, level>>,
           col' = ArgsEnd \/ (col' = col /\ block = "mapping")
    PROVE  IInv'
<1>1. DispenserTyped /\ block \in Blocks /\ Rank[block] \in 0..3
  BY RankFacts DEF IInv, Typed
<1>2. nesting = Rank[block] + 1
  BY DEF IInv, Where
<1>3. /\ Line \in FirstLines \cup Lines
      /\ Len(Line) \in Nat /\ col \in Nat /\ col >= 1 /\ col <= Len(Line)
      /\ DepthIn(doc, Len(doc)) \in Int
  BY <1>1, TheLine
<1>4. Line' = Line /\ (Opens(Line) => Len(Line) > 1)
  BY <1>3, LineShape DEF Line
<1>5. col' \in 1..Len(Line) /\ Pending' = Pending /\ (col' = ArgsEnd => ArgsEnd' = ArgsEnd)
  BY <1>3, <1>4 DEF ArgsEnd, OnSameLine, Pending
<1>6. Typed'
  BY <1>1, <1>4, <1>5 DEF IInv, Typed, DispenserTyped
<1>7. Nested' /\ Levels'
  BY <1>5 DEF IInv, Nested, Levels
<1>8. Where'
  BY <1>1, <1>2 DEF Where
<1>9. Consumed'
  BY <1>1, <1>2, <1>5 DEF Consumed, Leftover
<1>10. Opened'
  BY DEF IInv, Opened
<1> QED BY <1>6, <1>7, <1>8, <1>9, <1>10 DEF IInv

\* The loop of an inner block begins on the line that names the block.
LEMMA Entered ==
    ASSUME IInv, NEW inner \in {"endpoint", "backend", "mapping"},
           pc = "switch", block = Outer[inner], Val = inner,
           pc' = "next", DOMAIN built' = Blocks, UNCHANGED <<doc, nesting>>,
           block' = inner, level' = [level EXCEPT ![inner] = nesting],
           col' = IF inner = "mapping" THEN col ELSE ArgsEnd
    PROVE  IInv'
<1>1. /\ DispenserTyped /\ block \in Blocks /\ inner \in Blocks /\ Rank[block] \in 0..3
      /\ Rank[inner] = Rank[block] + 1 /\ Rank[inner] \in 0..3
  BY RankFacts DEF IInv, Typed, Blocks
<1>2. Val # OpenBrace
  BY <1>1, NotABrace
<1>3. nesting = Rank[inner]
  BY <1>1, <1>2 DEF IInv, Where
<1>4. /\ Line \in FirstLines \cup Lines
      /\ Len(Line) \in Nat /\ col \in Nat /\ col >= 1 /\ col <= Len(Line)
      /\ DepthIn(doc, Len(doc)) \in Int
  BY <1>1, TheLine
<1>5. Line' = Line /\ (Opens(Line) => Len(Line) > 1)
  BY <1>4, LineShape DEF Line
<1>6. col' \in 1..Len(Line) /\ Pending' = Pending /\ (col' = ArgsEnd => ArgsEnd' = ArgsEnd)
  BY <1>4, <1>5 DEF ArgsEnd, OnSameLine, Pending
<1>7. Typed'
  BY <1>1, <1>3, <1>5, <1>6 DEF IInv, Typed, DispenserTyped
<1>8. Nested'
  BY <1>6 DEF IInv, Nested
<1>9. Levels'
  <2> SUFFICES ASSUME NEW b \in Blocks, Rank[b] <= Rank[inner] PROVE level'[b] = Rank[b]
    BY DEF Levels
  <2>1. CASE b = inner
    BY <1>1, <1>3, <2>1 DEF IInv, Typed
  <2>2. CASE b # inner
    <3>1. Rank[b] \in 0..3 /\ Rank[b] # Rank[inner]
      BY <1>1, <2>2, RankFacts
    <3>2. level'[b] = level[b]
      BY <2>2 DEF IInv, Typed
    <3> QED BY <1>1, <3>1, <3>2 DEF IInv, Levels
  <2> QED BY <2>1, <2>2
<1>10. Where'
  BY <1>1, <1>3 DEF Where
<1>11. Line[1] = inner
  <2>1. Leftover \/ col = 1
    BY <1>2 DEF IInv, Consumed
  <2>2. block \in {"lura", "endpoint"} \/ (block = "backend" /\ inner = "mapping")
    BY DEF Outer
  <2> QED BY <2>1, <2>2 DEF Leftover, Val
<1>12. Consumed'
  BY <1>1, <1>3, <1>5, <1>6, <1>11 DEF Consumed
<1>13. Opened'
  BY <1>1, <1>3 DEF IInv, Opened
<1> QED BY <1>7, <1>8, <1>9, <1>10, <1>12, <1>13 DEF IInv

LEMMA Begins == Init => IInv
<1> SUFFICES ASSUME Init PROVE IInv
  OBVIOUS
<1>1. PICK l \in FirstLines : doc = <<l>>
  BY DEF Init
<1>2. /\ col = 1 /\ nesting = 0 /\ pc = "next" /\ block = "lura"
      /\ level = [b \in Blocks |-> 0] /\ DOMAIN built = Blocks
  BY DEF Init
<1>3. /\ Len(l) \in Nat /\ Len(l) > 0 /\ (Closes(l) => l[1] = CloseBrace)
      /\ \A i \in 1..Len(l) : l[i] = OpenBrace => i = Len(l)
      /\ Opens(l) => Len(l) > 1
  BY LineShape
<1>4. l[1] = "lura"
  BY LinesWellFormed
<1>5. "lura" # CloseBrace
  BY Zenon DEF CloseBrace
<1>6. Len(doc) = 1 /\ Line = l /\ doc \in Docs
  BY <1>1 DEF Line, Docs
<1>7. Typed
  BY <1>2, <1>3, <1>6 DEF Typed, DispenserTyped, Blocks
<1>8. Nested
  <2>1. DepthIn(doc, 0 + 1) = DepthIn(doc, 0) + Change(doc[0 + 1])
    BY DepthStep
  <2>2. DepthIn(doc, Len(doc)) = Change(l)
    BY <1>1, <1>6, <2>1, NoDepth DEF Change
  <2>3. ~Closes(l)
    BY <1>3, <1>4, <1>5
  <2>4. Change(l) = Pending
    <3>1. Opens(l) => 1 < Len(l)
      BY <1>3
    <3>2. CASE Opens(l)
      BY <1>2, <1>6, <2>3, <3>1, <3>2 DEF Change, Pending
    <3>3. CASE ~Opens(l)
      BY <1>6, <2>3, <3>3 DEF Change, Pending
    <3> QED BY <3>2, <3>3
  <2>5. Pending \in Nat
    BY DEF Pending
  <2> QED BY <1>2, <2>2, <2>4, <2>5 DEF Nested
<1>9. Levels /\ Where
  BY <1>2, RankFacts DEF Levels, Where
<1>10. Consumed
  BY <1>2, <1>4, <1>6, RankFacts DEF Consumed
<1>11. Opened
  BY <1>2, RankFacts DEF Opened, OpenTo
<1> QED BY <1>7, <1>8, <1>9, <1>10, <1>11 DEF IInv

LEMMA Iterates == ASSUME IInv, Iterate PROVE IInv'
<1> DEFINE r == Rank[block]
<1>1. /\ pc = "next" /\ NextBlock(TRUE) /\ pc' = "switch"
      /\ block' = block /\ level' = level /\ built' = built
  BY DEF Iterate
<1>2. /\ DispenserTyped' /\ Nested' /\ ~Closes(Line')
      /\ nesting' = r + (IF Val' = OpenBrace THEN 2 ELSE 1)
      /\ OpenTo(doc', r + 1)
      /\ \/ Val' = OpenBrace \/ col' = 1
         \/ Leftover /\ Line' = Line
  BY <1>1, More
<1>3. block \in Blocks /\ r \in 0..3
  BY RankFacts DEF IInv, Typed
<1>4. Typed' /\ Levels'
  BY <1>1, <1>2 DEF IInv, Typed, Levels
<1>5. Where'
  BY <1>1, <1>2 DEF Where
<1>6. Consumed'
  BY <1>1, <1>2 DEF Consumed, Leftover
<1>7. Opened'
  BY <1>1, <1>2, <1>3 DEF Opened
<1> QED BY <1>2, <1>4, <1>5, <1>6, <1>7 DEF IInv

LEMMA LeavesBlock == ASSUME IInv, LeaveBlock PROVE IInv'
<1> DEFINE r == Rank[block]
<1>1. /\ pc = "next" /\ block # "lura" /\ NextBlock(FALSE)
      /\ block' = Outer[block] /\ pc' = pc /\ level' = level
      /\ DOMAIN built' = DOMAIN built
  BY DEF LeaveBlock
<1>2. /\ DispenserTyped' /\ Nested' /\ nesting' = r /\ OpenTo(doc', r)
      /\ \/ col' = ArgsEnd' \/ block = "lura"
         \/ block = "mapping" /\ Line'[1] = "mapping"
  BY <1>1, NoMore
<1>3. /\ block \in Blocks /\ r \in 0..3
      /\ block' \in Blocks /\ Rank[block'] = r - 1 /\ Rank \in [Blocks -> 0..3]
  BY <1>1, RankFacts DEF IInv, Typed
<1>4. Typed'
  BY <1>1, <1>2, <1>3 DEF IInv, Typed
<1>5. Levels'
  BY <1>1, <1>3 DEF IInv, Levels
<1>6. Where'
  BY <1>1, <1>2, <1>3 DEF Where
<1>7. Consumed'
  <2>1. block = "mapping" => block' = "backend"
    BY <1>1 DEF Outer
  <2> QED BY <1>1, <1>2, <1>3, <2>1 DEF Consumed, Leftover
<1>8. Opened'
  BY <1>1, <1>2, <1>3 DEF Opened
<1> QED BY <1>2, <1>4, <1>5, <1>6, <1>7, <1>8 DEF IInv

LEMMA Finishes == ASSUME IInv, Finish PROVE IInv'
<1>1. /\ pc = "next" /\ NextBlock(FALSE) /\ pc' = "done"
      /\ block' = block /\ level' = level /\ built' = built
  BY DEF Finish
<1>2. DispenserTyped' /\ Nested'
  BY <1>1, NoMore
<1> QED BY <1>1, <1>2 DEF IInv, Typed, Levels, Where, Consumed, Opened

LEMMA Fails == ASSUME IInv, Fail PROVE IInv'
<1>1. /\ pc = "switch" /\ pc' = "failed" /\ doc' = doc /\ col' = col
      /\ nesting' = nesting /\ block' = block /\ level' = level /\ built' = built
  BY DEF Fail, reader
<1>2. Typed' /\ Nested' /\ Levels'
  BY <1>1 DEF IInv, Typed, DispenserTyped, Nested, Pending, Levels, Line
<1>3. block \in Blocks /\ Rank[block] \in 0..3
  BY RankFacts DEF IInv, Typed
<1>4. Where'
  BY <1>1, <1>3 DEF IInv, Where
<1> QED BY <1>1, <1>2, <1>4 DEF IInv, Consumed, Opened

\* An option, a host or a field is taken.
LEMMA Taken ==
    ASSUME IInv, SetOption \/ SetHelper \/ Allow \/ To \/ MapField
    PROVE  IInv'
<1> DEFINE Kept == UNCHANGED <<doc, nesting, block, level>>
<1>1. block \in Blocks /\ DOMAIN built = Blocks
  BY DEF IInv, Typed
<1>2. ASSUME NEW construct, Continue(construct)
      PROVE  pc' = "next" /\ DOMAIN built' = Blocks /\ Kept /\ col' = ArgsEnd
  BY <1>1, <1>2 DEF Continue
<1>3. CASE SetOption
  <2>1. pc = "switch" /\ Val # OpenBrace
    BY <1>1, <1>3, NotABrace DEF SetOption
  <2> QED BY <1>2, <1>3, <2>1, MovedOn DEF SetOption
<1>4. CASE SetHelper
  <2>1. pc = "switch" /\ Val # OpenBrace
    BY <1>4, NotABrace DEF SetHelper
  <2> QED BY <1>2, <1>4, <2>1, MovedOn DEF SetHelper
<1>5. CASE Allow
  <2>1. pc = "switch" /\ Val # OpenBrace
    BY <1>5, NotABrace DEF Allow
  <2> QED BY <1>2, <1>5, <2>1, MovedOn DEF Allow
<1>6. CASE To
  <2>1. pc = "switch" /\ Val # OpenBrace
    BY <1>6, NotABrace DEF To
  <2> QED BY <1>2, <1>6, <2>1, MovedOn DEF To
<1>7. CASE MapField
  <2>1. pc = "switch" /\ Val # OpenBrace
    BY <1>7, NotABrace DEF MapField
  <2>2. /\ pc' = "next" /\ DOMAIN built' = Blocks /\ Kept
        /\ col' = col /\ block = "mapping"
    BY <1>1, <1>7 DEF MapField, reader
  <2> QED BY <2>1, <2>2, MovedOn
<1> QED BY <1>3, <1>4, <1>5, <1>6, <1>7

LEMMA Enters ==
    ASSUME IInv, EnterEndpoint \/ EnterBackend \/ EnterMapping
    PROVE  IInv'
<1>1. DOMAIN built = Blocks
  BY DEF IInv, Typed
<1>2. CASE EnterEndpoint
  BY <1>1, <1>2, Entered DEF EnterEndpoint, Enter
<1>3. CASE EnterBackend
  BY <1>1, <1>3, Entered DEF EnterBackend, Enter
<1>4. CASE EnterMapping
  BY <1>1, <1>4, Entered DEF EnterMapping, Enter
<1> QED BY <1>2, <1>3, <1>4

-----------------------------------------------------------------------------
(* The theorems *)

LEMMA Kept == IInv /\ [Next]_vars => IInv'
<1> SUFFICES ASSUME IInv, [Next]_vars PROVE IInv'
  OBVIOUS
<1>1. CASE UNCHANGED vars
  BY <1>1 DEF vars, reader, IInv, Typed, DispenserTyped, Nested, Pending, Levels, Where,
              Consumed, Leftover, Opened, ArgsEnd, OnSameLine, Line, Val
<1>2. CASE Next
  BY <1>2, Iterates, LeavesBlock, Finishes, Fails, Taken, Enters DEF Next
<1> QED BY <1>1, <1>2

(* The parser's types, with a dispenser whose nesting is the depth of the   *)
(* text that was read (NextBlock, at caddyfile.go:32, 103, 172, 208), for   *)
(* documents of any length.                                                 *)
THEOREM TypesKept == Spec => []TypeOK
<1>1. IInv => TypeOK
  <2> SUFFICES ASSUME IInv PROVE TypeOK
    OBVIOUS
  <2>1. block \in Blocks /\ Rank[block] \in 0..3 /\ DispenserTyped
    BY RankFacts DEF IInv, Typed
  <2>2. ToSet(doc) \subseteq Lines \cup FirstLines
    BY <2>1 DEF DispenserTyped, Docs, ToSet
  <2>3. pc # "done" => level[block] <= nesting
    <3>1. level[block] = Rank[block] /\ pc \in {"next", "switch", "done", "failed"}
      BY <2>1 DEF IInv, Typed, Levels
    <3>2. pc = "next" => nesting \in {Rank[block], Rank[block] + 1}
      BY DEF IInv, Where
    <3>3. pc = "switch" => nesting \in {Rank[block] + 1, Rank[block] + 2}
      BY DEF IInv, Where
    <3>4. pc = "failed" => nesting > Rank[block]
      BY DEF IInv, Where
    <3>5. pc \in {"next", "switch"} => level[block] <= nesting
      BY <2>1, <3>1, <3>2, <3>3
    <3>6. pc = "failed" => level[block] <= nesting
      <4>1. nesting \in Int
        BY <2>1, TheLine DEF IInv, Nested, Pending
      <4> QED BY <2>1, <3>1, <3>4, <4>1
    <3> QED BY <3>1, <3>5, <3>6
  <2>4. nesting = Depth(Len(doc)) - (IF Opens(Line) /\ OnSameLine THEN 1 ELSE 0)
    BY DEF IInv, Nested, Pending, OnSameLine, Depth, DepthIn
  <2> QED BY <2>1, <2>2, <2>3, <2>4 DEF IInv, Typed, DispenserTyped, TypeOK
<1> QED BY <1>1, Begins, Kept, PTL DEF Spec

\* The last line read is in a block of this name.
Within(b) == Owner(Len(doc)) \in 1..Len(doc) /\ In(Len(doc)) = b

\* The line that opens the block a token is in is the one of its loop.
LEMMA OwnLine ==
    ASSUME IInv, pc = "switch", Val # OpenBrace
    PROVE  Within(block) /\ Len(doc) > 1 /\ level[block] = nesting - 1
<1> DEFINE n == Len(doc)
           r == Rank[block]
<1>1. block \in Blocks /\ r \in 0..3 /\ Names[r + 1] = block /\ DispenserTyped
  BY RankFacts DEF IInv, Typed
<1>2. nesting = r + 1 /\ level[block] = r /\ ~Closes(Line)
  BY <1>1 DEF IInv, Levels, Where
<1>3. /\ Line \in FirstLines \cup Lines /\ n \in Nat /\ n > 0
      /\ Len(Line) \in Nat /\ col \in Nat /\ col >= 1 /\ col <= Len(Line)
      /\ DepthIn(doc, n) \in Int
  BY <1>1, TheLine DEF DispenserTyped
<1>4. DepthIn(doc, n) = r + 1 + Change(Line)
  <2>1. Opens(Line) => col # Len(Line)
    BY DEF Opens, Val
  <2>2. Pending = Change(Line)
    BY <1>2, <1>3, <2>1 DEF Pending, Change
  <2>3. Pending \in Nat
    BY DEF Pending
  <2> QED BY <1>1, <1>2, <1>3, <2>2, <2>3 DEF IInv, Nested
<1>5. DepthIn(doc, n - 1) = r + 1
  <2>1. /\ DepthIn(doc, n - 1) \in Int
        /\ DepthIn(doc, (n - 1) + 1) = DepthIn(doc, n - 1) + Change(doc[(n - 1) + 1])
    BY <1>3, DepthStep, SMTT(20)
  <2>2. (n - 1) + 1 = n /\ doc[n] = Line
    BY <1>3 DEF Line
  <2>3. Change(Line) \in Int
    BY DEF Change
  <2> QED BY <1>1, <1>4, <2>1, <2>2, <2>3
<1>6. PICK j \in 1..n : Opener(doc, j, r + 1)
  BY <1>1, <1>2 DEF IInv, Opened, OpenTo
<1> DEFINE S == {k \in 1..n - 1 : Opens(doc[k]) /\ Depth(k - 1) = Depth(n - 1) - 1}
<1>7. \A k : Depth(k) = DepthIn(doc, k)
  BY DEF Depth, DepthIn
<1>8. j \in S
  <2>1. j # n
    BY <1>1, <1>5, <1>6 DEF Opener
  <2> QED BY <1>1, <1>3, <1>5, <1>6, <1>7, <2>1 DEF Opener
<1>9. ASSUME NEW k \in S PROVE k <= j
  <2> SUFFICES ASSUME k > j PROVE FALSE
    BY <1>3, <1>6
  <2>1. DepthIn(doc, k - 1) = r
    BY <1>1, <1>5, <1>7
  <2>2. k - 1 \in j..n
    BY <1>3, <1>6
  <2>3. DepthIn(doc, k - 1) >= r + 1
    BY <1>6, <2>2 DEF Opener
  <2> QED BY <1>1, <2>1, <2>3
<1>10. Max(S) = j
  <2>1. \A x \in S : (\A y \in S : x >= y) => x = j
    BY <1>3, <1>8, <1>9
  <2>2. j \in S /\ \A y \in S : j >= y
    BY <1>3, <1>8, <1>9
  <2> HIDE DEF S
  <2> QED BY <2>1, <2>2 DEF Max
<1>11. Owner(n) = j
  BY <1>10 DEF Owner
<1>12. n > 1
  BY <1>3, <1>8
<1>13. Owner(n) \in 1..n /\ doc[Owner(n)][1] = block
  BY <1>1, <1>6, <1>11 DEF Opener
<1> QED BY <1>1, <1>2, <1>12, <1>13 DEF Within, In

LEMMA OwnLines == IInv => LoopsGetTheirOwnLines
BY OwnLine DEF LoopsGetTheirOwnLines, Within

(* Each of the nested loops gets the lines of its own block and no other    *)
(* (caddyfile.go:32, 103, 172, 208), in every document however long and     *)
(* whatever its blocks.                                                     *)
THEOREM LoopsKeepToTheirBlocks == Spec => []LoopsGetTheirOwnLines
BY Begins, Kept, OwnLines, PTL DEF Spec

-----------------------------------------------------------------------------
(* Verdicts: what the loops know of the lines they have passed.             *)

\* The tokens before the cursor are `mapping's without a block, or fields.
NoBlockAt(line, k) == line[k] = "mapping" /\ (k < Len(line) => line[k + 1] # OpenBrace)
Skipped(c) == \A k \in 1..c : NoBlockAt(Line, k)
FieldsTo(c) == \A k \in 1..c : Line[k] \in DOMAIN Parts

Settled == \A i \in 2..Len(doc) - 1 :
    Closes(doc[i]) \/ (Owner(i) \in 1..Len(doc) /\ Fits(i))

\* Before a block: the line that names it fits, if it opens it.
Before == (pc = "next" /\ nesting = Rank[block]) =>
    IF block = "lura" THEN Len(doc) = 1
    ELSE /\ Within(Outer[block])
         /\ block = "mapping" => Line[col] = "mapping" /\ Skipped(col - 1)
         /\ block # "mapping" => Fit(Outer[block], Line)

\* In a block: a line whose rest is a brace does not fit.
Inside == (pc = "next" /\ nesting = Rank[block] + 1) =>
    \/ Closes(Line) /\ col = ArgsEnd
    \/ /\ Within(block)
       /\ \/ block = "mapping" /\ FieldsTo(col)
          \/ block = "backend" /\ Skipped(col)
          \/ block # "mapping" /\ col = ArgsEnd /\ (Fit(block, Line) <=> Pending = 0)

Looks == pc = "switch" =>
    IF Val = OpenBrace THEN ~Fits(Len(doc))
    ELSE /\ block = "backend" => Skipped(col - 1)
         /\ block = "mapping" => FieldsTo(col - 1)

Ends == /\ pc = "failed" => ~Fits(Len(doc))
        /\ pc = "done" => Len(doc) = 1 \/ Closes(Line)

Verdicts == Settled /\ Before /\ Inside /\ Looks /\ Ends

\* Where the reading of a line in a backend begins.
LEMMA FirstReadIs ==
    ASSUME NEW l \in FirstLines \cup Lines, NEW c \in 1..Len(l),
           \A k \in 1..c - 1 : NoBlockAt(l, k),
           ~NoBlockAt(l, c) \/ c = Len(l)
    PROVE  FirstRead(l) = c
<1>1. l \in Seq(STRING)
  BY LinesWellFormed
<1>2. c \in Nat /\ Len(l) \in Nat /\ c >= 1 /\ c <= Len(l)
  BY <1>1
<1> DEFINE Starts(k) == l[k] # "mapping" \/ k = Len(l) \/ l[k + 1] = OpenBrace
           S == {k \in DOMAIN l : Starts(k)}
<1>3. FirstRead(l) = Min(S) /\ Starts(c)
  BY DEF FirstRead, NoBlockAt
<1>4. \A k \in 1..c - 1 : ~Starts(k)
  <2> TAKE k \in 1..c - 1
  <2>1. k < Len(l) /\ k # Len(l)
    BY <1>2
  <2> QED BY <2>1 DEF NoBlockAt
<1> HIDE DEF Starts
<1>5. \A k : k \in S <=> k \in 1..Len(l) /\ Starts(k)
  <2>1. DOMAIN l = 1..Len(l)
    BY <1>1
  <2> QED BY <2>1, Zenon
<1> HIDE DEF S
<1>6. c \in S /\ \A k \in S : c <= k
  BY <1>2, <1>3, <1>4, <1>5
<1>7. \A k \in S : (\A j \in S : k <= j) => k = c
  BY <1>2, <1>5, <1>6
<1>8. Min(S) = c
  BY <1>6, <1>7 DEF Min
<1> QED BY <1>3, <1>8

\* The text from a token on, without the brace at its end.
LEMMA RestOfLine ==
    ASSUME NEW l \in FirstLines \cup Lines, NEW c \in 1..Len(l), l[c] # OpenBrace,
           NEW read, read = SubSeq(l, c, Len(l))
    PROVE  /\ read[1] = l[c] /\ (Opens(read) <=> Opens(l))
           /\ SubSeq(read, 2, IF Opens(read) THEN Len(read) - 1 ELSE Len(read))
                = SubSeq(l, c + 1, IF Opens(l) THEN Len(l) - 1 ELSE Len(l))
<1>1. l \in Seq(STRING) /\ Len(l) \in Nat /\ c \in Nat /\ c >= 1 /\ c <= Len(l)
  BY LinesWellFormed
<1>2. /\ read \in Seq(STRING) /\ Len(read) = Len(l) - c + 1
      /\ \A i \in 1..Len(read) : read[i] = l[c + i - 1]
  BY <1>1
<1>3. read[1] = l[c] /\ read[Len(read)] = l[Len(l)]
  BY <1>1, <1>2
<1>4. Opens(read) <=> Opens(l)
  BY <1>3 DEF Opens
<1> DEFINE e == IF Opens(l) THEN Len(l) - 1 ELSE Len(l)
           d == IF Opens(l) THEN Len(read) - 1 ELSE Len(read)
<1>5. /\ e \in Nat /\ d \in Nat /\ e >= c /\ d >= 1 /\ d = e - c + 1
      /\ e <= Len(l) /\ d <= Len(read)
  <2>1. Opens(l) => c # Len(l)
    BY DEF Opens
  <2> QED BY <1>1, <1>2, <2>1
<1> HIDE DEF e, d
<1> DEFINE a == SubSeq(read, 2, d)
           b == SubSeq(l, c + 1, e)
<1>6. a \in Seq(STRING) /\ Len(a) = d - 1 /\ \A i \in 1..Len(a) : a[i] = read[i + 1]
  BY <1>1, <1>2, <1>5
<1>7. b \in Seq(STRING) /\ Len(b) = e - c /\ \A i \in 1..Len(b) : b[i] = l[c + i]
  <2>1. c + 1 \in 1..Len(l) + 1 /\ e \in c + 1 - 1..Len(l) /\ e - (c + 1) + 1 = e - c
    BY <1>1, <1>5
  <2>2. b \in Seq(STRING) /\ Len(b) = e - (c + 1) + 1
    BY <1>1, <2>1, SubSeqProperties
  <2>3. \A i \in 1..e - (c + 1) + 1 : b[i] = l[c + 1 + i - 1]
    BY <1>1, <2>1, SubSeqProperties
  <2>4. \A i \in Nat : c + 1 + i - 1 = c + i
    BY <1>1
  <2> QED BY <1>1, <1>5, <2>1, <2>2, <2>3, <2>4
<1> HIDE DEF a, b
<1>8. ASSUME NEW i \in 1..Len(a) PROVE a[i] = b[i]
  <2>1. i \in Nat /\ 1 <= i /\ i <= d - 1
    BY <1>1, <1>2, <1>5, <1>6
  <2>2. i + 1 \in 1..Len(read)
    BY <1>2, <1>5, <2>1
  <2>3. i \in 1..Len(b)
    BY <1>1, <1>5, <1>7, <2>1
  <2>4. c + (i + 1) - 1 = c + i
    BY <1>1, <2>1
  <2>5. read[i + 1] = l[c + (i + 1) - 1]
    BY <1>2, <2>2
  <2> QED BY <1>6, <1>7, <2>3, <2>4, <2>5
<1>9. a = b
  <2>1. Len(a) = Len(b)
    BY <1>1, <1>5, <1>6, <1>7
  <2> QED BY <1>6, <1>7, <1>8, <2>1, SeqEqual
<1> QED BY <1>3, <1>4, <1>9 DEF a, b, d, e
\* What a switch sees is what the text says of the line from there on.
AtTheName(b) ==
    /\ Val # OpenBrace /\ b \in {"lura", "endpoint", "backend"}
    /\ b # "backend" => col = 1
    /\ b = "backend" => Skipped(col - 1) /\ (~NoBlockAt(Line, col) \/ col = Len(Line))

LEMMA ReadAsWritten ==
    ASSUME DispenserTyped, NEW b, AtTheName(b)
    PROVE  ReadIn(b, Line)[1] = Val /\ ArgsIn(b, Line) = Args
<1>1. /\ Line \in FirstLines \cup Lines /\ Line \in Seq(STRING)
      /\ Len(Line) \in Nat /\ col \in Nat /\ col >= 1 /\ col <= Len(Line)
  BY TheLine, LinesWellFormed
<1> DEFINE read == SubSeq(Line, col, Len(Line))
<1>2. ReadIn(b, Line) = read
  <2>1. CASE b = "backend"
    <3>1. FirstRead(Line) = col
      BY <1>1, <2>1, FirstReadIs DEF AtTheName, Skipped
    <3> QED BY <2>1, <3>1 DEF ReadIn
  <2>2. CASE b # "backend"
    <3>1. SubSeq(Line, 1, Len(Line)) = Line
      BY <1>1, SubSeqFull
    <3> QED BY <2>2, <3>1 DEF ReadIn, AtTheName
  <2> QED BY <2>1, <2>2
<1>3. /\ read[1] = Line[col] /\ (Opens(read) <=> Opens(Line))
      /\ SubSeq(read, 2, IF Opens(read) THEN Len(read) - 1 ELSE Len(read))
           = SubSeq(Line, col + 1, IF Opens(Line) THEN Len(Line) - 1 ELSE Len(Line))
  <2>1. col \in 1..Len(Line) /\ Line[col] # OpenBrace
    BY <1>1 DEF AtTheName, Val
  <2> QED BY <1>1, <2>1, RestOfLine
<1>4. ArgsEnd = IF Opens(Line) THEN Len(Line) - 1 ELSE Len(Line)
  <2>1. Opens(Line) => col # Len(Line)
    BY DEF Opens, AtTheName, Val
  <2> QED BY <1>1, <2>1 DEF ArgsEnd, OnSameLine
<1> HIDE DEF read
<1>5. ArgsIn(b, Line) = Args
  BY <1>2, <1>3, <1>4 DEF ArgsIn, Args
<1> QED BY <1>2, <1>3, <1>5 DEF Val

LEMMA FitAtTheName ==
    ASSUME DispenserTyped, NEW b, AtTheName(b)
    PROVE  Fit(b, Line) <=>
             \/ /\ Val \in Single[b] /\ Len(Args) = 1 /\ ~Opens(Line)
                /\ Val \in Converted => Args[1] \notin BadValues
             \/ b = "lura" /\ Val \in Helpers /\ Len(Args) <= 1 /\ ~Opens(Line)
             \/ b = "backend" /\ Val \in {"to", "allow"} /\ ~Opens(Line)
             \/ b = "backend" /\ Val = "mapping" /\ Args = <<>>
             \/ Val \in {"endpoint", "backend"} /\ b = Outer[Val]
<1>1. ReadIn(b, Line)[1] = Val /\ ArgsIn(b, Line) = Args
  BY ReadAsWritten
<1>2. b # "mapping"
  BY DEF AtTheName
<1> QED BY <1>1, <1>2, Zenon DEF Fit

LEMMA OneArgument ==
    ASSUME DispenserTyped, Len(Args) = 1
    PROVE  Convertible <=> (Val \in Converted => Args[1] \notin BadValues)
<1>1. Line \in Seq(STRING) /\ Len(Line) \in Nat /\ col \in Nat
  BY TheLine, LinesWellFormed
<1>2. Args \in Seq(STRING)
  <2>1. ArgsEnd \in Nat /\ ArgsEnd <= Len(Line)
    BY <1>1, TheLine DEF ArgsEnd, OnSameLine
  <2> QED BY <1>1, <2>1 DEF Args
<1>3. ToSet(Args) = {Args[1]}
  <2>1. DOMAIN Args = {1}
    BY <1>2
  <2> QED BY <2>1 DEF ToSet
<1> QED BY <1>3 DEF Convertible

\* An option that is taken stands where it may, unless a brace follows it.
LEMMA TakenFits ==
    ASSUME DispenserTyped, AtTheName(block), SetOption \/ SetHelper \/ Allow \/ To
    PROVE  Fit(block, Line) <=> ~Opens(Line)
<1>1. Val \in Single[block] /\ Len(Args) = 1 =>
        (Convertible <=> (Val \in Converted => Args[1] \notin BadValues))
  BY OneArgument
<1>2. block \in {"lura", "endpoint", "backend"}
  BY DEF AtTheName
<1>3. Val \notin {"mapping", "endpoint", "backend"}
  <2>1. CASE SetOption
    BY <1>2, <2>1 DEF SetOption, Single
  <2>2. CASE SetHelper
    BY <2>2 DEF SetHelper, Helpers
  <2>3. CASE Allow \/ To
    BY <2>3 DEF Allow, To
  <2> QED BY <2>1, <2>2, <2>3
<1>4. \/ Val \in Single[block] /\ Len(Args) = 1 /\ Convertible
      \/ block = "lura" /\ Val \in Helpers /\ Len(Args) <= 1
      \/ block = "backend" /\ Val \in {"to", "allow"}
  BY DEF SetOption, SetHelper, Allow, To
<1> QED BY <1>1, <1>3, <1>4, FitAtTheName

\* What the switch rejects does not stand where it may.
LEMMA RejectedFits ==
    ASSUME DispenserTyped, AtTheName(block), WrongArgs \/ Unrecognized
    PROVE  ~Fit(block, Line)
<1>1. block \in {"lura", "endpoint", "backend"}
  BY DEF AtTheName
<1>2. CASE Val \in Single[block] /\ (Len(Args) # 1 \/ ~Convertible)
  <2>1. /\ Val \notin Helpers \cup {"to", "allow", "mapping", "endpoint", "backend"}
    BY <1>1, <1>2 DEF Single, Helpers
  <2>2. ~(Len(Args) = 1 /\ (Val \in Converted => Args[1] \notin BadValues))
    BY <1>2, OneArgument
  <2> QED BY <2>1, <2>2, FitAtTheName
<1>3. CASE block = "lura" /\ Val \in Helpers /\ Len(Args) > 1
  <2>1. Val \notin Single["lura"] \cup {"endpoint", "backend"}
    BY <1>3 DEF Single, Helpers
  <2>2. ~(Len(Args) <= 1)
    <3>1. Len(Args) \in Nat
      <4>1. Line \in Seq(STRING) /\ Len(Line) \in Nat /\ col \in Nat
        BY TheLine, LinesWellFormed
      <4>2. ArgsEnd \in Nat /\ ArgsEnd <= Len(Line)
        BY <4>1, TheLine DEF ArgsEnd, OnSameLine
      <4>3. Args \in Seq(STRING)
        BY <4>1, <4>2 DEF Args
      <4> QED BY <4>3
    <3> QED BY <1>3, <3>1
  <2> QED BY <1>3, <2>1, <2>2, FitAtTheName
<1>4. CASE Unrecognized
  <2>1. CASE block = "backend"
    <3>1. Val \notin Single[block] \cup {"to", "allow", "mapping"}
      BY <1>4, <2>1 DEF Unrecognized
    <3>2. \A name \in {"endpoint", "backend"} : block # Outer[name]
      BY <2>1 DEF Outer
    <3> QED BY <2>1, <3>1, <3>2, FitAtTheName
  <2>2. CASE block = "endpoint"
    <3>1. Val \notin Single[block] \cup {"backend"}
      BY <1>4, <2>2 DEF Unrecognized
    <3>2. block # Outer["endpoint"]
      BY <2>2 DEF Outer
    <3> QED BY <2>2, <3>1, <3>2, FitAtTheName
  <2>3. CASE block = "lura"
    <3>1. Val \notin Single[block] \cup Helpers \cup {"endpoint"}
      BY <1>4, <2>3 DEF Unrecognized
    <3>2. block # Outer["backend"]
      BY <2>3 DEF Outer
    <3> QED BY <2>3, <3>1, <3>2, FitAtTheName
  <2> QED BY <1>1, <2>1, <2>2, <2>3
<1> QED BY <1>2, <1>3, <1>4 DEF WrongArgs
\* A line is appended: the blocks of the lines before it stay.
LEMMA SameOwner ==
    ASSUME DispenserTyped, NextLine, NEW i \in 1..Len(doc), Owner(i) \in 1..Len(doc)
    PROVE  doc'[i] = doc[i] /\ Owner(i)' = Owner(i) /\ (Fits(i)' <=> Fits(i))
<1> DEFINE Candidates(text) ==
             {j \in 1..i - 1 : Opens(text[j]) /\ DepthIn(text, j - 1) = DepthIn(text, i - 1) - 1}
<1>1. PICK l \in Lines : doc' = Append(doc, l)
  BY DEF NextLine
<1>2. doc \in Docs /\ Len(doc) \in Nat /\ i \in Nat /\ i >= 1 /\ i <= Len(doc)
  BY TheLine DEF DispenserTyped
<1>3. \A k \in 1..Len(doc) : doc'[k] = doc[k]
  BY <1>1, <1>2, Appended
<1>4. \A k \in 0..Len(doc) : DepthIn(doc', k) = DepthIn(doc, k)
  BY <1>1, <1>2, Appended, ZenonT(40)
<1>5. Candidates(doc') = Candidates(doc)
  <2>1. i - 1 \in 0..Len(doc) /\ \A j \in 1..i - 1 : j \in 1..Len(doc) /\ j - 1 \in 0..Len(doc)
    BY <1>2
  <2>2. \A j \in 1..i - 1 : /\ doc'[j] = doc[j] /\ DepthIn(doc', j - 1) = DepthIn(doc, j - 1)
                            /\ DepthIn(doc', i - 1) = DepthIn(doc, i - 1)
    BY <1>3, <1>4, <2>1
  <2> QED BY <2>2, Zenon
<1>6. Owner(i)' = Max(Candidates(doc')) /\ Owner(i) = Max(Candidates(doc))
  BY DEF Owner, Depth, DepthIn
<1> HIDE DEF Candidates
<1>7. Owner(i)' = Owner(i)
  BY <1>5, <1>6
<1>8. In(i)' = In(i)
  <2>1. In(i)' = doc'[Owner(i)'][1]
    BY DEF In
  <2> QED BY <1>3, <1>7 DEF In
<1>9. Fits(i)' <=> Fits(i)
  BY <1>3, <1>8 DEF Fits
<1> QED BY <1>3, <1>7, <1>9

LEMMA SettledStays ==
    ASSUME DispenserTyped, Settled, NextLine, Within(In(Len(doc))) \/ Closes(Line) \/ Len(doc) = 1,
           Fits(Len(doc)) \/ Closes(Line) \/ Len(doc) = 1
    PROVE  Settled'
<1>1. Len(doc) \in Nat /\ Len(doc) > 0 /\ doc \in Docs
  BY TheLine DEF DispenserTyped
<1>2. PICK l \in Lines : doc' = Append(doc, l)
  BY DEF NextLine
<1>3. Len(doc') = Len(doc) + 1 /\ \A k \in 1..Len(doc) : doc'[k] = doc[k]
  BY <1>1, <1>2, Appended
<1> SUFFICES ASSUME NEW i \in 2..Len(doc') - 1
             PROVE  Closes(doc'[i]) \/ (Owner(i)' \in 1..Len(doc') /\ Fits(i)')
  BY DEF Settled
<1>4. i \in 1..Len(doc) /\ Len(doc) # 1 /\ (i = Len(doc) \/ i \in 2..Len(doc) - 1)
  BY <1>1, <1>3
<1>5. Closes(doc[i]) \/ (Owner(i) \in 1..Len(doc) /\ Fits(i))
  <2>1. CASE i = Len(doc)
    BY <1>4, <2>1 DEF Within, Line
  <2>2. CASE i \in 2..Len(doc) - 1
    BY <2>2 DEF Settled
  <2> QED BY <1>4, <2>1, <2>2
<1>6. CASE Closes(doc[i])
  BY <1>3, <1>4, <1>6
<1>7. CASE Owner(i) \in 1..Len(doc) /\ Fits(i)
  <2>1. Owner(i)' = Owner(i) /\ Fits(i)'
    BY <1>4, <1>7, SameOwner
  <2>2. Owner(i) \in 1..Len(doc')
    BY <1>1, <1>3, <1>7
  <2> QED BY <2>1, <2>2
<1> QED BY <1>5, <1>6, <1>7

LEMMA FieldsFit ==
    ASSUME DispenserTyped, FieldsTo(Len(Line))
    PROVE  Fit("mapping", Line)
<1>1. Line \in Seq(STRING)
  BY TheLine, LinesWellFormed
<1>2. DOMAIN Line = 1..Len(Line)
  BY <1>1
<1> QED BY <1>2 DEF FieldsTo, Fit, ToSet

LEMMA NoFieldDoesNotFit ==
    ASSUME DispenserTyped, NEW c \in 1..Len(Line), Line[c] \notin DOMAIN Parts
    PROVE  ~Fit("mapping", Line)
<1>1. Line \in Seq(STRING)
  BY TheLine, LinesWellFormed
<1>2. DOMAIN Line = 1..Len(Line)
  BY <1>1
<1> QED BY <1>2 DEF Fit, ToSet

\* A `mapping' that ends its line, or opens a block, may stand in a backend.
LEMMA MappingFits ==
    ASSUME DispenserTyped, Line[col] = "mapping", Skipped(col - 1),
           ~OnSameLine \/ Line[col + 1] = OpenBrace
    PROVE  Fit("backend", Line)
<1>1. /\ Line \in FirstLines \cup Lines /\ Line \in Seq(STRING)
      /\ Len(Line) \in Nat /\ col \in Nat /\ col >= 1 /\ col <= Len(Line)
  BY TheLine, LinesWellFormed
<1>2. Val # OpenBrace
  BY NotABrace DEF Val, Blocks
<1>3. ~NoBlockAt(Line, col) \/ col = Len(Line)
  BY <1>1 DEF NoBlockAt, OnSameLine
<1>4. AtTheName("backend")
  BY <1>2, <1>3 DEF AtTheName
<1>5. ArgsEnd = col
  <2>1. CASE ~OnSameLine
    BY <1>1, <2>1 DEF ArgsEnd, OnSameLine
  <2>2. CASE OnSameLine
    <3>1. col + 1 = Len(Line)
      <4>1. \A i \in 1..Len(Line) : Line[i] = OpenBrace => i = Len(Line)
        BY <1>1, LineShape
      <4>2. col + 1 \in 1..Len(Line)
        BY <1>1, <2>2 DEF OnSameLine
      <4> QED BY <2>2, <4>1, <4>2
    <3>2. Opens(Line)
      BY <2>2, <3>1 DEF Opens
    <3> QED BY <1>1, <2>2, <3>1, <3>2 DEF ArgsEnd
  <2> QED BY <2>1, <2>2
<1>6. Args = <<>>
  BY <1>1, <1>5, SubSeqEmpty DEF Args
<1> QED BY <1>4, <1>6, FitAtTheName DEF Val

\* The cursor leaves a line: the line may stand where it does.
LEMMA LineLeft ==
    ASSUME IInv, Verdicts, pc = "next",
           \/ nesting = Rank[block] + 1 /\ ~OnSameLine
           \/ nesting = Rank[block] /\ OnSameLine /\ Line[col + 1] = OpenBrace
    PROVE  \/ Closes(Line) \/ Len(doc) = 1
           \/ Within(In(Len(doc))) /\ Fits(Len(doc))
<1>1. /\ Line \in FirstLines \cup Lines /\ Line \in Seq(STRING)
      /\ Len(Line) \in Nat /\ col \in Nat /\ col >= 1 /\ col <= Len(Line)
      /\ DispenserTyped /\ block \in Blocks
  BY TheLine, LinesWellFormed DEF IInv, Typed
<1>2. Before /\ Inside
  BY DEF Verdicts
<1>3. ASSUME NEW b, Within(b), Fit(b, Line)
      PROVE  Within(In(Len(doc))) /\ Fits(Len(doc))
  BY <1>3 DEF Within, Fits, Line
<1>4. CASE nesting = Rank[block] + 1 /\ ~OnSameLine
  <2>1. col = Len(Line) /\ Pending = 0
    BY <1>1, <1>4 DEF OnSameLine, Pending
  <2>2. \/ Closes(Line)
        \/ /\ Within(block)
           /\ \/ block = "mapping" /\ FieldsTo(col)
              \/ block = "backend" /\ Skipped(col)
              \/ Fit(block, Line)
    BY <1>2, <1>4, <2>1 DEF Inside
  <2>3. ASSUME Skipped(col) PROVE Line[col] = "mapping" /\ Skipped(col - 1)
    BY <1>1, <2>3 DEF Skipped, NoBlockAt
  <2>4. block = "mapping" /\ FieldsTo(col) => Fit(block, Line)
    BY <1>1, <2>1, FieldsFit
  <2>5. block = "backend" /\ Skipped(col) => Fit(block, Line)
    BY <1>1, <1>4, <2>3, MappingFits
  <2> QED BY <1>3, <2>2, <2>4, <2>5
<1>5. CASE nesting = Rank[block] /\ OnSameLine /\ Line[col + 1] = OpenBrace
  <2>1. CASE block = "lura"
    BY <1>2, <1>5, <2>1 DEF Before
  <2>2. CASE block = "mapping"
    <3>1. Within("backend") /\ Line[col] = "mapping" /\ Skipped(col - 1)
      BY <1>2, <1>5, <2>2 DEF Before, Outer
    <3> QED BY <1>1, <1>3, <1>5, <3>1, MappingFits
  <2>3. CASE block \in {"endpoint", "backend"}
    <3>1. Within(Outer[block]) /\ Fit(Outer[block], Line)
      BY <1>2, <1>5, <2>3 DEF Before
    <3> QED BY <1>3, <3>1
  <2> QED BY <1>1, <2>1, <2>2, <2>3 DEF Blocks
<1> QED BY <1>4, <1>5

\* What depends on the lines alone stays while none is read.
LEMMA SameText ==
    ASSUME doc' = doc
    PROVE  /\ Settled' <=> Settled
           /\ Fits(Len(doc))' <=> Fits(Len(doc))
           /\ Line' = Line
           /\ \A b : Within(b)' <=> Within(b)
           /\ \A c : (Skipped(c)' <=> Skipped(c)) /\ (FieldsTo(c)' <=> FieldsTo(c))
<1>1. \A i : Owner(i)' = Owner(i)
  BY DEF Owner, Depth
<1>2. \A i : In(i)' = In(i)
  BY <1>1 DEF In
<1>3. \A i : Fits(i)' <=> Fits(i)
  BY <1>2 DEF Fits
<1>4. Line' = Line
  BY DEF Line
<1> QED BY <1>1, <1>2, <1>3, <1>4 DEF Settled, Within, Skipped, FieldsTo

-----------------------------------------------------------------------------
(* Verdicts are kept *)

LEMMA IteratesV == ASSUME IInv, Verdicts, Iterate PROVE Verdicts'
<1> DEFINE r == Rank[block]
<1>1. /\ pc = "next" /\ NextBlock(TRUE) /\ pc' = "switch" /\ block' = block
      /\ DispenserTyped /\ Nested /\ block \in Blocks
  BY DEF Iterate, IInv, Typed
<1>2. r \in 0..3 /\ level[block] = r /\ nesting \in {r, r + 1}
  BY <1>1, BeforeBlock
<1>3. /\ Line \in FirstLines \cup Lines /\ Line \in Seq(STRING)
      /\ Len(Line) \in Nat /\ col \in Nat /\ col >= 1 /\ col <= Len(Line)
      /\ \A i \in 1..Len(Line) : Line[i] = OpenBrace => i = Len(Line)
      /\ Closes(Line) => Len(Line) = 1
  BY <1>1, TheLine, LineShape, LinesWellFormed
<1>4. Before' /\ Inside' /\ Ends'
  BY <1>1 DEF Before, Inside, Ends
<1>5. CASE nesting = r + 1 /\ ~AtEnd /\ OnSameLine
  <2>1. col' = col + 1 /\ doc' = doc
    BY <1>1, <1>2, <1>5 DEF NextBlock, NextToken
  <2>2. /\ Settled' /\ Line' = Line /\ Val' = Line[col + 1]
        /\ col + 1 \in 1..Len(Line) /\ (col + 1) - 1 = col /\ ~Closes(Line)
    <3>1. Settled' /\ Line' = Line
      BY <2>1, SameText DEF Verdicts
    <3>2. col + 1 \in 1..Len(Line) /\ (col + 1) - 1 = col /\ Len(Line) # 1
      <4>1. Len(Line) \in Nat /\ col \in Nat /\ col >= 1
        BY <1>3
      <4>2. col < Len(Line)
        BY <1>5 DEF OnSameLine
      <4> QED BY <4>1, <4>2
    <3>3. ~Closes(Line)
      BY <1>3, <3>2
    <3> QED BY <2>1, <3>1, <3>2, <3>3 DEF Val
  <2>3. /\ Within(block)
        /\ \/ block = "mapping" /\ FieldsTo(col)
           \/ block = "backend" /\ Skipped(col)
           \/ block # "mapping" /\ col = ArgsEnd /\ (Fit(block, Line) <=> Pending = 0)
    BY <1>1, <1>5, <2>2 DEF Verdicts, Inside
  <2>4. ASSUME col = ArgsEnd PROVE Opens(Line) /\ Line[col + 1] = OpenBrace /\ Pending = 1
    <3>1. Opens(Line) /\ col = Len(Line) - 1
      BY <1>3, <1>5, <2>4 DEF ArgsEnd, OnSameLine
    <3> QED BY <1>3, <3>1 DEF Opens, Pending
  <2>5. CASE Line[col + 1] = OpenBrace
    <3>1. ASSUME block = "mapping" PROVE ~Fit(block, Line)
      BY <1>1, <2>2, <2>5, <3>1, NotABrace, NoFieldDoesNotFit
    <3>2. ~(block = "backend" /\ Skipped(col))
      <4> SUFFICES ASSUME Skipped(col) PROVE FALSE
        OBVIOUS
      <4>1. NoBlockAt(Line, col) /\ col < Len(Line)
        BY <1>3, <1>5 DEF Skipped, OnSameLine
      <4> QED BY <2>5, <4>1 DEF NoBlockAt
    <3>3. ~Fit(block, Line)
      BY <2>3, <2>4, <3>1, <3>2
    <3>5. ~Fits(Len(doc))'
      <4>1. ~Fits(Len(doc))
        BY <2>3, <3>3 DEF Fits, Within, Line
      <4> QED BY <2>1, <4>1, SameText
    <3>4. Looks'
      BY <2>2, <2>5, <3>5 DEF Looks
    <3> QED BY <1>4, <2>2, <3>4 DEF Verdicts
  <2>6. CASE Line[col + 1] # OpenBrace
    <3>1. col # ArgsEnd
      BY <2>4, <2>6
    <3>2. \/ block = "mapping" /\ FieldsTo(col)
          \/ block = "backend" /\ Skipped(col)
      BY <2>3, <3>1
    <3>3. col' - 1 = col
      BY <2>1, <2>2
    <3>4. Looks'
      BY <1>1, <2>2, <2>6, <3>2, <3>3 DEF Looks, Skipped, FieldsTo
    <3> QED BY <1>4, <2>2, <3>4 DEF Verdicts
  <2> QED BY <2>5, <2>6
<1>6. ASSUME NextLine,
             \/ nesting = r + 1 /\ ~OnSameLine
             \/ nesting = r /\ OnSameLine /\ Line[col + 1] = OpenBrace
      PROVE  Verdicts'
  <2>1. Settled'
    BY <1>1, <1>6, LineLeft, SettledStays DEF Verdicts
  <2>2. Val' # OpenBrace /\ col' = 1
    BY <1>1, <1>6, LineRead
  <2>3. Looks'
    BY <2>2 DEF Looks, Skipped, FieldsTo
  <2> QED BY <1>4, <2>1, <2>3 DEF Verdicts
<1>7. CASE nesting = r + 1 /\ ~AtEnd /\ ~OnSameLine
  <2>1. NextLine
    BY <1>1, <1>2, <1>7 DEF NextBlock, NextToken
  <2> QED BY <1>6, <1>7, <2>1
<1>8. CASE nesting = r /\ OnSameLine /\ Line[col + 1] = OpenBrace
  <2>1. NextLine
    BY <1>1, <1>2, <1>8 DEF NextBlock
  <2> QED BY <1>6, <1>8, <2>1
<1>9. \/ nesting = r + 1 /\ ~AtEnd
      \/ nesting = r /\ OnSameLine /\ Line[col + 1] = OpenBrace
  BY <1>1, <1>2 DEF NextBlock
<1> QED BY <1>5, <1>7, <1>8, <1>9

\* A loop ends at the brace that closes its block, or finds no block.
LEMMA LoopEnds ==
    ASSUME IInv, Verdicts, pc = "next", NextBlock(FALSE)
    PROVE  /\ Settled'
           /\ \/ Closes(Line') /\ col' = ArgsEnd'
              \/ /\ doc' = doc /\ col' = col /\ nesting = Rank[block]
                 /\ ~(OnSameLine /\ Line[col + 1] = OpenBrace)
<1> DEFINE r == Rank[block]
<1>1. DispenserTyped /\ Nested /\ block \in Blocks
  BY DEF IInv, Typed
<1>2. /\ r \in 0..3 /\ level[block] = r /\ nesting \in {r, r + 1}
      /\ nesting = DepthIn(doc, Len(doc)) - Pending
  BY BeforeBlock
<1>3. /\ Line \in FirstLines \cup Lines /\ Line \in Seq(STRING)
      /\ Len(Line) \in Nat /\ col \in Nat /\ col >= 1 /\ col <= Len(Line)
      /\ \A i \in 1..Len(Line) : Line[i] = CloseBrace => Closes(Line)
      /\ Closes(Line) => Len(Line) = 1
  BY <1>1, TheLine, LineShape, LinesWellFormed
<1>4. ASSUME NextLine, Val' = CloseBrace,
             \/ nesting = r + 1 /\ ~OnSameLine
             \/ nesting = r /\ OnSameLine /\ Line[col + 1] = OpenBrace
      PROVE  Settled' /\ Closes(Line') /\ col' = ArgsEnd'
  <2>1. Settled'
    BY <1>1, <1>4, LineLeft, SettledStays DEF Verdicts
  <2>2. Closes(Line') /\ Len(Line') = 1 /\ ~Opens(Line') /\ col' = 1
    BY <1>1, <1>4, LineRead
  <2> QED BY <2>1, <2>2 DEF ArgsEnd
<1>5. CASE nesting = r + 1 /\ ~AtEnd /\ OnSameLine
  <2>1. /\ col' = col + 1 /\ doc' = doc /\ ~(r < nesting')
        /\ nesting' = CASE Val' = CloseBrace -> nesting - 1
                        [] Val' = OpenBrace -> nesting + 1
                        [] OTHER -> nesting
    BY <1>2, <1>5 DEF NextBlock, NextToken
  <2>2. Val' = Line[col + 1] /\ col + 1 \in 1..Len(Line) /\ Len(Line) # 1
    BY <1>3, <1>5, <2>1 DEF Line, Val, OnSameLine
  <2>3. Val' # CloseBrace
    BY <1>3, <2>2
  <2>4. nesting' \in {r + 1, r + 2}
    BY <1>2, <1>5, <2>1, <2>3
  <2> QED BY <1>2, <2>1, <2>4
<1>6. CASE nesting = r + 1 /\ ~AtEnd /\ ~OnSameLine
  <2>1. /\ NextLine /\ ~(r < nesting')
        /\ nesting' = CASE Val' = CloseBrace -> nesting - 1
                        [] Val' = OpenBrace -> nesting + 1
                        [] OTHER -> nesting
    BY <1>2, <1>6 DEF NextBlock, NextToken
  <2>2. Val' # OpenBrace
    BY <1>1, <2>1, LineRead
  <2>3. Val' = CloseBrace
    <3> SUFFICES ASSUME Val' # CloseBrace PROVE FALSE
      OBVIOUS
    <3>1. nesting' = nesting
      BY <2>1, <2>2
    <3> QED BY <1>2, <1>6, <2>1, <3>1
  <2> QED BY <1>4, <1>6, <2>1, <2>3
<1>7. CASE nesting = r + 1 /\ AtEnd
  <2>1. DepthIn(doc, Len(doc)) = 0 /\ ~OnSameLine
    BY <1>7 DEF AtEnd, Depth, DepthIn
  <2>2. Pending = 0
    BY <1>3, <2>1 DEF Pending, OnSameLine
  <2> QED BY <1>2, <1>7, <2>1, <2>2
<1>8. CASE nesting = r /\ OnSameLine /\ Line[col + 1] = OpenBrace
  <2>1. NextLine /\ Val' = CloseBrace
    BY <1>2, <1>8 DEF NextBlock
  <2> QED BY <1>4, <1>8, <2>1
<1>9. CASE nesting = r /\ ~(OnSameLine /\ Line[col + 1] = OpenBrace)
  <2>1. UNCHANGED reader
    BY <1>2, <1>9 DEF NextBlock
  <2> QED BY <1>9, <2>1, SameText DEF reader, Verdicts
<1> QED BY <1>2, <1>5, <1>6, <1>7, <1>8, <1>9

LEMMA LeavesBlockV == ASSUME IInv, Verdicts, LeaveBlock PROVE Verdicts'
<1> DEFINE r == Rank[block]
<1>1. /\ pc = "next" /\ block # "lura" /\ NextBlock(FALSE)
      /\ block' = Outer[block] /\ pc' = pc /\ block \in Blocks
  BY DEF LeaveBlock, IInv, Typed
<1>2. /\ r \in 0..3 /\ block' \in Blocks /\ Rank[block'] = r - 1 /\ nesting' = r
  BY <1>1, RankFacts, NoMore
<1>3. Settled' /\ Looks' /\ Ends' /\ Before'
  BY <1>1, <1>2, LoopEnds DEF Looks, Ends, Before
<1>4. CASE Closes(Line') /\ col' = ArgsEnd'
  BY <1>3, <1>4 DEF Inside, Verdicts
<1>5. CASE /\ doc' = doc /\ col' = col /\ nesting = r
           /\ ~(OnSameLine /\ Line[col + 1] = OpenBrace)
  <2>1. Within(block')
    BY <1>1, <1>5 DEF Verdicts, Before
  <2>2. Line' = Line /\ ArgsEnd' = ArgsEnd /\ Within(block)'
    <3>1. Line' = Line
      BY <1>5 DEF Line
    <3>2. In(Len(doc))' = In(Len(doc)) /\ Owner(Len(doc))' = Owner(Len(doc))
      BY <1>5 DEF In, Owner, Depth
    <3> QED BY <1>5, <2>1, <3>1, <3>2 DEF ArgsEnd, OnSameLine, Within
  <2>3. /\ Line \in Seq(STRING) /\ Len(Line) \in Nat
        /\ col \in Nat /\ col >= 1 /\ col <= Len(Line)
    BY TheLine, LinesWellFormed DEF IInv, Typed
  <2>4. CASE block = "mapping"
    <3>1. Line[col] = "mapping" /\ Skipped(col - 1)
      BY <1>1, <1>5, <2>4 DEF Verdicts, Before
    <3>2. NoBlockAt(Line, col)
      BY <1>5, <3>1 DEF NoBlockAt, OnSameLine
    <3>3. Skipped(col)
      BY <2>3, <3>1, <3>2 DEF Skipped
    <3>4. block' = "backend" /\ Skipped(col)'
      BY <1>1, <1>5, <2>2, <2>4, <3>3 DEF Outer, Skipped
    <3> QED BY <1>3, <2>2, <3>4 DEF Inside, Verdicts
  <2>5. CASE block \in {"endpoint", "backend"}
    <3>1. Fit(block', Line) /\ col = ArgsEnd
      BY <1>1, <1>5, <2>5 DEF Verdicts, Before, IInv, Consumed
    <3>2. Pending = 0
      <4>1. OnSameLine /\ Opens(Line) => Line[col + 1] = OpenBrace
        BY <2>3, <3>1 DEF ArgsEnd, Opens
      <4> QED BY <1>5, <4>1 DEF Pending, OnSameLine
    <3>3. Pending' = 0 /\ col' = ArgsEnd' /\ Fit(block, Line)'
      BY <1>5, <2>2, <3>1, <3>2 DEF Pending
    <3>4. block' # "mapping"
      BY <1>1, <2>5 DEF Outer
    <3> QED BY <1>3, <2>2, <3>3, <3>4 DEF Inside, Verdicts
  <2> QED BY <1>1, <2>4, <2>5 DEF Blocks
<1> QED BY <1>1, <1>4, <1>5, LoopEnds

LEMMA FinishesV == ASSUME IInv, Verdicts, Finish PROVE Verdicts'
<1>1. pc = "next" /\ block = "lura" /\ NextBlock(FALSE) /\ pc' = "done"
  BY DEF Finish
<1>2. Settled' /\ Before' /\ Inside' /\ Looks'
  BY <1>1, LoopEnds DEF Before, Inside, Looks
<1>3. Ends'
  <2>1. CASE Closes(Line')
    BY <1>1, <2>1 DEF Ends
  <2>2. CASE doc' = doc /\ nesting = Rank[block]
    <3>1. Len(doc) = 1
      BY <1>1, <2>2 DEF Verdicts, Before
    <3> QED BY <1>1, <2>2, <3>1 DEF Ends
  <2> QED BY <1>1, <2>1, <2>2, LoopEnds
<1> QED BY <1>2, <1>3 DEF Verdicts

\* At a switch: the loop's block is the one the text names.
LEMMA Switching ==
    ASSUME IInv, Verdicts, pc = "switch", Val # OpenBrace
    PROVE  /\ Within(block) /\ DispenserTyped /\ block \in Blocks /\ Rank[block] \in 0..3
           /\ nesting = Rank[block] + 1
           /\ block = "backend" => Skipped(col - 1)
           /\ block = "mapping" => FieldsTo(col - 1)
           /\ block # "mapping" /\ Val # "mapping" => AtTheName(block)
<1>1. DispenserTyped /\ block \in Blocks /\ Rank[block] \in 0..3 /\ nesting = Rank[block] + 1
  BY RankFacts DEF IInv, Typed, Where
<1>2. /\ block = "backend" => Skipped(col - 1)
      /\ block = "mapping" => FieldsTo(col - 1)
  BY DEF Verdicts, Looks
<1>3. Leftover \/ col = 1
  BY DEF IInv, Consumed
<1>4. Val # "mapping" => ~NoBlockAt(Line, col)
  BY DEF NoBlockAt, Val
<1>5. block # "mapping" /\ Val # "mapping" => AtTheName(block)
  BY <1>1, <1>2, <1>3, <1>4 DEF AtTheName, Leftover, Blocks
<1> QED BY <1>1, <1>2, <1>5, OwnLine

LEMMA TakenV ==
    ASSUME IInv, Verdicts, SetOption \/ SetHelper \/ Allow \/ To
    PROVE  Verdicts'
<1>1. block \in Blocks
  BY DEF IInv, Typed
<1>2. /\ pc = "switch" /\ pc' = "next" /\ col' = ArgsEnd
      /\ doc' = doc /\ nesting' = nesting /\ block' = block
  BY DEF SetOption, SetHelper, Allow, To, Continue
<1>3. Val # OpenBrace /\ Val # "mapping" /\ block # "mapping"
  <2>1. CASE SetOption
    BY <1>1, <2>1, NotABrace DEF SetOption, Single, Blocks
  <2>2. CASE SetHelper
    BY <2>2, NotABrace DEF SetHelper, Helpers
  <2>3. CASE Allow
    BY <2>3, NotABrace DEF Allow
  <2>4. CASE To
    BY <2>4, NotABrace DEF To
  <2> QED BY <2>1, <2>2, <2>3, <2>4
<1>4. /\ Within(block) /\ DispenserTyped /\ AtTheName(block)
      /\ Rank[block] \in 0..3 /\ nesting = Rank[block] + 1
  BY <1>2, <1>3, Switching
<1>5. Fit(block, Line) <=> ~Opens(Line)
  BY <1>4, TakenFits
<1>6. /\ Line \in Seq(STRING) /\ Len(Line) \in Nat
      /\ col \in Nat /\ col >= 1 /\ col <= Len(Line)
  BY <1>4, TheLine, LinesWellFormed
<1>7. Opens(Line) => col < Len(Line)
  <2>1. Opens(Line) => col # Len(Line)
    BY <1>3 DEF Opens, Val
  <2> QED BY <1>6, <2>1
<1>8. Line' = Line /\ Within(block)' /\ Settled'
  <2>1. Line' = Line /\ Settled'
    BY <1>2, SameText DEF Verdicts
  <2>2. In(Len(doc))' = In(Len(doc)) /\ Owner(Len(doc))' = Owner(Len(doc))
    BY <1>2 DEF In, Owner, Depth
  <2> QED BY <1>2, <1>4, <2>1, <2>2 DEF Within
<1>9. col' = ArgsEnd' /\ (Pending' = 0 <=> ~Opens(Line))
  BY <1>2, <1>6, <1>7, <1>8 DEF ArgsEnd, OnSameLine, Pending
<1>10. Inside'
  <2>1. Fit(block, Line)' <=> Fit(block, Line)
    BY <1>2, <1>8
  <2> QED BY <1>2, <1>3, <1>5, <1>8, <1>9, <2>1 DEF Inside
<1>11. Before' /\ Looks' /\ Ends'
  BY <1>2, <1>4 DEF Before, Looks, Ends
<1> QED BY <1>8, <1>10, <1>11 DEF Verdicts

LEMMA MapsFieldV == ASSUME IInv, Verdicts, MapField PROVE Verdicts'
<1>1. /\ pc = "switch" /\ block = "mapping" /\ Val \in DOMAIN Parts
      /\ pc' = "next" /\ doc' = doc /\ col' = col /\ nesting' = nesting /\ block' = block
  BY DEF MapField, reader
<1>2. Val # OpenBrace
  BY <1>1, NotABrace
<1>3. /\ Within("mapping") /\ DispenserTyped /\ FieldsTo(col - 1)
      /\ Rank[block] \in 0..3 /\ nesting = Rank[block] + 1
  BY <1>1, <1>2, Switching
<1>4. col \in Nat /\ col >= 1
  BY <1>3, TheLine
<1>5. FieldsTo(col)
  BY <1>1, <1>3, <1>4 DEF FieldsTo, Val
<1>6. Line' = Line /\ Settled' /\ Within("mapping")' /\ FieldsTo(col)'
  <2>1. Line' = Line /\ Settled' /\ Within("mapping")'
    BY <1>1, <1>3, SameText DEF Verdicts
  <2> QED BY <1>1, <1>5, <2>1 DEF FieldsTo
<1>7. Inside'
  BY <1>1, <1>6 DEF Inside, Within
<1>8. Before' /\ Looks' /\ Ends'
  BY <1>1, <1>3 DEF Before, Looks, Ends
<1> QED BY <1>6, <1>7, <1>8 DEF Verdicts

LEMMA EntersV ==
    ASSUME IInv, Verdicts, EnterEndpoint \/ EnterBackend \/ EnterMapping
    PROVE  Verdicts'
<1>1. PICK inner \in {"endpoint", "backend", "mapping"} :
        /\ pc = "switch" /\ block = Outer[inner] /\ Val = inner
        /\ pc' = "next" /\ doc' = doc /\ nesting' = nesting /\ block' = inner
        /\ inner = "mapping" => col' = col
  BY DEF EnterEndpoint, EnterBackend, EnterMapping, Enter
<1>2. Val # OpenBrace
  BY <1>1, NotABrace DEF Blocks
<1>3. /\ Within(block) /\ DispenserTyped /\ block \in Blocks
      /\ Rank[block] \in 0..3 /\ nesting = Rank[block] + 1
      /\ block = "backend" => Skipped(col - 1)
  BY <1>1, <1>2, Switching
<1>4. inner \in Blocks /\ Rank[inner] = Rank[block] + 1 /\ block # "mapping"
  BY <1>1, RankFacts DEF Blocks, Outer
<1>5. Line' = Line /\ Settled' /\ Within(block)
  BY <1>1, <1>3, SameText DEF Verdicts
<1>6. Within(Outer[block])'
  <2>1. In(Len(doc))' = In(Len(doc)) /\ Owner(Len(doc))' = Owner(Len(doc))
    BY <1>1 DEF In, Owner, Depth
  <2> QED BY <1>1, <1>5, <2>1 DEF Within
<1>7. Before'
  <2>1. CASE inner = "mapping"
    <3>1. (Line[col] = "mapping")' /\ Skipped(col - 1)'
      BY <1>1, <1>3, <1>5, <2>1 DEF Val, Outer, Skipped
    <3> QED BY <1>1, <1>6, <2>1, <3>1 DEF Before
  <2>2. CASE inner # "mapping"
    <3>1. AtTheName(block)
      BY <1>1, <1>2, <1>4, <2>2, Switching
    <3>2. Fit(block, Line)
      BY <1>1, <1>3, <2>2, <3>1, FitAtTheName
    <3>3. Fit(Outer[block], Line)'
      BY <1>1, <1>5, <3>2
    <3>4. block' # "lura" /\ block' # "mapping"
      BY <1>1, <2>2
    <3> QED BY <1>6, <3>3, <3>4 DEF Before
  <2> QED BY <2>1, <2>2
<1>8. Inside' /\ Looks' /\ Ends'
  BY <1>1, <1>3, <1>4 DEF Inside, Looks, Ends
<1> QED BY <1>5, <1>7, <1>8 DEF Verdicts

LEMMA FailsV == ASSUME IInv, Verdicts, Fail PROVE Verdicts'
<1>1. /\ pc = "switch" /\ (WrongArgs \/ Unrecognized) /\ pc' = "failed" /\ doc' = doc
  BY DEF Fail, reader
<1>2. ~Fits(Len(doc))
  <2>1. CASE Val = OpenBrace
    BY <1>1, <2>1 DEF Verdicts, Looks
  <2>2. CASE Val # OpenBrace
    <3>1. Within(block) /\ DispenserTyped /\ block \in Blocks
      BY <1>1, <2>2, Switching
    <3>2. ~Fit(block, Line)
      <4>1. CASE block = "mapping"
        <5>1. Val \notin DOMAIN Parts
          BY <1>1, <4>1 DEF WrongArgs, Unrecognized, Single
        <5> QED BY <3>1, <4>1, <5>1, NoFieldDoesNotFit DEF Val, DispenserTyped
      <4>2. CASE block # "mapping"
        <5>1. Val # "mapping" \/ block # "backend"
          <6> SUFFICES ASSUME Val = "mapping", block = "backend" PROVE FALSE
            OBVIOUS
          <6>1. ~WrongArgs
            BY DEF WrongArgs, Single
          <6>2. ~Unrecognized
            BY DEF Unrecognized
          <6> QED BY <1>1, <6>1, <6>2
        <5>2. AtTheName(block)
          <6>1. Leftover \/ col = 1
            BY <1>1, <2>2 DEF IInv, Consumed
          <6>2. CASE Val # "mapping"
            BY <1>1, <2>2, <4>2, <6>2, Switching
          <6>3. CASE block # "backend"
            BY <2>2, <3>1, <4>2, <6>1, <6>3 DEF AtTheName, Leftover, Blocks
          <6> QED BY <5>1, <6>2, <6>3
        <5> QED BY <1>1, <3>1, <5>2, RejectedFits
      <4> QED BY <4>1, <4>2
    <3> QED BY <3>1, <3>2 DEF Within, Fits, Line
  <2> QED BY <2>1, <2>2
<1>3. Settled' /\ ~Fits(Len(doc))'
  BY <1>1, <1>2, SameText DEF Verdicts
<1>4. Before' /\ Inside' /\ Looks' /\ Ends'
  BY <1>1, <1>3 DEF Before, Inside, Looks, Ends
<1> QED BY <1>3, <1>4 DEF Verdicts

LEMMA BeginsV == Init => Verdicts
<1> SUFFICES ASSUME Init PROVE Verdicts
  OBVIOUS
<1>1. Len(doc) = 1 /\ pc = "next" /\ block = "lura" /\ nesting = 0
  BY DEF Init
<1>2. Settled /\ Looks /\ Ends
  BY <1>1 DEF Settled, Looks, Ends
<1>3. Before /\ Inside
  BY <1>1, RankFacts DEF Before, Inside
<1> QED BY <1>2, <1>3 DEF Verdicts

LEMMA KeptV == IInv /\ Verdicts /\ [Next]_vars => Verdicts'
<1> SUFFICES ASSUME IInv, Verdicts, [Next]_vars PROVE Verdicts'
  OBVIOUS
<1>1. CASE UNCHANGED vars
  <2>1. /\ doc' = doc /\ col' = col /\ nesting' = nesting /\ pc' = pc /\ block' = block
        /\ Line' = Line
    BY <1>1 DEF vars, reader, Line
  <2>2. \A i : In(i)' = In(i) /\ Owner(i)' = Owner(i)
    BY <2>1 DEF In, Owner, Depth
  <2> QED BY <2>1, <2>2 DEF Verdicts, Settled, Before, Inside, Looks, Ends, Within, Fits,
                            Skipped, FieldsTo, Pending, ArgsEnd, OnSameLine, Val
<1>2. CASE Next
  BY <1>2, IteratesV, LeavesBlockV, FinishesV, TakenV, MapsFieldV, EntersV, FailsV DEF Next
<1> QED BY <1>1, <1>2

(* A document is rejected at its first line that may not stand where it     *)
(* does, and accepted if it has none (the error paths of caddyfile.go:71,   *)
(* 81-91, 154, 214, 220, 231-243): in documents of any length, over any     *)
(* lines, whatever tokens and values are legal.                             *)
THEOREM OnlyTheFaultyAreRejected == Spec => []RejectsExactlyTheFaulty
<1>1. IInv /\ Verdicts => RejectsExactlyTheFaulty
  <2> SUFFICES ASSUME IInv, Verdicts PROVE RejectsExactlyTheFaulty
    OBVIOUS
  <2>1. Len(doc) \in Nat
    BY TheLine DEF IInv, Typed
  <2>2. \A i \in 2..Len(doc) - 1 : Closes(doc[i]) \/ Fits(i)
    BY DEF Verdicts, Settled
  <2>3. /\ pc = "failed" => ~Fits(Len(doc))
        /\ pc = "done" /\ Len(doc) > 1 => Closes(Line)
    BY <2>1 DEF Verdicts, Ends
  <2> QED BY <2>2, <2>3 DEF RejectsExactlyTheFaulty
<1> QED BY <1>1, Begins, Kept, BeginsV, KeptV, PTL DEF Spec
=============================================================================
