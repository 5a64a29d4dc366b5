----------------------------- MODULE RadixTree ------------------------------
(***************************************************************************)
(* The compressing radix tree of internal/httprouter/tree.go as operators  *)
(* on a heap: a sequence of node records, in which the root is node 1 and  *)
(* `children' holds positions of the heap.  The handle of a node is the    *)
(* route it was registered for; NoHandle is Go's nil.                      *)
(***************************************************************************)
EXTENDS Routes

CONSTANTS Lower, Upper   \* unicode.ToLower and ToUpper on the static bytes

\* The static bytes are ASCII: a letter has one lower and one upper case, and
\* only a letter has two spellings.
ASSUME LettersFold ==
    /\ \A p \in Requests : ToSet(p) \subseteq DOMAIN Lower
    /\ \A b \in DOMAIN Lower : /\ Lower[Lower[b]] = Lower[b] /\ Lower[Upper[b]] = Lower[b]
                             /\ \A c \in {Slash, "."} \cap DOMAIN Lower :
                                    Lower[b] = Lower[c] => b = c

NoHandle == <<>>
NodeType == {"static", "root", "param", "catchAll"}

Node == [path : Seq(STRING), indices : Seq(STRING), wildChild : BOOLEAN,
         nType : NodeType, priority : Nat, children : Seq(Nat),
         handle : Seq(STRING)]

EmptyNode == [path |-> <<>>, indices |-> <<>>, wildChild |-> FALSE,
              nType |-> "static", priority |-> 0, children |-> <<>>,
              handle |-> NoHandle]

EmptyTree == <<EmptyNode>>

\* The routes a tree holds.
Handles(tree) == {tree[i].handle : i \in DOMAIN tree} \ {NoHandle}

Fold(path) == [i \in DOMAIN path |-> Lower[path[i]]]

\* The child of a node for the next byte, 0 if there is none.
IndexOf(n, c) == SelectInSeq(n.indices, LAMBDA x : x = c)
ChildFor(n, c) == IF IndexOf(n, c) = 0 THEN 0 ELSE n.children[IndexOf(n, c)]

-----------------------------------------------------------------------------
(* Registration *)

Bump(tree, at) == [tree EXCEPT ![at].priority = @ + 1]

\* An element moved forward in a sequence, the ones it passes moved back.
MovedByCopying(s, from, to) == [s EXCEPT ![to] = s[from]]   \* mutant: one half of a swap
Moved(s, from, to) == InsertAt(RemoveAt(s, from), to, s[from])

\* Where the child in position pos belongs among its siblings before it.
NewPos(tree, cs, pos) == CHOOSE p \in 1..pos :
    /\ \A q \in p..pos - 1 : tree[cs[q]].priority < tree[cs[pos]].priority
    /\ p = 1 \/ tree[cs[p - 1]].priority >= tree[cs[pos]].priority

\* Mutant: the index bytes stay behind.
IncrementPrioOfChildOnly(tree, at, pos) ==
    LET t == Bump(tree, tree[at].children[pos])
    IN  [t EXCEPT ![at].children = Moved(@, pos, NewPos(t, @, pos))]

\* Raises the priority of the child in position pos and moves it in front of
\* the siblings of lower priority, its index byte with it.
IncrementChildPrio(tree, at, pos) ==
    LET t      == Bump(tree, tree[at].children[pos])
        newPos == NewPos(t, t[at].children, pos)
    IN  [t EXCEPT ![at].children = Moved(@, pos, newPos),
                  ![at].indices = Moved(@, pos, newPos)]

\* The lower and the upper half of an edge that is split after i tokens.
LowerHalfUncounted(n, i) ==    \* mutant: still counts the route being added
    [n EXCEPT !.path = From(n.path, i + 1), !.nType = "static"]
LowerHalfUnhandled(n, i) ==    \* mutant: the handle is lost in the split
    [n EXCEPT !.path = From(n.path, i + 1), !.nType = "static",
              !.priority = @ - 1, !.handle = NoHandle]
LowerHalf(n, i) ==
    [n EXCEPT !.path = From(n.path, i + 1), !.nType = "static", !.priority = @ - 1]

UpperHalfHandled(n, i, child) ==  \* mutant: the handle stays above, too
    [n EXCEPT !.children = <<child>>, !.indices = <<n.path[i + 1]>>,
              !.path = UpTo(n.path, i), !.wildChild = FALSE]
UpperHalf(n, i, child) ==
    [n EXCEPT !.children = <<child>>, !.indices = <<n.path[i + 1]>>,
              !.path = UpTo(n.path, i), !.handle = NoHandle, !.wildChild = FALSE]

\* The node keeps the first i tokens of its path; a new child takes the rest
\* and everything that hung on the node.
SplitEdge(tree, at, i) ==
    Append([tree EXCEPT ![at] = UpperHalf(@, i, Len(tree) + 1)],
           LowerHalf(tree[at], i))

\* A registration under way: the tree as it is, the node the walk is at, the
\* part of the route to place there, and the loop it is in, or how it ended.
Turn(tree, at, path, phase) == [tree |-> tree, at |-> at, path |-> path, phase |-> phase]
Done(tree) == Turn(tree, 1, <<>>, "done")
Panic(tree) == Turn(tree, 1, <<>>, "panic")    \* keeps what was built so far

AddHandle(tree, at, route) ==
    IF tree[at].handle # NoHandle THEN Panic(tree)
    ELSE Done([tree EXCEPT ![at].handle = route])

\* Whether the wildcard child n is the one a path goes on with.
Continues(n, path) == /\ n.nType # "catchAll"
                      /\ n.path[1] = path[1]
                      /\ Len(path) = 1 \/ path[2] = Slash

\* A new child for the byte c, in its place among its siblings.
GrowChild(tree, at, c) ==
    IncrementChildPrio(Append([tree EXCEPT ![at].indices = Append(@, c),
                                           ![at].children = Append(@, Len(tree) + 1)],
                              EmptyNode),
                       at, Len(tree[at].indices) + 1)

\* Where a path goes on from a node whose own path it has passed.
Descend(tree, at, path) ==
    LET n     == tree[at]
        first == n.children[1]
        pos   == IndexOf(n, path[1])
    IN  IF n.wildChild THEN
          IF Continues(tree[first], path) THEN Turn(Bump(tree, first), first, path, "walk")
          ELSE Panic(Bump(tree, first))
        ELSE IF n.nType = "param" /\ path[1] = Slash /\ Len(n.children) = 1 THEN
          Turn(Bump(tree, first), first, path, "walk")
        ELSE IF pos # 0 THEN
          Turn(IncrementChildPrio(tree, at, pos), n.children[pos], path, "walk")
        ELSE IF path[1] \in Wildcards THEN
          Turn(tree, at, path, "insert")
        ELSE
          Turn(GrowChild(tree, at, path[1]), Len(tree) + 1, path, "insert")

\* One turn of the walk down the tree, which splits an edge where the route
\* leaves it.
WalkTurn(tree, at, path, route) ==
    LET i     == Len(LongestCommonPrefix({path, tree[at].path}))
        split == IF i < Len(tree[at].path) THEN SplitEdge(tree, at, i) ELSE tree
    IN  IF i = Len(path) THEN AddHandle(split, at, route)
        ELSE Descend(split, at, From(path, i + 1))

\* The parameter in position w of the path hangs below the node, the static
\* part before it in the node.
ParamChild(wildcard) ==
    [EmptyNode EXCEPT !.nType = "param", !.path = <<wildcard>>, !.priority = 1]
AboveParam(n, path, w, child) ==
    [n EXCEPT !.path = IF w > 1 THEN UpTo(path, w - 1) ELSE @,
              !.wildChild = TRUE, !.children = <<child>>]
InsertParam(tree, at, path, w, route) ==
    LET new   == Len(tree) + 1
        above == [tree EXCEPT ![at] = AboveParam(@, path, w, new)]
    IN  IF w < Len(path)
        THEN Turn(above \o <<[ParamChild(path[w]) EXCEPT !.children = <<new + 1>>],
                             [EmptyNode EXCEPT !.priority = 1]>>,
                  new + 1, From(path, w + 1), "insert")
        ELSE Done(Append(above, [ParamChild(path[w]) EXCEPT !.handle = route]))

\* The catch-all at the end of the path hangs two nodes below: one that only
\* says that a catch-all follows, and one with the '/' and its name.
AboveCatchAll(n, path, child) ==
    [n EXCEPT !.path = UpTo(path, Len(path) - 2), !.indices = <<Slash>>,
              !.children = <<child>>]
InsertCatchAll(tree, at, path, w, route) ==
    LET new == Len(tree) + 1
    IN  IF \/ w # Len(path)
           \/ tree[at].path # <<>> /\ Last(tree[at].path) = Slash
           \/ w = 1
           \/ path[w - 1] # Slash
        THEN Panic(tree)
        ELSE Done([tree EXCEPT ![at] = AboveCatchAll(@, path, new)]
                  \o <<[EmptyNode EXCEPT !.wildChild = TRUE, !.nType = "catchAll",
                                         !.priority = 1, !.children = <<new + 1>>],
                       [EmptyNode EXCEPT !.path = From(path, w - 1), !.nType = "catchAll",
                                         !.handle = route, !.priority = 1]>>)

\* One turn of insertChild: everything up to the next wildcard, and it.
InsertTurn(tree, at, path, route) ==
    LET w == SelectInSeq(path, LAMBDA c : c \in Wildcards)
    IN  IF w = 0 THEN
          Done([tree EXCEPT ![at].path = path, ![at].handle = route])
        ELSE IF \/ w < Len(path) /\ path[w + 1] \in Wildcards
                \/ path[w] \in Unnamed
                \/ tree[at].children # <<>> THEN
          Panic(tree)
        ELSE IF path[w] \in ParamTokens THEN
          InsertParam(tree, at, path, w, route)
        ELSE InsertCatchAll(tree, at, path, w, route)

NextTurn(s, route) ==
    CASE s.phase = "walk" -> WalkTurn(s.tree, s.at, s.path, route)
      [] s.phase = "insert" -> InsertTurn(s.tree, s.at, s.path, route)
      [] OTHER -> s

\* Bound: a turn passes at least one token of the route, but for the two at
\* the nodes without a path above a catch-all, where the walk ends.
MaxTurns(route) == Len(route) + 1

Unused(tree) == tree[1].path = <<>> /\ tree[1].indices = <<>>

\* Walks down the tree and inserts what is left of the route, turn by turn.
Registration(tree, route) ==
    LET after[k \in Nat] ==
            IF k = 0
            THEN Turn(Bump(tree, 1), 1, route, IF Unused(tree) THEN "insert" ELSE "walk")
            ELSE NextTurn(after[k - 1], route)
    IN  after[MaxTurns(route)]

AddRoute(tree, route) ==
    LET end == Registration(tree, route)
    IN  [tree  |-> IF Unused(tree) /\ end.phase = "done"
                   THEN [end.tree EXCEPT ![1].nType = "root"] ELSE end.tree,
         panic |-> end.phase # "done"]

-----------------------------------------------------------------------------
(* Lookup *)

Answer(handle, ps, tsr) == [handle |-> handle, ps |-> ps, tsr |-> tsr]
Missed(ps, tsr) == Answer(NoHandle, ps, tsr)

\* One turn of a lookup, at a node with the rest of the request and the values
\* saved so far: the answer, or what `walk' answers further down.
LookupTurn(tree, walk, at, path, ps) ==
    LET n     == tree[at]
        lone  == path = <<Slash>>
        rest  == From(path, Len(n.path) + 1)
        below == tree[n.children[1]]      \* the wildcard child
        value == IF below.nType = "param" THEN UpTo(rest, SegmentEnd(rest)) ELSE rest
        later == From(rest, Len(value) + 1)
        saved == Append(ps, [key |-> Last(below.path), value |-> value])
        only  == tree[below.children[1]]  \* what follows the parameter
        slash == tree[ChildFor(n, Slash)]
    IN  IF IsStrictPrefix(n.path, path) /\ ~n.wildChild THEN
          IF ChildFor(n, rest[1]) # 0
          THEN walk[<<ChildFor(n, rest[1]), rest, ps>>]
          ELSE Missed(ps, rest = <<Slash>> /\ n.handle # NoHandle)
        ELSE IF IsStrictPrefix(n.path, path) THEN
          IF later # <<>> /\ below.children # <<>>
          THEN walk[<<below.children[1], later, saved>>]
          ELSE IF later # <<>> THEN Missed(saved, Len(later) = 1)
          ELSE IF below.handle # NoHandle \/ below.nType = "catchAll"
          THEN Answer(below.handle, saved, FALSE)
          ELSE Missed(saved,
                 /\ Len(below.children) = 1
                 /\ \/ only.path = <<Slash>> /\ only.handle # NoHandle
                    \/ only.path = <<>> /\ only.indices = <<Slash>>)
        ELSE IF path = n.path /\ n.handle # NoHandle THEN
          Answer(n.handle, ps, FALSE)
        ELSE IF path = n.path THEN
          Missed(ps, \/ lone /\ n.wildChild /\ n.nType # "root"
                     \/ lone /\ n.nType = "static"
                     \/ /\ ChildFor(n, Slash) # 0
                        /\ \/ Len(slash.path) = 1 /\ slash.handle # NoHandle
                           \/ /\ slash.nType = "catchAll"
                              /\ tree[slash.children[1]].handle # NoHandle)
        ELSE
          Missed(ps, lone \/ /\ n.path = Append(path, Slash)
                             /\ n.handle # NoHandle)

\* The handle for a request path, the values of its wildcards, and, when
\* there is no handle, whether to redirect to the path with (without) the
\* trailing slash.
GetValue(tree, request) ==
    LET walk[s \in (DOMAIN tree) \X Seq(STRING) \X Seq(Param)] ==
            LookupTurn(tree, walk, s[1], s[2], s[3])
    IN  walk[<<1, request, <<>>>>]

\* The answer that changes the trailing slash, if the caller asked for it.
AlwaysFixed(fixSlash, cond, path) == IF cond THEN {path} ELSE {}   \* mutant
SlashFixed(fixSlash, cond, path) == IF fixSlash /\ cond THEN {path} ELSE {}

\* One turn of the case-insensitive search, at a node with the rest of the
\* request and what has been spelled so far.  `rb' is the rune being matched,
\* at most one byte of it here.
SearchTurn(tree, fixSlash, find, at, path, out, rb) ==
    LET n      == tree[at]
        np     == Len(n.path)
        rest   == From(path, np + 1)
        ciPath == out \o n.path
        below  == tree[n.children[1]]
        value  == UpTo(rest, SegmentEnd(rest))
        later  == From(rest, SegmentEnd(rest) + 1)
        slash  == ChildFor(n, Slash)
        only   == tree[below.children[1]]
        via(c) == find[<<ChildFor(n, c), rest, ciPath, <<c>>>>]
        lower  == IF ChildFor(n, Lower[rest[1]]) = 0 THEN {} ELSE via(Lower[rest[1]])
        onlyIf(cond, p) == SlashFixed(fixSlash, cond, p)
        served(m) == tree[m].handle # NoHandle
    IN  IF np > Len(path) \/ Fold(SubSeq(path, 2, np)) # Fold(From(n.path, 2)) THEN
          IF path = <<Slash>> THEN onlyIf(TRUE, out)
          ELSE onlyIf(/\ np = Len(path) + 1 /\ n.path[np] = Slash
                      /\ Fold(Tail(path)) = Fold(SubSeq(n.path, 2, np - 1))
                      /\ n.handle # NoHandle, ciPath)
        ELSE IF rest = <<>> THEN
          IF n.handle # NoHandle THEN {ciPath}
          ELSE onlyIf(/\ slash # 0
                      /\ \/ Len(tree[slash].path) = 1 /\ served(slash)
                         \/ /\ tree[slash].nType = "catchAll"
                            /\ served(tree[slash].children[1]),
                      Append(ciPath, Slash))
        ELSE IF ~n.wildChild THEN
          IF Len(rb) > np THEN           \* an unfinished rune is left over
            IF ChildFor(n, rb[np + 1]) # 0 THEN via(rb[np + 1])
            ELSE onlyIf(rest = <<Slash>> /\ n.handle # NoHandle, ciPath)
          ELSE IF np > 0 /\ lower # {} THEN lower
          ELSE IF /\ np > 0 /\ Upper[rest[1]] # Lower[rest[1]]
                  /\ ChildFor(n, Upper[rest[1]]) # 0 THEN via(Upper[rest[1]])
          ELSE onlyIf(rest = <<Slash>> /\ n.handle # NoHandle, ciPath)
        ELSE IF below.nType = "catchAll" THEN {ciPath \o rest}
        ELSE IF later # <<>> /\ below.children # <<>> THEN
          find[<<below.children[1], later, ciPath \o value, rb>>]
        ELSE IF later # <<>> THEN onlyIf(Len(later) = 1, ciPath \o value)
        ELSE IF below.handle # NoHandle THEN {ciPath \o value}
        ELSE onlyIf(/\ Len(below.children) = 1 /\ only.path = <<Slash>>
                    /\ only.handle # NoHandle,
                    ciPath \o value \o <<Slash>>)

\* The registered path a request equals up to the case of its letters and,
\* with fixSlash, a trailing slash: {} if none is found, otherwise {path}.
FindCaseInsensitivePath(tree, request, fixSlash) ==
    LET find[s \in (DOMAIN tree) \X Seq(STRING) \X Seq(STRING) \X Seq(STRING)] ==
            SearchTurn(tree, fixSlash, find, s[1], s[2], s[3], s[4])
    IN  find[<<1, request, <<>>, <<>>>>]

-----------------------------------------------------------------------------
(* What keeps a tree in order *)

ChildrenAreNodes(tree) == \A i \in DOMAIN tree : \A k \in DOMAIN tree[i].children :
    tree[i].children[k] \in 2..Len(tree)
NoneIsShared(tree) == \A i, j \in DOMAIN tree :
    \A k \in DOMAIN tree[i].children, l \in DOMAIN tree[j].children :
        tree[i].children[k] = tree[j].children[l] => i = j /\ k = l
NoneIsLost(tree) == \A c \in 2..Len(tree) :
    \E i \in DOMAIN tree : \E k \in DOMAIN tree[i].children : tree[i].children[k] = c

\* Every node but the root hangs below exactly one parent.
Hung(tree) == ChildrenAreNodes(tree) /\ NoneIsShared(tree) /\ NoneIsLost(tree)

\* A wildcard has no sibling; the other children have one index byte each.
Aligned(tree) == \A i \in DOMAIN tree :
    LET n == tree[i]
    IN  IF n.wildChild
        THEN Len(n.children) = 1 /\ tree[n.children[1]].nType \in {"param", "catchAll"}
        ELSE IF n.nType = "param" THEN Len(n.children) <= 1
        ELSE Len(n.indices) = Len(n.children) /\ IsInjective(n.indices)

\* What a node accepts begins with the byte; an empty path is that of a
\* catch-all's parent or of its marker.
Begins(n, c) ==
    IF n.path = <<>> THEN n.indices = <<c>> \/ (n.wildChild /\ n.nType = "catchAll")
    ELSE n.path[1] = c

\* Every index byte leads to a child that begins with it.
LeadsOn(tree) == \A i \in DOMAIN tree :
    LET n == tree[i]
    IN  ~n.wildChild /\ n.nType # "param" =>
            \A k \in DOMAIN n.indices : Begins(tree[n.children[k]], n.indices[k])
=============================================================================
