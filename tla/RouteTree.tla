----------------------------- MODULE RouteTree ------------------------------
(***************************************************************************)
(* One method's tree while a configuration is loaded: routes are added one *)
(* after the other, in any order, until one is refused with a panic.  The  *)
(* lookups do not change the tree; the properties ask for every request    *)
(* what the tree answers in every state.                                   *)
(***************************************************************************)
EXTENDS RadixTree

CONSTANT MaxTreeRoutes   \* bound: how many routes a behaviour registers

VARIABLES tree,      \* the heap of nodes
          refused    \* the last registration was refused, with a panic

treeVars == <<tree, refused>>

TreeRoutes == Handles(tree)

TreeInit == tree = EmptyTree /\ refused = FALSE

Register(route) ==
    /\ ~refused
    /\ Cardinality(TreeRoutes) < MaxTreeRoutes
    /\ LET result == AddRoute(tree, route)
       IN  tree' = result.tree /\ refused' = result.panic

TreeNext == \E route \in Candidates : Register(route)

TreeSpec == TreeInit /\ [][TreeNext]_treeVars

-----------------------------------------------------------------------------
(* The heap is well formed in a sense that types alone do not give: every   *)
(* node but the root hangs below exactly one parent (tree.go:85-105,        *)
(* 128-145, 217-319 rearrange the children and could lose or share one),    *)
(* and a byte leads to one child: below a node without wildcard the index   *)
(* bytes and the children stay aligned through every split and reordering,  *)
(* and no byte appears twice; a wildcard node has no sibling.               *)
TreeTypeOK ==
    /\ tree \in Seq(Node) /\ refused \in BOOLEAN
    /\ Hung(tree) /\ Aligned(tree)
    /\ ~refused => LeadsOn(tree)

(* The order in which siblings are tried: the priority of a node counts the *)
(* handles at and below it, and siblings are sorted by it, the highest      *)
(* first, through every split and move (tree.go:85-105).                    *)
PriorityCountsHandles == ~refused => \A i \in DOMAIN tree :
    LET n == tree[i]
        sum[k \in 0..Len(n.children)] ==
            IF k = 0 THEN 0 ELSE sum[k - 1] + tree[n.children[k]].priority
    IN  /\ n.priority = sum[Len(n.children)] + (IF n.handle = NoHandle THEN 0 ELSE 1)
        /\ IsSorted(n.children, LAMBDA a, b : tree[a].priority >= tree[b].priority)

(* The tree answers a lookup with the one route that matches and the values *)
(* of its wildcards in order, and with nothing when no route matches; what  *)
(* was registered before a panic is still served after it (tree.go:326-463).*)
LookupServesTheMatch == \A p \in Requests :
    LET a == GetValue(tree, p)
    IN  {m \in TreeRoutes \X {a.ps} : m[1] = a.handle} =
        UNION {{<<r, ps>> : ps \in Match(r, p)} : r \in TreeRoutes}

(* The tree implements the table of routes: it accepts exactly the routes   *)
(* that conflict with none before, whatever the order of registration, and  *)
(* forgets none (tree.go:107-319).                                          *)
Table == INSTANCE RouteTable WITH table <- TreeRoutes, panicked <- refused
ImplementsRouteTable == Table!Spec

-----------------------------------------------------------------------------
(* The case-insensitive search without slash fixing returns only a path    *)
(* that is served and equals the request up to case (tree.go:466-468).      *)
CaseVariants(p) == {[i \in DOMAIN p |-> IF i \in up THEN Upper[p[i]] ELSE Lower[p[i]]] :
                      up \in SUBSET DOMAIN p}
Served(p) == GetValue(tree, p).handle # NoHandle

CaseSearchFindsAHandle == ~refused => \A p \in Requests :
    \A q \in FindCaseInsensitivePath(tree, p, FALSE) : Served(q) /\ Fold(p) = Fold(q)

(* "If a handle can be found for this route, the router makes a redirection *)
(* to the corrected path" (router.go:158-166): a request that differs from  *)
(* a served path only in case is found, whatever wildcards the route has.   *)
CaseSearchFindsEveryHandle == ~refused => \A p \in Requests :
    (~Served(p) /\ \E q \in CaseVariants(p) : Served(q)) =>
        FindCaseInsensitivePath(tree, p, TRUE) # {}

-----------------------------------------------------------------------------
(* The trailing-slash recommendation.  Toggled is the path with (without)   *)
(* the trailing slash.                                                      *)
Toggled(p) == IF Len(p) > 1 /\ Last(p) = Slash THEN Front(p) ELSE Append(p, Slash)

(* "a TSR recommendation is made if a handle exists with an extra (without  *)
(* the) trailing slash" (tree.go:321-325): never without such a handle.     *)
TsrOnlyToAHandle == ~refused => \A p \in Requests \ {<<Slash>>} :
    GetValue(tree, p).tsr => Served(Toggled(p))

(* ... and always with one: "/files no match, but the router would          *)
(* redirect" (router.go:61-65).                                             *)
TsrWheneverAHandle == ~refused => \A p \in Requests \ {<<Slash>>} :
    (~Served(p) /\ Served(Toggled(p))) => GetValue(tree, p).tsr
=============================================================================
