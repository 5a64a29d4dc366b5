----------------------------- MODULE RouteTable -----------------------------
(***************************************************************************)
(* What a tree of routes promises, without the tree: a set of routes that  *)
(* grows by one route at a time, refuses what it could not serve, and from *)
(* its first refusal on takes nothing any more (a refusal is a panic, and  *)
(* the router under construction is given up).                             *)
(***************************************************************************)
EXTENDS Routes

VARIABLES table,       \* the registered routes
          panicked     \* a registration has been refused

vars == <<table, panicked>>

Acceptable(route) == Valid(route) /\ \A r \in table : ~Conflict(route, r)

Init == table = {} /\ panicked = FALSE

Accept(route) == /\ ~panicked
                 /\ Acceptable(route)
                 /\ table' = table \cup {route}
                 /\ UNCHANGED panicked

Refuse(route) == /\ ~panicked
                 /\ ~Acceptable(route)
                 /\ panicked' = TRUE
                 /\ UNCHANGED table

Next == \E route \in Candidates : Accept(route) \/ Refuse(route)

Spec == Init /\ [][Next]_vars
=============================================================================
