---- MODULE MCParamsPool ----
(* Instance of ParamsPool: routes without, with one and with two wildcards, *)
(* as many buffers as requests.  Requests and buffers are interchangeable.  *)
EXTENDS ParamsPool, TLC
CONSTANTS q1, q2, b1, b2
MCRoutes == {"plain", "one", "two"}
MCWildcards == [route \in MCRoutes |->
    CASE route = "plain" -> 0 [] route = "one" -> 1 [] route = "two" -> 2]
Symmetry == Permutations({q1, q2}) \cup Permutations({b1, b2})
====
