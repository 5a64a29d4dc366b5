---- MODULE MCCleanPath ----
(* Instance of CleanPath: every path of up to MaxLen bytes, up to renaming  *)
(* the two letters (the first letter of a path is "a").                     *)
EXTENDS CleanPath
CONSTANT MaxLen
MCBytes == {"/", ".", "a", "b"}
MCInputs == {q \in UNION {[1..k -> MCBytes] : k \in 0..MaxLen} :
    \A i \in DOMAIN q : q[i] = "b" => \E j \in 1..i : q[j] = "a"}
====
