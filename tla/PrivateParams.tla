--------------------------- MODULE PrivateParams ----------------------------
(***************************************************************************)
(* What the parameter pool promises its users: every request has its path  *)
(* parameters to itself, as if they were allocated for it alone.           *)
(***************************************************************************)
EXTENDS Naturals, Sequences

CONSTANTS Requests,       \* the goroutines that serve requests
          Values,         \* values a wildcard may capture
          MaxWildcards    \* the most wildcards a route may have

VARIABLES pc,             \* request -> "idle", "match" or "handler"
          vals,           \* request -> the values its path has for the wildcards
          hit,            \* request -> its path has a handle
          copied          \* request -> the parameters its handler has read

vars == <<pc, vals, hit, copied>>

Init == /\ pc = [q \in Requests |-> "idle"]
        /\ vals = [q \in Requests |-> <<>>]
        /\ hit = [q \in Requests |-> FALSE]
        /\ copied = [q \in Requests |-> <<>>]

Captures == UNION {[1..k -> Values] : k \in 0..MaxWildcards}

Begin(q) == /\ pc[q] = "idle"
            /\ pc' = [pc EXCEPT ![q] = "match"]
            /\ \E v \in Captures, h \in BOOLEAN :
                  /\ vals' = [vals EXCEPT ![q] = v]
                  /\ hit' = [hit EXCEPT ![q] = h]
            /\ UNCHANGED copied

Enter(q) == /\ pc[q] = "match" /\ hit[q]
            /\ pc' = [pc EXCEPT ![q] = "handler"]
            /\ UNCHANGED <<vals, hit, copied>>

\* The handler reads the next parameter: always the request's own.
Read(q) == /\ pc[q] = "handler" /\ Len(copied[q]) < Len(vals[q])
           /\ copied' = [copied EXCEPT ![q] = Append(@, vals[q][Len(@) + 1])]
           /\ UNCHANGED <<pc, vals, hit>>

\* The request misses, its handler returns or panics.
End(q) == /\ \/ pc[q] = "match" /\ ~hit[q]
             \/ pc[q] = "handler"
          /\ pc' = [pc EXCEPT ![q] = "idle"]
          /\ vals' = [vals EXCEPT ![q] = <<>>]
          /\ hit' = [hit EXCEPT ![q] = FALSE]
          /\ copied' = [copied EXCEPT ![q] = <<>>]

Next == \E q \in Requests : Begin(q) \/ Enter(q) \/ Read(q) \/ End(q)

Spec == Init /\ [][Next]_vars
=============================================================================
