----------------------------- MODULE ParamsPool -----------------------------
(***************************************************************************)
(* The buffers for path parameters (internal/httprouter/router.go, the     *)
(* params callback of getValue in tree.go): requests served at the same    *)
(* time take Params slices from a sync.Pool, fill them while the tree is   *)
(* walked, pass a view of them to the handler and put them back after it.  *)
(*                                                                         *)
(* A buffer is its backing array (cell, cap) and the length in its slice   *)
(* header (len).  Buffers that are neither pooled nor held by a request    *)
(* are garbage, from which an allocation takes any.                        *)
(***************************************************************************)
EXTENDS Naturals, Sequences, FiniteSets

CONSTANTS Requests,      \* the goroutines that serve requests
          Values,        \* values a wildcard may capture
          MaxWildcards,  \* the most wildcards a route has
          Routes,        \* the routes of the configuration
          Wildcards,     \* route -> how many wildcards it has
          Buffers,       \* bound: the buffers there can be at one time
          NoBuffer       \* Go's nil *Params

ASSUME MaxWildcardsNat == MaxWildcards \in Nat
ASSUME WildcardsBounded == Wildcards \in [Routes -> 0..MaxWildcards]
ASSUME NoBufferIsNone == NoBuffer \notin Buffers
ASSUME SomeValue == Values # {}

VARIABLES registered,    \* the routes Handle has added
          maxParams,     \* Router.maxParams
          poolNew,       \* paramsPool.New is set
          serving,       \* the router is installed
          pool,          \* the buffers in paramsPool
          cap, len, cell,\* buffer -> capacity, length, contents
          pc,            \* request -> where it is
          vals, hit,     \* request -> the wildcard values of its path; whether it has a handle
          saved,         \* request -> how many wildcards the walk has passed
          buf,           \* request -> ps, its buffer
          view,          \* request -> the length of the slice its handler got
          copied         \* request -> what its handler has set in the replacer

setup    == <<registered, maxParams, poolNew, serving>>
buffers  == <<cap, len, cell>>
request  == <<vals, hit>>
vars     == <<setup, pool, buffers, pc, request, saved, buf, view, copied>>

Positions == 1..MaxWildcards

Init ==
    /\ registered = {} /\ maxParams = 0 /\ poolNew = FALSE /\ serving = FALSE
    /\ pool = {}
    /\ cap = [b \in Buffers |-> 0]
    /\ len = [b \in Buffers |-> 0]
    /\ cell = [b \in Buffers |-> [i \in Positions |-> CHOOSE v \in Values : TRUE]]
    /\ pc = [q \in Requests |-> "idle"]
    /\ vals = [q \in Requests |-> <<>>]
    /\ hit = [q \in Requests |-> FALSE]
    /\ saved = [q \in Requests |-> 0]
    /\ buf = [q \in Requests |-> NoBuffer]
    /\ view = [q \in Requests |-> 0]
    /\ copied = [q \in Requests |-> <<>>]

-----------------------------------------------------------------------------
(* Registration, which is over before the first request *)

SummedParams(route) == maxParams + Wildcards[route]       \* mutant
FirstMaxParams(route) ==      \* mutant: not raised once the pool has a constructor
    IF poolNew THEN maxParams ELSE Wildcards[route]
NextMaxParams(route) ==
    IF Wildcards[route] > maxParams THEN Wildcards[route] ELSE maxParams

Handle(route) ==
    /\ ~serving /\ route \notin registered
    /\ registered' = registered \cup {route}
    /\ maxParams' = NextMaxParams(route)
    /\ poolNew' = (poolNew \/ maxParams' > 0)
    /\ UNCHANGED <<serving, pool, buffers, pc, request, saved, buf, view, copied>>

Install ==
    /\ ~serving
    /\ serving' = TRUE
    /\ UNCHANGED <<registered, maxParams, poolNew, pool, buffers, pc, request,
                   saved, buf, view, copied>>

-----------------------------------------------------------------------------
(* A request *)

\* Its path has a handle, with a value for every wildcard of the route, or
\* leaves a route somewhere behind some of its wildcards, or has none of the
\* routes to follow.
Captures == UNION {[1..k -> Values] : k \in 0..MaxWildcards}
Begin(q) ==
    /\ serving /\ pc[q] = "idle"
    /\ \E v \in Captures, h \in BOOLEAN :
         /\ \/ v = <<>> /\ ~h
            \/ \E route \in registered :
                 /\ Len(v) <= Wildcards[route]
                 /\ h => Len(v) = Wildcards[route]
         /\ vals' = [vals EXCEPT ![q] = v]
         /\ hit' = [hit EXCEPT ![q] = h]
    /\ pc' = [pc EXCEPT ![q] = "match"]
    /\ UNCHANGED <<setup, pool, buffers, saved, buf, view, copied>>

Held == {buf[q] : q \in Requests} \ {NoBuffer}

\* A buffer's length when a request takes it.
KeptLength(b) == len          \* mutant: what the request before left
ResetLength(b) == [len EXCEPT ![b] = 0]

\* getParams at the first wildcard: a buffer of the pool, or a new one of the
\* capacity the routes need; its length is reset.  With neither, Get returns
\* nil and the reset dereferences it.
GetParams(q) ==
    /\ pc[q] = "match" /\ buf[q] = NoBuffer /\ saved[q] < Len(vals[q])
    /\ \/ \E b \in pool :
            /\ pool' = pool \ {b}
            /\ buf' = [buf EXCEPT ![q] = b]
            /\ len' = ResetLength(b)
            /\ UNCHANGED <<cap, pc>>
       \/ /\ poolNew
          /\ \E b \in Buffers \ (pool \cup Held) :
               /\ cap' = [cap EXCEPT ![b] = maxParams]
               /\ len' = ResetLength(b)
               /\ buf' = [buf EXCEPT ![q] = b]
          /\ UNCHANGED <<pool, pc>>
       \/ /\ ~poolNew /\ pool = {}
          /\ pc' = [pc EXCEPT ![q] = "crashed"]
          /\ UNCHANGED <<pool, buf, len, cap>>
    /\ UNCHANGED <<setup, cell, request, saved, view, copied>>

\* One wildcard's value: the slice grows by one within its capacity.
SaveParam(q) ==
    /\ pc[q] = "match" /\ buf[q] # NoBuffer /\ saved[q] < Len(vals[q])
    /\ LET b == buf[q]
           i == len[b] + 1
       IN  IF i <= cap[b]
           THEN /\ len' = [len EXCEPT ![b] = i]
                /\ cell' = [cell EXCEPT ![b][i] = vals[q][saved[q] + 1]]
                /\ saved' = [saved EXCEPT ![q] = @ + 1]
                /\ UNCHANGED pc
           ELSE /\ pc' = [pc EXCEPT ![q] = "crashed"]
                /\ UNCHANGED <<len, cell, saved>>
    /\ UNCHANGED <<setup, pool, cap, request, buf, view, copied>>

Forget(q) ==
    /\ vals' = [vals EXCEPT ![q] = <<>>]
    /\ hit' = [hit EXCEPT ![q] = FALSE]
    /\ saved' = [saved EXCEPT ![q] = 0]
    /\ buf' = [buf EXCEPT ![q] = NoBuffer]
    /\ view' = [view EXCEPT ![q] = 0]
    /\ copied' = [copied EXCEPT ![q] = <<>>]
    /\ pc' = [pc EXCEPT ![q] = "idle"]

\* No handle: the buffer is dropped, it does not go back to the pool.
Miss(q) ==
    /\ pc[q] = "match" /\ saved[q] = Len(vals[q]) /\ ~hit[q]
    /\ Forget(q)
    /\ UNCHANGED <<setup, pool, buffers>>

\* Mutant: the buffer goes back before the handler runs.
CallHandlerAfterPut(q) ==
    /\ pc[q] = "match" /\ saved[q] = Len(vals[q]) /\ hit[q]
    /\ pc' = [pc EXCEPT ![q] = "handler"]
    /\ view' = [view EXCEPT ![q] = IF buf[q] = NoBuffer THEN 0 ELSE len[buf[q]]]
    /\ pool' = pool \cup ({buf[q]} \ {NoBuffer})
    /\ UNCHANGED <<setup, buffers, request, saved, buf, copied>>
\* handle(w, req, *ps): the handler gets a copy of the slice header, which
\* shares the backing array.
CallHandler(q) ==
    /\ pc[q] = "match" /\ saved[q] = Len(vals[q]) /\ hit[q]
    /\ pc' = [pc EXCEPT ![q] = "handler"]
    /\ view' = [view EXCEPT ![q] = IF buf[q] = NoBuffer THEN 0 ELSE len[buf[q]]]
    /\ UNCHANGED <<setup, pool, buffers, request, saved, buf, copied>>

\* buildProxyRequest sets the parameters in the request's replacer, one by one.
CopyParam(q) ==
    /\ pc[q] = "handler" /\ Len(copied[q]) < view[q]
    /\ copied' = [copied EXCEPT ![q] = Append(@, cell[buf[q]][Len(@) + 1])]
    /\ UNCHANGED <<setup, pool, buffers, pc, request, saved, buf, view>>

\* The handler returns and putParams gives the buffer, if any, back.
Return(q) ==
    /\ pc[q] = "handler" /\ Len(copied[q]) = view[q]
    /\ pool' = pool \cup ({buf[q]} \ {NoBuffer})
    /\ Forget(q)
    /\ UNCHANGED <<setup, buffers>>

\* Mutant: a panic is recovered and the buffer put back, which Return does
\* once more.
HandlerPanicsAndPuts(q) ==
    /\ pc[q] = "handler"
    /\ pool' = pool \cup ({buf[q]} \ {NoBuffer})
    /\ UNCHANGED <<setup, buffers, pc, request, saved, buf, view, copied>>
\* The handler panics: the server ends the request, putParams is not reached.
HandlerPanics(q) ==
    /\ pc[q] = "handler"
    /\ Forget(q)
    /\ UNCHANGED <<setup, pool, buffers>>

\* sync.Pool may drop what it holds at any time.
Evict(b) ==
    /\ b \in pool
    /\ pool' = pool \ {b}
    /\ UNCHANGED <<setup, buffers, pc, request, saved, buf, view, copied>>

Next ==
    \/ \E route \in Routes : Handle(route)
    \/ Install
    \/ \E q \in Requests : \/ Begin(q) \/ GetParams(q) \/ SaveParam(q) \/ Miss(q)
                           \/ CallHandler(q) \/ CopyParam(q) \/ Return(q)
                           \/ HandlerPanics(q)
    \/ \E b \in Buffers : Evict(b)

Spec == Init /\ [][Next]_vars

-----------------------------------------------------------------------------
(* Properties *)

TypeOK ==
    /\ registered \subseteq Routes
    /\ maxParams \in 0..MaxWildcards
    /\ poolNew \in BOOLEAN /\ serving \in BOOLEAN
    /\ pool \subseteq Buffers
    /\ cap \in [Buffers -> 0..MaxWildcards]
    /\ len \in [Buffers -> 0..MaxWildcards]
    /\ cell \in [Buffers -> [Positions -> Values]]
    /\ pc \in [Requests -> {"idle", "match", "handler", "crashed"}]
    /\ vals \in [Requests -> Seq(Values)]
    /\ hit \in [Requests -> BOOLEAN]
    /\ saved \in [Requests -> Nat]
    /\ buf \in [Requests -> Buffers \cup {NoBuffer}]
    /\ view \in [Requests -> Nat]
    /\ copied \in [Requests -> Seq(Values)]

(* A buffer has one user: no two requests hold the same one, and what is in *)
(* the pool is held by none, through misses, panics and evictions           *)
(* (router.go:223-233, 474-480).                                            *)
ExclusiveBuffers ==
    /\ \A q1, q2 \in Requests :
         (q1 # q2 /\ buf[q1] # NoBuffer) => buf[q1] # buf[q2]
    /\ \A q \in Requests : buf[q] \notin pool

(* The slice a handler works on shows the values of its own path, all of    *)
(* them and nothing left over from a request before, until it returns.      *)
HandlerSeesOwnParams == \A q \in Requests : pc[q] = "handler" =>
    /\ view[q] = Len(vals[q])
    /\ \A i \in 1..view[q] : buf[q] # NoBuffer /\ cell[buf[q]][i] = vals[q][i]

(* Saving a value never grows a slice beyond its capacity, and the pool     *)
(* always has a constructor when a value is to be saved: both would be a    *)
(* panic of the serving goroutine (tree.go:361-371, 404-415).               *)
NeverCrashes == \A q \in Requests : pc[q] # "crashed"

(* Sharing the buffers cannot be noticed.                                   *)
Private == INSTANCE PrivateParams
ImplementsPrivateParams == Private!Spec
=============================================================================
