------------------------------- MODULE Router -------------------------------
(***************************************************************************)
(* The router of internal/httprouter/router.go: one radix tree per method, *)
(* filled while a configuration is provisioned and read-only afterwards,   *)
(* and the dispatch of requests, with a client that follows redirects.     *)
(*                                                                         *)
(* New turns every automatic answer on (redirects, 405, OPTIONS) and the   *)
(* program changes none of it, nor does it install NotFound,               *)
(* MethodNotAllowed, GlobalOPTIONS or PanicHandler, or save matched paths. *)
(***************************************************************************)
EXTENDS RadixTree, CanonicalPath

CONSTANTS Methods,      \* HTTP methods, "GET", "OPTIONS" and "CONNECT" among them
          Registrable,  \* the pairs <<method, route>> a configuration may ask for
          MaxRoutes     \* bound: how many of them one behaviour registers

ASSUME OptionsIsAMethod == "OPTIONS" \in Methods
ASSUME RegistrableRooted == \A mr \in Registrable :
    /\ mr \in Methods \X Seq(STRING)
    /\ mr[2] # <<>> /\ mr[2][1] = Slash /\ Tokenised(mr[2])

\* Routes are of the static bytes, as are the path of the request "OPTIONS *",
\* of the server as a whole, and the '/' that a redirect may add.
ASSUME BytesHaveCase ==
    /\ {"/", ".", "*"} \subseteq STRING /\ {"/", "*"} \subseteq DOMAIN Lower
    /\ \A mr \in Registrable : ToSet(mr[2]) \subseteq Wildcards \cup DOMAIN Lower

VARIABLES trees,          \* method -> heap, for the methods with a tree
          globalAllowed,  \* the cached answer to "OPTIONS *"
          maxParams,      \* the largest number of wildcards of a route
          poolReady,      \* paramsPool.New has been set
          panicked,       \* a registration panicked
          serving,        \* the handler has been installed
          client          \* the client's request and the answer it has got

vars == <<trees, globalAllowed, maxParams, poolReady, panicked, serving, client>>

Idle == [state |-> "idle"]

Registered == {mr \in Registrable :
                 mr[1] \in DOMAIN trees /\ mr[2] \in Handles(trees[mr[1]])}

CountParams(route) == Cardinality({i \in DOMAIN route : route[i] \in Wildcards})

-----------------------------------------------------------------------------
(* Registration *)

WithOptions(ms) == IF ms = {} THEN {} ELSE ms \cup {"OPTIONS"}

\* allowed("*", ""): the methods of the server, whatever the path.
AllowedAnywhere(ms) == WithOptions(ms \ {"OPTIONS"})

Init ==
    /\ trees = << >>
    /\ globalAllowed = {}
    /\ maxParams = 0
    /\ poolReady = FALSE
    /\ panicked = FALSE
    /\ serving = FALSE
    /\ client = Idle

\* The methods "OPTIONS *" reports after a route of a method is added.
StaleGlobalAllowed(method) ==   \* mutant: computed before the tree is there
    IF method \in DOMAIN trees THEN globalAllowed ELSE AllowedAnywhere(DOMAIN trees)
NextGlobalAllowed(method) ==
    IF method \in DOMAIN trees THEN globalAllowed
    ELSE AllowedAnywhere(DOMAIN trees \cup {method})

LastParams(route) == CountParams(route)     \* mutant: not the maximum
NextMaxParams(route) ==
    IF CountParams(route) > maxParams THEN CountParams(route) ELSE maxParams

Handle(method, route) ==
    /\ ~serving /\ ~panicked
    /\ Cardinality(Registered) < MaxRoutes
    /\ LET known  == DOMAIN trees \cup {method}
           root   == IF method \in DOMAIN trees THEN trees[method] ELSE EmptyTree
           result == AddRoute(root, route)
       IN  /\ trees' = [m \in known |-> IF m = method THEN result.tree ELSE trees[m]]
           /\ globalAllowed' = NextGlobalAllowed(method)
           /\ panicked' = result.panic
           /\ IF result.panic THEN UNCHANGED <<maxParams, poolReady>>
              ELSE /\ maxParams' = NextMaxParams(route)
                   /\ poolReady' = (poolReady \/ maxParams' > 0)
    /\ UNCHANGED <<serving, client>>

\* NewHandler returns the router, and Caddy installs it.
Install ==
    /\ ~serving /\ ~panicked /\ Registered # {}
    /\ serving' = TRUE
    /\ UNCHANGED <<trees, globalAllowed, maxParams, poolReady, panicked, client>>

-----------------------------------------------------------------------------
(* Dispatch *)

AllowedWithOptionsTree(path, method) ==     \* mutant: OPTIONS is not left out
    IF path = <<"*">> THEN globalAllowed
    ELSE WithOptions({m \in DOMAIN trees \ {method} :
                        GetValue(trees[m], path).handle # NoHandle})
\* The methods other than the request's that would be served on a path.
Allowed(path, method) ==
    IF path = <<"*">> THEN globalAllowed
    ELSE WithOptions({m \in DOMAIN trees \ {method, "OPTIONS"} :
                        GetValue(trees[m], path).handle # NoHandle})

ToggleSlash(path) ==
    IF Len(path) > 1 /\ Last(path) = Slash THEN Front(path) ELSE Append(path, Slash)

RedirectStripping(tree, path) ==    \* mutant: never adds the slash
    IF GetValue(tree, path).tsr THEN {Front(path)}
    ELSE FindCaseInsensitivePath(tree, Cleaned(path), TRUE)
RedirectUnasked(tree, path) == {ToggleSlash(path)}  \* mutant: the tree is not asked
\* The path a request is redirected to: {} for none, otherwise {path}.
Redirect(tree, path) ==
    IF GetValue(tree, path).tsr THEN {ToggleSlash(path)}
    ELSE FindCaseInsensitivePath(tree, Cleaned(path), TRUE)

\* What http.Redirect makes of the path: the Location header is cleaned and
\* keeps a slash at its end; unlike CleanPath it makes none of a "/." there.
Location(path) ==
    LET stack == Elements(path)
    IN  Spelled(stack) \o (IF stack # <<>> /\ Last(path) = Slash THEN <<Slash>> ELSE <<>>)

ServeHTTP(method, path) ==
    LET has    == method \in DOMAIN trees
        value  == GetValue(trees[method], path)
        moved  == Redirect(trees[method], path)
        allow  == Allowed(path, method)
    IN  IF has /\ value.handle # NoHandle THEN
          [state |-> "handled", method |-> method, path |-> path,
           route |-> value.handle, ps |-> value.ps]
        ELSE IF has /\ method # "CONNECT" /\ path # <<Slash>> /\ moved # {} THEN
          [state |-> "redirected", method |-> method, path |-> path,
           code |-> IF method = "GET" THEN 301 ELSE 308,
           location |-> Location(CHOOSE q \in moved : TRUE)]
        ELSE IF allow # {} THEN
          [state |-> IF method = "OPTIONS" THEN "options" ELSE "notAllowed",
           method |-> method, path |-> path, allow |-> allow]
        ELSE [state |-> "notFound", method |-> method, path |-> path]

Request(method, path) ==
    /\ serving /\ client.state = "idle"
    /\ client' = ServeHTTP(method, path)
    /\ UNCHANGED <<trees, globalAllowed, maxParams, poolReady, panicked, serving>>

\* 301 and 308 both keep the method here: 301 is only sent to a GET.
Follow ==
    /\ client.state = "redirected"
    /\ client' = ServeHTTP(client.method, client.location)
    /\ UNCHANGED <<trees, globalAllowed, maxParams, poolReady, panicked, serving>>

Next ==
    \/ \E mr \in Registrable : Handle(mr[1], mr[2])
    \/ Install
    \/ \E m \in Methods, p \in Requests \cup {<<"*">>} : Request(m, p)
    \/ Follow

Spec == Init /\ [][Next]_vars
\* The router answers at once; the client is one that follows redirects.
FairSpec == Spec /\ WF_vars(Follow)

-----------------------------------------------------------------------------
(* Properties *)

Typed ==
    /\ DOMAIN trees \subseteq Methods
    /\ \A m \in DOMAIN trees : trees[m] \in Seq(Node)
    /\ globalAllowed \subseteq Methods
    /\ maxParams \in Nat
    /\ {poolReady, panicked, serving} \subseteq BOOLEAN
    /\ serving => ~panicked
    /\ client.state \in {"idle", "handled", "redirected", "options", "notAllowed", "notFound"}

TreesInOrder == \A m \in DOMAIN trees :
    /\ Hung(trees[m]) /\ Aligned(trees[m])
    /\ ~panicked => LeadsOn(trees[m])

(* Every method's tree stays in order, whatever is registered: a node hangs *)
(* below one parent, and a byte leads to the one child that begins with it, *)
(* through every split, reordering and half-done insertion (tree.go:84-319);*)
(* and a router of which a registration panicked never serves.              *)
TypeOK == Typed /\ TreesInOrder

\* What one method may do with a route does not depend on the others.
Acceptable(method, route) ==
    /\ Valid(route)
    /\ \A mr \in Registered : mr[1] = method => ~Conflict(route, mr[2])

(* A registration is refused exactly when its route is invalid or conflicts *)
(* with one of its method, whatever the trees look like; it adds its route  *)
(* and loses none, and a refused one changes nothing that is served,        *)
(* although it may leave nodes behind (tree.go:127-145, 207-213, 217-319).  *)
RegistrationKeepsRoutes ==
    [][\A mr \in Registrable : Handle(mr[1], mr[2]) =>
           /\ panicked' = ~Acceptable(mr[1], mr[2])
           /\ Registered' = IF panicked' THEN Registered ELSE Registered \cup {mr}]_vars

\* Whether a method has a route for a path, by the meaning of the routes.
Serves(m, path) == \E mr \in Registered : mr[1] = m /\ Match(mr[2], path) # {}

(* Every final answer is the one the registered routes call for: a handler  *)
(* gets its own parameters; 405 and the answer to OPTIONS list exactly the  *)
(* methods that serve the path; 404 is sent only when no method but OPTIONS *)
(* serves it (router.go:412-463, 466-547).                                  *)
AnswerFitsTheRoutes ==
    LET c == client
        others == {m \in Methods \ {c.method, "OPTIONS"} : Serves(m, c.path)}
    IN  /\ c.state = "handled" =>
             /\ <<c.method, c.route>> \in Registered
             /\ c.ps \in Match(c.route, c.path)
        /\ c.state \in {"notAllowed", "options"} =>
             /\ ~Serves(c.method, c.path)
             /\ c.path # <<"*">> => c.allow = others \cup {"OPTIONS"} /\ others # {}
        /\ c.state = "notFound" =>
             ~Serves(c.method, c.path) /\ (c.path # <<"*">> => others = {})

(* A redirect only repairs the path: what it leads to is the request's path *)
(* cleaned, up to case and one trailing slash (router.go:487-509).          *)
RedirectRepairsThePath == client.state = "redirected" =>
    LET clean == Cleaned(client.path)
    IN  \E q \in {clean, ToggleSlash(clean)} : Fold(client.location) = Fold(q)

(* The cached list for "OPTIONS *" is never stale, although it is refreshed *)
(* only when a method gets its first route (router.go:318-323).             *)
GlobalAllowedIsCurrent == ~panicked =>
    globalAllowed = AllowedAnywhere({mr[1] : mr \in Registered})

(* The parameters of every route fit the buffers the pool will hand out:    *)
(* the capacity and the pool's constructor are updated after every          *)
(* registration (router.go:325-337).                                        *)
ParamsHaveRoom == \A mr \in Registered :
    CountParams(mr[2]) > 0 => poolReady /\ CountParams(mr[2]) <= maxParams

(* Redirects do not go in circles: a client that follows them gets a final  *)
(* answer.                                                                  *)
RedirectsSettle == client.state = "redirected" ~> client.state # "redirected"
=============================================================================
