# A TLA+ model of caddy-lura

caddy-lura embeds the Lura API gateway in Caddy. A Caddyfile (or JSON) directive describes
endpoints and their backends; `Provision` turns it into a Lura configuration and fills a router,
a fork of julienschmidt/httprouter whose handlers return errors; every request is then dispatched by that
router to an endpoint handler, which asks Lura's proxy stack for a response and renders it.

This directory models the parts in which the program's own logic lies. The modules are written to be
checked by TLC on small instances and, where it pays, proved with TLAPS.

## The system and its parts

| component | state | operations | interacts with | what is hard |
|---|---|---|---|---|
| radix tree (`internal/httprouter/tree.go`) | one heap of nodes per method | `addRoute`, `getValue`, `findCaseInsensitivePath` | called by the router | splitting and reordering of nodes, conflicts that depend on the shape of the tree, panics half way, redirect recommendations |
| router (`router.go`) | `trees`, `globalAllowed`, `maxParams`, the pool | `Handle`, `ServeHTTP`, `allowed` | tree, path cleaner, pool, HTTP client | caches kept while loading, redirects that must end, which of 405, OPTIONS, 404 is right |
| parameter pool (`router.go`, `tree.go`) | a `sync.Pool` of slices | `getParams`, saving of values, `putParams` | concurrent requests | sharing, recycling, buffers lost to panics and the collector, capacity |
| path cleaner (`path.go`) | local: reading and writing positions, lazy buffer | `CleanPath`, `bufApp` | called by the router | index arithmetic on a buffer that may not exist yet |
| endpoint registration (`app.go`, `internal/lura/lura.go`, `endpoint.go`) | the router being filled | `Provision`, `NewHandler`, `registerEndpoints` | router | one faulty endpoint, the others' fate; helpers against endpoints |
| endpoint handler (`endpoint.go`) | per request: context, response, error | `buildEndpointHandle`'s closure, `buildProxyRequest` | router, proxy, renderers | deadline against answer, data and error at once |
| backend proxy (`endpoint.go:85-104`) | the request it rewrites (a copy of its own) | substitution, call | Caddy's replacer, Lura, endpoint handler | one backend of several cannot be called |
| renderers (`render.go`) | a register under a lock | `getRender`, four renderers | endpoint handler | fallbacks |
| URL patterns (`url.go`) | none | hiding placeholders from Lura and restoring them | `Provision`, Lura's `Init` | map order, braces within braces, one step for each name over the result of those before |
| Caddyfile adapter (`caddyfile.go`) | the structures under construction, the dispenser's cursor and nesting | the `Unmarshal` functions, one nested in the other | Caddy's dispenser | nested loops on one dispenser; empty, missing and repeated blocks; errors from within |
| logger, command | none | output, `main` | | |

Registration is sequential and over before the router serves (`Provision` returns the handler, Caddy
installs it); afterwards trees and caches are read-only and the only state that requests share is the pool.

What makes each part correct: the *tree* serves exactly the route that matches and refuses exactly what it could not
serve, whatever the order of registration; the *router's* answer follows from the registered routes alone; the
*pool* cannot be noticed; the *path cleaner* computes the canonical path in place and stays in bounds; the *registration* yields an
unambiguous router and loses no endpoint that is not at fault; the *endpoint handler* claims no more than its backends delivered; a *backend* is called where its configured
pattern leads for this request, or not at all; the *Caddyfile adapter* builds what the text says.

## Modules

| module | models | proofs |
|---|---|---|
| `Routes` | vocabulary: paths as sequences of tokens; what a route matches, when two conflict | |
| `RouteTable` | abstract: a set of routes that accepts or refuses | |
| `RadixTree` | `tree.go` as operators on a heap of nodes | lemmas in `RadixTreeProofs` (registration) and `TreeLookupProofs` (lookups) |
| `RouteTree` | a tree under registration (`Register` is one `addRoute`) | `RouterProofs`, first part |
| `CanonicalPath` | the rules of `CleanPath`'s doc comment: a path read byte by byte as a stack of elements | |
| `CleanPath` | `path.go`, one action per case of the loop | `CleanPathProofs` |
| `Router` | `router.go` with a client that follows redirects | `RouterProofs` |
| `PrivateParams` | abstract: every request has its own parameters | |
| `ParamsPool` | the pool, the saving of values, the handler's slice | `ParamsPoolProofs` |
| `EndpointRegistration` | `Provision`, `NewHandler`, `registerEndpoints` | `EndpointRegistrationProofs` |
| `EndpointHandle` | one request in an endpoint's handler, with its deadline and its backends | `BackendCallsProofs` |
| `UrlPattern` | `url.go` as operators on patterns, with Lura's rewriting and Caddy's replacer around it | |
| `BackendCalls` | `EndpointHandle` composed with `Provision`'s preparation of patterns and `newBackendFactory` | `BackendCallsProofs` |
| `Caddyfile` | `caddyfile.go`, the nested loops over the dispenser | `CaddyfileProofs` |
| `MC*` | instances for TLC | |

**Paths.** A static byte is a one-letter token; a whole wildcard (`:id`, `*any`) is one token, since the code
compares wildcards and never looks inside. `/a:x` is therefore `<<"/", "a", ":x">>`. A wildcard begins at every colon and star, so that a bare `:` or `*` is a wildcard token without a name, which every route with it is refused for (`Tokenised`). The byte-wise walk over a prefix is a walk over tokens.
Runes of several bytes are left out of the case-insensitive search; its buffer of
unfinished runes is kept, with the one byte it can then hold.

**The tree.** A Go pointer is a position in the heap, the root is node 1. The loops of a lookup are
recursive functions whose arguments are the loop's variables. A registration is a sequence of turns: `Turn` has the tree, the node and the rest of the
route that the loops of `addRoute` (`WalkTurn`) and `insertChild` (`InsertTurn`) go round with, `NextTurn` takes one, `Registration` takes `MaxTurns` of them,
a bound (the length of the route and one) within which every registration ends (`RegistrationsEnd`), and `AddRoute` makes the first node of an unused tree its root. A panic leaves in the
tree what was built so far, as in the code. `incrementChildPrio`, the split, a new child and the nodes of a wildcard are
operators of their own. The handle of a node is the route it was registered for, so that a lookup shows whose handle it found.

**The router.** `Handle` is one action (tree, `globalAllowed`, `maxParams`, the pool's constructor, in the code's
order); `ServeHTTP` is one action, because nothing it reads changes while the router
serves. Two operators are external: `Location`, what `http.Redirect` does to the path (it cleans it and keeps
the trailing slash, but unlike `CleanPath` makes none of a final `/.`), and `Follow`, a client that follows redirects. Requests whose path begins with two slashes followed by
more are left out, as the URL such a path is printed to names a host. The hooks (`NotFound`, `PanicHandler`, ...)
and `SaveMatchedRoutePath` are never set by the program.

**The pool.** A request is a goroutine with a program counter; taking a buffer, saving a value, calling the handler,
copying a parameter into Caddy's replacer and returning are separate steps that interleave. `Evict` is `sync.Pool`
dropping what it holds. Missing a handle and a panicking handler drop the buffer. A step the runtime would panic on leads to `crashed`.

**Registration of endpoints.** `config` is what `Provision` converted; the router is taken by its abstract promise (`Refused` is
`RouteTable` per method); `TreeImplementsTable` proves it of a tree and `RegistrationsKeepRoutes` of the router. A proxy stack that cannot be built is a property of the
endpoint, and no non-GET endpoint with several backends is a valid sequential one: that answer of Lura's depends on extra configuration that `Provision` never sets.

**One request at an endpoint.** The program counter of `EndpointHandle` follows the handler: `call` is inside the proxy, `check` the
`select` on the context, `respond` the choice between data, error and nothing, `render` the renderer. The timer (`ContextDone`) and the
backends (`Settle`) run between any two steps. A response is the set of backends whose data is in it. Lura's proxy stack is external: it hands a single
backend's result through or merges what has arrived when all have settled or the context is done; it returns once the context is done. The branch for an
unexpected method is left out because the router calls the handler only for the endpoint's method, and the renderer is
`jsonRender`, because `Provision` sets no encoding. One branch of it is left out: when `json.Marshal` fails it returns an error (`render.go:79-82`), a 500 behind headers that may already say "complete" and cacheable (`endpoint.go:138-146`),
on which `CompleteMeansEveryBackend` and `PartialDataIsServed` would not hold. The program cannot reach it, because data that was decoded from JSON can always be encoded; a backend or a plugin with other data could. A panic is caught by the HTTP server above and leaves the context unreleased until its deadline.

**Backends and their patterns.** `BackendCalls` extends `EndpointHandle` with the life of the backends' patterns. A pattern is a sequence of tokens: braces, letters and the prefix `resp042_.`. `Process`
is one iteration of the loop in `url.go`, in the order of a Go map (any); `ServiceInit` is Lura's `Init`, which turns `{resp042_.x}` into `{{.Resp042_.x}}`; `Apply` takes that back. `CallProxy` is the handler's `Call` with
`buildProxyRequest` (the headers and the query it copies are data); after it every backend's goroutine builds its path (`Send`, or `Unresolved` if the replacer has no value or an empty one) and only a backend that was called returns an answer. Lura gives every backend a clone
of the request (also each of the calls that `concurrent_calls` makes it race, whose joint outcome `Settle` is), so what they share is the replacer alone, which nobody writes after `CallProxy`. The branch without a replacer (`endpoint.go:92-94`) is left out: Caddy puts one into every request's
context, and `buildProxyRequest` would have panicked before. Lura's cleaning of a pattern's leading slash and the patterns it refuses are left out.
A pattern that has both `{x}` and `{resp042_.x}` is not `Unmistakable`: depending on the order of the map, the first becomes `{resp042_.x}` before or after the second is replaced. The properties about the
path leave such patterns out, as nobody but the code itself uses the prefix.

**The Caddyfile.** The state is the dispenser (lines read, cursor, nesting), the block whose loop runs, the nesting each loop was entered with, and what is being built at each level. The text is revealed line by line while it is
parsed, so a run explores every document with the given lines. `NextBlock`, `RemainingArgs` and `Val` are the dispenser's (external), with their effects on cursor and nesting; braces are balanced because
Caddy's parser has seen to it before. Calling an inner `Unmarshal` function is `Enter...`, returning from it `LeaveBlock`. What a document means is defined apart from the
parser, on the text: the block a line is in (`Owner`), a line that may stand where it does (`Fits`), and the structure it describes (`LuraOf`). That meaning follows the code where the code is lenient: further arguments of
`endpoint` are ignored, arguments of a `mapping` without a block are read as the backend's next
subdirective (`mapping to k` adds a host), arguments before the brace of `lura` are taken for no block at all, and the third part of `a>b>c` is dropped.

Definitions marked *mutant* are plausible mistakes in the definition after them. They are not part of the model; they show that each
property can fail.

## Runs

| run | question | bounds | result |
|---|---|---|---|
| `RouteTree` | is the tree well formed, aligned, ordered; does it serve the match; does it implement the table? | up to 4 of 23 routes (nested, split, wildcard, conflicting and invalid), every request of up to 5 tokens over `/ a b A` | holds |
| `Router` | right answer, caches, redirects; are the trees in order and all routes kept through every registration? | up to 3 of 13 routes over GET, POST, OPTIONS, CONNECT; requests of up to 4 tokens and some longer; `OPTIONS *` | holds |
| `CleanPath` | canonical result, no index out of range, termination | every path of up to 7 bytes over `/ . a b` (up to renaming of letters) | holds |
| `ParamsPool` | exclusive buffers, own parameters, no crash, unnoticeable sharing | 2 requests, 2 buffers, routes with 0, 1 and 2 wildcards, 2 values | holds |
| `EndpointRegistration` | what is served for which configuration | up to 3 of 9 endpoints, 5 debug and 3 echo settings, 3 methods | holds |
| `EndpointHandle` | do header and body tell the truth about the backends; does every request end? | up to 3 backends, every interleaving with the deadline | holds |
| `BackendCalls` | does a pattern survive its detour through Lura; is every backend called where it leads; is a backend that cannot be called covered up? | one backend with every pattern of up to 3 of 8 pieces (plain, tagged and nested placeholders, single braces) or 4 of the 4 trickiest; 2 backends with short patterns and every kind of value (missing, empty, of the same name, looking like a placeholder) | holds |
| `Caddyfile` | are documents parsed to what they say, and rejected exactly when faulty? | every document of up to 7 of 26 lines before the closing braces, 3 ways to begin | holds |
| `TsrSound` | is a trailing-slash redirect only recommended to a handle? | up to 3 routes, requests without empty segments | **violated** |
| `TsrComplete` | is it always recommended when there is one? | same | **violated** |
| `CaseSearch` | does the case-insensitive search find every handle? | same | **violated** |
| `EndpointIgnored` | is only the faulty endpoint left out? | as `EndpointRegistration` | **violated** |

Why the bounds suffice: a split needs two routes, a reordering of siblings three, a split above a reordered or wildcard node
four; two requests and two buffers show every way to share; a path of seven bytes holds an element, a `..` that removes it, a second
element and a trailing slash. A buffer is shared by at most two parties at the moment it is shared wrongly, so a third request adds nothing new (and the
proofs hold for any number). Three pieces suffice for a placeholder within, before or after another and for braces left over on either side. Seven lines are a
`lura`, endpoint, backend and mapping block each with a line, or two siblings at any of these levels (eight lines were checked once, and hold). With three backends one can answer, one fail and one be late in the same request.

Properties, in short:

* `TreeTypeOK`, `PriorityCountsHandles` (tree): one parent per node; index bytes and children aligned and
  without duplicates; priorities count the handles below and sort the siblings.
* `LookupServesTheMatch`, `ImplementsRouteTable`: for every request the handle and the parameter values are those of the unique
  matching route; a registration is refused exactly if the route is invalid or conflicts, in any order.
* `CaseSearchFindsAHandle`: without slash fixing, what the search returns is served and equals the request up to case.
* `AnswerFitsTheRoutes`, `RedirectRepairsThePath`, `RedirectsSettle`: handler, 405, OPTIONS and 404 are the ones the routes call for; a redirect leads to
  the cleaned path up to case and one slash; following redirects ends.
* `GlobalAllowedIsCurrent`, `ParamsHaveRoom`: the values cached by `Handle` are never stale.
* `TypeOK` (router; its part `TreesInOrder`), `RegistrationKeepsRoutes`: in every method's tree a node has one parent, index bytes stand for the children in their order and lead to nodes that begin with
  them; a registration is refused exactly if its route is invalid or conflicts with one of its method; it adds its route and loses none, and a refused one, wherever it stops, neither loses nor adds a handle.
* `InBounds`, `CleansThePath`, `WrittenSpellsTheStack`, `Terminates` (path cleaner).
* `ExclusiveBuffers`, `HandlerSeesOwnParams`, `NeverCrashes`, `ImplementsPrivateParams` (pool).
* `OneHandlerPerRequest`, `HelpersOwnTheirPaths`, `ServesUpToTheFirstFault` (registration).
* `CompleteMeansEveryBackend`, `EmptyBodyMeansEmptyBackends`, `PartialDataIsServed`, `LateWithoutDataFails`, `RequestsEnd` (endpoint handler): "complete" and
  `Cache-Control` only with every backend's answer; an empty document never stands for a failure; data that arrived is served; a late proxy without
  data is an error; every request is answered and its context released, although no backend ever answers.
* `PatternSurvives`, `CallsFollowTheConfiguration`, `UnresolvedIsNeverComplete`, `CallsTypeOK` (backends): handlers see the patterns as configured, whatever the order of the map; a call goes to the
  path the pattern yields with this request's values, each put in once; a request with a backend that cannot be called is not answered as complete, empty or cacheable; no handler is called before the patterns are
  finished, no backend answers that was not called.
* `LoopsGetTheirOwnLines`, `RejectsExactlyTheFaulty`, `ParsedAsWritten` (Caddyfile): every loop sees the lines of its own block; a document is rejected at its first faulty line and
  only there; otherwise the result is what the text says.

### Where the code and its documentation disagree

1. A trailing-slash redirect may lead to a path nobody serves (`tree.go:386`; the doc at `tree.go:323-325` promises a handle).
   With `/` and `/a:x`, `/a/` is redirected to `/a`.
2. With `/bb` and `/b/*f`, `/b` is answered with 404 although `router.go:65` promises a redirect to `/b/`.
3. With `/a/:x/*f`, `/A/b/b` is answered with 404 although `router.go:158-167` promises a redirect to the corrected path.
4. An endpoint that is "ignored" (`endpoint.go:60`), or has an unsupported method, takes all endpoints after it with it.

## Fairness

`CleanPath` is a loop of one goroutine that nothing blocks: weak fairness of its next step is the scheduler's. In `Router`, weak fairness
is assumed only of `Follow`: the client is one that follows the redirects it gets (a client that stops has no cycle). In
`EndpointHandle` weak fairness is assumed of the handler's own steps (the scheduler), of the timer (`context.WithTimeout`) and of the proxy's return, which is only
enabled once all backends have settled or the context is done (Lura selects on the context). The backends themselves are not fair: they may never answer. No run assumes fairness
of registration, of arriving requests, of `BackendCalls` (whose liveness is `EndpointHandle`'s) or of the parser.

## Proofs

`CleanPathProofs` proves, for every alphabet and every set of inputs, that no index leaves the path or the buffer (`StaysInBounds`), that types are
kept, and that the result is the canonical path and clean itself (`SpellsTheStack`, `Cleans`). The bound is not inductive by itself: the invariant `IInv` adds that the writing position never passes the reading position without the room
the leading slash gives, with a case per program counter, and that the buffer has one of two lengths. For the result, `CanonicalPath` reads a path as the code does, one byte after the other: `After[q]` is
the stack of elements and the unfinished element behind it. The invariant `SInv` relates what has been written to that reading: at the head of the loop it is the spelled stack (`AtTheLoop`); inside an element
it is the stack, a slash and the element so far, which has no slash (`AtTheElement`); while `..` is being carried out what is left of the writing position is the
stack without its last element and some bytes of that element (`AtTheBacktrack`). The canonical path is clean because reading a spelled stack gives that stack back (`AfterJoined`). The recursive functions
`After` and `Joined` are shown to satisfy their equations with the lemmas at the head of the module (`WellDefined`, `SeqFold`).

`ParamsPoolProofs` proves, for any number of requests, buffers, routes and wildcards, `TypesKept`, `BuffersStayExclusive`, `HandlersSeeOwnParams`,
`NoCrash`, and the refinement `PoolImplementsPrivateParams`. The invariant adds to exclusiveness that nothing is pooled or served before registration is over
(`SetupDone`: so every buffer ever allocated has the final capacity), that every buffer in use or pooled has room for any path
(`RoomEnough`), that what is saved is in the buffer (`Filled`), and how far each request is (`Progress`). There is one lemma per action, and the refinement
maps taking a buffer and saving a value to stuttering.

`RadixTreeProofs` and `TreeLookupProofs` have the lemmas about the operators of `RadixTree`, for all routes and wildcards. The first go through `addRoute` turn by turn and answer three questions.

*Does the tree hold together?* Between registrations a tree is `Ordered`: nodes hang below one parent each (`Hung`), children and index bytes fit each other (`Fits`), and a byte leads to a node that begins
with it (`Linked`). While a route is being inserted it is `Ready`: one node is still empty and childless, and its parent already has the byte that will lead to it. `Good` says what is known
of a registration under way: the tree is `Ordered` or `Ready` depending on the loop, its handles are the ones from before, and if it has ended they have the new route, or, after a panic, nothing new. Each operator that changes the tree has its lemma: a raised
priority, which sorts a child before its siblings and its byte with it (`ChildPrioIncremented`), a split edge, a new child (`ByteAdded`), and the nodes of a parameter or a catch-all (`Grafted` has what they share).
`WalkTurnGood` and `InsertTurnGood` put these together, `NextTurnGood` follows, and `RouteAdded` is induction over the turns.

*Does a registration end?* The measure is `Rank`: what is left of the route, and one more for a walk that is not at a node which only `Marks` a catch-all. A turn gets `Nearer` to the end because it passes a token, unless it leaves a node without a path and takes
none; the child is then a node that marks a catch-all, which `Linked` says of it, and the walk panics there in its next turn. So a registration that has not ended after `MaxTurns` turns would have less than nothing left.

*What does it answer?* The code refuses a route for what it meets at a few nodes, while `Conflict` is a matter of all routes. What brings the two together is what a tree spells (`Spells`): with `d`, how many tokens are above each node, and `v`, the
set of routes that go through each node, the tokens from the root to a node are those that the routes through it begin with, every such route ends at the node or goes on with exactly one child, and the node's handle is the
route that ends there. The split, the raised priority, the new child and the wildcards' nodes each have a second lemma that says how `d` and `v` change and that the new tree spells one route more, of which `start` and `stop` say how far it has come.
Since siblings begin with different bytes, and a wildcard has none, two routes part at the node where their ways part: a route through a sibling can only be in conflict if one of the bytes is a wildcard's, which is what the code asks there.
`Told` is the invariant of the turns: the routes that may still be in conflict with the one being added are those through the node it is at (`Rivals` of the others are ruled out), nothing in the part behind it is invalid, and a panic has come only of a conflict or
an invalid rest. `RouteTold` concludes that `AddRoute` panics exactly if the route is invalid or conflicts with a route of the tree, and that otherwise the tree spells that route too.

*What does a lookup find?* This is the question of `TreeLookupProofs`. `Tells` is what a lookup needs of a tree: that it is in shape, that nodes without a path are the root or mark a catch-all (`Chained`), and that it spells its routes. A registration that panics keeps it wherever it stops, although the tree is no longer `Ordered` then.
A lookup is defined because every turn passes a part of the request or comes to a node which marks a catch-all (`TurnGoesDown`, `LookupIsDefined`, from `WellDefined`: a recursive function exists whose turns make a measure smaller). `TurnsRight` goes over the branches of
`getValue`: the answer is right at a node (`Right`: a route that goes through the node matches the rest of the request exactly if the answer is that route, with the values saved on the way) if the answers below are. `ByteDecides`, `ParamDecides` and
`CatchAllDecides` say for the three ways down why the routes that go another way do not match. `LookupFinds` concludes: of all routes of the tree only the handle answered matches, with the values answered.
It follows that two different routes which match the same request conflict (`MatchingRoutesConflict`): otherwise a tree would take one after the other (`RouteJoins`), and its lookup would have to answer with both. Shown
that way it needs no induction over the routes. 

*What does the case-insensitive search find?* The search is defined in the same way (`SearchIsDefined`). `Respells` says what it yields at a node: what was written before, and the rest of the request spelled with other cases (`Alike`), or that but for a slash at the end if slashes may be fixed (`Near`);
if not, a route through the node matches it. `TurnRespells` goes over the branches (a byte as it was requested, then its other cases, a parameter, a catch-all, the end of the request), and `SearchRespells` is induction over what is left of the request (`Remaining`). The path found is served because the search writes the node's bytes where the
node has static ones and the request's where a wildcard takes them, so that the route through the nodes matches what was written. `SearchSpells` shows by the same induction that the bytes written all have a case, which is needed to clean and compare the path again.

`RadixTreeProofs` begins with the lemmas about induction and iteration that they need (`SmallestOf`, `NatSetInduction`, `Iteration`), stated with sets and functions, since the theorems of the library that take an operator cannot be
instantiated here. `CleanPathProofs` and `TreeLookupProofs` have their own at their heads, for definitions by recursion.

The first part of `RouterProofs` is about one tree, the module `RouteTree` (whose variables and formulas have names of their own, `TreeInit`, `TreeSpec`, so that one module can be about the tree and the router). It proves, for all candidates in all orders, `TreeTypesKept`, the refinement `TreeImplementsTable` (that is `ImplementsRouteTable`), and `RegisteredRoutesStayApart`: the routes of a tree are valid and no two of them conflict, so a request can mean at most one. `LookupServes` (that is `LookupServesTheMatch`) adds that a lookup answers that one, in every state and for every request, and `CaseSearchFinds` (that is `CaseSearchFindsAHandle`) that the case-insensitive search finds only paths that are served and equal the request up to case.
The inductive invariant `TreeInv` says that the tree is in shape, its routes are ones it can hold (`Held`), that it `Tells` of them, and, unless a registration panicked, that it is ordered and spells them (`SpelledOut`). It says that some `d` and `v` exist, functions on all nodes without a bound
on their values, so TLC cannot evaluate it on a run; what it is for, `TreeTypeOK`, `LookupServesTheMatch`, `CaseSearchFindsAHandle` and `ImplementsRouteTable`, TLC does check.

`PrioritiesCount` (that is `PriorityCountsHandles`) is about the order in which siblings are tried. While a route is being added its nodes are counted before it is there: `addRoute` raises the priority of a node when it passes it. So the invariant of the turns
(`Counted`) says that the priority of each node is the sum of its children's, plus its own handle, plus one for the node the registration is at, which owes the route; a split, a step to a child (`PassedOn`, which moves the debt down and the child forward), a new child and the end of
a registration each keep or settle that (`SplitCounts`, `ChildPrioCounts`, `GrowChildCounts`, `GraftCounts`, `HandleCounts`). Sums are functions from positions to partial sums (`Adds`), so that raising one element (`AddsRaised`) or moving one forward (`AddsMoved`) is proved once, for any number of
children; that moving leaves them sorted is `FallsMoved`. What a recursion computes cannot be proved by a library theorem here, but this one is a sum of a sequence, and `AddedUp` shows by `NatSetInduction` that it is what `Adds` says. A registration that panics has counted a route it did not add, hence `~refused`.

Of the router it proves, for all methods, routes and wildcards, `TypesKept`, `TreesStayInOrder`, `RegistrationsKeepRoutes`, `GlobalAllowedStaysCurrent`, `ParamsAlwaysHaveRoom`, `RegistrationsEnd` and, for all requests too, `AnswersFit` (that is `AnswerFitsTheRoutes`) and `RedirectsRepair` (that is `RedirectRepairsThePath`). The inductive
invariant `RouterInv` consists of the types, `TreesSound` (what `TreeInv` says of one tree, for every method's), `HandlesFit` (a handle is a registered route of its method), `AllowedFits`, the room for parameters, and `ClientFits` (only a router that serves has answered, the answer fits, and a redirect repairs the path, `Repairs`). None of `HandlesFit`, `AllowedFits` and the room for parameters is
inductive without the tree: what `Handle` caches follows from the routes only if a registration puts its own route into the tree and loses none. That a refusal depends on the routes of the same method alone (`HandledAnswers`) is `RouteTold` for the tree of that method.
`DispatchFits` shows the answer right, branch by branch of `ServeHTTP`: a lookup in the tree of the request's method finds what the table of its routes has (`LookedUp`, from `LookupFinds`), a method without a tree has no route
(`NoTreeServesNothing`), and the methods collected for 405 and `OPTIONS` are those that serve the path (`AllowedAre`). A client that follows a redirect asks for another path, of which the same must be known again, and that path
must be the cleaned one of the request up to case and one slash. Both come from `RedirectsToRepairs`. A redirect leads to a path that is cleaned last, by `http.Redirect`: to the request's with the slash at its end turned, or to what the search finds for the cleaned request. For the first, a slash at the end stays through
cleaning or makes no difference (`CleanedToggle`, from `CleanedSlash` of `CleanPathProofs`), and what `http.Redirect` makes of a path is the cleaned one up to that slash (`LocationIs`). For the second, what is found is near the cleaned path (`SearchRespells`), cleaning respects the cases of letters (`CleanedAlike`, from `CleanedAkin`: the reading of two paths that differ in letters' cases goes through the same stacks up to those cases),
and a clean path is cleaned to itself (`CleanedTwice`). These lemmas are those of the path cleaner, for paths of all bytes: `Cleaning` is the instance of its module.

The assumptions of the three modules are those of the modules they are about: the kinds of wildcards are disjoint and none of them is the slash (`TokensDisjoint`), `OPTIONS`
is a method (`OptionsIsAMethod`), and routes begin with a slash and are tokenised as the code reads them, with a slash or another wildcard behind a wildcard, since a wildcard is read to the next slash or colon or star (`RoutesRooted`, `RegistrableRooted`; what does not begin with a slash panics before anything is done, `router.go:300-302`), a static byte is ASCII, so that a letter has one lower and one upper case, the slash and the dot have no other case than themselves, and requests are of such bytes (`LettersFold`), and so are routes but for their wildcards, and the `*` of `OPTIONS *` (`BytesHaveCase`, which also says of three literals that they are strings: the provers do not know).

`BackendCallsProofs` first proves of the handler alone, for any number of backends, `TypesKept`, `CompleteIsTrue`, `EmptyIsTrue` and `PartialIsServed`. The invariant adds what a result of the
proxy says about the backends (`Result`: no error means that all have answered and all their data is there), what the headers say about the result (`Headers`), that nothing is answered early (`Silent`)
and the two ways a request ends (`Outcome`). An error may be added by the deadline after the proxy has returned, which is why the empty document needs the error and not only the response.

It then proves that the composition implements the handler (`CallsImplementHandler`): the preparation of patterns and the calls stutter, a backend without its value is one that
fails, and every answer of the handler's environment is one it allows. What is proved of the handler therefore holds of the composition
(`CallsCompleteIsTrue`, `CallsEmptyIsTrue`), for every configuration and number of backends. `CallsTypesKept` orders `Provision`, calls and answers (`Ordered`). Two more theorems have the algebra of
patterns as their condition: whenever `PatternSurvives` holds, which is recursion over the text of a pattern and stays with TLC, so do `CallsFollowTheConfiguration` and `UnresolvedIsNeverComplete`
(`CallsFollow`, `UnresolvedIsNotCovered`). Their invariant `Substituted` says what the replacer holds before and after the call, and that a call was made with it.

`EndpointRegistrationProofs` proves, for every configuration and list of methods, `TypesKept`, `ServesEveryPassedEndpoint`, `RouterIsUnambiguous` (that is `OneHandlerPerRequest`) and `HelpersKeepTheirPaths` (that is `HelpersOwnTheirPaths`). The invariant says which methods the helpers' loops
have passed (`DebugDone`, `EchoDone`), where endpoints' entries come from (`Sourced`), what the loop has passed (`LoopPassed`) and where it stopped (`Stopped`), that registered routes never conflict (`Apart`) and that each is one the router could read (`RoutesRead`).
That a request has at most one handler then is `MatchingRoutesConflict`, and a helper keeps its subtree because its own catch-all matches there. The module's assumptions are that configurations are typed, that the patterns in them are tokenised as the router reads them (`PatternsRead`)
and that `allMethods` has the methods endpoints may use (`lura.go:23-33`, `endpoint.go:65-71`).

`CaddyfileProofs` proves `TypesKept` (with the dispenser's nesting being the depth of the text) and `LoopsKeepToTheirBlocks` for documents of any length over any lines. The invariant says at
which nesting each loop was entered (`Levels`) and may be (`Where`), that every open block has a line that opened it and is named for it (`Opened`), and that nothing but the arguments of `mapping` is ever left on a line
when a loop goes on (`Consumed`), so that a loop is always entered on the line that begins with its name. `NextBlock` has two lemmas, for true and false (`More`, `NoMore`); the depth of a text that grows is
counted by cardinalities (`Appended`).
It also proves that a document is rejected exactly at its first faulty line (`OnlyTheFaultyAreRejected`). That needs `Verdicts`, which says what each loop knows of the lines behind it: every finished line fits or closes a block (`Settled`), the line that opened a block
fits if it did open one (`Before`), inside a block nothing but a line that ends in a superfluous brace is still undecided (`Inside`), and the arguments of `mapping` that were skipped or taken as fields up to the cursor are legal (`Looks`), which matters because
a line of a backend may be read by two loops. `Owner`, which block a line is in, does not change for the lines read when the text grows (`SameOwner`).
It assumes of the lines that an opening brace ends its line, that a closing one has a line of its own, and that no mapping is a brace.

The assumptions are those of the modules: the values are not empty, wildcard counts are bounded, nil is no buffer, inputs are paths over the alphabet and bytes are strings. Only model-checked: the rewriting of patterns (`PatternSurvives`: recursive functions of several arguments), what a document is parsed to (`ParsedAsWritten`: the meaning is a fold over the whole text, the parser's result is built from the inside out), and the liveness properties
(`Terminates`, `RedirectsSettle`, `LateWithoutDataFails`, `RequestsEnd`), which the prover cannot reach.

## Not modelled, and the plan

Not modelled for good: the logger, the command, byte-level rendering and JSON, the method shortcuts and `ServeFiles`, `Lookup` and
`SaveMatchedRoutePath` (not used by the program), runes of several bytes, the overflow of the 16-bit parameter count
and the 32-bit priorities (a route would need 65536 wildcards, a tree 2^32 routes).

Also left out: three of the four renderers and their register (`render.go`), as neither `Provision` nor the Caddyfile can set an encoding and Lura's `Init` then chooses JSON; the field-by-field copy of
the structures in `Provision`; the value of `max-age`, a constant of each endpoint.

Next: from text to routes, `Caddyfile` composed with `EndpointRegistration`.
