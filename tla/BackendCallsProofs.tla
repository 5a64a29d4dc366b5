------------------------- MODULE BackendCallsProofs -------------------------
(***************************************************************************)
(* What a client may conclude from an answer of an endpoint's handler, for *)
(* any number of backends; and that the composition of the handler with    *)
(* its backends keeps these promises, for every configuration and pattern. *)
(***************************************************************************)
EXTENDS BackendCalls, TLAPS

-----------------------------------------------------------------------------
(* The handler alone *)

AllAnswered == \A b \in backends : backend[b] \in {"data", "empty"}

\* Nothing is said to the client before the handler responds.
Silent == /\ pc # "done" => answer = NoAnswer
          /\ pc \in {"start", "call", "check", "respond"} => header = NoHeader
          /\ pc \in {"start", "call"} => response = NilResponse

\* What the proxy's result says about the backends.
Result == /\ response.nil => response.data = {}
          /\ response.complete => AllAnswered /\ response.data = With("data")
          /\ (pc \in {"check", "respond", "render", "done"} /\ err = "none") =>
               AllAnswered /\ response.data = With("data")

\* What the headers say about the response.
Headers == /\ header.completed = "true" => response.complete /\ response.data # {}
           /\ header.cacheControl => header.completed = "true" /\ cached

\* How the request ends.
Outcome == /\ (pc = "render" /\ response.data = {}) => err = "none"
           /\ pc = "done" =>
                \/ answer = Body(response.data) /\ (response.data = {} => err = "none")
                \/ response.data = {} /\ \E c \in {"own", "500"} : answer = Error(c)

IInv == TypeOK /\ Silent /\ Result /\ Headers /\ Outcome

-----------------------------------------------------------------------------
LEMMA InitIInv == Init => IInv
<1> SUFFICES ASSUME Init PROVE IInv
  OBVIOUS
<1>1. /\ response \in [nil : BOOLEAN, data : SUBSET backends, complete : BOOLEAN]
      /\ header \in [completed : {"unset", "true", "false"}, cacheControl : BOOLEAN]
  BY DEF Init, NilResponse, NoHeader
<1>2. backend \in [backends -> Results] /\ backends \subseteq AllBackends
  BY DEF Init, Results
<1>3. TypeOK
  BY <1>1, <1>2 DEF Init, TypeOK
<1>4. Silent /\ Result /\ Headers /\ Outcome
  BY DEF Init, Silent, Result, Headers, Outcome, NilResponse, NoHeader
<1> QED BY <1>3, <1>4 DEF IInv

LEMMA CallIInv == ASSUME IInv, Call PROVE IInv'
BY DEF IInv, TypeOK, Silent, Result, Headers, Outcome, AllAnswered, With, Call, endpoint, NilResponse, NoHeader

LEMMA CheckIInv == ASSUME IInv, CheckDeadline PROVE IInv'
BY DEF IInv, TypeOK, Silent, Result, Headers, Outcome, AllAnswered, With, CheckDeadline, endpoint

LEMMA DataIInv == ASSUME IInv, RespondWithData PROVE IInv'
BY DEF IInv, TypeOK, Silent, Result, Headers, Outcome, AllAnswered, With, RespondWithData,
       DataHeader, HasData, endpoint, NoHeader

LEMMA ErrorIInv == ASSUME IInv, RespondWithError PROVE IInv'
BY DEF IInv, TypeOK, Silent, Result, Headers, Outcome, AllAnswered, With, RespondWithError,
       HasData, endpoint, NoHeader

LEMMA EmptyIInv == ASSUME IInv, RespondEmpty PROVE IInv'
BY DEF IInv, TypeOK, Silent, Result, Headers, Outcome, AllAnswered, With, RespondEmpty,
       HasData, endpoint, NoHeader

LEMMA RenderIInv == ASSUME IInv, Render PROVE IInv'
BY DEF IInv, TypeOK, Silent, Result, Headers, Outcome, AllAnswered, With, Render, endpoint

LEMMA ContextDoneIInv == ASSUME IInv, ContextDone PROVE IInv'
BY DEF IInv, TypeOK, Silent, Result, Headers, Outcome, AllAnswered, With, ContextDone, endpoint

LEMMA SettleIInv ==
    ASSUME IInv, NEW b \in backends, NEW r \in {"data", "empty", "coded", "failed"},
           Settle(b, r)
    PROVE  IInv'
BY DEF IInv, TypeOK, Silent, Result, Headers, Outcome, AllAnswered, With, Settle, Results,
       endpoint, NilResponse, NoHeader

LEMMA ReturnIInv == ASSUME IInv, ProxyReturns PROVE IInv'
<1> DEFINE all == With("data") \cup With("empty") = backends
<1>1. /\ all <=> AllAnswered
      /\ With("data") \in SUBSET backends
  BY DEF With, AllAnswered
<1>2. \/ response' = NilResponse /\ err' \in {"coded", "plain"}
      \/ response' = Response(With("data"), all)
           /\ err' = IF all THEN "none" ELSE "plain"
  <2> DEFINE done == With("data") \cup With("empty")
  <2>1. CASE Cardinality(backends) = 1
    <3>1. CASE done = backends
      BY <2>1, <3>1 DEF ProxyReturns
    <3>2. CASE done # backends
      BY <2>1, <3>2 DEF ProxyReturns
    <3> QED BY <3>1, <3>2
  <2>2. CASE Cardinality(backends) # 1
    BY <2>2 DEF ProxyReturns
  <2> QED BY <2>1, <2>2
<1>3. /\ response' \in [nil : BOOLEAN, data : SUBSET backends, complete : BOOLEAN]
      /\ response'.nil => response'.data = {}
      /\ response'.complete => all /\ response'.data = With("data")
      /\ err' = "none" => all /\ response'.data = With("data")
      /\ err' \in {"none", "coded", "plain"}
  <2> HIDE DEF all
  <2>1. CASE response' = NilResponse /\ err' \in {"coded", "plain"}
    BY <2>1 DEF NilResponse
  <2>2. CASE response' = Response(With("data"), all)
               /\ err' = IF all THEN "none" ELSE "plain"
    <3>1. all \in BOOLEAN
      BY DEF all
    <3>2. /\ response'.nil = FALSE /\ response'.data = With("data")
          /\ response'.complete = all
      BY <2>2 DEF Response
    <3>3. response' \in [nil : BOOLEAN, data : SUBSET backends, complete : BOOLEAN]
      BY <1>1, <2>2, <3>1 DEF Response
    <3>4. err' = "none" => all
      BY <2>2
    <3>5. err' \in {"none", "plain"}
      BY <2>2
    <3> QED BY <3>2, <3>3, <3>4, <3>5
  <2> QED BY <1>2, <2>1, <2>2
<1>4. /\ pc = "call" /\ pc' = "check"
      /\ UNCHANGED <<cached, backends, ctx, released, backend, header, answer>>
  BY DEF ProxyReturns, endpoint
<1>5. TypeOK'
  <2>1. TypeOK
    BY DEF IInv
  <2>2. err' \in {"none", "coded", "plain"}
    BY <1>3
  <2> QED BY <2>1, <2>2, <1>3, <1>4 DEF TypeOK
<1>6. Silent'
  BY <1>4 DEF IInv, Silent
<1>7. Result'
  <2>1. AllAnswered' <=> AllAnswered
    BY <1>4 DEF AllAnswered
  <2>2. With("data")' = With("data")
    BY <1>4 DEF With
  <2> QED BY <2>1, <2>2, <1>1, <1>3 DEF Result
<1>8. Headers' /\ Outcome'
  BY <1>4 DEF IInv, Silent, Headers, Outcome, NoHeader
<1> QED BY <1>5, <1>6, <1>7, <1>8 DEF IInv

LEMMA PanicIInv == ASSUME IInv, Panic PROVE IInv'
BY DEF IInv, TypeOK, Silent, Result, Headers, Outcome, AllAnswered, With, Panic, endpoint

LEMMA StepIInv == IInv /\ [Next]_vars => IInv'
<1> SUFFICES ASSUME IInv, [Next]_vars PROVE IInv'
  OBVIOUS
<1>1. CASE UNCHANGED vars
  BY <1>1 DEF vars, endpoint, IInv, TypeOK, Silent, Result, Headers, Outcome, AllAnswered, With
<1> QED
  BY <1>1, CallIInv, CheckIInv, DataIInv, ErrorIInv, EmptyIInv, RenderIInv,
     ContextDoneIInv, SettleIInv, ReturnIInv, PanicIInv DEF Next, Handler

-----------------------------------------------------------------------------
(* The request is always in one of the states the handler's code allows:    *)
(* types as declared, and a context that is released exactly at the end.    *)
THEOREM TypesKept == Spec => []TypeOK
<1>1. IInv => TypeOK
  BY DEF IInv
<1> QED BY <1>1, InitIInv, StepIInv, PTL DEF Spec

(* "Complete" and Cache-Control are sent only with the data of all backends *)
(* (endpoint.go:138-152).                                                   *)
THEOREM CompleteIsTrue == Spec => []CompleteMeansEveryBackend
<1>1. IInv => CompleteMeansEveryBackend
  <2> SUFFICES ASSUME IInv PROVE CompleteMeansEveryBackend
    OBVIOUS
  <2>1. header.cacheControl => cached /\ header.completed = "true"
    BY DEF IInv, Headers
  <2>2. header.completed = "true" =>
          /\ \A b \in backends : backend[b] \in {"data", "empty"}
          /\ response.data = With("data") /\ response.data # {}
    BY DEF IInv, Headers, Result, AllAnswered
  <2>3. Answered => pc = "done"
    BY DEF IInv, Silent, Answered, NoAnswer
  <2>4. (Answered /\ header.completed = "true") => answer = Body(With("data"))
    BY <2>2, <2>3 DEF IInv, Outcome
  <2> QED BY <2>1, <2>2, <2>4 DEF CompleteMeansEveryBackend
<1> QED BY <1>1, InitIInv, StepIInv, PTL DEF Spec

(* A client that gets an empty document knows that every backend's was      *)
(* empty: no failure and no timeout looks like one (endpoint.go:130-165).   *)
THEOREM EmptyIsTrue == Spec => []EmptyBodyMeansEmptyBackends
<1>1. IInv => EmptyBodyMeansEmptyBackends
  <2> SUFFICES ASSUME IInv, answer = Body({})
               PROVE  \A b \in backends : backend[b] = "empty"
    BY DEF EmptyBodyMeansEmptyBackends
  <2>1. answer # NoAnswer /\ \A c : answer # Error(c)
    BY DEF Body, Error, NoAnswer
  <2>2. pc = "done"
    BY <2>1 DEF IInv, Silent
  <2>3. answer = Body(response.data) /\ (response.data = {} => err = "none")
    BY <2>1, <2>2 DEF IInv, Outcome
  <2>4. response.data = {}
    BY <2>3 DEF Body
  <2>5. AllAnswered /\ With("data") = {}
    BY <2>2, <2>3, <2>4 DEF IInv, Result
  <2> QED BY <2>5 DEF AllAnswered, With
<1> QED BY <1>1, InitIInv, StepIInv, PTL DEF Spec

(* Data that has arrived is never dropped for another backend's failure or  *)
(* for the deadline (endpoint.go:138).                                      *)
THEOREM PartialIsServed == Spec => []PartialDataIsServed
<1>1. IInv => PartialDataIsServed
  BY DEF IInv, Outcome, PartialDataIsServed
<1> QED BY <1>1, InitIInv, StepIInv, PTL DEF Spec

-----------------------------------------------------------------------------
(* The handler with its backends *)

(* Every step of the composition is a step of the handler and its           *)
(* environment, or one the handler does not notice: a backend whose path    *)
(* cannot be resolved is one that fails (endpoint.go:95-98).                *)
THEOREM CallsImplementHandler == CallsSpec => Spec
<1>1. CallsInit => Init
  BY DEF CallsInit
<1>2. ASSUME [CallsNext]_<<vars, callVars>> PROVE [Next]_vars
  <2>1. CASE UNCHANGED <<vars, callVars>>
    BY <2>1
  <2>2. CASE ServiceInit \/ Apply
    BY <2>2 DEF ServiceInit, Apply
  <2>3. CASE CallProxy
    BY <2>3 DEF CallProxy, Next, Handler
  <2>4. CASE Elsewhere
    BY <2>4 DEF Elsewhere, Next, Handler
  <2>5. ASSUME NEW b \in backends, NEW name \in params[b], Process(b, name)
        PROVE  UNCHANGED vars
    BY <2>5 DEF Process
  <2>6. ASSUME NEW b \in backends, Send(b)
        PROVE  UNCHANGED vars
    BY <2>6 DEF Send
  <2>7. ASSUME NEW b \in backends, Unresolved(b)
        PROVE  Next
    BY <2>7 DEF Unresolved, Next
  <2>8. ASSUME NEW b \in backends, NEW r \in {"data", "empty", "coded", "failed"},
               Returns(b, r)
        PROVE  Next
    BY <2>8 DEF Returns, Next
  <2> QED BY <1>2, <2>1, <2>2, <2>3, <2>4, <2>5, <2>6, <2>7, <2>8 DEF CallsNext
<1> QED BY <1>1, <1>2, PTL DEF CallsSpec, Spec

(* So the answers of the composition keep the handler's word: "complete" is *)
(* sent only with the answers of all backends.                              *)
THEOREM CallsCompleteIsTrue == CallsSpec => []CompleteMeansEveryBackend
BY CallsImplementHandler, CompleteIsTrue, PTL

(* And an empty document only if every backend's was.                       *)
THEOREM CallsEmptyIsTrue == CallsSpec => []EmptyBodyMeansEmptyBackends
BY CallsImplementHandler, EmptyIsTrue, PTL

-----------------------------------------------------------------------------
(* Provision comes before the first call, and a call before its answer *)

\* What CallsTypeOK says beyond the handler's own types, with the domains it
\* needs to be inductive.
Provisioned ==
    /\ config \in Configurations /\ stage \in {"process", "apply", "serving"}
    /\ DOMAIN urlPattern = backends /\ DOMAIN sent = backends
    /\ DOMAIN params = backends
    /\ \A b \in backends : params[b] \subseteq ParamsSet(config.patterns[b])
    /\ stage # "process" => \A b \in backends : params[b] = {}
Ordered ==
    /\ stage # "serving" => pc = "start"
    /\ \A b \in backends : /\ sent[b] # NotSent => pc # "start"
                           /\ backend[b] \in {"data", "empty", "coded"} => sent[b] # NotSent

LEMMA CallsBegin == CallsInit => Provisioned /\ Ordered
BY DEF CallsInit, Init, Provisioned, Ordered

LEMMA ProvisionedKept ==
    Provisioned /\ [CallsNext]_<<vars, callVars>> => Provisioned'
<1> SUFFICES ASSUME Provisioned, [CallsNext]_<<vars, callVars>>
             PROVE  Provisioned'
  OBVIOUS
<1> USE DEF Provisioned
<1>1. CASE UNCHANGED <<vars, callVars>>
  BY <1>1 DEF vars, endpoint, callVars, provisioned
<1>2. CASE ServiceInit
  BY <1>2 DEF ServiceInit, vars, endpoint
<1>3. CASE Apply
  BY <1>3 DEF Apply, vars, endpoint
<1>4. CASE CallProxy
  BY <1>4 DEF CallProxy, Call, endpoint, provisioned
<1>5. CASE Elsewhere
  BY <1>5 DEF Elsewhere, CheckDeadline, RespondWithData, RespondWithError, RespondEmpty,
              Render, ContextDone, ProxyReturns, Panic, endpoint, callVars, provisioned
<1>6. ASSUME NEW b \in backends, NEW name \in params[b], Process(b, name)
      PROVE  Provisioned'
  BY <1>6 DEF Process, vars, endpoint
<1>7. ASSUME NEW b \in backends, Send(b)
      PROVE  Provisioned'
  BY <1>7 DEF Send, vars, endpoint, provisioned
<1>8. ASSUME NEW b \in backends, NEW r, Settle(b, r), UNCHANGED callVars
      PROVE  Provisioned'
  BY <1>8 DEF Settle, endpoint, callVars, provisioned
<1> QED BY <1>1, <1>2, <1>3, <1>4, <1>5, <1>6, <1>7, <1>8 DEF CallsNext, Unresolved, Returns

LEMMA OrderKept ==
    TypeOK /\ Provisioned /\ Ordered /\ [CallsNext]_<<vars, callVars>> => Ordered'
<1> SUFFICES ASSUME TypeOK, Provisioned, Ordered, [CallsNext]_<<vars, callVars>>
             PROVE  Ordered'
  OBVIOUS
<1> DOMAIN sent = backends /\ DOMAIN backend = backends
  BY DEF Provisioned, TypeOK
<1> USE DEF Ordered
<1>1. CASE UNCHANGED <<vars, callVars>>
  BY <1>1 DEF vars, endpoint, callVars, provisioned
<1>2. CASE ServiceInit
  BY <1>2 DEF ServiceInit, vars, endpoint
<1>3. CASE Apply
  BY <1>3 DEF Apply, vars, endpoint
<1>4. CASE CallProxy
  BY <1>4 DEF CallProxy, Call, endpoint, provisioned
<1>5. CASE Elsewhere
  BY <1>5 DEF Elsewhere, CheckDeadline, RespondWithData, RespondWithError, RespondEmpty,
              Render, ContextDone, ProxyReturns, Panic, endpoint, callVars, provisioned
<1>6. ASSUME NEW b \in backends, NEW name \in params[b], Process(b, name)
      PROVE  Ordered'
  BY <1>6 DEF Process, vars, endpoint
<1>7. ASSUME NEW b \in backends, Send(b)
      PROVE  Ordered'
  BY <1>7 DEF Send, Pending, vars, endpoint, provisioned
\* A backend fails without a call, or returns from one.
<1>8. ASSUME NEW b \in backends, NEW r, Settle(b, r), UNCHANGED callVars,
             r = "failed" \/ sent[b] # NotSent
      PROVE  Ordered'
  BY <1>8 DEF Settle, endpoint, callVars, provisioned
<1> QED BY <1>1, <1>2, <1>3, <1>4, <1>5, <1>6, <1>7, <1>8 DEF CallsNext, Unresolved, Returns

(* No handler is called before Provision has finished its backends'         *)
(* patterns, and no backend answers that was not called, whatever the       *)
(* configuration (app.go:109-171, endpoint.go:88-102).                      *)
THEOREM CallsTypesKept == CallsSpec => []CallsTypeOK
<1>1. CallsSpec => []TypeOK
  BY CallsImplementHandler, TypesKept, PTL
<1>2. Provisioned /\ Ordered /\ TypeOK => CallsTypeOK
  BY DEF Provisioned, Ordered, CallsTypeOK
<1> QED
  BY <1>1, <1>2, CallsBegin, ProvisionedKept, OrderKept, PTL DEF CallsSpec

-----------------------------------------------------------------------------
(* What a call and an answer owe to the request's values.  That Provision  *)
(* restores the patterns is checked by TLC; the rest is proved from it.    *)

\* The replacer has the path's parameters when backends read it, and a call was
\* made with them.
Substituted ==
    /\ replacer = IF pc = "start" THEN config.caddy ELSE Values
    /\ \A b \in backends : sent[b] # NotSent =>
         /\ Resolvable(urlPattern[b], Values)
         /\ sent[b] = Replaced(urlPattern[b], Values)

LEMMA SubstitutedBegins == CallsInit => Substituted
BY DEF CallsInit, Init, Substituted

LEMMA SubstitutedKept ==
    TypeOK /\ Provisioned /\ Ordered /\ Substituted /\ [CallsNext]_<<vars, callVars>>
        => Substituted'
<1> SUFFICES ASSUME TypeOK, Provisioned, Ordered, Substituted,
                    [CallsNext]_<<vars, callVars>>
             PROVE  Substituted'
  OBVIOUS
<1>1. (config' = config) => Values' = Values
  BY DEF Values
<1>2. CASE UNCHANGED <<vars, callVars>>
  BY <1>1, <1>2 DEF vars, endpoint, callVars, provisioned, Substituted
\* While the patterns are rewritten nothing has been sent.
<1>3. ASSUME stage # "serving", UNCHANGED <<vars, config, replacer, sent>>
      PROVE  Substituted'
  <2>1. \A b \in backends : sent[b] = NotSent
    BY <1>3 DEF Ordered
  <2> QED BY <1>1, <1>3, <2>1 DEF vars, endpoint, Substituted
<1>4. CASE CallProxy
  <2>1. /\ pc = "start" /\ pc' # "start" /\ replacer' = config.params @@ replacer
        /\ UNCHANGED <<backends, config, urlPattern, sent>>
    BY <1>4 DEF CallProxy, Call, endpoint, provisioned
  <2>2. replacer' = Values /\ Values' = Values
    BY <2>1 DEF Substituted, Values
  <2> QED BY <2>1, <2>2 DEF Substituted
<1>5. CASE Elsewhere
  <2>1. UNCHANGED <<backends, config, urlPattern, replacer, sent>> /\ (pc = "start" <=> pc' = "start")
    BY <1>5 DEF Elsewhere, CheckDeadline, RespondWithData, RespondWithError, RespondEmpty,
                Render, ContextDone, ProxyReturns, Panic, endpoint, callVars, provisioned
  <2> QED BY <1>1, <2>1 DEF Substituted
<1>6. ASSUME NEW b \in backends, Send(b)
      PROVE  Substituted'
  <2>1. /\ pc # "start" /\ UNCHANGED <<pc, backends, config, urlPattern, replacer>>
        /\ Resolvable(urlPattern[b], replacer)
        /\ sent' = [sent EXCEPT ![b] = Replaced(urlPattern[b], replacer)]
    BY <1>6 DEF Send, Pending, vars, endpoint, provisioned
  <2>2. replacer = Values
    BY <2>1 DEF Substituted
  <2>3. DOMAIN sent = backends
    BY DEF Provisioned
  <2> QED BY <1>1, <2>1, <2>2, <2>3 DEF Substituted
<1>7. ASSUME NEW b \in backends, NEW r, Settle(b, r), UNCHANGED callVars
      PROVE  Substituted'
  BY <1>1, <1>7 DEF Settle, endpoint, callVars, provisioned, Substituted
<1>8. CASE ServiceInit \/ Apply
  BY <1>3, <1>8 DEF ServiceInit, Apply
<1>9. ASSUME NEW b \in backends, NEW name \in params[b], Process(b, name)
      PROVE  Substituted'
  BY <1>3, <1>9 DEF Process
<1> QED BY <1>2, <1>4, <1>5, <1>6, <1>7, <1>8, <1>9 DEF CallsNext, Unresolved, Returns

LEMMA AlwaysSubstituted == CallsSpec => [](CallsTypeOK /\ Ordered /\ Substituted)
<1>1. CallsSpec => []TypeOK
  BY CallsImplementHandler, TypesKept, PTL
<1> QED
  BY <1>1, CallsBegin, ProvisionedKept, OrderKept, SubstitutedBegins, SubstitutedKept,
     CallsTypesKept, PTL DEF CallsSpec

(* If the patterns survive Provision, every call goes where the configured  *)
(* pattern leads with the values of this request, and none is made for want *)
(* of a value, in every interleaving (endpoint.go:85-104, 173-178).         *)
THEOREM CallsFollow == CallsSpec => [](PatternSurvives => CallsFollowTheConfiguration)
<1>1. CallsTypeOK /\ Ordered /\ Substituted /\ PatternSurvives => CallsFollowTheConfiguration
  BY DEF CallsTypeOK, Ordered, Substituted, PatternSurvives, CallsFollowTheConfiguration
<1> QED BY <1>1, AlwaysSubstituted, PTL

\* An answer comes with a word on its completeness.
Told == pc \in {"render", "done"} => header.completed \in {"true", "false"}

LEMMA AlwaysTold == Spec => [](Told /\ IInv)
<1>1. Init => Told
  BY DEF Init, Told
<1>2. ASSUME IInv, Told, [Next]_vars PROVE Told'
  <2>1. header \in [completed : {"unset", "true", "false"}, cacheControl : BOOLEAN]
    BY <1>2 DEF IInv, TypeOK
  <2>2. CASE UNCHANGED vars
    BY <1>2, <2>2 DEF Told, vars
  <2>3. CASE RespondWithData
    BY <2>3 DEF RespondWithData, DataHeader, Told
  <2>4. CASE RespondWithError \/ RespondEmpty
    BY <2>4 DEF RespondWithError, RespondEmpty, NoHeader, Told
  <2>5. CASE Call \/ CheckDeadline \/ ProxyReturns \/ Panic
    BY <2>5 DEF Call, CheckDeadline, ProxyReturns, Panic, Told
  <2>6. CASE Render \/ ContextDone
    BY <1>2, <2>6 DEF Render, ContextDone, Told
  <2>7. ASSUME NEW b \in backends, NEW r, Settle(b, r) PROVE Told'
    BY <1>2, <2>7 DEF Settle, Told
  <2> QED BY <1>2, <2>2, <2>3, <2>4, <2>5, <2>6, <2>7 DEF Next, Handler
<1> QED BY <1>1, <1>2, InitIInv, StepIInv, PTL DEF Spec

(* If the patterns survive Provision, a request one of whose backends       *)
(* cannot be called for want of a value is not answered as complete, nor    *)
(* with an empty document, nor cacheable (endpoint.go:95-98, 138-165).      *)
THEOREM UnresolvedIsNotCovered ==
    CallsSpec => [](PatternSurvives => UnresolvedIsNeverComplete)
<1>1. ASSUME CallsTypeOK, Ordered, Substituted, Told, IInv, PatternSurvives,
             CompleteMeansEveryBackend, EmptyBodyMeansEmptyBackends
      PROVE  UnresolvedIsNeverComplete
  <2> SUFFICES ASSUME Answered, NEW b \in backends, Unmistakable(config.patterns[b]),
                      ~Resolvable(config.patterns[b], Values)
               PROVE  /\ header.completed = "false" /\ ~header.cacheControl
                      /\ answer # Body({})
    BY DEF UnresolvedIsNeverComplete
  <2>1. CallsFollowTheConfiguration
    BY <1>1 DEF CallsTypeOK, Ordered, Substituted, PatternSurvives, CallsFollowTheConfiguration
  <2>2. sent[b] = NotSent
    BY <2>1 DEF CallsFollowTheConfiguration
  <2>3. backend[b] \notin {"data", "empty"}
    BY <1>1, <2>2 DEF Ordered
  <2>4. pc = "done"
    BY <1>1 DEF IInv, Silent, Answered, NoAnswer
  <2>5. header.completed # "true"
    BY <1>1, <2>3 DEF CompleteMeansEveryBackend
  <2>6. header.completed = "false"
    BY <1>1, <2>4, <2>5 DEF Told
  <2>7. ~header.cacheControl
    BY <1>1, <2>5 DEF CompleteMeansEveryBackend
  <2>8. answer # Body({})
    BY <1>1, <2>3 DEF EmptyBodyMeansEmptyBackends
  <2> QED BY <2>6, <2>7, <2>8
<1>2. CallsSpec => [](Told /\ IInv)
  BY CallsImplementHandler, AlwaysTold, PTL
<1> QED
  BY <1>1, <1>2, AlwaysSubstituted, CallsCompleteIsTrue, CallsEmptyIsTrue, PTL
=============================================================================
