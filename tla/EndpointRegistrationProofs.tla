--------------------- MODULE EndpointRegistrationProofs ---------------------
(***************************************************************************)
(* What Provision leaves behind, for every configuration, every list of    *)
(* methods and every way in which registration ends.                       *)
(***************************************************************************)
EXTENDS EndpointRegistration, TreeLookupProofs

\* Entries of the router that conflict are one and the same.
Apart == \A e, f \in table :
    (e.method = f.method /\ Conflict(e.route, f.route)) => e = f

\* A helper is registered for the methods its loop has passed.
DebugDone == \A k \in DOMAIN AllMethods :
    (/\ config.debug.enabled
     /\ pc \in {"echo", "endpoints", "serving"} \/ (pc = "debug" /\ k < at)) =>
        Entry(AllMethods[k], DebugRoute, "debug") \in table
EchoDone == \A k \in DOMAIN AllMethods :
    (/\ config.echo.enabled
     /\ pc \in {"endpoints", "serving"} \/ (pc = "echo" /\ k < at)) =>
        Entry(AllMethods[k], EchoRoute, "echo") \in table

EndsTheLoop(e) == e.builds /\ (Sequential(e) \/ Unsupported(e))

\* Endpoints' entries come from sound endpoints, and the loop has served those
\* it has passed; it stops at its end or at an endpoint that ends it.
Sourced == \A e \in table : e.handler = "endpoint" =>
    \E j \in DOMAIN config.endpoints :
        /\ ~Faulty(Endpoint(j))
        /\ Method(Endpoint(j)) = e.method /\ Endpoint(j).route = e.route
LoopPassed == pc \in {"endpoints", "serving"} => \A i \in DOMAIN config.endpoints :
    i < at => ~EndsTheLoop(Endpoint(i)) /\ (Endpoint(i).builds => IsServed(Endpoint(i)))
Stopped == pc = "serving" =>
    at > Len(config.endpoints) \/ (at \in DOMAIN config.endpoints /\ EndsTheLoop(Endpoint(at)))

IInv == TypeOK /\ Apart /\ DebugDone /\ EchoDone /\ Sourced /\ LoopPassed /\ Stopped

EndpointType == [method : DOMAIN ToTitle, route : Seq(STRING), backends : Nat, builds : BOOLEAN]

-----------------------------------------------------------------------------
LEMMA Lengths ==
    ASSUME config \in Configurations
    PROVE  /\ Len(AllMethods) \in Nat /\ DOMAIN AllMethods = 1..Len(AllMethods)
           /\ config.endpoints \in Seq(EndpointType)
           /\ Len(config.endpoints) \in Nat
           /\ DOMAIN config.endpoints = 1..Len(config.endpoints)
           /\ \A i \in DOMAIN config.endpoints : Endpoint(i).method \in DOMAIN ToTitle
<1>1. AllMethods \in Seq(STRING)
  BY SupportedAreListed
<1>2. config.endpoints \in Seq(EndpointType)
  BY EndpointsTyped DEF EndpointType
<1>3. \A i \in 1..Len(config.endpoints) : config.endpoints[i] \in EndpointType
  BY <1>2
<1>4. \A i \in 1..Len(config.endpoints) : Endpoint(i).method \in DOMAIN ToTitle
  BY <1>3 DEF EndpointType, Endpoint
<1>5. /\ Len(AllMethods) \in Nat /\ DOMAIN AllMethods = 1..Len(AllMethods)
      /\ Len(config.endpoints) \in Nat
      /\ DOMAIN config.endpoints = 1..Len(config.endpoints)
  BY <1>1, <1>2
<1> QED BY <1>2, <1>4, <1>5

LEMMA ConflictIsSymmetric == \A r, s : Conflict(r, s) <=> Conflict(s, r)
<1> TAKE r, s
<1>1. {r, s} = {s, r}
  OBVIOUS
<1> QED BY <1>1 DEF Conflict

(* A route that is not refused keeps the entries apart.                     *)
LEMMA HandleKeepsApart ==
    ASSUME Apart, NEW m, NEW r, NEW h, Handle(m, r, h)
    PROVE  Apart'
<1>1. CASE Refused(m, r)
  BY <1>1 DEF Handle, Apart
<1>2. CASE ~Refused(m, r)
  <2>1. table' = table \cup {Entry(m, r, h)}
    BY <1>2 DEF Handle
  <2>2. \A e \in table : e.method = m => ~Conflict(r, e.route) /\ ~Conflict(e.route, r)
    BY <1>2, ConflictIsSymmetric DEF Refused
  <2>3. Entry(m, r, h).method = m /\ Entry(m, r, h).route = r
    BY DEF Entry
  <2> QED BY <2>1, <2>2, <2>3 DEF Apart
<1> QED BY <1>1, <1>2

LEMMA RegistrationBegins == Init => IInv
<1> SUFFICES ASSUME Init PROVE IInv
  OBVIOUS
<1> config \in Configurations /\ table = {} /\ pc = "debug" /\ at = 1
  BY DEF Init
<1> USE Lengths
<1>1. TypeOK
  BY DEF TypeOK
<1>2. DebugDone /\ EchoDone
  BY DEF DebugDone, EchoDone
<1> QED BY <1>1, <1>2 DEF IInv, Apart, Sourced, LoopPassed, Stopped

(* The two helpers.                                                         *)
LEMMA DebugKeeps == ASSUME IInv, RegisterDebug PROVE IInv'
<1> DEFINE new == Entry(AllMethods[at], DebugRoute, "debug")
<1>1. /\ pc = "debug" /\ at \in 1..Len(AllMethods) /\ config.debug.enabled
      /\ Handle(AllMethods[at], DebugRoute, "debug") /\ config' = config
  BY Lengths DEF RegisterDebug, RegisterHelper, IInv, TypeOK
<1>2. Apart'
  BY <1>1, HandleKeepsApart DEF IInv
<1>3. DebugRoute' = DebugRoute
  BY <1>1 DEF DebugRoute
<1>4. CASE Refused(AllMethods[at], DebugRoute)
  BY <1>1, <1>2, <1>4 DEF Handle, IInv, TypeOK, DebugDone, EchoDone, Sourced, LoopPassed, Stopped, Endpoint
<1>5. CASE ~Refused(AllMethods[at], DebugRoute)
  <2>1. table' = table \cup {new} /\ at' = at + 1 /\ pc' = pc
    BY <1>1, <1>5 DEF Handle
  <2>2. new.method \in ToSet(AllMethods) /\ new.handler = "debug"
    BY <1>1, Lengths DEF Entry, ToSet, IInv, TypeOK
  <2>3. TypeOK'
    BY <1>1, <2>1, <2>2, Lengths DEF IInv, TypeOK
  <2>4. DebugDone'
    BY <1>1, <1>3, <2>1, Lengths DEF IInv, TypeOK, DebugDone
  <2>5. EchoDone' /\ LoopPassed' /\ Stopped'
    BY <1>1, <2>1 DEF EchoDone, LoopPassed, Stopped
  <2>6. Sourced'
    BY <1>1, <2>1, <2>2 DEF IInv, Sourced, Endpoint
  <2> QED BY <1>2, <2>3, <2>4, <2>5, <2>6 DEF IInv
<1> QED BY <1>4, <1>5

LEMMA EchoKeeps == ASSUME IInv, RegisterEcho PROVE IInv'
<1> DEFINE new == Entry(AllMethods[at], EchoRoute, "echo")
<1>1. /\ pc = "echo" /\ at \in 1..Len(AllMethods) /\ config.echo.enabled
      /\ Handle(AllMethods[at], EchoRoute, "echo") /\ config' = config
  BY Lengths DEF RegisterEcho, RegisterHelper, IInv, TypeOK
<1>2. Apart'
  BY <1>1, HandleKeepsApart DEF IInv
<1>3. EchoRoute' = EchoRoute /\ DebugRoute' = DebugRoute
  BY <1>1 DEF EchoRoute, DebugRoute
<1>4. CASE Refused(AllMethods[at], EchoRoute)
  BY <1>1, <1>2, <1>4 DEF Handle, IInv, TypeOK, DebugDone, EchoDone, Sourced, LoopPassed, Stopped, Endpoint
<1>5. CASE ~Refused(AllMethods[at], EchoRoute)
  <2>1. table' = table \cup {new} /\ at' = at + 1 /\ pc' = pc
    BY <1>1, <1>5 DEF Handle
  <2>2. new.method \in ToSet(AllMethods) /\ new.handler = "echo"
    BY <1>1, Lengths DEF Entry, ToSet, IInv, TypeOK
  <2>3. TypeOK'
    BY <1>1, <2>1, <2>2, Lengths DEF IInv, TypeOK
  <2>4. EchoDone'
    BY <1>1, <1>3, <2>1, Lengths DEF IInv, TypeOK, EchoDone
  <2>5. DebugDone' /\ LoopPassed' /\ Stopped'
    BY <1>1, <1>3, <2>1 DEF IInv, DebugDone, LoopPassed, Stopped
  <2>6. Sourced'
    BY <1>1, <2>1, <2>2 DEF IInv, Sourced, Endpoint
  <2> QED BY <1>2, <2>3, <2>4, <2>5, <2>6 DEF IInv
<1> QED BY <1>4, <1>5

LEMMA HelpersEnd == ASSUME IInv, EndDebug \/ EndEcho PROVE IInv'
<1>1. /\ UNCHANGED <<config, table>> /\ at' = 1
      /\ \/ pc = "debug" /\ pc' = "echo" /\ (config.debug.enabled => at > Len(AllMethods))
         \/ pc = "echo" /\ pc' = "endpoints" /\ (config.echo.enabled => at > Len(AllMethods))
  BY DEF EndDebug, EndEcho, EndHelper
<1>2. UNCHANGED <<DebugRoute, EchoRoute>>
  BY <1>1 DEF DebugRoute, EchoRoute
<1>3. TypeOK'
  BY <1>1, Lengths DEF IInv, TypeOK
<1>4. at \in Nat
  BY <1>1, Lengths DEF IInv, TypeOK
<1>5. DebugDone' /\ EchoDone'
  BY <1>1, <1>2, <1>4, Lengths DEF IInv, TypeOK, DebugDone, EchoDone
<1>6. Apart' /\ Sourced' /\ LoopPassed' /\ Stopped'
  BY <1>1, Lengths DEF IInv, TypeOK, Apart, Sourced, LoopPassed, Stopped, Endpoint
<1> QED BY <1>3, <1>5, <1>6 DEF IInv

(* The endpoints.                                                           *)
LEMMA SkipKeeps == ASSUME IInv, SkipEndpoint PROVE IInv'
<1>1. /\ pc = "endpoints" /\ at \in DOMAIN config.endpoints /\ ~Endpoint(at).builds
      /\ at' = at + 1 /\ UNCHANGED <<config, table, pc>>
  BY Lengths DEF SkipEndpoint, Looping, IInv, TypeOK
<1>2. UNCHANGED <<DebugRoute, EchoRoute>>
  BY <1>1 DEF DebugRoute, EchoRoute
<1>3. TypeOK' /\ Apart' /\ Sourced' /\ Stopped'
  BY <1>1, Lengths DEF IInv, TypeOK, Apart, Sourced, Stopped, Endpoint
<1>4. DebugDone' /\ EchoDone'
  BY <1>1, <1>2 DEF IInv, DebugDone, EchoDone
<1>5. LoopPassed'
  BY <1>1, Lengths DEF IInv, TypeOK, LoopPassed, EndsTheLoop, Endpoint, IsServed
<1> QED BY <1>3, <1>4, <1>5 DEF IInv

LEMMA EndpointKeeps == ASSUME IInv, RegisterEndpoint PROVE IInv'
<1> DEFINE e == Endpoint(at)
           new == Entry(Method(e), e.route, "endpoint")
<1>1. /\ pc = "endpoints" /\ at \in DOMAIN config.endpoints
      /\ e.builds /\ ~Sequential(e) /\ ~Unsupported(e)
      /\ Handle(Method(e), e.route, "endpoint") /\ config' = config
  BY Lengths DEF RegisterEndpoint, Looping, IInv, TypeOK
<1>2. Apart'
  BY <1>1, HandleKeepsApart DEF IInv
<1>3. UNCHANGED <<DebugRoute, EchoRoute>>
  BY <1>1 DEF DebugRoute, EchoRoute
<1>4. CASE Refused(Method(e), e.route)
  BY <1>1, <1>2, <1>4 DEF Handle, IInv, TypeOK, DebugDone, EchoDone, Sourced, LoopPassed, Stopped, Endpoint
<1>5. CASE ~Refused(Method(e), e.route)
  <2>1. table' = table \cup {new} /\ at' = at + 1 /\ pc' = pc
    BY <1>1, <1>5 DEF Handle
  <2>2. e.method \in DOMAIN ToTitle
    BY <1>1, Lengths DEF IInv, TypeOK
  <2>3. new.method \in ToSet(AllMethods) /\ new.handler = "endpoint"
    BY <1>1, <2>2, SupportedAreListed DEF Entry, Unsupported, Method
  <2>4. TypeOK'
    BY <1>1, <2>1, <2>3, Lengths DEF IInv, TypeOK
  <2>5. DebugDone' /\ EchoDone' /\ Stopped'
    BY <1>1, <1>3, <2>1 DEF IInv, DebugDone, EchoDone, Stopped
  <2>6. Sourced'
    <3>1. new.method = Method(e) /\ new.route = e.route /\ ~Faulty(e)
      BY <1>1 DEF Entry, Faulty
    <3> QED BY <1>1, <2>1, <3>1 DEF IInv, Sourced, Endpoint
  <2>7. LoopPassed'
    <3>1. \A i \in DOMAIN config.endpoints :
            i = at => ~EndsTheLoop(Endpoint(i)) /\ IsServed(Endpoint(i))'
      BY <1>1, <2>1 DEF IsServed, EndsTheLoop, Endpoint
    <3>2. at \in Nat /\ \A i \in DOMAIN config.endpoints : i \in Nat
      BY <1>1, Lengths DEF IInv, TypeOK
    <3>3. \A i \in DOMAIN config.endpoints : IsServed(Endpoint(i)) => IsServed(Endpoint(i))'
      BY <1>1, <2>1 DEF IsServed, Endpoint
    <3>4. \A i \in DOMAIN config.endpoints :
            /\ EndsTheLoop(Endpoint(i))' <=> EndsTheLoop(Endpoint(i))
            /\ Endpoint(i)' = Endpoint(i)
      BY <1>1 DEF EndsTheLoop, Endpoint
    <3>5. \A i \in DOMAIN config.endpoints : i < at' => i < at \/ i = at
      BY <2>1, <3>2
    <3> QED BY <1>1, <2>1, <3>1, <3>3, <3>4, <3>5 DEF IInv, LoopPassed
  <2> QED BY <1>2, <2>4, <2>5, <2>6, <2>7 DEF IInv
<1> QED BY <1>4, <1>5

LEMMA EndKeeps == ASSUME IInv, Abandon \/ Finish PROVE IInv'
<1>1. /\ pc = "endpoints" /\ pc' = "serving" /\ UNCHANGED <<config, table, at>>
      /\ \/ at > Len(config.endpoints)
         \/ at \in DOMAIN config.endpoints /\ EndsTheLoop(Endpoint(at))
  BY Lengths DEF Abandon, Finish, Looping, EndsTheLoop, IInv, TypeOK
<1>2. UNCHANGED <<DebugRoute, EchoRoute>>
  BY <1>1 DEF DebugRoute, EchoRoute
<1>3. TypeOK' /\ Apart' /\ Sourced'
  BY <1>1 DEF IInv, TypeOK, Apart, Sourced, Endpoint
<1>4. DebugDone' /\ EchoDone'
  BY <1>1, <1>2 DEF IInv, DebugDone, EchoDone
<1>5. LoopPassed' /\ Stopped'
  BY <1>1 DEF IInv, LoopPassed, Stopped, EndsTheLoop, IsServed, Endpoint
<1> QED BY <1>3, <1>4, <1>5 DEF IInv

LEMMA Always == Spec => []IInv
<1>1. ASSUME IInv, UNCHANGED vars PROVE IInv'
  BY <1>1 DEF vars, IInv, TypeOK, Apart, DebugDone, EchoDone, DebugRoute, EchoRoute, Sourced,
              LoopPassed, Stopped, Endpoint, IsServed
<1>2. ASSUME IInv, [Next]_vars PROVE IInv'
  BY <1>1, <1>2, DebugKeeps, EchoKeeps, HelpersEnd, SkipKeeps, EndpointKeeps, EndKeeps DEF Next
<1> QED BY <1>2, RegistrationBegins, PTL DEF Spec

-----------------------------------------------------------------------------
(* The types: registration stays within the configured endpoints and the   *)
(* list of methods (endpoint.go:26-79).                                     *)
THEOREM TypesKept == Spec => []TypeOK
<1>1. IInv => TypeOK
  BY DEF IInv
<1> QED BY <1>1, Always, PTL

(* A router that serves has every sound endpoint up to the first that ends  *)
(* the loop, whatever stacks could not be built, and no faulty one          *)
(* (endpoint.go:47-79).                                                     *)
THEOREM ServesEveryPassedEndpoint == Spec => []ServesUpToTheFirstFault
<1>1. ASSUME IInv, pc = "serving", NEW i \in DOMAIN config.endpoints
      PROVE  /\ (/\ \A j \in 1..i - 1 : Endpoint(j).builds =>
                      ~Sequential(Endpoint(j)) /\ ~Unsupported(Endpoint(j))
                 /\ ~Faulty(Endpoint(i))) => IsServed(Endpoint(i))
             /\ IsServed(Endpoint(i)) => \E j \in DOMAIN config.endpoints :
                  /\ ~Faulty(Endpoint(j)) /\ Method(Endpoint(j)) = Method(Endpoint(i))
                  /\ Endpoint(j).route = Endpoint(i).route
  <2>1. at \in Nat /\ i \in Nat /\ i <= Len(config.endpoints) /\ Len(config.endpoints) \in Nat
    BY <1>1, Lengths DEF IInv, TypeOK
  <2>2. ASSUME \A j \in 1..i - 1 : Endpoint(j).builds =>
                   ~Sequential(Endpoint(j)) /\ ~Unsupported(Endpoint(j)),
               ~Faulty(Endpoint(i))
        PROVE  IsServed(Endpoint(i))
    <3>1. \/ at > Len(config.endpoints)
          \/ at \in 1..Len(config.endpoints) /\ EndsTheLoop(Endpoint(at))
      BY <1>1, Lengths DEF IInv, Stopped, TypeOK
    <3>2. i < at
      BY <2>1, <2>2, <3>1 DEF EndsTheLoop, Faulty
    <3> QED BY <1>1, <2>2, <3>2 DEF IInv, LoopPassed, Faulty
  <2>3. ASSUME IsServed(Endpoint(i))
        PROVE  \E j \in DOMAIN config.endpoints :
                 /\ ~Faulty(Endpoint(j)) /\ Method(Endpoint(j)) = Method(Endpoint(i))
                 /\ Endpoint(j).route = Endpoint(i).route
    <3> DEFINE entry == Entry(Method(Endpoint(i)), Endpoint(i).route, "endpoint")
    <3>1. /\ entry \in table /\ entry.handler = "endpoint"
          /\ entry.method = Method(Endpoint(i)) /\ entry.route = Endpoint(i).route
      BY <2>3 DEF IsServed, Entry
    <3> QED BY <1>1, <3>1 DEF IInv, Sourced
  <2> QED BY <2>2, <2>3
<1>2. IInv => ServesUpToTheFirstFault
  BY <1>1 DEF ServesUpToTheFirstFault
<1> QED BY <1>2, Always, PTL

-----------------------------------------------------------------------------
\* The router has read the routes that are registered.
RoutesRead == \A e \in table : Toward(e.route) /\ e.route[1] = Slash /\ Valid(e.route)

\* The pattern of a helper is a path.
LEMMA HelperPaths ==
    ASSUME NEW h, h.pattern \in Seq(STRING), Tokenised(h.pattern),
           NEW default \in Seq(STRING), Tokenised(default)
    PROVE  HelperRoute(h, default) \in Seq(STRING) /\ Tokenised(HelperRoute(h, default))
<1> DEFINE p == h.pattern
           kept == {i \in DOMAIN p : p[i] # Slash}
           end == CHOOSE k \in kept \cup {0} : \A i \in kept : i <= k
           trimmed == UpTo(p, end)
           route == trimmed \o <<Slash, "*any">>
<1>1. HelperRoute(h, default) = IF p = <<>> THEN default ELSE route
  BY Zenon DEF HelperRoute, TrimSlashes
<1>2. Len(p) \in Nat /\ DOMAIN p = 1..Len(p) /\ kept \subseteq 1..Len(p)
  OBVIOUS
<1>3. end \in kept \cup {0}
  <2> HIDE DEF kept
  <2>1. \E k \in kept \cup {0} : \A i \in kept : i <= k
    <3> DEFINE T == {Len(p) - i : i \in kept \cup {0}}
    <3>1. T \subseteq Nat /\ T # {}
      BY <1>2
    <3>2. PICK m \in T : \A k \in T : m <= k
      BY <3>1, SmallestOf
    <3>3. PICK k \in kept \cup {0} : m = Len(p) - k
      BY <3>2
    <3>4. \A i \in kept : i <= k
      <4> SUFFICES ASSUME NEW i \in kept PROVE i <= k
        OBVIOUS
      <4>1. Len(p) - i \in T
        OBVIOUS
      <4>2. Len(p) - k <= Len(p) - i
        BY <3>2, <3>3, <4>1
      <4> QED BY <1>2, <4>2
    <3> QED BY <3>4
  <2> QED BY <2>1
<1> HIDE DEF end
<1>4. end \in 0..Len(p)
  <2> HIDE DEF kept
  <2> QED BY <1>2, <1>3
<1>5. /\ trimmed \in Seq(STRING) /\ Len(trimmed) = end
      /\ \A i \in 1..end : trimmed[i] = p[i]
  BY <1>2, <1>4 DEF UpTo
<1> HIDE DEF trimmed
<1> DEFINE tail == <<Slash, "*any">>
<1>6. /\ tail \in Seq(STRING) /\ Len(tail) = 2 /\ tail[1] = Slash /\ tail[2] = "*any"
      /\ "*any" \in Wildcards
  BY PatternsRead DEF Wildcards
<1>7. tail[2] \notin Unnamed /\ Slash \notin Wildcards
  BY TokensDisjoint DEF Unnamed
<1> HIDE DEF tail
<1>8. /\ route \in Seq(STRING) /\ Len(route) = end + 2
      /\ \A i \in 1..end : route[i] = p[i]
      /\ route[end + 1] = Slash /\ route[end + 2] = tail[2]
  <2>1. route = trimmed \o tail
    BY DEF tail
  <2> HIDE DEF route
  <2>2. /\ route \in Seq(STRING) /\ Len(route) = Len(trimmed) + Len(tail)
        /\ \A i \in 1..Len(trimmed) + Len(tail) :
             route[i] = IF i <= Len(trimmed) THEN trimmed[i] ELSE tail[i - Len(trimmed)]
    <3>1. trimmed \in Seq(STRING) /\ tail \in Seq(STRING)
      BY <1>5, <1>6
    <3> QED BY <2>1, <3>1, ConcatProperties
  <2>4. route[end + 1] = tail[1] /\ route[end + 2] = tail[2]
    BY <1>2, <1>4, <1>5, <1>6, <2>2
  <2>5. Len(route) = end + 2
    BY <1>5, <1>6, <2>2
  <2>6. ASSUME NEW i \in 1..end PROVE route[i] = p[i]
    <3>1. i \in 1..Len(trimmed) + Len(tail) /\ i <= Len(trimmed)
      BY <1>4, <1>5, <1>6
    <3> QED BY <1>5, <2>2, <3>1
  <2>7. route[end + 1] = Slash /\ route[end + 2] = tail[2]
    BY <1>6, <2>4
  <2> HIDE DEF p
  <2> QED BY <2>2, <2>5, <2>6, <2>7
<1> HIDE DEF route
<1>9. Tokenised(route)
  <2>1. ASSUME NEW i \in 1..Len(route) - 1, route[i] \in Wildcards
        PROVE  route[i + 1] \in Wildcards \cup {Slash}
    <3>1. i # end + 1
      BY <1>7, <1>8, <2>1
    <3>2. i \in 1..end
      BY <1>4, <1>8, <3>1
    <3>3. CASE i = end
      BY <1>8, <3>3
    <3>4. CASE i # end
      <4>1. i \in 1..Len(p) - 1 /\ i + 1 \in 1..end
        BY <1>2, <1>4, <3>2, <3>4
      <4>2. p[i] \in Wildcards /\ route[i + 1] = p[i + 1]
        BY <1>8, <2>1, <3>2, <4>1
      <4> QED BY <4>1, <4>2 DEF Tokenised
    <3> QED BY <3>3, <3>4
  <2>2. ASSUME NEW i \in 1..Len(route), route[i] \in Unnamed
        PROVE  route[i] \in Wildcards
    <3>1. i # end + 2 /\ i # end + 1
      BY <1>7, <1>8, <2>2 DEF Unnamed, Slash
    <3>2. i \in 1..end /\ i \in 1..Len(p)
      BY <1>2, <1>4, <1>8, <3>1
    <3> QED BY <1>8, <2>2, <3>2 DEF Tokenised
  <2> QED BY <2>1, <2>2 DEF Tokenised
<1> QED BY <1>1, <1>8, <1>9

\* A route that is not refused has been read.
LEMMA HandleReads ==
    ASSUME RoutesRead, NEW m, NEW r \in Seq(STRING), Tokenised(r), NEW h, Handle(m, r, h)
    PROVE  RoutesRead'
<1>1. CASE Refused(m, r)
  BY <1>1 DEF Handle, RoutesRead
<1>2. CASE ~Refused(m, r)
  <2>1. table' = table \cup {Entry(m, r, h)}
    BY <1>2 DEF Handle
  <2>2. Toward(r) /\ r[1] = Slash /\ Valid(r)
    BY <1>2 DEF Refused, Toward
  <2>3. Entry(m, r, h).route = r
    BY DEF Entry
  <2> QED BY <2>1, <2>2, <2>3 DEF RoutesRead
<1> QED BY <1>1, <1>2

LEMMA AlwaysRead == Spec => []RoutesRead
<1>1. Init => RoutesRead
  BY DEF Init, RoutesRead
<1>2. ASSUME IInv, RoutesRead, [Next]_vars PROVE RoutesRead'
  <2>1. /\ \A c \in {config.debug, config.echo} : c.pattern \in Seq(STRING) /\ Tokenised(c.pattern)
        /\ DefaultDebug \in Seq(STRING) /\ Tokenised(DefaultDebug)
        /\ DefaultEcho \in Seq(STRING) /\ Tokenised(DefaultEcho)
    BY <1>2, PatternsRead DEF IInv, TypeOK
  <2>2. CASE RegisterDebug \/ RegisterEcho
    <3>1. /\ DebugRoute \in Seq(STRING) /\ Tokenised(DebugRoute)
          /\ EchoRoute \in Seq(STRING) /\ Tokenised(EchoRoute)
      BY <2>1, HelperPaths DEF DebugRoute, EchoRoute
    <3> QED BY <1>2, <2>2, <3>1, HandleReads DEF RegisterDebug, RegisterEcho, RegisterHelper
  <2>3. CASE RegisterEndpoint
    <3> DEFINE e == Endpoint(at)
    <3>1. at \in DOMAIN config.endpoints /\ Handle(Method(e), e.route, "endpoint")
      BY <1>2, <2>3, Lengths DEF RegisterEndpoint, Looping, IInv, TypeOK
    <3>2. e \in EndpointType /\ e \in ToSet(config.endpoints)
      BY <1>2, <3>1, Lengths DEF Endpoint, ToSet, IInv, TypeOK
    <3>3. e.route \in Seq(STRING) /\ Tokenised(e.route)
      BY <1>2, <3>2, PatternsRead DEF EndpointType, IInv, TypeOK
    <3> QED BY <1>2, <3>1, <3>3, HandleReads
  <2>4. CASE UNCHANGED table
    BY <1>2, <2>4 DEF RoutesRead
  <2> QED BY <1>2, <2>2, <2>3, <2>4
        DEF Next, vars, EndDebug, EndEcho, EndHelper, SkipEndpoint, Abandon, Finish
<1> QED BY <1>1, <1>2, Always, PTL DEF Spec

\* Of the entries for a method only one answers a request.
LEMMA OneAnswers ==
    ASSUME IInv, RoutesRead, NEW m, NEW p \in Requests,
           NEW e \in Answering(m, p), NEW f \in Answering(m, p)
    PROVE  e = f
<1>1. /\ e \in table /\ f \in table /\ e.method = f.method
      /\ Match(e.route, p) # {} /\ Match(f.route, p) # {}
  BY DEF Answering
<1>2. Distinct /\ p \in Seq(STRING)
  BY TokensDisjoint, RequestsRooted DEF Distinct
<1>3. e.route = f.route => Conflict(e.route, f.route)
  BY DEF Conflict
<1>4. e.route # f.route => Conflict(e.route, f.route)
  BY <1>1, <1>2, MatchingRoutesConflict DEF RoutesRead
<1> QED BY <1>1, <1>3, <1>4 DEF IInv, Apart

(* The routers that get to serve are unambiguous: registered routes never   *)
(* conflict, and two that match one request would, so every request has at  *)
(* most one handler, for all patterns (endpoint.go:26-79, tree.go:151-211). *)
THEOREM RouterIsUnambiguous == Spec => []OneHandlerPerRequest
<1>1. ASSUME IInv, RoutesRead, NEW m \in ToSet(AllMethods), NEW p \in Requests
      PROVE  Cardinality(Answering(m, p)) <= 1
  <2>1. CASE Answering(m, p) = {}
    BY <2>1, FS_EmptySet
  <2>2. ASSUME NEW e \in Answering(m, p)
        PROVE  Cardinality(Answering(m, p)) <= 1
    <3>1. Answering(m, p) = {e}
      BY <1>1, <2>2, OneAnswers
    <3> QED BY <3>1, FS_Singleton
  <2> QED BY <2>1, <2>2
<1>2. IInv /\ RoutesRead => OneHandlerPerRequest
  BY <1>1 DEF OneHandlerPerRequest
<1> QED BY <1>2, Always, AlwaysRead, PTL

(* And an enabled helper has all requests of its subtree to itself, for     *)
(* every method (lura.go:51-61, endpoint.go:26-45).                         *)
THEOREM HelpersKeepTheirPaths == Spec => []HelpersOwnTheirPaths
<1>1. ASSUME IInv, RoutesRead, NEW e \in table, NEW p \in Requests, Match(e.route, p) # {}
      PROVE  Answering(e.method, p) = {e}
  <2>1. e \in Answering(e.method, p)
    BY <1>1 DEF Answering
  <2> QED BY <1>1, <2>1, OneAnswers
<1>2. ASSUME IInv, RoutesRead, pc = "serving", NEW m \in ToSet(AllMethods), NEW p \in Requests
      PROVE  /\ (config.debug.enabled /\ Match(DebugRoute, p) # {}) =>
                  Answering(m, p) = {Entry(m, DebugRoute, "debug")}
             /\ (config.echo.enabled /\ Match(EchoRoute, p) # {}) =>
                  Answering(m, p) = {Entry(m, EchoRoute, "echo")}
  <2>1. PICK k \in DOMAIN AllMethods : AllMethods[k] = m
    BY DEF ToSet
  <2>2. /\ config.debug.enabled => Entry(m, DebugRoute, "debug") \in table
        /\ config.echo.enabled => Entry(m, EchoRoute, "echo") \in table
    BY <1>2, <2>1 DEF IInv, DebugDone, EchoDone
  <2>3. \A r, h : Entry(m, r, h).method = m /\ Entry(m, r, h).route = r
    BY DEF Entry
  <2> QED BY <1>1, <1>2, <2>2, <2>3
<1>3. IInv /\ RoutesRead => HelpersOwnTheirPaths
  BY <1>2 DEF HelpersOwnTheirPaths
<1> QED BY <1>3, Always, AlwaysRead, PTL
=============================================================================
