-------------------------- MODULE ParamsPoolProofs --------------------------
(***************************************************************************)
(* The parameter pool keeps the requests apart, for any number of          *)
(* requests, buffers, routes and wildcards: the buffers are exclusive, the *)
(* handlers see their own parameters, nothing crashes, and the pool        *)
(* implements PrivateParams.                                               *)
(***************************************************************************)
EXTENDS ParamsPool, TLAPS

\* maxParams bounds the routes, and nothing is pooled or served before it is
\* final.
SetupDone ==
    /\ \A route \in registered : Wildcards[route] <= maxParams
    /\ maxParams > 0 => poolNew
    /\ ~serving => pool = {} /\ \A q \in Requests : pc[q] = "idle"

\* Every buffer in use has room for any path.
RoomEnough ==
    /\ \A q \in Requests : Len(vals[q]) <= maxParams
    /\ \A b \in pool : cap[b] = maxParams
    /\ \A q \in Requests : buf[q] # NoBuffer => cap[buf[q]] = maxParams

\* What a request has saved so far is in its buffer.
Filled == \A q \in Requests :
    /\ saved[q] <= Len(vals[q])
    /\ buf[q] = NoBuffer => saved[q] = 0
    /\ buf[q] # NoBuffer =>
         /\ len[buf[q]] = saved[q]
         /\ \A i \in 1..saved[q] : cell[buf[q]][i] = vals[q][i]

\* Where a request is says how far it has come.
Progress == \A q \in Requests :
    /\ pc[q] # "crashed"
    /\ pc[q] = "idle" => buf[q] = NoBuffer /\ vals[q] = <<>>
    /\ pc[q] # "handler" => copied[q] = <<>>
    /\ pc[q] = "handler" => /\ saved[q] = Len(vals[q])
                            /\ view[q] = Len(vals[q])
                            /\ Len(copied[q]) <= view[q]

IInv == /\ TypeOK /\ SetupDone /\ ExclusiveBuffers
        /\ RoomEnough /\ Filled /\ Progress

-----------------------------------------------------------------------------
(* A path's captures are a sequence of at most MaxWildcards values.          *)
LEMMA CapturesAreSequences ==
    \A v \in Captures : v \in Seq(Values) /\ Len(v) \in 0..MaxWildcards
BY MaxWildcardsNat DEF Captures

LEMMA InitIInv == Init => IInv
<1> SUFFICES ASSUME Init PROVE IInv
  OBVIOUS
<1> USE MaxWildcardsNat, SomeValue, NoBufferIsNone
<1>1. TypeOK
  <2>1. (CHOOSE v \in Values : TRUE) \in Values
    OBVIOUS
  <2>2. cell \in [Buffers -> [Positions -> Values]]
    BY <2>1 DEF Init
  <2>3. cap \in [Buffers -> 0..MaxWildcards] /\ len \in [Buffers -> 0..MaxWildcards]
    BY DEF Init
  <2>4. /\ vals \in [Requests -> Seq(Values)] /\ copied \in [Requests -> Seq(Values)]
        /\ saved \in [Requests -> Nat] /\ view \in [Requests -> Nat]
    BY DEF Init
  <2>5. /\ pc \in [Requests -> {"idle", "match", "handler", "crashed"}]
        /\ hit \in [Requests -> BOOLEAN]
        /\ buf \in [Requests -> Buffers \cup {NoBuffer}]
    BY DEF Init
  <2>6. maxParams \in 0..MaxWildcards
    BY DEF Init
  <2> QED BY <2>2, <2>3, <2>4, <2>5, <2>6 DEF Init, TypeOK
<1>2. SetupDone /\ ExclusiveBuffers /\ RoomEnough /\ Filled /\ Progress
  BY DEF Init, SetupDone, ExclusiveBuffers, RoomEnough, Filled, Progress
<1> QED BY <1>1, <1>2 DEF IInv

LEMMA HandleIInv == ASSUME IInv, NEW route \in Routes, Handle(route) PROVE IInv'
<1> USE MaxWildcardsNat, WildcardsBounded
<1>1. /\ maxParams' \in 0..MaxWildcards /\ maxParams <= maxParams'
      /\ Wildcards[route] <= maxParams'
      /\ registered' = registered \cup {route}
      /\ poolNew' = (poolNew \/ maxParams' > 0)
  BY DEF IInv, TypeOK, Handle, NextMaxParams
<1>2. /\ pool = {}
      /\ \A q \in Requests : pc[q] = "idle" /\ buf[q] = NoBuffer /\ vals[q] = <<>>
  BY DEF IInv, SetupDone, Progress, Handle
<1>3. UNCHANGED <<serving, pool, cap, len, cell, pc, vals, hit, saved, buf, view, copied>>
  BY DEF Handle, buffers, request
<1>4. TypeOK' /\ ExclusiveBuffers' /\ Filled' /\ Progress'
  BY <1>1, <1>3 DEF IInv, TypeOK, ExclusiveBuffers, Filled, Progress
<1>5. SetupDone'
  <2>1. \A x \in registered : Wildcards[x] \in Nat /\ Wildcards[x] <= maxParams
    BY DEF IInv, TypeOK, SetupDone
  <2>2. \A x \in registered' : Wildcards[x] <= maxParams'
    BY <1>1, <2>1 DEF IInv, TypeOK
  <2>3. maxParams' > 0 => poolNew'
    BY <1>1 DEF IInv, TypeOK
  <2> QED BY <1>2, <1>3, <2>2, <2>3 DEF SetupDone, IInv
<1>6. RoomEnough'
  BY <1>1, <1>2, <1>3 DEF RoomEnough
<1> QED BY <1>4, <1>5, <1>6 DEF IInv

LEMMA InstallIInv == ASSUME IInv, Install PROVE IInv'
BY DEF IInv, TypeOK, SetupDone, ExclusiveBuffers, RoomEnough, Filled, Progress, Install, buffers, request

LEMMA BeginIInv == ASSUME IInv, NEW q \in Requests, Begin(q) PROVE IInv'
BY CapturesAreSequences, MaxWildcardsNat, WildcardsBounded
   DEF IInv, TypeOK, SetupDone, ExclusiveBuffers, RoomEnough, Filled, Progress, Begin, setup, buffers, request

\* Handing a buffer nobody holds to a request that has none, with length 0.
LEMMA TakeBuffer ==
    ASSUME IInv, NEW q \in Requests, NEW b \in Buffers,
           pc[q] = "match", buf[q] = NoBuffer,
           \A x \in Requests : buf[x] # b,
           pool' = pool \ {b},
           buf' = [buf EXCEPT ![q] = b],
           len' = [len EXCEPT ![b] = 0],
           cap' \in [Buffers -> 0..MaxWildcards],
           cap'[b] = maxParams,
           \A x \in Buffers : x # b => cap'[x] = cap[x],
           UNCHANGED <<setup, cell, pc, request, saved, view, copied>>
    PROVE  IInv'
<1> USE NoBufferIsNone, MaxWildcardsNat DEF setup, request
<1>1. TypeOK'
  <2>1. buf' \in [Requests -> Buffers \cup {NoBuffer}] /\ pool' \subseteq Buffers
    BY DEF IInv, TypeOK
  <2>2. len' \in [Buffers -> 0..MaxWildcards]
    BY DEF IInv, TypeOK
  <2> QED BY <2>1, <2>2 DEF IInv, TypeOK
<1>2. SetupDone'
  BY DEF IInv, SetupDone
<1>3. ExclusiveBuffers'
  BY DEF IInv, TypeOK, ExclusiveBuffers
<1>4. RoomEnough'
  BY DEF IInv, TypeOK, RoomEnough
<1>5. Filled'
  <2> SUFFICES ASSUME NEW x \in Requests
               PROVE  /\ saved[x] <= Len(vals[x])
                      /\ buf'[x] = NoBuffer => saved[x] = 0
                      /\ buf'[x] # NoBuffer =>
                           /\ len'[buf'[x]] = saved[x]
                           /\ \A i \in 1..saved[x] : cell[buf'[x]][i] = vals[x][i]
    BY DEF Filled
  <2>1. CASE x = q
    <3>1. buf'[x] = b /\ len'[b] = 0 /\ saved[x] = 0
      BY <2>1 DEF IInv, TypeOK, Filled
    <3> QED BY <3>1 DEF IInv, Filled
  <2>2. CASE x # q
    <3>1. buf'[x] = buf[x] /\ (buf[x] # NoBuffer => len'[buf[x]] = len[buf[x]])
      BY <2>2 DEF IInv, TypeOK
    <3> QED BY <3>1 DEF IInv, Filled
  <2> QED BY <2>1, <2>2
<1>6. Progress'
  BY DEF IInv, TypeOK, Progress
<1> QED BY <1>1, <1>2, <1>3, <1>4, <1>5, <1>6 DEF IInv

LEMMA GetParamsIInv == ASSUME IInv, NEW q \in Requests, GetParams(q) PROVE IInv'
<1> USE NoBufferIsNone, MaxWildcardsNat
<1>1. /\ pc[q] = "match" /\ buf[q] = NoBuffer /\ saved[q] < Len(vals[q])
      /\ UNCHANGED <<setup, cell, request, saved, view, copied>>
  BY DEF GetParams
<1>2. ASSUME NEW b \in pool,
             pool' = pool \ {b},
             buf' = [buf EXCEPT ![q] = b],
             len' = [len EXCEPT ![b] = 0],
             UNCHANGED <<cap, pc>>
      PROVE  IInv'
  <2>1. b \in Buffers /\ cap[b] = maxParams /\ \A x \in Requests : buf[x] # b
    BY DEF IInv, TypeOK, RoomEnough, ExclusiveBuffers
  <2>2. cap' \in [Buffers -> 0..MaxWildcards]
    BY <1>2 DEF IInv, TypeOK
  <2> QED BY <1>1, <1>2, <2>1, <2>2, TakeBuffer
<1>3. ASSUME NEW b \in Buffers \ (pool \cup Held),
             cap' = [cap EXCEPT ![b] = maxParams],
             len' = [len EXCEPT ![b] = 0],
             buf' = [buf EXCEPT ![q] = b],
             UNCHANGED <<pool, pc>>
      PROVE  IInv'
  <2>1. b \in Buffers /\ \A x \in Requests : buf[x] # b
    BY DEF Held
  <2>2. pool' = pool \ {b}
    BY <1>3
  <2>3. /\ cap' \in [Buffers -> 0..MaxWildcards] /\ cap'[b] = maxParams
        /\ \A x \in Buffers : x # b => cap'[x] = cap[x]
    BY <1>3 DEF IInv, TypeOK
  <2> QED BY <1>1, <1>3, <2>1, <2>2, <2>3, TakeBuffer
<1>4. poolNew
  <2>1. maxParams > 0
    <3>1. Len(vals[q]) \in Nat /\ saved[q] \in Nat /\ Len(vals[q]) <= maxParams
      BY DEF IInv, TypeOK, RoomEnough
    <3> QED BY <1>1, <3>1 DEF IInv, TypeOK
  <2> QED BY <2>1 DEF IInv, SetupDone
<1> QED BY <1>2, <1>3, <1>4 DEF GetParams, ResetLength

LEMMA SaveParamIInv == ASSUME IInv, NEW q \in Requests, SaveParam(q) PROVE IInv'
<1> USE NoBufferIsNone, MaxWildcardsNat
<1> DEFINE b == buf[q]
           i == saved[q] + 1
<1>1. /\ pc[q] = "match" /\ b \in Buffers /\ saved[q] < Len(vals[q])
      /\ UNCHANGED <<registered, maxParams, poolNew, serving, pool, cap, vals, hit,
                     buf, view, copied>>
  BY DEF SaveParam, IInv, TypeOK, setup, request
<1>2. len[b] = saved[q] /\ i \in Positions /\ i <= cap[b] /\ i \in 1..Len(vals[q])
  <2>1. saved[q] \in Nat /\ Len(vals[q]) \in Nat /\ Len(vals[q]) <= maxParams
    BY DEF IInv, TypeOK, RoomEnough
  <2>2. len[b] = saved[q] /\ cap[b] = maxParams /\ maxParams \in 0..MaxWildcards
    BY <1>1 DEF IInv, TypeOK, Filled, RoomEnough
  <2> QED BY <1>1, <2>1, <2>2 DEF Positions
<1>3. /\ len' = [len EXCEPT ![b] = i]
      /\ cell' = [cell EXCEPT ![b][i] = vals[q][i]]
      /\ saved' = [saved EXCEPT ![q] = i]
      /\ pc' = pc
  BY <1>1, <1>2 DEF SaveParam, IInv, TypeOK
<1> HIDE DEF i
<1>4. vals[q][i] \in Values
  BY <1>2 DEF IInv, TypeOK
<1>5. TypeOK'
  <2>1. cell' \in [Buffers -> [Positions -> Values]]
    BY <1>1, <1>2, <1>3, <1>4 DEF IInv, TypeOK
  <2>2. len' \in [Buffers -> 0..MaxWildcards] /\ saved' \in [Requests -> Nat]
    BY <1>1, <1>2, <1>3 DEF IInv, TypeOK, Positions
  <2> QED BY <1>1, <1>3, <2>1, <2>2 DEF IInv, TypeOK
<1>6. SetupDone' /\ ExclusiveBuffers' /\ RoomEnough'
  BY <1>1, <1>3 DEF IInv, SetupDone, ExclusiveBuffers, RoomEnough
<1>7. Filled'
  <2> SUFFICES ASSUME NEW x \in Requests
               PROVE  /\ saved'[x] <= Len(vals[x])
                      /\ buf[x] = NoBuffer => saved'[x] = 0
                      /\ buf[x] # NoBuffer =>
                           /\ len'[buf[x]] = saved'[x]
                           /\ \A j \in 1..saved'[x] : cell'[buf[x]][j] = vals[x][j]
    BY <1>1 DEF Filled
  <2>1. CASE x = q
    <3>1. saved'[q] = i /\ len'[b] = i /\ i <= Len(vals[q])
      BY <1>1, <1>2, <1>3 DEF IInv, TypeOK
    <3>2. \A j \in 1..saved[q] : cell[b][j] = vals[q][j]
      BY <1>1 DEF IInv, Filled
    <3>3. \A j \in 1..i : j = i \/ j \in 1..saved[q]
      BY DEF i, IInv, TypeOK
    <3>4. \A j \in 1..i : cell'[b][j] = vals[q][j]
      <4>1. /\ cell'[b][i] = vals[q][i]
            /\ \A j \in Positions : j # i => cell'[b][j] = cell[b][j]
        BY <1>1, <1>2, <1>3 DEF IInv, TypeOK
      <4>2. \A j \in 1..i : j \in Positions
        BY <1>2 DEF Positions
      <4> QED BY <3>2, <3>3, <4>1, <4>2
    <3> QED BY <1>1, <2>1, <3>1, <3>4
  <2>2. CASE x # q
    <3>1. saved'[x] = saved[x]
      BY <1>3, <2>2 DEF IInv, TypeOK
    <3>2. buf[x] # NoBuffer => buf[x] \in Buffers /\ buf[x] # b
      BY <1>1, <2>2 DEF IInv, TypeOK, ExclusiveBuffers
    <3>3. buf[x] # NoBuffer => len'[buf[x]] = len[buf[x]] /\ cell'[buf[x]] = cell[buf[x]]
      BY <1>3, <3>2 DEF IInv, TypeOK
    <3> QED BY <3>1, <3>3 DEF IInv, Filled
  <2> QED BY <2>1, <2>2
<1>8. Progress'
  <2>1. \A x \in Requests : x # q => saved'[x] = saved[x]
    BY <1>3 DEF IInv, TypeOK
  <2> QED BY <1>1, <1>3, <2>1 DEF IInv, Progress
<1> QED BY <1>5, <1>6, <1>7, <1>8 DEF IInv

LEMMA MissIInv == ASSUME IInv, NEW q \in Requests, Miss(q) PROVE IInv'
BY NoBufferIsNone, MaxWildcardsNat
   DEF IInv, TypeOK, SetupDone, ExclusiveBuffers, RoomEnough, Filled, Progress, Miss, Forget, setup, buffers, request

LEMMA CallHandlerIInv == ASSUME IInv, NEW q \in Requests, CallHandler(q) PROVE IInv'
BY NoBufferIsNone, MaxWildcardsNat
   DEF IInv, TypeOK, SetupDone, ExclusiveBuffers, RoomEnough, Filled, Progress, CallHandler, setup, buffers, request

LEMMA CopyParamIInv == ASSUME IInv, NEW q \in Requests, CopyParam(q) PROVE IInv'
BY NoBufferIsNone, MaxWildcardsNat
   DEF IInv, TypeOK, SetupDone, ExclusiveBuffers, RoomEnough, Filled, Progress, CopyParam, Positions, setup, buffers, request

LEMMA ReturnIInv == ASSUME IInv, NEW q \in Requests, Return(q) PROVE IInv'
BY NoBufferIsNone, MaxWildcardsNat
   DEF IInv, TypeOK, SetupDone, ExclusiveBuffers, RoomEnough, Filled, Progress, Return, Forget, setup, buffers, request

LEMMA HandlerPanicsIInv == ASSUME IInv, NEW q \in Requests, HandlerPanics(q) PROVE IInv'
BY NoBufferIsNone, MaxWildcardsNat
   DEF IInv, TypeOK, SetupDone, ExclusiveBuffers, RoomEnough, Filled, Progress, HandlerPanics, Forget, setup, buffers, request

LEMMA EvictIInv == ASSUME IInv, NEW b \in Buffers, Evict(b) PROVE IInv'
BY DEF IInv, TypeOK, SetupDone, ExclusiveBuffers, RoomEnough, Filled, Progress, Evict, setup, buffers, request

LEMMA StepIInv == IInv /\ [Next]_vars => IInv'
<1> SUFFICES ASSUME IInv, [Next]_vars PROVE IInv'
  OBVIOUS
<1>1. CASE UNCHANGED vars
  BY <1>1 DEF vars, setup, buffers, request, IInv, TypeOK, SetupDone, ExclusiveBuffers, RoomEnough, Filled, Progress
<1> QED
  BY <1>1, HandleIInv, InstallIInv, BeginIInv, GetParamsIInv, SaveParamIInv,
     MissIInv, CallHandlerIInv, CopyParamIInv, ReturnIInv, HandlerPanicsIInv,
     EvictIInv DEF Next

LEMMA AlwaysIInv == Spec => []IInv
<1>1. Init => IInv
  BY InitIInv
<1>2. IInv /\ [Next]_vars => IInv'
  BY StepIInv
<1> QED BY <1>1, <1>2, PTL DEF Spec

-----------------------------------------------------------------------------
(* Every variable keeps its type.                                            *)
THEOREM TypesKept == Spec => []TypeOK
<1>1. IInv => TypeOK
  BY DEF IInv
<1> QED BY <1>1, AlwaysIInv, PTL

(* However the requests interleave, miss, panic or lose buffers to the       *)
(* garbage collector, no buffer is ever held twice, or held and pooled.      *)
THEOREM BuffersStayExclusive == Spec => []ExclusiveBuffers
<1>1. IInv => ExclusiveBuffers
  BY DEF IInv
<1> QED BY <1>1, AlwaysIInv, PTL

(* A handler's slice shows exactly the values of its own path.               *)
THEOREM HandlersSeeOwnParams == Spec => []HandlerSeesOwnParams
<1>1. IInv => HandlerSeesOwnParams
  <2> SUFFICES ASSUME IInv, NEW q \in Requests, pc[q] = "handler"
               PROVE  /\ view[q] = Len(vals[q])
                      /\ \A i \in 1..view[q] :
                           buf[q] # NoBuffer /\ cell[buf[q]][i] = vals[q][i]
    BY DEF HandlerSeesOwnParams
  <2>1. view[q] = Len(vals[q]) /\ saved[q] = view[q]
    BY DEF IInv, Progress
  <2>2. ASSUME NEW i \in 1..view[q] PROVE buf[q] # NoBuffer
    BY <2>1 DEF IInv, Filled
  <2> QED BY <2>1, <2>2 DEF IInv, Filled
<1> QED BY <1>1, AlwaysIInv, PTL

(* No request dies of a missing pool constructor or of a slice without room. *)
THEOREM NoCrash == Spec => []NeverCrashes
<1>1. IInv => NeverCrashes
  BY DEF IInv, Progress, NeverCrashes
<1> QED BY <1>1, AlwaysIInv, PTL

-----------------------------------------------------------------------------
LEMMA InitRefines == Init => Private!Init
BY DEF Init, Private!Init

LEMMA BeginRefines == ASSUME NEW q \in Requests, Begin(q) PROVE Private!Begin(q)
BY DEF Begin, Private!Begin, Captures, Private!Captures

LEMMA EnterRefines == ASSUME NEW q \in Requests, CallHandler(q) PROVE Private!Enter(q)
BY DEF CallHandler, Private!Enter, request

LEMMA ReadRefines == ASSUME IInv, NEW q \in Requests, CopyParam(q) PROVE Private!Read(q)
<1>1. /\ pc[q] = "handler" /\ view[q] = Len(vals[q]) /\ saved[q] = view[q]
      /\ Len(copied[q]) < Len(vals[q]) /\ Len(copied[q]) \in Nat
  BY DEF IInv, TypeOK, Progress, CopyParam
<1>2. Len(copied[q]) + 1 \in 1..saved[q]
  BY <1>1 DEF IInv, TypeOK
<1>3. cell[buf[q]][Len(copied[q]) + 1] = vals[q][Len(copied[q]) + 1]
  BY <1>2 DEF IInv, Filled
<1> QED BY <1>1, <1>3 DEF CopyParam, Private!Read, request, IInv, TypeOK

LEMMA EndRefines ==
    ASSUME NEW q \in Requests, Miss(q) \/ Return(q) \/ HandlerPanics(q)
    PROVE  Private!End(q)
BY DEF Miss, Return, HandlerPanics, Forget, Private!End

\* Saving a value, which the abstract requests do not do, changes nothing they see.
LEMMA GetParamsStutters ==
    ASSUME IInv, NEW q \in Requests, GetParams(q) \/ SaveParam(q)
    PROVE  UNCHANGED Private!vars
<1>1. IInv'
  BY GetParamsIInv, SaveParamIInv
<1>2. pc' = pc
  <2>1. pc'[q] # "crashed"
    BY <1>1 DEF IInv, Progress
  <2>2. pc' = pc \/ pc' = [pc EXCEPT ![q] = "crashed"]
    BY DEF GetParams, SaveParam
  <2> QED BY <2>1, <2>2 DEF IInv, TypeOK
<1>3. UNCHANGED <<vals, hit, copied>>
  BY DEF GetParams, SaveParam, request
<1> QED BY <1>2, <1>3 DEF Private!vars

LEMMA StepRefines == IInv /\ [Next]_vars => [Private!Next]_(Private!vars)
<1> SUFFICES ASSUME IInv, [Next]_vars PROVE [Private!Next]_(Private!vars)
  OBVIOUS
<1>1. CASE \E route \in Routes : Handle(route)
  BY <1>1 DEF Handle, request, Private!vars
<1>2. CASE Install
  BY <1>2 DEF Install, request, Private!vars
<1>3. CASE \E b \in Buffers : Evict(b)
  BY <1>3 DEF Evict, request, Private!vars
<1>4. CASE UNCHANGED vars
  BY <1>4 DEF vars, request, Private!vars
<1>5. ASSUME NEW q \in Requests,
             \/ Begin(q) \/ GetParams(q) \/ SaveParam(q) \/ Miss(q)
             \/ CallHandler(q) \/ CopyParam(q) \/ Return(q) \/ HandlerPanics(q)
      PROVE  [Private!Next]_(Private!vars)
  BY <1>5, BeginRefines, EnterRefines, ReadRefines, EndRefines, GetParamsStutters
     DEF Private!Next
<1> QED BY <1>1, <1>2, <1>3, <1>4, <1>5 DEF Next

(* Requests that share pooled buffers behave as requests that own theirs:    *)
(* router.go's recycling cannot be told from private parameters.             *)
THEOREM PoolImplementsPrivateParams == Spec => ImplementsPrivateParams
<1>1. Init => Private!Init
  BY InitRefines
<1>2. IInv /\ [Next]_vars => [Private!Next]_(Private!vars)
  BY StepRefines
<1> QED BY <1>1, <1>2, AlwaysIInv, PTL DEF Spec, ImplementsPrivateParams, Private!Spec
=============================================================================
