-------------------------- MODULE EngineHandleProofs --------------------------
(***************************************************************************)
(* What module EngineHandle's runs check, for any number of switching      *)
(* threads, requests and models: the GPU holds one model, no request is    *)
(* stopped with its engine, and the handle serves what it names.           *)
(*                                                                         *)
(* All of it rests on _switch_lock: the one thread past Acquire knows      *)
(* where the engine it took out of the handle is.  The inductive invariant *)
(* says what that thread may rely on at each point of switch_model.        *)
(***************************************************************************)
EXTENDS EngineHandle, TLAPS, FiniteSetTheorems

Points == {"called", "close", "drain", "stop", "release", "load", "loading",
           "release_failed", "reload", "reloading", "return", "done"}

Statuses == {"new", "submitting", "accepted", "refused", "ended"}

TypeOK ==
  /\ _engine \in Engines \cup {NoEngine}
  /\ config_model \in Models
  /\ lock \in SUBSET Switchers
  /\ pc \in [Switchers -> Points]
  /\ target \in [Switchers -> Models]
  /\ previous \in [Switchers -> Models]
  /\ old \in [Switchers -> Engines \cup {NoEngine}]
  /\ failed \in [Switchers -> BOOLEAN]
  /\ model \in [Engines -> Models]
  /\ loads \in Engines
  /\ memory \in SUBSET (1 .. loads)
  /\ left_behind \in SUBSET (1 .. loads)
  /\ accepting \in SUBSET (1 .. loads)
  /\ stopped \in SUBSET (1 .. loads)
  /\ outstanding \in [Engines -> SUBSET Requests]
  /\ request \in [Requests -> Statuses]
  /\ at \in [Requests -> Engines \cup {NoEngine}]

\* Threads that have started their first load, and their second.
FirstLoads == {t \in Switchers :
  pc[t] \in {"loading", "release_failed", "reload", "reloading", "return", "done"}}

SecondLoads == {t \in Switchers : pc[t] \in {"reloading", "return", "done"}}

\* There is an engine number left for each load to come.
LoadsCounted == loads =< 1 + Cardinality(FirstLoads) + Cardinality(SecondLoads)

Inside(t) == pc[t] \notin {"called", "done"}

\* _switch_lock is held by the thread inside switch_model.
OneInside ==
  /\ lock = {t \in Switchers : Inside(t)}
  /\ \A t, u \in Switchers : Inside(t) /\ Inside(u) => t = u

\* Outside a load nothing is in memory but one engine and what was left behind;
\* a load starts with what was left behind.
MemoryInv ==
  /\ \E e \in Engines : memory \subseteq left_behind \cup {e}
  /\ \A t \in Switchers : pc[t] \in {"load", "reload"} => memory \subseteq left_behind

\* The engine in service, and what a switch has in hand instead.
ServiceInv ==
  /\ \A t \in Switchers : pc[t] \notin {"called", "return", "done"} => _engine = NoEngine
  /\ _engine # NoEngine =>
       /\ accepting = {_engine}
       /\ _engine \in (1 .. loads) \ stopped
       /\ config_model = model[_engine]
  /\ _engine = NoEngine =>
       \A e \in accepting : \E t \in Switchers : pc[t] = "close" /\ old[t] = e
  /\ accepting \cap stopped = {}
  /\ \A t \in Switchers :
       /\ pc[t] \in {"close", "drain", "stop"} => old[t] \in 1 .. loads
       /\ pc[t] \in {"loading", "reloading"} => loads \notin stopped

\* An engine has outstanding what it has accepted and not ended, and it is
\* stopped with nothing outstanding.
DrainInv ==
  /\ \A r \in Requests : request[r] \in {"submitting", "accepted"} => at[r] \in 1 .. loads
  /\ \A e \in Engines :
       outstanding[e] = {r \in Requests : request[r] = "accepted" /\ at[r] = e}
  /\ \A e \in stopped : outstanding[e] = {}
  /\ \A t \in Switchers : pc[t] = "stop" => outstanding[old[t]] = {}

\* The model a switch will name when it returns.
NamesInv ==
  \A t \in Switchers :
    /\ pc[t] \in {"called", "close", "drain", "stop", "release", "load", "loading"} =>
         ~ failed[t]
    /\ pc[t] \in {"release_failed", "reload", "reloading"} => failed[t]
    /\ pc[t] \notin {"called", "return", "done"} => config_model = previous[t]
    /\ pc[t] = "loading" => model[loads] = target[t]
    /\ pc[t] = "reloading" => model[loads] = previous[t]
    /\ pc[t] = "return" =>
         config_model = IF failed[t] \/ _engine = NoEngine THEN previous[t] ELSE target[t]

HandleInv ==
  /\ TypeOK /\ LoadsCounted /\ OneInside /\ MemoryInv /\ ServiceInv /\ DrainInv /\ NamesInv
-----------------------------------------------------------------------------
(* Engines and loads *)

LEMMA EngineNumbers ==
  /\ Cardinality(Switchers) \in Nat
  /\ Engines \subseteq Nat \ {0}
  /\ 1 \in Engines
  /\ \A n \in Engines : 1 .. n \subseteq Engines
<1>1. Cardinality(Switchers) \in Nat
  BY EngineHandleAssumption, FS_CardinalityType
<1> QED
  BY <1>1 DEF Engines

LEMMA LoadCountsType ==
  /\ Cardinality(FirstLoads) \in Nat
  /\ Cardinality(FirstLoads) =< Cardinality(Switchers)
  /\ Cardinality(SecondLoads) \in Nat
  /\ Cardinality(SecondLoads) =< Cardinality(Switchers)
<1>1. FirstLoads \subseteq Switchers /\ SecondLoads \subseteq Switchers
  BY DEF FirstLoads, SecondLoads
<1> QED
  BY <1>1, EngineHandleAssumption, FS_Subset, FS_CardinalityType

\* A thread that has not started its first load has both numbers left.
LEMMA RoomToLoad ==
  ASSUME TypeOK, LoadsCounted, NEW t \in Switchers, pc[t] \in {"load", "reload"}
  PROVE  loads + 1 \in Engines
<1>1. IsFiniteSet(FirstLoads) /\ IsFiniteSet(SecondLoads)
  <2>1. FirstLoads \subseteq Switchers /\ SecondLoads \subseteq Switchers
    BY DEF FirstLoads, SecondLoads
  <2> QED
    BY <2>1, EngineHandleAssumption, FS_Subset
<1>2. t \notin SecondLoads
  BY DEF SecondLoads
<1>3. SecondLoads \cup {t} \subseteq Switchers
  BY DEF SecondLoads
<1>4. Cardinality(SecondLoads \cup {t}) = Cardinality(SecondLoads) + 1
  BY <1>1, <1>2, FS_AddElement
<1>5. Cardinality(SecondLoads \cup {t}) =< Cardinality(Switchers)
  BY <1>3, EngineHandleAssumption, FS_Subset
<1> QED
  BY <1>4, <1>5, LoadCountsType, EngineNumbers DEF TypeOK, LoadsCounted, Engines
-----------------------------------------------------------------------------
(* Every step keeps the inductive invariant *)

\* A step keeps the types.
LEMMA TypeStep ==
  ASSUME TypeOK, LoadsCounted, ServiceInv, [Next]_vars
  PROVE  TypeOK'
<1> USE DEF switch_vars, engine_vars, io_vars
<1>1. ASSUME NEW t \in Switchers, Acquire(t) PROVE TypeOK'
  BY <1>1, EngineNumbers DEF Acquire, AlreadyServed, Go, TypeOK, Points, Statuses
<1>2. ASSUME NEW t \in Switchers, Stop(t) PROVE TypeOK'
  <2>1. old[t] \in 1 .. loads
    BY <1>2 DEF Stop, Go, ServiceInv
  <2>2. stopped' \in SUBSET (1 .. loads) /\ left_behind' \in SUBSET (1 .. loads)
    BY <1>2, <2>1 DEF Stop, TypeOK
  <2>3. pc' \in [Switchers -> Points]
    BY <1>2 DEF Stop, Go, TypeOK, Points
  <2>4. UNCHANGED <<_engine, config_model, lock, target, previous, old, failed, model, loads,
                    memory, accepting, outstanding, request, at>>
    BY <1>2 DEF Stop
  <2> QED
    BY <2>2, <2>3, <2>4 DEF TypeOK
<1>3. ASSUME NEW t \in Switchers, Release(t) PROVE TypeOK'
  BY <1>3, EngineNumbers DEF Release, collect, Go, TypeOK, Points, Statuses
<1>4. ASSUME NEW t \in Switchers, Load(t) PROVE TypeOK'
  BY <1>4, EngineNumbers, RoomToLoad DEF Load, StartLoad, Go, TypeOK, Points, Statuses
<1>5. ASSUME NEW t \in Switchers, Loaded(t) PROVE TypeOK'
  BY <1>5, EngineNumbers DEF Loaded, Go, TypeOK, Points, Statuses
<1>6. ASSUME NEW t \in Switchers, ReleaseFailed(t) PROVE TypeOK'
  BY <1>6, EngineNumbers DEF ReleaseFailed, collect, Go, TypeOK, Points, Statuses
<1>7. ASSUME NEW t \in Switchers, Reload(t) PROVE TypeOK'
  BY <1>7, EngineNumbers, RoomToLoad
  DEF Reload, StartLoad, Go, TypeOK, Points, Statuses
<1>8. ASSUME NEW t \in Switchers,
            CloseIngress(t) \/ Drained(t) \/ LoadFails(t)
      PROVE  TypeOK'
  BY <1>8, EngineNumbers
  DEF CloseIngress, closed, Drained, LoadFails, Go, TypeOK, Points, Statuses
<1>9. ASSUME NEW t \in Switchers, ReloadFails(t) \/ Return(t) PROVE TypeOK'
  BY <1>9, EngineNumbers DEF ReloadFails, Return, Go, TypeOK, Points, Statuses
<1>10. ASSUME NEW r \in Requests, ReadEngine(r) PROVE TypeOK'
  BY <1>10, EngineNumbers DEF ReadEngine, TypeOK, Points, Statuses
<1>11. ASSUME NEW r \in Requests, Submit(r) PROVE TypeOK'
  BY <1>11, EngineNumbers DEF Submit, TypeOK, Points, Statuses
<1>12. ASSUME NEW r \in Requests, EndRequest(r) PROVE TypeOK'
  BY <1>12, EngineNumbers DEF EndRequest, TypeOK, Points, Statuses
<1>13. CASE UNCHANGED vars
  BY <1>13 DEF vars, TypeOK, Points, Statuses
<1> QED
  BY <1>1, <1>2, <1>3, <1>4, <1>5, <1>6, <1>7, <1>8, <1>9, <1>10, <1>11, <1>12, <1>13
  DEF Next, Switch

\* Each load is counted when it starts, and none is uncounted.
LEMMA LoadsCountedStep ==
  ASSUME TypeOK, LoadsCounted, [Next]_vars
  PROVE  LoadsCounted'
<1> USE DEF switch_vars, engine_vars, io_vars
<1> DEFINE First  == Cardinality(FirstLoads)
           Second == Cardinality(SecondLoads)
<1>1. /\ FirstLoads \in SUBSET Switchers /\ SecondLoads \in SUBSET Switchers
      /\ FirstLoads' \in SUBSET Switchers /\ SecondLoads' \in SUBSET Switchers
  BY DEF FirstLoads, SecondLoads
<1>2. /\ IsFiniteSet(FirstLoads) /\ IsFiniteSet(SecondLoads)
      /\ IsFiniteSet(FirstLoads') /\ IsFiniteSet(SecondLoads')
  BY <1>1, EngineHandleAssumption, FS_Subset
<1>3. First \in Nat /\ First' \in Nat /\ Second \in Nat /\ Second' \in Nat
  BY <1>2, FS_CardinalityType
<1>4. /\ FirstLoads \subseteq FirstLoads' => First =< First'
      /\ SecondLoads \subseteq SecondLoads' => Second =< Second'
  BY <1>2, FS_Subset
<1>5. CASE \E t \in Switchers : Load(t)
  <2> PICK t \in Switchers : Load(t)
    BY <1>5
  <2>1. t \notin FirstLoads /\ FirstLoads' = FirstLoads \cup {t}
    BY DEF Load, StartLoad, Go, TypeOK, FirstLoads
  <2>2. First' = First + 1
    BY <2>1, <1>2, FS_AddElement
  <2>3. SecondLoads \subseteq SecondLoads' /\ loads' = loads + 1
    BY DEF Load, StartLoad, Go, TypeOK, SecondLoads
  <2> QED
    BY <2>2, <2>3, <1>3, <1>4, EngineNumbers DEF LoadsCounted, TypeOK
<1>6. CASE \E t \in Switchers : Reload(t)
  <2> PICK t \in Switchers : Reload(t)
    BY <1>6
  <2>1. t \notin SecondLoads /\ SecondLoads' = SecondLoads \cup {t}
    BY DEF Reload, StartLoad, Go, TypeOK, SecondLoads
  <2>2. Second' = Second + 1
    BY <2>1, <1>2, FS_AddElement
  <2>3. FirstLoads \subseteq FirstLoads' /\ loads' = loads + 1
    BY DEF Reload, StartLoad, Go, TypeOK, FirstLoads
  <2> QED
    BY <2>2, <2>3, <1>3, <1>4, EngineNumbers DEF LoadsCounted, TypeOK
<1>7. CASE ~ \E t \in Switchers : Load(t) \/ Reload(t)
  <2>1. /\ FirstLoads \subseteq FirstLoads' /\ SecondLoads \subseteq SecondLoads'
        /\ loads' = loads
    <3>1. CASE \E t \in Switchers : Switch(t)
      BY <1>7, <3>1 DEF Switch, Acquire, AlreadyServed, CloseIngress, Drained, Stop, Release,
         Loaded, LoadFails, ReleaseFailed, ReloadFails, Return, Go, TypeOK, FirstLoads,
         SecondLoads
    <3>2. CASE \E r \in Requests : ReadEngine(r) \/ Submit(r) \/ EndRequest(r)
      BY <3>2 DEF ReadEngine, Submit, EndRequest, FirstLoads, SecondLoads
    <3>3. CASE UNCHANGED vars
      BY <3>3 DEF vars, FirstLoads, SecondLoads
    <3> QED
      BY <3>1, <3>2, <3>3 DEF Next
  <2> QED
    BY <2>1, <1>3, <1>4, EngineNumbers DEF LoadsCounted, TypeOK
<1> QED
  BY <1>5, <1>6, <1>7

\* Acquire waits for the lock, Return gives it back.
LEMMA OneInsideStep ==
  ASSUME TypeOK, OneInside, [Next]_vars
  PROVE  OneInside'
<1> USE DEF switch_vars, engine_vars, io_vars
<1>1. ASSUME NEW t \in Switchers, Acquire(t) PROVE OneInside'
  BY <1>1 DEF Acquire, AlreadyServed, Go, TypeOK, Points, OneInside, Inside
<1>2. ASSUME NEW t \in Switchers, Return(t) PROVE OneInside'
  BY <1>2 DEF Return, Go, TypeOK, Points, OneInside, Inside
<1>3. ASSUME NEW t \in Switchers,
            CloseIngress(t) \/ Drained(t) \/ Stop(t)
      PROVE  OneInside'
  BY <1>3
  DEF CloseIngress, closed, Drained, Stop, Go, TypeOK, Points, OneInside, Inside
<1>4. ASSUME NEW t \in Switchers, Release(t) \/ Load(t) \/ Loaded(t) PROVE OneInside'
  BY <1>4
  DEF Release, collect, Load, StartLoad, Loaded, Go, TypeOK, Points, OneInside, Inside
<1>5. ASSUME NEW t \in Switchers,
            LoadFails(t) \/ ReleaseFailed(t) \/ Reload(t)
      PROVE  OneInside'
  BY <1>5
  DEF LoadFails, ReleaseFailed, collect, Reload, StartLoad, Go, TypeOK, Points,
      OneInside, Inside
<1>6. ASSUME NEW t \in Switchers, ReloadFails(t) PROVE OneInside'
  BY <1>6 DEF ReloadFails, Go, TypeOK, Points, OneInside, Inside
<1>7. ASSUME NEW r \in Requests,
            ReadEngine(r) \/ Submit(r) \/ EndRequest(r)
      PROVE  OneInside'
  BY <1>7 DEF ReadEngine, Submit, EndRequest, TypeOK, Points, OneInside, Inside
<1>8. CASE UNCHANGED vars
  BY <1>8 DEF vars, TypeOK, Points, OneInside, Inside
<1> QED
  BY <1>1, <1>2, <1>3, <1>4, <1>5, <1>6, <1>7, <1>8 DEF Next, Switch

\* Memory is collected before a load, and only the lock's holder loads.
LEMMA MemoryStep ==
  ASSUME TypeOK, LoadsCounted, OneInside, MemoryInv, [Next]_vars
  PROVE  MemoryInv'
<1> USE DEF switch_vars, engine_vars, io_vars
<1>1. ASSUME NEW t \in Switchers, Stop(t) PROVE MemoryInv'
  BY <1>1, EngineNumbers DEF Stop, Go, TypeOK, Points, OneInside, Inside, MemoryInv
<1>2. ASSUME NEW t \in Switchers, Release(t) PROVE MemoryInv'
  BY <1>2, EngineNumbers
  DEF Release, collect, Go, TypeOK, Points, OneInside, Inside, MemoryInv
<1>3. ASSUME NEW t \in Switchers, Load(t) PROVE MemoryInv'
  BY <1>3, EngineNumbers, RoomToLoad
  DEF Load, StartLoad, Go, TypeOK, Points, OneInside, Inside, MemoryInv
<1>4. ASSUME NEW t \in Switchers, ReleaseFailed(t) PROVE MemoryInv'
  BY <1>4, EngineNumbers
  DEF ReleaseFailed, collect, Go, TypeOK, Points, OneInside, Inside, MemoryInv
<1>5. ASSUME NEW t \in Switchers, Reload(t) PROVE MemoryInv'
  BY <1>5, EngineNumbers, RoomToLoad
  DEF Reload, StartLoad, Go, TypeOK, Points, OneInside, Inside, MemoryInv
<1>6. ASSUME NEW t \in Switchers,
            Acquire(t) \/ CloseIngress(t) \/ Drained(t) \/ Loaded(t)
              \/ LoadFails(t) \/ ReloadFails(t) \/ Return(t)
      PROVE  MemoryInv'
  <2>1. /\ UNCHANGED <<memory, left_behind>>
        /\ \A u \in Switchers : pc'[u] \in {"load", "reload"} => pc'[u] = pc[u]
    BY <1>6
    DEF Acquire, AlreadyServed, CloseIngress, closed, Drained, Loaded, LoadFails,
        ReloadFails, Return, Go, TypeOK
  <2> QED
    BY <2>1, EngineNumbers DEF MemoryInv
<1>7. ASSUME NEW r \in Requests,
            ReadEngine(r) \/ Submit(r) \/ EndRequest(r)
      PROVE  MemoryInv'
  <2>1. /\ UNCHANGED <<memory, left_behind>>
        /\ \A u \in Switchers : pc'[u] \in {"load", "reload"} => pc'[u] = pc[u]
    BY <1>7 DEF ReadEngine, Submit, EndRequest, TypeOK
  <2> QED
    BY <2>1, EngineNumbers DEF MemoryInv
<1>8. CASE UNCHANGED vars
  BY <1>8 DEF vars, TypeOK, Points, OneInside, Inside, MemoryInv
<1> QED
  BY <1>1, <1>2, <1>3, <1>4, <1>5, <1>6, <1>7, <1>8 DEF Next, Switch

\* The engine goes out of service before it is drained and stopped, and its successor
\* goes into service as the only one that accepts.
LEMMA ServiceStep ==
  ASSUME TypeOK, LoadsCounted, OneInside, ServiceInv, [Next]_vars
  PROVE  ServiceInv'
<1> USE DEF switch_vars, engine_vars, io_vars
<1>1. ASSUME NEW t \in Switchers, Acquire(t) PROVE ServiceInv'
  BY <1>1, EngineNumbers
  DEF Acquire, AlreadyServed, Go, TypeOK, Points, OneInside, Inside, ServiceInv
<1>2. ASSUME NEW t \in Switchers, CloseIngress(t) PROVE ServiceInv'
  <2>1. /\ pc[t] = "close" /\ accepting' = closed(old[t])
        /\ \A u \in Switchers : pc'[u] = IF u = t THEN "drain" ELSE pc[u]
        /\ UNCHANGED <<_engine, config_model, old, model, loads, stopped>>
    BY <1>2 DEF CloseIngress, Go, TypeOK
  <2>2. accepting' \subseteq accepting /\ old[t] \notin accepting'
    BY <2>1 DEF closed
  <2>3. _engine = NoEngine
    BY <2>1 DEF ServiceInv
  <2>4. \A e \in accepting' : \E u \in Switchers : pc'[u] = "close" /\ old'[u] = e
    BY <2>1, <2>2, <2>3 DEF ServiceInv
  <2> QED
    BY <2>1, <2>2, <2>3, <2>4 DEF ServiceInv
<1>3. ASSUME NEW t \in Switchers, Stop(t) PROVE ServiceInv'
  BY <1>3, EngineNumbers DEF Stop, Go, TypeOK, Points, OneInside, Inside, ServiceInv
<1>4. ASSUME NEW t \in Switchers, Load(t) PROVE ServiceInv'
  BY <1>4, EngineNumbers, RoomToLoad
  DEF Load, StartLoad, Go, TypeOK, Points, OneInside, Inside, ServiceInv
<1>5. ASSUME NEW t \in Switchers, Loaded(t) PROVE ServiceInv'
  <2>1. accepting = {} /\ loads \in (1 .. loads) \ stopped
    BY <1>5, EngineNumbers DEF Loaded, Go, TypeOK, OneInside, Inside, ServiceInv
  <2>2. /\ accepting' = {_engine'} /\ _engine' = loads /\ loads' = loads
        /\ stopped' = stopped /\ config_model' = model'[loads]
        /\ old' = old /\ _engine' # NoEngine
    BY <1>5, <2>1, EngineHandleAssumption DEF Loaded, TypeOK
  <2>3. \A u \in Switchers : pc'[u] \in {"called", "return", "done"}
    BY <1>5 DEF Loaded, Go, TypeOK, OneInside, Inside
  <2> QED
    BY <2>1, <2>2, <2>3 DEF ServiceInv
<1>6. ASSUME NEW t \in Switchers, Reload(t) PROVE ServiceInv'
  BY <1>6, EngineNumbers, RoomToLoad
  DEF Reload, StartLoad, Go, TypeOK, Points, OneInside, Inside, ServiceInv
<1>7. ASSUME NEW t \in Switchers,
            Drained(t) \/ Release(t) \/ LoadFails(t) \/ ReleaseFailed(t)
              \/ ReloadFails(t) \/ Return(t)
      PROVE  ServiceInv'
  <2>1. /\ UNCHANGED <<_engine, config_model, accepting, stopped, loads, model, old>>
        /\ \A u \in Switchers :
             /\ pc'[u] \notin {"called", "return", "done"} =>
                  pc[u] \notin {"called", "return", "done"}
             /\ pc[u] = "close" => pc'[u] = "close"
             /\ pc'[u] \in {"close", "drain", "stop"} => pc[u] \in {"close", "drain", "stop"}
             /\ pc'[u] \in {"loading", "reloading"} => pc'[u] = pc[u]
    BY <1>7
    DEF Drained, Release, collect, LoadFails, ReleaseFailed, ReloadFails, Return, Go,
        TypeOK
  <2> QED
    BY <2>1, EngineNumbers DEF ServiceInv
<1>8. ASSUME NEW r \in Requests,
            ReadEngine(r) \/ Submit(r) \/ EndRequest(r)
      PROVE  ServiceInv'
  <2>1. /\ UNCHANGED <<_engine, config_model, accepting, stopped, loads, model, old>>
        /\ \A u \in Switchers :
             /\ pc'[u] \notin {"called", "return", "done"} =>
                  pc[u] \notin {"called", "return", "done"}
             /\ pc[u] = "close" => pc'[u] = "close"
             /\ pc'[u] \in {"close", "drain", "stop"} => pc[u] \in {"close", "drain", "stop"}
             /\ pc'[u] \in {"loading", "reloading"} => pc'[u] = pc[u]
    BY <1>8 DEF ReadEngine, Submit, EndRequest, TypeOK
  <2> QED
    BY <2>1, EngineNumbers DEF ServiceInv
<1>9. CASE UNCHANGED vars
  BY <1>9 DEF vars, TypeOK, Points, OneInside, Inside, ServiceInv
<1> QED
  BY <1>1, <1>2, <1>3, <1>4, <1>5, <1>6, <1>7, <1>8, <1>9 DEF Next, Switch

\* Only an engine that accepts gets a request, and none accepts once it is drained.
LEMMA DrainStep ==
  ASSUME TypeOK, LoadsCounted, OneInside, ServiceInv, DrainInv, [Next]_vars
  PROVE  DrainInv'
<1> USE DEF switch_vars, engine_vars, io_vars
<1>1. ASSUME NEW t \in Switchers, Drained(t) PROVE DrainInv'
  BY <1>1, EngineNumbers
  DEF Drained, Go, TypeOK, Points, OneInside, Inside, ServiceInv, DrainInv, Statuses
<1>2. ASSUME NEW t \in Switchers, Stop(t) PROVE DrainInv'
  BY <1>2, EngineNumbers
  DEF Stop, Go, TypeOK, Points, OneInside, Inside, ServiceInv, DrainInv, Statuses
<1>3. ASSUME NEW t \in Switchers, Load(t) PROVE DrainInv'
  BY <1>3, EngineNumbers, RoomToLoad
  DEF Load, StartLoad, Go, TypeOK, Points, OneInside, Inside, ServiceInv, DrainInv,
      Statuses
<1>4. ASSUME NEW t \in Switchers, Reload(t) PROVE DrainInv'
  BY <1>4, EngineNumbers, RoomToLoad
  DEF Reload, StartLoad, Go, TypeOK, Points, OneInside, Inside, ServiceInv, DrainInv,
      Statuses
<1>5. ASSUME NEW t \in Switchers,
            Acquire(t) \/ CloseIngress(t) \/ Release(t) \/ Loaded(t)
              \/ LoadFails(t) \/ ReleaseFailed(t) \/ ReloadFails(t) \/ Return(t)
      PROVE  DrainInv'
  <2>1. /\ UNCHANGED <<request, at, outstanding, stopped, loads>>
        /\ \A u \in Switchers : pc'[u] = "stop" => pc[u] = "stop" /\ old'[u] = old[u]
    BY <1>5
    DEF Acquire, AlreadyServed, CloseIngress, closed, Release, collect, Loaded,
        LoadFails, ReleaseFailed, ReloadFails, Return, Go, TypeOK
  <2> QED
    BY <2>1, EngineNumbers DEF DrainInv
<1>6. ASSUME NEW r \in Requests, ReadEngine(r) PROVE DrainInv'
  BY <1>6, EngineNumbers
  DEF ReadEngine, TypeOK, Points, OneInside, Inside, ServiceInv, DrainInv, Statuses
<1>7. ASSUME NEW r \in Requests, Submit(r) PROVE DrainInv'
  BY <1>7, EngineNumbers
  DEF Submit, TypeOK, Points, OneInside, Inside, ServiceInv, DrainInv, Statuses
<1>8. ASSUME NEW r \in Requests, EndRequest(r) PROVE DrainInv'
  BY <1>8, EngineNumbers
  DEF EndRequest, TypeOK, Points, OneInside, Inside, ServiceInv, DrainInv, Statuses
<1>9. CASE UNCHANGED vars
  BY <1>9 DEF vars, TypeOK, Points, OneInside, Inside, ServiceInv, DrainInv, Statuses
<1> QED
  BY <1>1, <1>2, <1>3, <1>4, <1>5, <1>6, <1>7, <1>8, <1>9 DEF Next, Switch

\* The handle's name changes with the engine in service, and only its lock's holder
\* changes either.
LEMMA NamesStep ==
  ASSUME TypeOK, LoadsCounted, OneInside, ServiceInv, NamesInv, [Next]_vars
  PROVE  NamesInv'
<1> USE DEF switch_vars, engine_vars, io_vars
<1>1. ASSUME NEW t \in Switchers, Acquire(t) PROVE NamesInv'
  BY <1>1, EngineNumbers
  DEF Acquire, AlreadyServed, Go, TypeOK, Points, OneInside, Inside, ServiceInv,
      NamesInv
<1>2. ASSUME NEW t \in Switchers, Load(t) PROVE NamesInv'
  BY <1>2, EngineNumbers, RoomToLoad
  DEF Load, StartLoad, Go, TypeOK, Points, OneInside, Inside, ServiceInv, NamesInv
<1>3. ASSUME NEW t \in Switchers, Loaded(t) PROVE NamesInv'
  <2>1. /\ config_model' = model[loads] /\ _engine' = loads /\ loads # NoEngine
        /\ UNCHANGED <<failed, target, previous, model, loads>>
        /\ pc[t] \in {"loading", "reloading"} /\ pc'[t] = "return"
    BY <1>3, EngineHandleAssumption DEF Loaded, Go, TypeOK
  <2>2. ASSUME NEW u \in Switchers, u # t
        PROVE  pc'[u] \in {"called", "done"} /\ pc'[u] = pc[u]
    BY <1>3, <2>2 DEF Loaded, Go, TypeOK, OneInside, Inside
  <2>3. config_model' = IF failed[t] THEN previous[t] ELSE target[t]
    BY <2>1 DEF NamesInv
  <2> QED
    BY <2>1, <2>2, <2>3 DEF NamesInv
<1>4. ASSUME NEW t \in Switchers, LoadFails(t) PROVE NamesInv'
  BY <1>4, EngineNumbers
  DEF LoadFails, Go, TypeOK, Points, OneInside, Inside, ServiceInv, NamesInv
<1>5. ASSUME NEW t \in Switchers, Reload(t) PROVE NamesInv'
  BY <1>5, EngineNumbers, RoomToLoad
  DEF Reload, StartLoad, Go, TypeOK, Points, OneInside, Inside, ServiceInv, NamesInv
<1>6. ASSUME NEW t \in Switchers, ReloadFails(t) PROVE NamesInv'
  BY <1>6, EngineNumbers
  DEF ReloadFails, Go, TypeOK, Points, OneInside, Inside, ServiceInv, NamesInv
<1>7. ASSUME NEW t \in Switchers,
            CloseIngress(t) \/ Drained(t) \/ Stop(t)
      PROVE  NamesInv'
  BY <1>7, EngineNumbers
  DEF CloseIngress, closed, Drained, Stop, Go, TypeOK, Points, OneInside, Inside,
      ServiceInv, NamesInv
<1>8. ASSUME NEW t \in Switchers,
            Release(t) \/ ReleaseFailed(t) \/ Return(t)
      PROVE  NamesInv'
  BY <1>8, EngineNumbers
  DEF Release, collect, ReleaseFailed, Return, Go, TypeOK, Points, OneInside, Inside,
      ServiceInv, NamesInv
<1>9. ASSUME NEW r \in Requests,
            ReadEngine(r) \/ Submit(r) \/ EndRequest(r)
      PROVE  NamesInv'
  BY <1>9, EngineNumbers
  DEF ReadEngine, Submit, EndRequest, TypeOK, Points, OneInside, Inside, ServiceInv,
      NamesInv
<1>10. CASE UNCHANGED vars
  BY <1>10 DEF vars, TypeOK, Points, OneInside, Inside, ServiceInv, NamesInv
<1> QED
  BY <1>1, <1>2, <1>3, <1>4, <1>5, <1>6, <1>7, <1>8, <1>9, <1>10 DEF Next, Switch
-----------------------------------------------------------------------------
(* The theorems *)

LEMMA InitInv == Init => HandleInv
<1> SUFFICES ASSUME Init PROVE HandleInv
  OBVIOUS
<1>1. TypeOK
  BY EngineNumbers, EngineHandleAssumption DEF Init, TypeOK, Points, Statuses
<1>2. LoadsCounted
  BY LoadCountsType DEF Init, LoadsCounted
<1>3. OneInside
  BY DEF Init, OneInside, Inside
<1>4. MemoryInv
  BY EngineNumbers DEF Init, MemoryInv
<1>5. ServiceInv
  BY EngineNumbers, EngineHandleAssumption DEF Init, ServiceInv
<1>6. DrainInv
  BY DEF Init, DrainInv
<1>7. NamesInv
  BY DEF Init, NamesInv
<1> QED
  BY <1>1, <1>2, <1>3, <1>4, <1>5, <1>6, <1>7 DEF HandleInv

\* What the thread inside switch_model may rely on, at each point of it.
THEOREM HandleInvariance == Spec => []HandleInv
<1>1. HandleInv /\ [Next]_vars => HandleInv'
  BY TypeStep, LoadsCountedStep, OneInsideStep, MemoryStep, ServiceStep, DrainStep, NamesStep
  DEF HandleInv
<1> QED
  BY InitInv, <1>1, PTL DEF Spec

\* The GPU never holds two models that anything still uses, however many switches
\* follow each other and whichever loads fail.
THEOREM MemoryHoldsOneModel == Spec => []OneModelInMemory
<1>1. HandleInv => OneModelInMemory
  <2> SUFFICES ASSUME HandleInv PROVE OneModelInMemory
    OBVIOUS
  <2>1. PICK e \in Engines : memory \ left_behind \subseteq {e}
    BY DEF HandleInv, MemoryInv
  <2>2. IsFiniteSet({e}) /\ Cardinality({e}) = 1
    BY FS_Singleton
  <2>3. IsFiniteSet(memory \ left_behind) /\ Cardinality(memory \ left_behind) =< 1
    BY <2>1, <2>2, FS_Subset
  <2> QED
    BY <2>3 DEF OneModelInMemory
<1> QED
  BY HandleInvariance, <1>1, PTL

\* stop never finds a request in the engine: the ingress is closed before the
\* drain, so a submission that read the engine earlier cannot slip in behind it.
THEOREM StopFindsNoRequest == Spec => []NoRequestIsStopped
<1>1. HandleInv => NoRequestIsStopped
  BY DEF HandleInv, DrainInv, NoRequestIsStopped
<1> QED
  BY HandleInvariance, <1>1, PTL

\* The model the handle names is the one it serves, on every path out of
\* switch_model: the early return, the load, the reload, and neither.
THEOREM HandleNamesWhatItServes == Spec => []ServesWhatItNames
<1>1. HandleInv => ServesWhatItNames
  BY DEF HandleInv, TypeOK, ServiceInv, NamesInv, ServesWhatItNames
<1> QED
  BY HandleInvariance, <1>1, PTL
=============================================================================
