----------------------------- MODULE EngineHandle -----------------------------
(***************************************************************************)
(* EngineHandle: the engine a server serves, and its replacement on a      *)
(* model switch.  Switches run on threads of their own, one at a time      *)
(* under _switch_lock; requests come from the event loop, which takes no   *)
(* lock: it reads _engine and submits to what it read.                     *)
(*                                                                         *)
(* An engine is what it has accepted and not yet ended.  Its threads are   *)
(* module Engine's business: that stop may leave one behind, with all its  *)
(* memory, is shown there and kept here as an outcome of Stop.             *)
(***************************************************************************)
EXTENDS Integers, FiniteSets

CONSTANTS
  Models,      \* names a switch may ask for
  FirstModel,  \* the configured one
  Switchers,   \* threads that call switch_model, once each
  Requests,    \* requests that arrive, once each
  NoEngine

\* A switch loads at most twice.
Engines == 1 .. 1 + 2 * Cardinality(Switchers)

ASSUME EngineHandleAssumption ==
  /\ FirstModel \in Models
  /\ IsFiniteSet(Switchers)
  /\ NoEngine \notin Engines

VARIABLES
  _engine,       \* the engine new requests go to, or NoEngine
  config_model,  \* _config.model.model_name_or_path
  lock,          \* holders of _switch_lock
  pc,            \* pc[t]: where thread t is in switch_model
  target,        \* target[t]: its argument
  previous,      \* previous[t]: the local of that name
  old,           \* old[t]: old_engine
  failed,        \* failed[t]: it raises at the end
  model,         \* model[e]: what engine e was loaded from
  loads,         \* engines made so far
  memory,        \* engines, whole or half loaded, that hold GPU memory
  left_behind,   \* stopped engines that a thread or a submission outlived
  accepting,     \* engines that accept
  stopped,       \* engines stop has returned for
  outstanding,   \* outstanding[e]: accepted by e and not ended
  request,       \* request[r]: new, submitting, accepted, refused or ended
  at             \* at[r]: the engine its submission read

switch_vars == <<lock, pc, target, previous, old, failed>>
engine_vars == <<model, loads, memory, left_behind, accepting, stopped, outstanding>>
io_vars == <<request, at>>
vars == <<_engine, config_model, switch_vars, engine_vars, io_vars>>
-----------------------------------------------------------------------------
\* __init__ has loaded the configured model.
Init ==
  /\ _engine = 1
  /\ config_model = FirstModel
  /\ lock = {}
  /\ pc = [t \in Switchers |-> "called"]
  /\ target \in [Switchers -> Models]
  /\ previous = [t \in Switchers |-> FirstModel]
  /\ old = [t \in Switchers |-> NoEngine]
  /\ failed = [t \in Switchers |-> FALSE]
  /\ model = [e \in Engines |-> FirstModel]
  /\ loads = 1
  /\ memory = {1}
  /\ left_behind = {}
  /\ accepting = {1}
  /\ stopped = {}
  /\ outstanding = [e \in Engines |-> {}]
  /\ request = [r \in Requests |-> "new"]
  /\ at = [r \in Requests |-> NoEngine]

Go(t, from, to) == pc[t] = from /\ pc' = [pc EXCEPT ![t] = to]
-----------------------------------------------------------------------------
(* The event loop: submit *)

\* Tokenization lies between the read of _engine and the ingress; the event loop
\* does nothing else meanwhile, the switching threads do.
ReadEngine(r) ==
  /\ request[r] = "new"
  /\ \A other \in Requests : request[other] # "submitting"
  /\ at' = [at EXCEPT ![r] = _engine]
  /\ request' = [request EXCEPT ![r] = IF _engine = NoEngine THEN "refused" ELSE "submitting"]
  /\ UNCHANGED <<_engine, config_model, switch_vars, engine_vars>>

Submit(r) ==
  /\ request[r] = "submitting"
  /\ IF at[r] \in accepting
     THEN /\ request' = [request EXCEPT ![r] = "accepted"]
          /\ outstanding' = [outstanding EXCEPT ![at[r]] = @ \cup {r}]
     ELSE /\ request' = [request EXCEPT ![r] = "refused"]
          /\ UNCHANGED outstanding
  /\ UNCHANGED <<_engine, config_model, switch_vars, model, loads, memory, left_behind,
                 accepting, stopped, at>>

\* The engine ends a request, for as long as its threads run.
EndRequest(r) ==
  /\ request[r] = "accepted"
  /\ at[r] \notin stopped
  /\ request' = [request EXCEPT ![r] = "ended"]
  /\ outstanding' = [outstanding EXCEPT ![at[r]] = @ \ {r}]
  /\ UNCHANGED <<_engine, config_model, switch_vars, model, loads, memory, left_behind,
                 accepting, stopped, at>>
-----------------------------------------------------------------------------
(* switch_model *)

AlreadyServed(t) == target[t] = config_model /\ _engine # NoEngine

Acquire(t) ==
  /\ lock = {}
  /\ lock' = {t}
  /\ IF AlreadyServed(t)
     THEN /\ Go(t, "called", "return")
          /\ UNCHANGED <<_engine, previous, old>>
     ELSE /\ Go(t, "called", IF _engine = NoEngine THEN "release" ELSE "close")
          /\ previous' = [previous EXCEPT ![t] = config_model]
          /\ old' = [old EXCEPT ![t] = _engine]
          /\ _engine' = NoEngine
  /\ UNCHANGED <<config_model, target, failed, engine_vars, io_vars>>

closedMut_NotAtAll(e) == accepting

closed(e) == accepting \ {e}

CloseIngress(t) ==
  /\ Go(t, "close", "drain")
  /\ accepting' = closed(old[t])
  /\ UNCHANGED <<_engine, config_model, lock, target, previous, old, failed, model, loads,
                 memory, left_behind, stopped, outstanding, io_vars>>

\* The poll of is_idle.
Drained(t) ==
  /\ Go(t, "drain", "stop")
  /\ outstanding[old[t]] = {}
  /\ UNCHANGED <<_engine, config_model, lock, target, previous, old, failed, engine_vars,
                 io_vars>>

\* stop: both threads are joined, or a join times out.
Stop(t) ==
  /\ Go(t, "stop", "release")
  /\ stopped' = stopped \cup {old[t]}
  /\ left_behind' \in {left_behind, left_behind \cup {old[t]}}
  /\ UNCHANGED <<_engine, config_model, lock, target, previous, old, failed, model, loads,
                 memory, accepting, outstanding, io_vars>>

\* A submission still has the engine in hand.
InHand == {at[r] : r \in {q \in Requests : request[q] = "submitting"}}

collectMut_KeepsOld == UNCHANGED <<memory, left_behind>>

\* _release_gpu_memory: what nothing refers to is collected.
collect ==
  /\ left_behind' = left_behind \cup (InHand \cap stopped)
  /\ memory' = memory \cap left_behind'

Release(t) ==
  /\ Go(t, "release", "load")
  /\ collect
  /\ UNCHANGED <<_engine, config_model, lock, target, previous, old, failed, model, loads,
                 accepting, stopped, outstanding, io_vars>>

\* _load takes memory for the weights, then for the pool.
StartLoad(t, from, to, m) ==
  /\ Go(t, from, to)
  /\ loads' = loads + 1
  /\ model' = [model EXCEPT ![loads + 1] = m]
  /\ memory' = memory \cup {loads + 1}
  /\ UNCHANGED <<_engine, config_model, lock, target, previous, old, failed, left_behind,
                 accepting, stopped, outstanding, io_vars>>

Load(t) == StartLoad(t, "load", "loading", target[t])

Reload(t) == StartLoad(t, "reload", "reloading", previous[t])

LoadedMut_NamesTarget(t) ==
  /\ Go(t, "loading", "return") \/ Go(t, "reloading", "return")
  /\ _engine' = loads
  /\ config_model' = target[t]
  /\ accepting' = accepting \cup {loads}
  /\ UNCHANGED <<lock, target, previous, old, failed, model, loads, memory, left_behind,
                 stopped, outstanding, io_vars>>

\* The engine has been started and is _config's; the handle serves it.
Loaded(t) ==
  /\ Go(t, "loading", "return") \/ Go(t, "reloading", "return")
  /\ _engine' = loads
  /\ config_model' = model[loads]
  /\ accepting' = accepting \cup {loads}
  /\ UNCHANGED <<lock, target, previous, old, failed, model, loads, memory, left_behind,
                 stopped, outstanding, io_vars>>

\* The first failure is caught; what it had loaded is still referred to until
\* the second release.
LoadFails(t) ==
  /\ Go(t, "loading", "release_failed")
  /\ failed' = [failed EXCEPT ![t] = TRUE]
  /\ UNCHANGED <<_engine, config_model, lock, target, previous, old, engine_vars, io_vars>>

ReleaseFailed(t) ==
  /\ Go(t, "release_failed", "reload")
  /\ collect
  /\ UNCHANGED <<_engine, config_model, lock, target, previous, old, failed, model, loads,
                 accepting, stopped, outstanding, io_vars>>

ReloadFailsMut_KeepsLock(t) ==
  /\ Go(t, "reloading", "done")
  /\ UNCHANGED <<_engine, config_model, lock, target, previous, old, failed, engine_vars,
                 io_vars>>

\* A second failure is raised: the handle serves nothing.
ReloadFails(t) ==
  /\ Go(t, "reloading", "return")
  /\ UNCHANGED <<_engine, config_model, lock, target, previous, old, failed, engine_vars,
                 io_vars>>

Return(t) ==
  /\ Go(t, "return", "done")
  /\ lock' = {}
  /\ UNCHANGED <<_engine, config_model, target, previous, old, failed, engine_vars, io_vars>>

Switch(t) ==
  \/ Acquire(t) \/ CloseIngress(t) \/ Drained(t) \/ Stop(t) \/ Release(t)
  \/ Load(t) \/ Loaded(t) \/ LoadFails(t) \/ ReleaseFailed(t) \/ Reload(t) \/ ReloadFails(t)
  \/ Return(t)

Next ==
  \/ \E t \in Switchers : Switch(t)
  \/ \E r \in Requests : ReadEngine(r) \/ Submit(r) \/ EndRequest(r)

Spec == Init /\ [][Next]_vars

\* Threads run, and loads return one way or the other.  Nothing makes an engine end
\* what it has accepted: module Engine is checked for that with prompts that one
\* chunk covers, and with longer ones its thread may block with two of them running
\* (EmptyPlanLeavesNothingRunning).
FairSpec == Spec /\ \A t \in Switchers : WF_vars(Switch(t))
-----------------------------------------------------------------------------
\* The GPU holds one model at a time, failed loads and the engine being drained
\* included, but for an engine that one of its threads, or a request that was
\* being submitted to it, outlived.
OneModelInMemory == Cardinality(memory \ left_behind) =< 1

\* No request is stopped with its engine: one that read the engine before it was
\* replaced is either accepted in time to be drained or refused.
NoRequestIsStopped == \A e \in stopped : outstanding[e] = {}

\* What the handle names is what it serves; and a switch that failed has left the
\* previous model in service or, if the reload failed as well, nothing.
ServesWhatItNames ==
  /\ _engine # NoEngine => config_model = model[_engine] /\ _engine \in accepting \ stopped
  /\ \A t \in Switchers : pc[t] = "return" =>
       config_model = IF failed[t] \/ _engine = NoEngine THEN previous[t] ELSE target[t]

\* A switch polls is_idle, without a deadline, for an engine that has not ended what
\* it accepted.
Draining == \E t \in Switchers : pc[t] = "drain" /\ outstanding[old[t]] # {}

\* Every switch returns, unless one of them drains for ever an engine that never
\* ends a request it has accepted: that is all that can hold the lock, through
\* failed loads and reloads and whatever was submitted while the engine changed.
\* With such a request every later switch waits for the lock as well.
SwitchReturns ==
  \/ <>[]Draining
  \/ \A t \in Switchers : pc[t] = "called" ~> pc[t] = "done"
=============================================================================
