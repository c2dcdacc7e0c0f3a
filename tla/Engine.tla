-------------------------------- MODULE Engine --------------------------------
(***************************************************************************)
(* InferenceEngine: the scheduler thread around module Scheduler, the GPU  *)
(* worker thread, the IO thread that submits, and the thread that drains   *)
(* and stops the engine on a model switch.  Three SimpleQueues connect     *)
(* them: ingress, plan_queue and results_queue.                            *)
(*                                                                         *)
(* The scheduler thread's position is module Scheduler's `phase`, plus:    *)
(*   at_top        it is about to evaluate `while not self._stop.is_set()` *)
(*   in_flight     (not at_top) it is in self._results_queue.get()         *)
(*   blocked       it is in self.ingress.get()                             *)
(*   crash, crash_drain, crash_abort   the except clause of _scheduler_loop*)
(*   exited        the thread has returned                                 *)
(***************************************************************************)
EXTENDS Scheduler

CONSTANT None   \* what `stop` puts on a queue to wake its reader

ASSUME EngineAssumption == None \notin Sequences

VARIABLES
  ingress,        \* SimpleQueue: requests and None
  plan_queue,     \* SimpleQueue: "plan" and "None"; the plan itself is `entries`
  results_queue,  \* SimpleQueue: outcomes of forward
  accepting,      \* _accepting, guarded by _ingress_lock
  submitted,      \* the requests _submitted counts
  ended,          \* the requests _ended counts
  stop,           \* _stop
  failed,         \* _failed
  at_top,
  worker,         \* GPU worker: "get", "forward" or "exited"
  stopper         \* the thread that switches models

engine_vars == <<ingress, plan_queue, results_queue, accepting, submitted, ended, stop,
                 failed, at_top, worker, stopper>>
evars == <<vars, engine_vars>>
-----------------------------------------------------------------------------
EngineInit ==
  /\ Init
  /\ ingress = <<>>
  /\ plan_queue = <<>>
  /\ results_queue = <<>>
  /\ accepting = TRUE
  /\ submitted = {}
  /\ ended = {}
  /\ stop = FALSE
  /\ failed = FALSE
  /\ at_top = TRUE
  /\ worker = "get"
  /\ stopper = "serving"

\* The IO thread: the accepting check and the put are one critical section.
Submit(s) ==
  /\ accepting
  /\ s \notin submitted
  /\ \A t \in Sequences : t < s => t \in submitted
  /\ submitted' = submitted \cup {s}
  /\ ingress' = Append(ingress, s)
  /\ UNCHANGED <<vars, plan_queue, results_queue, accepting, ended, stop, failed, at_top,
                 worker, stopper>>
-----------------------------------------------------------------------------
(* The scheduler thread *)

CheckStop ==
  /\ at_top
  /\ at_top' = FALSE
  /\ phase' = IF stop THEN "exited" ELSE phase
  /\ UNCHANGED <<kv_vars, seq_vars, queue_vars, plan_vars, index, budget, cap,
                 ingress, plan_queue, results_queue, accepting, submitted, ended, stop,
                 failed, worker, stopper>>

\* self._results_queue.get(), and what _apply does with the outcome.
Await ==
  /\ At("in_flight") /\ ~at_top /\ results_queue # <<>>
  /\ GoTo(Head(results_queue))
  /\ results_queue' = Tail(results_queue)
  /\ UNCHANGED <<kv_vars, seq_vars, queue_vars, plan_vars, budget, cap,
                 ingress, plan_queue, accepting, submitted, ended, stop, failed, at_top,
                 worker, stopper>>

\* The turns of the loops that fold an outcome in.
Fold ==
  /\ (\E eos \in BOOLEAN : ApplyResult(eos)) \/ NoResult \/ AbortEntry
  /\ UNCHANGED engine_vars

EndedNow == {s \in Sequences : Ended(s)}

\* _end, for every sequence the loop has ended.
EndFold ==
  /\ EndIteration
  /\ ended' = EndedNow
  /\ UNCHANGED <<ingress, plan_queue, results_queue, accepting, submitted, stop, failed,
                 at_top, worker, stopper>>

\* One turn of _drain_ingress, while the loop or the except clause runs it.
DrainIngress ==
  /\ At("drain") \/ At("crash_drain")
  /\ ~at_top
  /\ ingress # <<>>
  /\ IF Head(ingress) = None
     THEN UNCHANGED vars
     ELSE AdmitIngress(Head(ingress)) /\ UNCHANGED <<phase, index>>
  /\ ingress' = Tail(ingress)
  /\ UNCHANGED <<plan_queue, results_queue, accepting, submitted, ended, stop, failed,
                 at_top, worker, stopper>>

\* get_nowait raises Empty: scheduler_step begins.
StartStep ==
  /\ ~at_top /\ ingress = <<>>
  /\ BeginStep
  /\ UNCHANGED engine_vars

Planning ==
  /\ \/ SkipDecode \/ PlanDecode \/ PreemptForDecode \/ EndDecodes
     \/ SkipContinuation \/ PlanContinuation \/ BlockContinuation \/ EndContinuations
     \/ Reject \/ PassOver \/ Admit \/ EndAdmissions
     \/ AbortRejected
  /\ UNCHANGED engine_vars

\* The plan is put on plan_queue, or there is none and the thread waits for a
\* request.
PutPlan ==
  /\ HandOver
  /\ ended' = EndedNow
  /\ IF entries # <<>>
     THEN plan_queue' = Append(plan_queue, "plan") /\ at_top' = TRUE
     ELSE UNCHANGED <<plan_queue, at_top>>
  /\ UNCHANGED <<ingress, results_queue, accepting, submitted, stop, failed, worker, stopper>>

\* self._admit_ingress(self.ingress.get())
BlockingGet ==
  /\ At("blocked")
  /\ ingress # <<>>
  /\ IF Head(ingress) = None
     THEN GoTo("drain") /\ UNCHANGED <<kv_vars, seq_vars, queue_vars, plan_vars, budget, cap>>
     ELSE Arrive(Head(ingress))
  /\ ingress' = Tail(ingress)
  /\ at_top' = TRUE
  /\ UNCHANGED <<plan_queue, results_queue, accepting, submitted, ended, stop, failed,
                 worker, stopper>>

CloseIngress == accepting' = FALSE

\* DeviceLost reaches _scheduler_loop: nothing more is accepted...
Crash ==
  /\ At("crash")
  /\ failed' = TRUE
  /\ CloseIngress
  /\ GoTo("crash_drain")
  /\ UNCHANGED <<kv_vars, seq_vars, queue_vars, plan_vars, budget, cap,
                 ingress, plan_queue, results_queue, submitted, ended, stop, at_top, worker,
                 stopper>>

OutstandingMut_RunningOnly == Range(running)

Outstanding == Range(running) \cup Range(waiting)

\* ... and, once what had been accepted is drained, every request is aborted.
CrashAbort ==
  /\ At("crash_drain")
  /\ ingress = <<>>
  /\ LET all == Outstanding IN
     /\ status' = [s \in Sequences |-> IF s \in all THEN "ABORTED" ELSE status[s]]
     /\ free' = free + SumFunctionOnSet(held, all)
     /\ held' = [s \in Sequences |-> IF s \in all THEN 0 ELSE held[s]]
     /\ slots' = [s \in Sequences |-> IF s \in all THEN 0 ELSE slots[s]]
     /\ ended' = ended \cup all
  /\ running' = <<>>
  /\ waiting' = <<>>
  /\ phase' = "exited"
  /\ UNCHANGED <<shape, generated, prefill_progress, admission_skips, admitted, plan_vars,
                 index, budget, cap, ingress, plan_queue, results_queue, accepting, submitted,
                 stop, failed, at_top, worker, stopper>>

SchedulerThread ==
  \/ CheckStop \/ Await \/ Fold \/ EndFold \/ DrainIngress \/ StartStep \/ Planning
  \/ PutPlan \/ BlockingGet \/ Crash \/ CrashAbort
-----------------------------------------------------------------------------
(* The GPU worker thread *)

\* self._plan_queue.get(): a plan is run, None ends the thread.
WorkerGet ==
  /\ worker = "get"
  /\ plan_queue # <<>>
  /\ worker' = IF Head(plan_queue) = "None" THEN "exited" ELSE "forward"
  /\ plan_queue' = Tail(plan_queue)
  /\ UNCHANGED <<vars, ingress, results_queue, accepting, submitted, ended, stop, failed,
                 at_top, stopper>>

\* forward returns tokens, or raises and leaves the device usable or lost.
WorkerPut ==
  /\ worker = "forward"
  /\ \E outcome \in {"results", "failed", "crash"} :
       results_queue' = Append(results_queue, outcome)
  /\ worker' = "get"
  /\ UNCHANGED <<vars, ingress, plan_queue, accepting, submitted, ended, stop, failed,
                 at_top, stopper>>

WorkerThread == WorkerGet \/ WorkerPut
-----------------------------------------------------------------------------
(* switch_model, on the engine it replaces: close, poll until idle, stop *)

BeginSwitch ==
  /\ stopper = "serving"
  /\ stopper' = "draining"
  /\ accepting' = FALSE
  /\ UNCHANGED <<vars, ingress, plan_queue, results_queue, submitted, ended, stop, failed,
                 at_top, worker>>

is_idleMut_QueuesEmpty == ingress = <<>> /\ waiting = <<>>

is_idle == ended = submitted

SetStop ==
  /\ stopper = "draining" /\ is_idle
  /\ stopper' = "wake_scheduler"
  /\ stop' = TRUE
  /\ UNCHANGED <<vars, ingress, plan_queue, results_queue, accepting, submitted, ended,
                 failed, at_top, worker>>

WakeScheduler ==
  /\ stopper = "wake_scheduler"
  /\ stopper' = "wake_worker"
  /\ ingress' = Append(ingress, None)
  /\ UNCHANGED <<vars, plan_queue, results_queue, accepting, submitted, ended, stop, failed,
                 at_top, worker>>

WakeWorker ==
  /\ stopper = "wake_worker"
  /\ stopper' = "joining"
  /\ plan_queue' = Append(plan_queue, "None")
  /\ UNCHANGED <<vars, ingress, results_queue, accepting, submitted, ended, stop, failed,
                 at_top, worker>>

\* Both joins return, or time out and leave a thread behind.
Joined ==
  /\ stopper = "joining"
  /\ stopper' = IF phase = "exited" /\ worker = "exited" THEN "stopped" ELSE "gave_up"
  /\ UNCHANGED <<vars, ingress, plan_queue, results_queue, accepting, submitted, ended, stop,
                 failed, at_top, worker>>

Stopper == BeginSwitch \/ SetStop \/ WakeScheduler \/ WakeWorker \/ Joined

EngineNext ==
  \/ SchedulerThread
  \/ WorkerThread
  \/ Stopper
  \/ \E s \in Sequences : Submit(s)

EngineSpec == EngineInit /\ [][EngineNext]_evars

\* Threads run; no request has to come and no switch has to begin, but one that
\* has begun goes on.
EngineFairSpec ==
  /\ EngineSpec
  /\ WF_evars(SchedulerThread)
  /\ WF_evars(WorkerThread)
  /\ WF_evars(SetStop \/ WakeScheduler \/ WakeWorker)
=============================================================================
