----------------------------- MODULE EngineProofs -----------------------------
(***************************************************************************)
(* For every pool, policy, budget and set of requests: the threads of the  *)
(* engine around the scheduler.  What module SchedulerProofs shows of      *)
(* the scheduler holds between the queues too; the worker reads a state    *)
(* that nobody changes; the engine implements module Service; and an       *)
(* engine that reports itself idle is.                                     *)
(*                                                                         *)
(* The argument is one: at most one plan is anywhere between PutPlan and   *)
(* Await, the scheduler waits as long as it is, and its sequences are live *)
(* until then, so no request of theirs is counted as ended.                *)
(***************************************************************************)
EXTENDS EngineProperties, SchedulerProofs

EnginePhases == Phases \cup {"crash", "crash_drain", "exited"}

EngineTypeOK ==
  /\ ingress \in Seq(Sequences \cup {None})
  /\ plan_queue \in Seq({"plan", "None"})
  /\ results_queue \in Seq({"results", "failed", "crash"})
  /\ accepting \in BOOLEAN
  /\ submitted \in SUBSET Sequences
  /\ ended \in SUBSET Sequences
  /\ stop \in BOOLEAN
  /\ phase \in EnginePhases
  /\ worker \in {"get", "forward", "exited"}

\* While it schedules, the thread keeps all that module Scheduler keeps.
KnownInv ==
  /\ phase \in Phases => Known
  /\ phase = "drain" => index = 1

\* What is left of that in the except clause and after it.
QueuesInv ==
  /\ status \in [Sequences -> Statuses]
  /\ running \in Seq(Sequences)
  /\ waiting \in Seq(Sequences)
  /\ \A s \in Sequences : /\ s \in Range(running) <=> Live(s)
                          /\ s \in Range(waiting) => status[s] = "WAITING"

HeldInv ==
  phase # "exited" => KVTypeOK /\ \A s \in Sequences : ~ Live(s) => held[s] = 0

\* A request in the ingress is there once, has been counted and is not known to the
\* scheduler yet; what the scheduler knows has been counted.
SubmittedInv ==
  /\ \A s \in Sequences : status[s] # "NEW" => s \in submitted
  /\ \A k \in 1 .. Len(ingress) :
       ingress[k] # None => ingress[k] \in submitted /\ status[ingress[k]] = "NEW"
  /\ \A j, k \in 1 .. Len(ingress) :
       ingress[j] = ingress[k] /\ ingress[j] # None => j = k

\* `ended` counts what has ended, and stop comes after the last of it.
EndedInv ==
  /\ \A s \in ended : Ended(s)
  /\ stopper # "serving" => ~ accepting
  /\ stop => ~ accepting /\ ended = submitted

PlanQueued == \E k \in 1 .. Len(plan_queue) : plan_queue[k] = "plan"

\* A plan is in one place from PutPlan to Await.
WorkInv ==
  /\ PlanQueued \/ worker = "forward" \/ results_queue # <<>> => phase = "in_flight"
  /\ phase = "in_flight" => entries # <<>>
  /\ \A j, k \in 1 .. Len(plan_queue) :
       plan_queue[j] = "plan" /\ plan_queue[k] = "plan" => j = k
  /\ worker = "forward" \/ results_queue # <<>> => ~ PlanQueued
  /\ worker = "forward" => results_queue = <<>>
  /\ Len(results_queue) =< 1

EngineInv ==
  EngineTypeOK /\ KnownInv /\ QueuesInv /\ HeldInv /\ SubmittedInv /\ EndedInv /\ WorkInv
-----------------------------------------------------------------------------
(* The scheduler's part *)

\* What the scheduler keeps includes what the engine needs of it.
LEMMA KnownGives ==
  Known => /\ QueuesInv /\ KVTypeOK
           /\ \A s \in Sequences : ~ Live(s) => held[s] = 0
<1> SUFFICES ASSUME Known
             PROVE  /\ QueuesInv /\ KVTypeOK
                    /\ \A s \in Sequences : ~ Live(s) => held[s] = 0
  OBVIOUS
<1>1. TypeOK /\ OnePlace /\ SequenceHoldings
  BY DEF Known, IInv, PlanInv
<1>2. KVTypeOK /\ \A s \in Sequences : ~ Live(s) => held[s] = 0
  BY <1>1 DEF TypeOK, SequenceHoldings
<1> QED
  BY <1>1, <1>2 DEF QueuesInv, TypeOK, OnePlace

\* ... after a step, too.
LEMMA KnownGivesNext ==
  (Known => /\ QueuesInv /\ KVTypeOK
            /\ \A s \in Sequences : ~ Live(s) => held[s] = 0)'
BY KnownGives, PTL

\* A step of the scheduler gives a new status only to a sequence that waits or runs.
LEMMA StatusMoves ==
  ASSUME Known, SchedulerStep \/ Outcome, NEW s \in Sequences, status'[s] # status[s]
  PROVE  status[s] \in {"WAITING", "PREFILLING", "DECODING"} /\ status'[s] # "NEW"
<1>1. /\ TypeOK /\ OnePlace /\ PlanConsistent
      /\ status \in [Sequences -> Statuses] /\ running \in Seq(Sequences)
      /\ waiting \in Seq(Sequences) /\ entries \in Seq(Entries) /\ rejected \in Seq(Sequences)
      /\ index \in Nat \ {0}
  BY DEF Known, IInv, PlanInv, TypeOK
<1>2. ASSUME NEW t \in Sequences, NEW o, o # "NEW",
             status' = [status EXCEPT ![t] = o],
             status[t] \in {"WAITING", "PREFILLING", "DECODING"}
      PROVE  status[s] \in {"WAITING", "PREFILLING", "DECODING"} /\ status'[s] # "NEW"
  BY <1>1, <1>2
<1>3. CASE LoopTurn \/ PlanDecode \/ Reject
  <2>1. UNCHANGED status
    BY <1>3, LoopTurnKeeps DEF PlanDecode, Reject, seq_vars
  <2> QED
    BY <2>1
<1>4. CASE PreemptForDecode
  <2>1. Len(running) > 0
    BY <1>1, <1>4 DEF PreemptForDecode, Turn
  <2>2. Last(running) \in Sequences /\ Live(Last(running))
    <3>1. Last(running) = running[Len(running)] /\ Len(running) \in 1 .. Len(running)
      BY <1>1, <2>1 DEF Last
    <3> QED
      BY <1>1, <3>1 DEF OnePlace, Range
  <2>3. status' = [status EXCEPT ![Last(running)] = "WAITING"]
    BY <1>4 DEF PreemptForDecode, Preempt
  <2> QED
    BY <1>2, <2>2, <2>3 DEF Live
<1>5. CASE PlanContinuation
  <2>1. running[index] \in Sequences /\ status[running[index]] = "PREFILLING"
    BY <1>1, <1>5, TurnType DEF PlanContinuation, Continuing
  <2>2. \E o \in {"DECODING", "PREFILLING"} :
          status' = [status EXCEPT ![running[index]] = o]
    BY <1>5 DEF PlanContinuation, AdvancePrefill
  <2> QED
    BY <1>2, <2>1, <2>2
<1>6. CASE Admit
  <2>1. waiting[index] \in Sequences /\ status[waiting[index]] = "WAITING"
    <3>1. index \in 1 .. Len(waiting)
      BY <1>1, <1>6 DEF Admit, MoreAdmissions, Turn
    <3>2. waiting[index] \in Range(waiting) /\ waiting[index] \in Sequences
      BY <1>1, <3>1 DEF Range
    <3> QED
      BY <1>1, <3>2 DEF OnePlace
  <2>2. \E o \in {"DECODING", "PREFILLING"} :
          status' = [status EXCEPT ![waiting[index]] = o]
    BY <1>6 DEF Admit, Candidate, AdvancePrefill
  <2> QED
    BY <1>2, <2>1, <2>2
<1>7. CASE AbortRejected
  <2>1. rejected[index] \in Sequences /\ rejected[index] \in ToReject
    <3>1. index \in index .. Len(rejected) /\ At("rejects") /\ index \in 1 .. Len(rejected)
      BY <1>1, <1>7 DEF AbortRejected, Turn
    <3> QED
      BY <1>1, <3>1 DEF ToReject
  <2>2. status[rejected[index]] = "WAITING"
    BY <1>1, <2>1 DEF OnePlace
  <2>3. status' = [status EXCEPT ![rejected[index]] = "ABORTED"]
    BY <1>7 DEF AbortRejected, EndAs
  <2> QED
    BY <1>2, <2>1, <2>2, <2>3
<1>8. CASE AbortEntry \/ \E eos \in BOOLEAN : ApplyResult(eos)
  <2>1. entries[index] \in Entries /\ entries[index] \in Pending
    <3>1. /\ index \in index .. Len(entries) /\ index \in 1 .. Len(entries)
          /\ At("results") \/ At("failed")
      BY <1>1, <1>8 DEF AbortEntry, ApplyResult, Turn
    <3> QED
      BY <1>1, <3>1 DEF Pending
  <2>2. entries[index].seq_id \in Sequences /\ Live(entries[index].seq_id)
    BY <1>1, <2>1 DEF PlanConsistent, Entries
  <2>3. \/ UNCHANGED status
        \/ \E o \in {"DONE", "ABORTED"} :
             status' = [status EXCEPT ![entries[index].seq_id] = o]
    BY <1>8 DEF AbortEntry, ApplyResult, EndAs
  <2> QED
    BY <1>2, <2>2, <2>3 DEF Live
<1> QED
  BY <1>3, <1>4, <1>5, <1>6, <1>7, <1>8 DEF SchedulerStep, Outcome, LoopTurn

\* The drain begins at the first request.
LEMMA DrainBegins ==
  ASSUME phase = "drain" => index = 1, SchedulerStep \/ Outcome
  PROVE  phase' = "drain" => index' = 1
<1>1. CASE LoopTurn
  BY <1>1 DEF LoopTurn, BeginStep, SkipDecode, EndDecodes, SkipContinuation,
     BlockContinuation, EndContinuations, PassOver, EndAdmissions, HandOver, Forward,
     NoResult, EndIteration, GoTo, Step, At
<1>2. CASE \/ PlanDecode \/ PreemptForDecode \/ PlanContinuation \/ Reject \/ Admit
           \/ AbortRejected \/ AbortEntry \/ \E eos \in BOOLEAN : ApplyResult(eos)
  BY <1>2 DEF PlanDecode, PreemptForDecode, PlanContinuation, Reject, Admit, AbortRejected,
     AbortEntry, ApplyResult, Step, At, loop_vars
<1> QED
  BY <1>1, <1>2 DEF SchedulerStep, Outcome, LoopTurn

\* Waking up without a request leaves the scheduler where it would have been.
LEMMA WakeKeepsKnown ==
  ASSUME Known, UNCHANGED <<kv_vars, seq_vars, queue_vars, plan_vars, budget, cap>>,
         phase = "blocked", phase' = "drain", index' = 1
  PROVE  Known'
<1>1. TypeOK /\ ProgressBounded /\ SkipsBounded /\ CursorInv
  BY DEF Known, IInv, PlanInv
<1>2. UNCHANGED <<free, held, slots, status, shape, generated, prefill_progress,
                  admission_skips, admitted, running, waiting, entries, preempted, rejected>>
  BY DEF kv_vars, seq_vars, queue_vars, plan_vars
<1>3. TypeOK'
  <2>1. KVTypeOK' /\ phase' \in Phases
    BY <1>1, <1>2 DEF TypeOK, KVTypeOK, Phases
  <2> QED
    BY <1>1, <1>2, <2>1 DEF TypeOK
<1>4. ProgressBounded' /\ SkipsBounded'
  BY <1>1, <1>2 DEF ProgressBounded, SkipsBounded, num_tokens
<1>5. Pending' = Pending /\ ToReject' = ToReject
  BY <1>2 DEF Pending, ToReject, At
<1>6. \A s \in Sequences : PendingFor(s)' <=> PendingFor(s)
  BY <1>5 DEF PendingFor
<1>7. CursorInv'
  BY <1>1, <1>2 DEF CursorInv, At
<1>8. IInv /\ PlanInv
  BY DEF Known
<1>9. PlanInv'
  BY <1>2, <1>5, <1>6, <1>7, <1>8, UnchangedSequences
<1> QED
  BY <1>3, <1>4, <1>9 DEF Known, IInv

\* The scheduler's part of the state, in a step of the engine: it is a step of module
\* Scheduler, the admission of what is at the head of the ingress, the end of
\* everything, or nothing but the loop's position.
SchedulerMoves ==
  /\ phase \in Phases /\ (SchedulerStep \/ Outcome)
  /\ UNCHANGED <<ingress, submitted, accepting, stop, stopper>>

HeadAdmitted ==
  \E s \in Sequences :
    /\ ingress # <<>> /\ s = Head(ingress) /\ ingress' = Tail(ingress)
    /\ AdmitIngress(s)
    /\ \/ phase \in Phases /\ Arrive(s)
       \/ phase = "crash_drain" /\ UNCHANGED phase
    /\ UNCHANGED <<plan_queue, results_queue, accepting, submitted, ended, stop, worker, stopper>>

OnlyThreads ==
  /\ UNCHANGED <<kv_vars, seq_vars, queue_vars, plan_vars>>
  /\ \/ UNCHANGED vars
     \/ phase # "exited" /\ phase' \in EnginePhases \ Phases
     \/ phase = "blocked" /\ GoTo("drain") /\ UNCHANGED <<budget, cap>>

LEMMA Moves ==
  ASSUME EngineTypeOK, KnownInv, [EngineNext]_evars
  PROVE  SchedulerMoves \/ HeadAdmitted \/ OnlyThreads \/ CrashAbort
<1>1. CASE Fold \/ EndFold \/ StartStep \/ Planning \/ PutPlan
  <2>1. SchedulerStep \/ Outcome
    BY <1>1 DEF Fold, EndFold, StartStep, Planning, PutPlan, SchedulerStep, Outcome
  <2>2. UNCHANGED <<ingress, submitted, accepting, stop, stopper>>
    BY <1>1 DEF Fold, EndFold, StartStep, Planning, PutPlan, engine_vars
  <2>3. phase \in Phases
    <3>1. CASE Fold \/ EndFold \/ StartStep \/ PutPlan
      BY <3>1 DEF Fold, EndFold, StartStep, PutPlan, ApplyResult, NoResult, AbortEntry,
         EndIteration, BeginStep, HandOver, At, Phases
    <3>2. CASE Planning
      BY <3>2 DEF Planning, SkipDecode, PlanDecode, PreemptForDecode, EndDecodes,
         SkipContinuation, PlanContinuation, BlockContinuation, EndContinuations,
         Reject, PassOver, Admit, EndAdmissions, AbortRejected, At, Phases
    <3> QED
      BY <1>1, <3>1, <3>2
  <2> QED
    BY <2>1, <2>2, <2>3 DEF SchedulerMoves
<1>2. CASE CheckStop
  <2>1. /\ UNCHANGED <<kv_vars, seq_vars, queue_vars, plan_vars, index, budget, cap>>
        /\ phase' \in {phase, "exited"}
    BY <1>2 DEF CheckStop
  <2>2. CASE phase' = phase
    <3>1. UNCHANGED vars
      BY <2>1, <2>2 DEF vars, loop_vars
    <3> QED
      BY <2>1, <3>1 DEF OnlyThreads
  <2>3. CASE phase' = "exited" /\ phase' # phase
    BY <2>1, <2>3 DEF OnlyThreads, EnginePhases, Phases
  <2> QED
    BY <2>1, <2>2, <2>3
<1>3. CASE Await
  <2>1. /\ UNCHANGED <<kv_vars, seq_vars, queue_vars, plan_vars, budget, cap>>
        /\ phase = "in_flight" /\ GoTo(Head(results_queue)) /\ results_queue # <<>>
        /\ UNCHANGED <<ingress, submitted, accepting, stop, stopper>>
    BY <1>3 DEF Await, At
  <2>2. Head(results_queue) \in {"results", "failed", "crash"}
    BY <2>1 DEF EngineTypeOK
  <2>3. CASE Head(results_queue) = "crash"
    BY <2>1, <2>3 DEF OnlyThreads, GoTo, EnginePhases, Phases
  <2>4. CASE Head(results_queue) # "crash"
    <3>1. Forward
      BY <2>1, <2>2, <2>4 DEF Forward, At
    <3> QED
      BY <2>1, <3>1 DEF SchedulerMoves, Outcome, Phases
  <2> QED
    BY <2>3, <2>4
<1>4. CASE (DrainIngress \/ BlockingGet) /\ Head(ingress) = None
  <2>1. CASE DrainIngress
    BY <1>4, <2>1 DEF DrainIngress, OnlyThreads, vars
  <2>2. CASE BlockingGet
    BY <1>4, <2>2 DEF BlockingGet, OnlyThreads, At
  <2> QED
    BY <1>4, <2>1, <2>2
<1>5. CASE (DrainIngress \/ BlockingGet) /\ Head(ingress) # None
  <2> DEFINE s == Head(ingress)
  <2>1. /\ ingress # <<>> /\ ingress' = Tail(ingress)
        /\ UNCHANGED <<plan_queue, results_queue, accepting, submitted, ended, stop, worker,
                       stopper>>
    BY <1>5 DEF DrainIngress, BlockingGet
  <2>2. s \in Sequences
    <3>1. ingress \in Seq(Sequences \cup {None}) /\ s \in Sequences \cup {None}
      BY <2>1 DEF EngineTypeOK
    <3> QED
      BY <1>5, <3>1
  <2>3. /\ AdmitIngress(s)
        /\ \/ phase \in Phases /\ Arrive(s)
           \/ phase = "crash_drain" /\ UNCHANGED phase
    <3>1. CASE DrainIngress
      <4>1. AdmitIngress(s) /\ UNCHANGED <<phase, index>> /\ phase \in {"drain", "crash_drain"}
        BY <1>5, <3>1 DEF DrainIngress, At
      <4>2. phase = "drain" => Arrive(s) /\ phase \in Phases
        BY <4>1 DEF KnownInv, Arrive, At, GoTo, Phases
      <4> QED
        BY <4>1, <4>2
    <3>2. CASE BlockingGet
      <4>1. Arrive(s) /\ phase = "blocked"
        BY <1>5, <3>2 DEF BlockingGet, At
      <4>2. AdmitIngress(s)
        BY <4>1 DEF Arrive
      <4>3. phase \in Phases
        BY <4>1 DEF Phases
      <4> QED
        BY <4>1, <4>2, <4>3
    <3> QED
      BY <1>5, <3>1, <3>2
  <2> HIDE DEF s
  <2>4. s = Head(ingress)
    BY DEF s
  <2> QED
    BY <2>1, <2>2, <2>3, <2>4 DEF HeadAdmitted
<1>6. CASE Crash
  BY <1>6 DEF Crash, OnlyThreads, GoTo, At, EnginePhases, Phases
<1>7. CASE WorkerThread \/ Stopper \/ (\E s \in Sequences : Submit(s)) \/ UNCHANGED evars
  <2>1. UNCHANGED vars
    BY <1>7 DEF WorkerThread, WorkerGet, WorkerPut, Stopper, BeginSwitch, SetStop,
       WakeScheduler, WakeWorker, Joined, Submit, evars
  <2> QED
    BY <2>1 DEF OnlyThreads, vars
<1> QED
  BY <1>1, <1>2, <1>3, <1>4, <1>5, <1>6, <1>7 DEF EngineNext, SchedulerThread
-----------------------------------------------------------------------------
(* The invariant, part by part *)

LEMMA KnownStep ==
  ASSUME EngineTypeOK, KnownInv, [EngineNext]_evars
  PROVE  KnownInv'
<1>1. CASE SchedulerMoves
  <2>1. Known /\ [Next]_vars
    BY <1>1 DEF SchedulerMoves, KnownInv, Next
  <2>2. Known'
    BY <2>1, NextInv, NextPlan DEF Known
  <2>3. phase' = "drain" => index' = 1
    BY <1>1, DrainBegins DEF SchedulerMoves, KnownInv
  <2> QED
    BY <2>2, <2>3 DEF KnownInv
<1>2. ASSUME NEW s \in Sequences, phase \in Phases, Arrive(s)
      PROVE  KnownInv'
  <2>1. Known /\ [Next]_vars
    BY <1>2 DEF KnownInv, Next
  <2>2. Known'
    BY <2>1, NextInv, NextPlan DEF Known
  <2>3. index' = 1
    BY <1>2 DEF Arrive, GoTo
  <2> QED
    BY <2>2, <2>3 DEF KnownInv
<1>3. CASE HeadAdmitted
  BY <1>2, <1>3 DEF HeadAdmitted, KnownInv, Phases
<1>4. CASE UNCHANGED vars
  <2>1. phase' = phase /\ index' = index
    BY <1>4 DEF vars, loop_vars
  <2>2. Known => Known'
    <3>1. [Next]_vars
      BY <1>4
    <3> QED
      BY <3>1, NextInv, NextPlan DEF Known
  <2> QED
    BY <2>1, <2>2 DEF KnownInv
<1>5. CASE phase = "blocked" /\ GoTo("drain") /\ UNCHANGED <<budget, cap>>
           /\ UNCHANGED <<kv_vars, seq_vars, queue_vars, plan_vars>>
  <2>1. Known
    BY <1>5 DEF KnownInv, Phases
  <2>2. phase = "blocked" /\ phase' = "drain" /\ index' = 1
    BY <1>5 DEF GoTo
  <2>3. Known'
    BY <1>5, <2>1, <2>2, WakeKeepsKnown
  <2> QED
    BY <2>2, <2>3 DEF KnownInv
<1>6. CASE phase' \notin Phases
  BY <1>6 DEF KnownInv, Phases
<1>7. CASE CrashAbort
  BY <1>6, <1>7 DEF CrashAbort, Phases
<1>8. CASE OnlyThreads
  BY <1>4, <1>5, <1>6, <1>8 DEF OnlyThreads
<1> QED
  BY <1>1, <1>3, <1>7, <1>8, Moves

\* A step of module Scheduler gives what the engine needs of it.
LEMMA SchedulerGives ==
  ASSUME KnownInv, phase \in Phases, [Next]_vars
  PROVE  QueuesInv' /\ HeldInv'
<1>1. Known'
  <2>1. Known
    BY DEF KnownInv
  <2> QED
    BY <2>1, NextInv, NextPlan DEF Known
<1> QED
  BY <1>1, KnownGivesNext DEF HeldInv

\* A request joins the tail of `waiting`.
LEMMA AdmitKeepsQueues ==
  ASSUME QueuesInv, HeldInv, phase # "exited", NEW s \in Sequences, AdmitIngress(s)
  PROVE  QueuesInv' /\ HeldInv'
<1>1. /\ status[s] = "NEW" /\ status' = [status EXCEPT ![s] = "WAITING"]
      /\ waiting' = Append(waiting, s)
      /\ UNCHANGED <<running, free, held, slots>>
  BY DEF AdmitIngress, kv_vars
<1>2. /\ status \in [Sequences -> Statuses] /\ waiting \in Seq(Sequences)
      /\ running \in Seq(Sequences)
  BY DEF QueuesInv
<1>3. status' \in [Sequences -> Statuses] /\ waiting' \in Seq(Sequences)
  BY <1>1, <1>2 DEF Statuses
<1>4. /\ status'[s] = "WAITING"
      /\ \A t \in Sequences \ {s} : status'[t] = status[t]
  BY <1>1, <1>2
<1>5. \A t \in Range(waiting') : t \in Range(waiting) \/ t = s
  BY <1>1, <1>2 DEF Range
<1>6. \A t \in Sequences : status'[t] \in {"PREFILLING", "DECODING"} <=> Live(t)
  BY <1>1, <1>4 DEF Live
<1>7. QueuesInv'
  <2>1. \A t \in Sequences :
          /\ t \in Range(running') <=> status'[t] \in {"PREFILLING", "DECODING"}
          /\ t \in Range(waiting') => status'[t] = "WAITING"
    BY <1>1, <1>4, <1>5, <1>6 DEF QueuesInv
  <2>2. running' \in Seq(Sequences)
    BY <1>1, <1>2
  <2> QED
    BY <1>3, <2>1, <2>2 DEF QueuesInv, Live
<1>8. HeldInv'
  BY <1>1, <1>6 DEF HeldInv, KVTypeOK, Live
<1> QED
  BY <1>7, <1>8

\* Everybody in a queue is aborted, and both are emptied.
LEMMA CrashEmptiesQueues ==
  ASSUME QueuesInv, CrashAbort
  PROVE  QueuesInv' /\ HeldInv'
<1>1. /\ status' = [s \in Sequences |-> IF s \in Outstanding THEN "ABORTED" ELSE status[s]]
      /\ running' = <<>> /\ waiting' = <<>> /\ phase' = "exited"
  BY DEF CrashAbort
<1>2. status' \in [Sequences -> Statuses]
  BY <1>1 DEF QueuesInv, Statuses
<1>3. \A s \in Sequences : ~ (status'[s] \in {"PREFILLING", "DECODING"})
  BY <1>1 DEF QueuesInv, Outstanding, Live
<1>4. Range(running') = {} /\ Range(waiting') = {}
  BY <1>1 DEF Range
<1>5. running' \in Seq(Sequences) /\ waiting' \in Seq(Sequences)
  BY <1>1
<1> QED
  BY <1>1, <1>2, <1>3, <1>4, <1>5 DEF QueuesInv, HeldInv, Live

LEMMA QueuesStep ==
  ASSUME EngineTypeOK, KnownInv, QueuesInv, HeldInv, [EngineNext]_evars
  PROVE  QueuesInv' /\ HeldInv'
<1>1. CASE SchedulerMoves
  BY <1>1, SchedulerGives DEF SchedulerMoves, Next
<1>2. CASE HeadAdmitted
  BY <1>2, AdmitKeepsQueues DEF HeadAdmitted, Phases
<1>3. CASE OnlyThreads
  <2>1. UNCHANGED <<status, running, waiting, free, held, slots>>
    BY <1>3 DEF OnlyThreads, kv_vars, seq_vars, queue_vars
  <2>2. phase = "exited" => phase' = "exited"
    BY <1>3 DEF OnlyThreads, vars, loop_vars
  <2>3. QueuesInv'
    BY <2>1 DEF QueuesInv, Live
  <2>4. HeldInv'
    BY <2>1, <2>2 DEF HeldInv, KVTypeOK, Live
  <2> QED
    BY <2>3, <2>4
<1>4. CASE CrashAbort
  BY <1>4, CrashEmptiesQueues
<1> QED
  BY <1>1, <1>2, <1>3, <1>4, Moves

\* What a step does to the statuses.
LEMMA StatusStep ==
  ASSUME EngineTypeOK, KnownInv, QueuesInv, [EngineNext]_evars,
         NEW s \in Sequences, status'[s] # status[s]
  PROVE  /\ status'[s] # "NEW"
         /\ \/ status[s] \in {"WAITING", "PREFILLING", "DECODING"}
               /\ ~ HeadAdmitted
            \/ /\ status[s] = "NEW" /\ status'[s] = "WAITING" /\ ingress # <<>>
               /\ s = Head(ingress) /\ ingress' = Tail(ingress)
<1>1. status \in [Sequences -> Statuses]
  BY DEF QueuesInv
<1>2. CASE HeadAdmitted
  <2>1. PICK t \in Sequences : /\ ingress # <<>> /\ t = Head(ingress) /\ ingress' = Tail(ingress)
                               /\ AdmitIngress(t)
    BY <1>2 DEF HeadAdmitted
  <2>2. status[t] = "NEW" /\ status' = [status EXCEPT ![t] = "WAITING"]
    BY <2>1 DEF AdmitIngress
  <2> QED
    BY <1>1, <2>1, <2>2
<1>3. CASE SchedulerMoves /\ ~ HeadAdmitted
  BY <1>3, StatusMoves DEF SchedulerMoves, KnownInv
<1>4. CASE OnlyThreads
  BY <1>4 DEF OnlyThreads, seq_vars
<1>5. CASE CrashAbort /\ ~ HeadAdmitted
  <2>1. s \in Outstanding /\ status'[s] = "ABORTED"
    BY <1>5 DEF CrashAbort
  <2>2. status[s] \in {"WAITING", "PREFILLING", "DECODING"}
    BY <2>1 DEF QueuesInv, Outstanding, Live
  <2> QED
    BY <1>5, <2>1, <2>2
<1> QED
  BY <1>2, <1>3, <1>4, <1>5, Moves

\* What a step does to the ingress.
LEMMA IngressMoves ==
  ASSUME EngineTypeOK, KnownInv, [EngineNext]_evars
  PROVE  \/ UNCHANGED <<ingress, submitted>>
         \/ ingress # <<>> /\ ingress' = Tail(ingress) /\ UNCHANGED submitted
         \/ \E s \in Sequences : Submit(s)
         \/ ingress' = Append(ingress, None) /\ UNCHANGED <<submitted, status>>
<1>1. CASE SchedulerMoves \/ HeadAdmitted
  BY <1>1 DEF SchedulerMoves, HeadAdmitted
<1>2. CASE CheckStop \/ Await \/ Fold \/ EndFold \/ StartStep \/ Planning \/ PutPlan
           \/ Crash \/ CrashAbort
  BY <1>2 DEF CheckStop, Await, Fold, EndFold, StartStep, Planning, PutPlan, Crash,
     CrashAbort, engine_vars
<1>3. CASE DrainIngress \/ BlockingGet
  BY <1>3 DEF DrainIngress, BlockingGet
<1>4. CASE WorkerThread \/ BeginSwitch \/ SetStop \/ WakeWorker \/ Joined \/ UNCHANGED evars
  BY <1>4 DEF WorkerThread, WorkerGet, WorkerPut, BeginSwitch, SetStop, WakeWorker, Joined,
     evars, engine_vars
<1>5. CASE WakeScheduler
  BY <1>5 DEF WakeScheduler, vars, seq_vars
<1> QED
  BY <1>1, <1>2, <1>3, <1>4, <1>5 DEF EngineNext, SchedulerThread, Stopper

LEMMA SubmittedStep ==
  ASSUME EngineTypeOK, KnownInv, QueuesInv, SubmittedInv, [EngineNext]_evars
  PROVE  SubmittedInv'
<1>1. /\ ingress \in Seq(Sequences \cup {None}) /\ Len(ingress) \in Nat
      /\ None \notin Sequences
  BY EngineAssumption DEF EngineTypeOK
<1>2. /\ \A s \in Sequences : status[s] # "NEW" => s \in submitted
      /\ \A k \in 1 .. Len(ingress) :
           ingress[k] # None => ingress[k] \in submitted /\ status[ingress[k]] = "NEW"
      /\ \A j, k \in 1 .. Len(ingress) :
           ingress[j] = ingress[k] /\ ingress[j] # None => j = k
  BY DEF SubmittedInv
<1>3. submitted \subseteq submitted'
  BY IngressMoves DEF Submit
<1>4. ASSUME NEW s \in Sequences, status'[s] # status[s], status[s] = "NEW"
      PROVE  ingress # <<>> /\ s = ingress[1] /\ ingress' = Tail(ingress)
  <2>1. ingress # <<>> /\ s = Head(ingress) /\ ingress' = Tail(ingress)
    BY <1>4, StatusStep
  <2> QED
    BY <1>1, <2>1
<1>5. \A s \in Sequences : status'[s] # "NEW" => s \in submitted'
  <2> SUFFICES ASSUME NEW s \in Sequences, status'[s] # "NEW" PROVE s \in submitted'
    OBVIOUS
  <2>1. CASE status[s] # "NEW"
    BY <1>2, <1>3, <2>1
  <2>2. CASE status[s] = "NEW"
    <3>1. ingress # <<>> /\ s = ingress[1]
      BY <1>4, <2>2
    <3>2. 1 \in 1 .. Len(ingress) /\ ingress[1] # None
      BY <1>1, <3>1
    <3> QED
      BY <1>2, <1>3, <3>1, <3>2
  <2> QED
    BY <2>1, <2>2
<1>6. CASE UNCHANGED <<ingress, submitted>>
  <2>1. \A s \in Sequences : status[s] = "NEW" => status'[s] = "NEW"
    <3> SUFFICES ASSUME NEW s \in Sequences, status[s] = "NEW", status'[s] # "NEW"
                 PROVE  FALSE
      OBVIOUS
    <3>1. ingress # <<>>
      BY <1>4
    <3>2. Len(Tail(ingress)) = Len(ingress) - 1 /\ Len(ingress) \in Nat
      BY <1>1, <3>1
    <3>3. ingress = Tail(ingress)
      BY <1>4, <1>6
    <3>4. PICK n : n = Len(ingress)
      OBVIOUS
    <3>5. n = n - 1 /\ n \in Nat
      BY <3>2, <3>3, <3>4
    <3> QED
      BY <3>5
  <2>2. \A k \in 1 .. Len(ingress) : ingress[k] # None => ingress[k] \in Sequences
    BY <1>1
  <2> QED
    BY <1>2, <1>5, <1>6, <2>1, <2>2 DEF SubmittedInv
<1>7. CASE ingress # <<>> /\ ingress' = Tail(ingress) /\ UNCHANGED submitted
  <2>1. /\ Len(ingress') = Len(ingress) - 1
        /\ \A k \in 1 .. Len(ingress') : /\ ingress'[k] = ingress[k + 1]
                                         /\ k + 1 \in 1 .. Len(ingress) /\ k + 1 # 1
        /\ 1 \in 1 .. Len(ingress)
    BY <1>1, <1>7
  <2>2. \A k \in 1 .. Len(ingress') :
          ingress'[k] # None => ingress'[k] \in submitted' /\ status'[ingress'[k]] = "NEW"
    <3> SUFFICES ASSUME NEW k \in 1 .. Len(ingress'), ingress'[k] # None
                 PROVE  ingress'[k] \in submitted' /\ status'[ingress'[k]] = "NEW"
      OBVIOUS
    <3> DEFINE s == ingress[k + 1]
    <3>1. ingress'[k] = s /\ s \in submitted /\ status[s] = "NEW"
      BY <1>2, <2>1
    <3>2. s \in Sequences
      BY <3>1 DEF EngineTypeOK
    <3>3. s # ingress[1]
      BY <1>2, <2>1, <3>1
    <3> HIDE DEF s
    <3>4. status'[s] = status[s]
      BY <1>4, <3>1, <3>2, <3>3
    <3> QED
      BY <1>3, <3>1, <3>4
  <2>3. \A j, k \in 1 .. Len(ingress') :
          ingress'[j] = ingress'[k] /\ ingress'[j] # None => j = k
    <3> SUFFICES ASSUME NEW j \in 1 .. Len(ingress'), NEW k \in 1 .. Len(ingress'),
                        ingress'[j] = ingress'[k], ingress'[j] # None
                 PROVE  j = k
      OBVIOUS
    <3>1. j + 1 = k + 1
      BY <1>2, <2>1
    <3> QED
      BY <3>1
  <2> QED
    BY <1>5, <2>2, <2>3 DEF SubmittedInv
<1>8. ASSUME NEW e \in Sequences \cup {None}, ingress' = Append(ingress, e),
             e # None => e \in submitted' \ submitted, UNCHANGED status
      PROVE  SubmittedInv'
  <2>1. /\ Len(ingress') = Len(ingress) + 1
        /\ \A k \in 1 .. Len(ingress) : ingress'[k] = ingress[k]
        /\ ingress'[Len(ingress) + 1] = e
    BY <1>1, <1>8
  <2>2. \A k \in 1 .. Len(ingress') : k \in 1 .. Len(ingress) \/ k = Len(ingress) + 1
    BY <1>1, <2>1
  <2>3. \A k \in 1 .. Len(ingress) : ingress[k] # None => ingress[k] # e
    BY <1>2, <1>8
  <2>4. e # None => e \in submitted' /\ status'[e] = "NEW"
    BY <1>2, <1>8
  <2>5. \A k \in 1 .. Len(ingress') :
          ingress'[k] # None => ingress'[k] \in submitted' /\ status'[ingress'[k]] = "NEW"
    BY <1>2, <1>3, <1>8, <2>1, <2>2, <2>4
  <2>6. \A j, k \in 1 .. Len(ingress') :
          ingress'[j] = ingress'[k] /\ ingress'[j] # None => j = k
    BY <1>2, <2>1, <2>2, <2>3
  <2> QED
    BY <1>5, <2>5, <2>6 DEF SubmittedInv
<1>9. ASSUME NEW s \in Sequences, Submit(s) PROVE SubmittedInv'
  BY <1>8, <1>9 DEF Submit, vars, seq_vars
<1> QED
  BY <1>6, <1>7, <1>8, <1>9, IngressMoves

\* What a step does to `ended`: _end was called for what has ended, or the thread
\* ends with everything.
LEMMA EndedMoves ==
  ASSUME [EngineNext]_evars
  PROVE  \/ UNCHANGED ended
         \/ ended' = EndedNow /\ UNCHANGED <<status, accepting, submitted, stop, stopper>>
         \/ CrashAbort
<1>1. CASE EndFold \/ PutPlan
  BY <1>1 DEF EndFold, PutPlan, EndIteration, HandOver, seq_vars
<1>2. CASE CheckStop \/ Await \/ Fold \/ DrainIngress \/ BlockingGet \/ StartStep \/ Planning
           \/ Crash
  BY <1>2 DEF CheckStop, Await, Fold, DrainIngress, BlockingGet, StartStep, Planning, Crash,
     engine_vars
<1>3. CASE WorkerThread \/ Stopper \/ (\E s \in Sequences : Submit(s)) \/ UNCHANGED evars
  BY <1>3 DEF WorkerThread, WorkerGet, WorkerPut, Stopper, BeginSwitch, SetStop,
     WakeScheduler, WakeWorker, Joined, Submit, evars, engine_vars
<1> QED
  BY <1>1, <1>2, <1>3 DEF EngineNext, SchedulerThread

\* What a step does to what the threads tell each other by.
LEMMA FlagMoves ==
  ASSUME [EngineNext]_evars
  PROVE  /\ accepting' => accepting
         /\ stopper' # "serving" => stopper # "serving" \/ ~ accepting'
         /\ stop' => stop \/ SetStop
         /\ UNCHANGED submitted \/ accepting
<1>1. CASE SchedulerThread
  BY <1>1 DEF SchedulerThread, CheckStop, Await, Fold, EndFold, DrainIngress, StartStep,
     Planning, PutPlan, BlockingGet, Crash, CloseIngress, CrashAbort, engine_vars
<1>2. CASE WorkerThread \/ Stopper \/ (\E s \in Sequences : Submit(s)) \/ UNCHANGED evars
  BY <1>2 DEF WorkerThread, WorkerGet, WorkerPut, Stopper, BeginSwitch, SetStop,
     WakeScheduler, WakeWorker, Joined, Submit, evars, engine_vars
<1> QED
  BY <1>1, <1>2 DEF EngineNext

LEMMA EndedStep ==
  ASSUME EngineTypeOK, KnownInv, QueuesInv, SubmittedInv, EndedInv, [EngineNext]_evars
  PROVE  EndedInv'
<1>1. /\ \A s \in ended : Ended(s)
      /\ stopper # "serving" => ~ accepting
      /\ stop => ~ accepting /\ ended = submitted
      /\ ended \subseteq Sequences /\ submitted \subseteq Sequences
      /\ \A s \in Sequences : status[s] # "NEW" => s \in submitted
      /\ accepting \in BOOLEAN
  BY DEF EndedInv, EngineTypeOK, SubmittedInv
<1>2. /\ accepting' => accepting
      /\ stopper' # "serving" => stopper # "serving" \/ ~ accepting'
      /\ stop' => stop \/ SetStop
      /\ UNCHANGED submitted \/ accepting
  BY FlagMoves
<1>3. \A s \in Sequences : Ended(s) => status'[s] = status[s]
  BY StatusStep DEF Ended
<1>4. \A s \in ended' : status'[s] \in {"DONE", "ABORTED"}
  <2>1. CASE UNCHANGED ended
    BY <1>1, <1>3, <2>1 DEF Ended
  <2>2. CASE ended' = EndedNow /\ UNCHANGED status
    BY <2>2 DEF EndedNow, Ended
  <2>3. CASE CrashAbort
    <3>1. /\ ended' = ended \cup Outstanding
          /\ status' = [s \in Sequences |-> IF s \in Outstanding THEN "ABORTED" ELSE status[s]]
      BY <2>3 DEF CrashAbort
    <3>2. Outstanding \subseteq Sequences
      BY DEF Outstanding, QueuesInv, Range
    <3> QED
      BY <1>1, <3>1, <3>2 DEF Ended
  <2> QED
    BY <2>1, <2>2, <2>3, EndedMoves
<1>5. ended' \subseteq submitted'
  <2>1. ended \subseteq submitted
    BY <1>1 DEF Ended
  <2>2. submitted \subseteq submitted'
    BY IngressMoves DEF Submit
  <2>3. EndedNow \subseteq submitted
    BY <1>1 DEF EndedNow, Ended
  <2>4. Outstanding \subseteq submitted
    <3>1. Outstanding \subseteq Sequences
      BY DEF Outstanding, QueuesInv, Range
    <3>2. \A s \in Outstanding : status[s] # "NEW"
      BY <3>1 DEF Outstanding, QueuesInv, Live
    <3> QED
      BY <1>1, <3>1, <3>2
  <2>5. CrashAbort => ended' = ended \cup Outstanding
    BY DEF CrashAbort
  <2> QED
    BY <2>1, <2>2, <2>3, <2>4, <2>5, EndedMoves
<1>6. ended \subseteq ended'
  <2>1. ended \subseteq EndedNow
    BY <1>1 DEF EndedNow
  <2>2. CrashAbort => ended' = ended \cup Outstanding
    BY DEF CrashAbort
  <2> QED
    BY <2>1, <2>2, EndedMoves
<1>7. SetStop => ~ accepting /\ ended = submitted /\ UNCHANGED <<ended, submitted>>
  BY <1>1 DEF SetStop, is_idle
<1>8. stop' => ~ accepting' /\ ended' = submitted'
  BY <1>1, <1>2, <1>5, <1>6, <1>7
<1>9. stopper' # "serving" => ~ accepting'
  BY <1>1, <1>2
<1> QED
  BY <1>4, <1>8, <1>9 DEF EndedInv, Ended
-----------------------------------------------------------------------------
(* Where the plan is *)

\* A plan that waits for its outcome has sequences that have not ended.
LEMMA SomeoneIsLive ==
  ASSUME KnownInv, WorkInv, phase = "in_flight"
  PROVE  \E s \in Sequences : Live(s)
<1>1. TypeOK /\ PlanConsistent
  BY DEF KnownInv, Phases, Known, IInv, PlanInv
<1>2. entries \in Seq(Entries) /\ entries # <<>>
  BY <1>1 DEF TypeOK, WorkInv
<1>3. entries[1] \in Entries /\ 1 \in 1 .. Len(entries)
  BY <1>2
<1>4. entries[1] \in Pending
  BY <1>3 DEF Pending, At
<1> QED
  BY <1>1, <1>3, <1>4 DEF PlanConsistent, Entries

\* So it is not stopped.
LEMMA NotStopped ==
  ASSUME KnownInv, WorkInv, SubmittedInv, EndedInv, phase = "in_flight"
  PROVE  ~ stop /\ ended # submitted
<1>1. PICK s \in Sequences : Live(s)
  BY SomeoneIsLive
<1>2. s \in submitted /\ ~ Ended(s)
  BY <1>1 DEF SubmittedInv, Live, Ended
<1> QED
  BY <1>2 DEF EndedInv

\* What a step does to what lies between the scheduler and the worker.
LEMMA WorkMoves ==
  ASSUME [EngineNext]_evars
  PROVE  \/ UNCHANGED <<plan_queue, results_queue, worker>> /\ ~ PutPlan
         \/ PutPlan /\ UNCHANGED <<results_queue, worker>>
         \/ Await /\ UNCHANGED <<plan_queue, worker>>
         \/ WorkerGet \/ WorkerPut
         \/ WakeWorker
<1>1. CASE CheckStop \/ Fold \/ EndFold \/ DrainIngress \/ StartStep \/ Planning \/ BlockingGet
           \/ Crash \/ CrashAbort
  BY <1>1 DEF CheckStop, Fold, EndFold, DrainIngress, StartStep, Planning, BlockingGet, Crash,
     CrashAbort, engine_vars, PutPlan
<1>2. CASE PutPlan \/ Await
  BY <1>2 DEF PutPlan, Await
<1>3. CASE BeginSwitch \/ SetStop \/ WakeScheduler \/ Joined \/ (\E s \in Sequences : Submit(s))
           \/ UNCHANGED evars
  BY <1>3 DEF BeginSwitch, SetStop, WakeScheduler, Joined, Submit, evars, engine_vars, PutPlan
<1> QED
  BY <1>1, <1>2, <1>3 DEF EngineNext, SchedulerThread, WorkerThread, Stopper

\* While nothing moves between the two, the scheduler neither hands over a plan nor
\* stops waiting for the outcome of one.
LEMMA WaitsForOutcome ==
  ASSUME EngineTypeOK, KnownInv, SubmittedInv, EndedInv, WorkInv, [EngineNext]_evars,
         UNCHANGED <<plan_queue, results_queue, worker>>, ~ PutPlan
  PROVE  /\ phase' = "in_flight" <=> phase = "in_flight"
         /\ phase = "in_flight" => UNCHANGED vars
<1>1. CASE CheckStop
  <2>1. /\ UNCHANGED <<kv_vars, seq_vars, queue_vars, plan_vars, index, budget, cap>>
        /\ phase' = IF stop THEN "exited" ELSE phase
    BY <1>1 DEF CheckStop
  <2>2. phase = "in_flight" => phase' = phase
    BY <2>1, NotStopped
  <2> QED
    BY <2>1, <2>2 DEF vars, loop_vars
<1>2. CASE Await
  <2>1. results_queue # <<>> /\ results_queue' = Tail(results_queue)
        /\ results_queue \in Seq({"results", "failed", "crash"})
    BY <1>2 DEF Await, EngineTypeOK
  <2>2. Len(Tail(results_queue)) = Len(results_queue) - 1 /\ Len(results_queue) \in Nat
    BY <2>1
  <2>3. Len(results_queue') = Len(results_queue)
    OBVIOUS
  <2> QED
    BY <2>1, <2>2, <2>3
<1>3. CASE Fold \/ EndFold \/ DrainIngress \/ StartStep \/ Crash \/ CrashAbort
  <2>1. CASE Fold
    BY <2>1 DEF Fold, ApplyResult, NoResult, AbortEntry, At, Step
  <2>2. CASE EndFold \/ StartStep
    BY <2>2 DEF EndFold, StartStep, EndIteration, BeginStep, At, GoTo
  <2>3. CASE DrainIngress
    BY <2>3 DEF DrainIngress, At, vars, loop_vars
  <2>4. CASE Crash \/ CrashAbort
    BY <2>4 DEF Crash, CrashAbort, At, GoTo
  <2> QED
    BY <1>3, <2>1, <2>2, <2>3, <2>4
<1>4. CASE BlockingGet
  BY <1>4 DEF BlockingGet, Arrive, At, GoTo
<1>5. CASE Planning
  BY <1>5 DEF Planning, SkipDecode, PlanDecode, PreemptForDecode, EndDecodes,
     SkipContinuation, PlanContinuation, BlockContinuation, EndContinuations,
     Reject, PassOver, Admit, EndAdmissions, AbortRejected, At, GoTo, Step, loop_vars
<1>6. CASE WorkerThread \/ Stopper \/ (\E s \in Sequences : Submit(s)) \/ UNCHANGED evars
  <2>1. UNCHANGED vars
    BY <1>6 DEF WorkerThread, WorkerGet, WorkerPut, Stopper, BeginSwitch, SetStop,
       WakeScheduler, WakeWorker, Joined, Submit, evars
  <2> QED
    BY <2>1 DEF vars, loop_vars
<1> QED
  BY <1>1, <1>2, <1>3, <1>4, <1>5, <1>6 DEF EngineNext, SchedulerThread

\* A plan is in one place from PutPlan to Await.
LEMMA WorkStep ==
  ASSUME EngineTypeOK, KnownInv, SubmittedInv, EndedInv, WorkInv, [EngineNext]_evars
  PROVE  WorkInv'
<1>1. /\ plan_queue \in Seq({"plan", "None"}) /\ Len(plan_queue) \in Nat
      /\ results_queue \in Seq({"results", "failed", "crash"}) /\ Len(results_queue) \in Nat
  BY DEF EngineTypeOK
<1>2. /\ PlanQueued \/ worker = "forward" \/ results_queue # <<>> => phase = "in_flight"
      /\ phase = "in_flight" => entries # <<>>
      /\ \A j, k \in 1 .. Len(plan_queue) :
           plan_queue[j] = "plan" /\ plan_queue[k] = "plan" => j = k
      /\ worker = "forward" \/ results_queue # <<>> => ~ PlanQueued
      /\ worker = "forward" => results_queue = <<>>
      /\ Len(results_queue) =< 1
  BY DEF WorkInv
<1>3. CASE UNCHANGED <<plan_queue, results_queue, worker>> /\ ~ PutPlan
  <2>1. /\ phase' = "in_flight" <=> phase = "in_flight"
        /\ phase = "in_flight" => UNCHANGED vars
    BY <1>3, WaitsForOutcome
  <2>2. phase = "in_flight" => UNCHANGED entries
    BY <2>1 DEF vars, plan_vars
  <2>3. PlanQueued' <=> PlanQueued
    BY <1>3 DEF PlanQueued
  <2> QED
    BY <1>2, <1>3, <2>1, <2>2, <2>3 DEF WorkInv
<1>4. ASSUME NEW e \in {"plan", "None"}, plan_queue' = Append(plan_queue, e),
             e = "plan" => ~ PlanQueued
      PROVE  /\ PlanQueued' <=> PlanQueued \/ e = "plan"
             /\ \A j, k \in 1 .. Len(plan_queue') :
                  plan_queue'[j] = "plan" /\ plan_queue'[k] = "plan" => j = k
  <2>1. /\ Len(plan_queue') = Len(plan_queue) + 1
        /\ \A k \in 1 .. Len(plan_queue) : plan_queue'[k] = plan_queue[k]
        /\ plan_queue'[Len(plan_queue) + 1] = e
    BY <1>1, <1>4
  <2>2. \A k : k \in 1 .. Len(plan_queue')
                 <=> k \in 1 .. Len(plan_queue) \/ k = Len(plan_queue) + 1
    BY <1>1, <2>1
  <2> QED
    BY <1>2, <1>4, <2>1, <2>2 DEF PlanQueued
<1>5. CASE PutPlan /\ UNCHANGED <<results_queue, worker>>
  <2>1. /\ phase = "rejects" /\ UNCHANGED entries
        /\ phase' = IF entries = <<>> THEN "blocked" ELSE "in_flight"
        /\ IF entries # <<>> THEN plan_queue' = Append(plan_queue, "plan")
                             ELSE UNCHANGED plan_queue
    BY <1>5 DEF PutPlan, HandOver, At, GoTo
  <2>2. ~ PlanQueued /\ worker # "forward" /\ results_queue = <<>>
    BY <1>2, <2>1
  <2>3. CASE entries = <<>>
    <3>1. PlanQueued' <=> PlanQueued
      BY <2>1, <2>3 DEF PlanQueued
    <3> QED
      BY <1>2, <1>5, <2>1, <2>2, <2>3, <3>1 DEF WorkInv
  <2>4. CASE entries # <<>>
    <3>1. /\ PlanQueued'
          /\ \A j, k \in 1 .. Len(plan_queue') :
               plan_queue'[j] = "plan" /\ plan_queue'[k] = "plan" => j = k
      BY <1>4, <2>1, <2>2, <2>4
    <3> QED
      BY <1>2, <1>5, <2>1, <2>2, <2>4, <3>1 DEF WorkInv
  <2> QED
    BY <2>3, <2>4
<1>6. CASE Await /\ UNCHANGED <<plan_queue, worker>>
  <2>1. /\ results_queue # <<>> /\ results_queue' = Tail(results_queue)
        /\ phase' = Head(results_queue)
    BY <1>6 DEF Await, GoTo
  <2>2. results_queue' = <<>> /\ phase' # "in_flight"
    <3> DEFINE n == Len(results_queue)
    <3>1. n # 0 /\ n \in Nat
      BY <1>1, <2>1
    <3>2. n =< 1
      BY <1>2
    <3> HIDE DEF n
    <3>3. n = 1
      BY <3>1, <3>2
    <3>4. Len(results_queue) = 1
      BY <3>3 DEF n
    <3> QED
      BY <1>1, <2>1, <3>4
  <2>3. ~ PlanQueued /\ worker # "forward"
    BY <1>2, <2>1
  <2>4. ~ PlanQueued' /\ worker' # "forward"
    BY <1>6, <2>3 DEF PlanQueued
  <2> QED
    BY <1>2, <1>6, <2>2, <2>4 DEF WorkInv
<1>7. CASE WorkerGet
  <2>1. /\ worker = "get" /\ plan_queue # <<>> /\ plan_queue' = Tail(plan_queue)
        /\ worker' = IF Head(plan_queue) = "None" THEN "exited" ELSE "forward"
        /\ UNCHANGED <<results_queue, phase, entries>>
    BY <1>7 DEF WorkerGet, vars, plan_vars, loop_vars
  <2>2. /\ Len(plan_queue') = Len(plan_queue) - 1 /\ 1 \in 1 .. Len(plan_queue)
        /\ \A k \in 1 .. Len(plan_queue') : /\ plan_queue'[k] = plan_queue[k + 1]
                                            /\ k + 1 \in 1 .. Len(plan_queue) /\ k + 1 # 1
        /\ Head(plan_queue) = plan_queue[1] /\ plan_queue[1] \in {"plan", "None"}
    BY <1>1, <2>1
  <2>3. \A j, k \in 1 .. Len(plan_queue') :
          plan_queue'[j] = "plan" /\ plan_queue'[k] = "plan" => j = k
    <3> SUFFICES ASSUME NEW j \in 1 .. Len(plan_queue'), NEW k \in 1 .. Len(plan_queue'),
                        plan_queue'[j] = "plan", plan_queue'[k] = "plan"
                 PROVE  j = k
      OBVIOUS
    <3>1. j + 1 = k + 1
      BY <1>2, <2>2
    <3> QED
      BY <3>1
  <2>4. PlanQueued' => PlanQueued
    BY <2>2 DEF PlanQueued
  <2>5. CASE plan_queue[1] = "None"
    BY <1>2, <2>1, <2>2, <2>3, <2>4, <2>5 DEF WorkInv
  <2>6. CASE plan_queue[1] = "plan"
    <3>1. PlanQueued
      BY <2>2, <2>6 DEF PlanQueued
    <3>2. ~ PlanQueued'
      BY <1>2, <2>2, <2>6 DEF PlanQueued
    <3> QED
      BY <1>2, <2>1, <2>3, <3>1, <3>2 DEF WorkInv
  <2> QED
    BY <2>2, <2>5, <2>6
<1>8. CASE WorkerPut
  <2>1. /\ worker = "forward" /\ worker' = "get" /\ UNCHANGED <<plan_queue, phase, entries>>
        /\ \E o \in {"results", "failed", "crash"} : results_queue' = Append(results_queue, o)
    BY <1>8 DEF WorkerPut, vars, plan_vars, loop_vars
  <2>2. results_queue = <<>> /\ ~ PlanQueued /\ phase = "in_flight"
    BY <1>2, <2>1
  <2>3. Len(results_queue') = 1
    BY <2>1, <2>2
  <2>4. ~ PlanQueued'
    BY <2>1, <2>2 DEF PlanQueued
  <2> QED
    BY <1>2, <2>1, <2>2, <2>3, <2>4 DEF WorkInv
<1>9. CASE WakeWorker
  <2>1. /\ plan_queue' = Append(plan_queue, "None")
        /\ UNCHANGED <<results_queue, worker, phase, entries>>
    BY <1>9 DEF WakeWorker, vars, plan_vars, loop_vars
  <2>2. /\ PlanQueued' <=> PlanQueued
        /\ \A j, k \in 1 .. Len(plan_queue') :
             plan_queue'[j] = "plan" /\ plan_queue'[k] = "plan" => j = k
    BY <1>4, <2>1
  <2> QED
    BY <1>2, <2>1, <2>2 DEF WorkInv
<1> QED
  BY <1>3, <1>5, <1>6, <1>7, <1>8, <1>9, WorkMoves

\* Every variable keeps its type.
LEMMA TypeStep ==
  ASSUME EngineTypeOK, KnownInv, QueuesInv, SubmittedInv, [EngineNext]_evars
  PROVE  EngineTypeOK'
<1>1. submitted' \in SUBSET Sequences /\ ingress' \in Seq(Sequences \cup {None})
  <2>1. /\ submitted \in SUBSET Sequences /\ ingress \in Seq(Sequences \cup {None})
    BY DEF EngineTypeOK
  <2>2. CASE UNCHANGED <<ingress, submitted>>
    BY <2>1, <2>2
  <2>3. CASE ingress # <<>> /\ ingress' = Tail(ingress) /\ UNCHANGED submitted
    BY <2>1, <2>3
  <2>4. ASSUME NEW s \in Sequences, Submit(s)
        PROVE  submitted' \in SUBSET Sequences /\ ingress' \in Seq(Sequences \cup {None})
    BY <2>1, <2>4 DEF Submit
  <2>5. CASE ingress' = Append(ingress, None) /\ UNCHANGED submitted
    BY <2>1, <2>5
  <2> QED
    BY <2>2, <2>3, <2>4, <2>5, IngressMoves
<1>2. plan_queue' \in Seq({"plan", "None"})
  <2>1. plan_queue \in Seq({"plan", "None"})
    BY DEF EngineTypeOK
  <2>2. \/ UNCHANGED plan_queue
        \/ plan_queue # <<>> /\ plan_queue' = Tail(plan_queue)
        \/ \E e \in {"plan", "None"} : plan_queue' = Append(plan_queue, e)
    BY WorkMoves DEF PutPlan, WorkerGet, WorkerPut, WakeWorker
  <2> QED
    BY <2>1, <2>2
<1>3. results_queue' \in Seq({"results", "failed", "crash"})
  <2>1. results_queue \in Seq({"results", "failed", "crash"})
    BY DEF EngineTypeOK
  <2>2. \/ UNCHANGED results_queue
        \/ results_queue # <<>> /\ results_queue' = Tail(results_queue)
        \/ \E e \in {"results", "failed", "crash"} : results_queue' = Append(results_queue, e)
    BY WorkMoves DEF Await, WorkerGet, WorkerPut, WakeWorker
  <2> QED
    BY <2>1, <2>2
<1>4. worker' \in {"get", "forward", "exited"}
  BY WorkMoves DEF EngineTypeOK, WorkerGet, WorkerPut, WakeWorker
<1>5. ended' \in SUBSET Sequences
  <2>1. Outstanding \subseteq Sequences /\ EndedNow \subseteq Sequences
    BY DEF Outstanding, EndedNow, QueuesInv, Range
  <2>2. CrashAbort => ended' = ended \cup Outstanding
    BY DEF CrashAbort
  <2> QED
    BY <2>1, <2>2, EndedMoves DEF EngineTypeOK
<1>6. phase' \in EnginePhases
  <2>1. CASE SchedulerMoves
    <3>1. Known /\ [Next]_vars
      BY <2>1 DEF SchedulerMoves, KnownInv, Next
    <3>2. IInv'
      BY <3>1, NextInv DEF Known
    <3> QED
      BY <3>2 DEF IInv, TypeOK, EnginePhases
  <2>2. CASE HeadAdmitted
    BY <2>2 DEF HeadAdmitted, Arrive, GoTo, EnginePhases, Phases
  <2>3. CASE OnlyThreads
    BY <2>3 DEF OnlyThreads, GoTo, vars, loop_vars, EnginePhases, Phases, EngineTypeOK
  <2>4. CASE CrashAbort
    BY <2>4 DEF CrashAbort, EnginePhases
  <2> QED
    BY <2>1, <2>2, <2>3, <2>4, Moves
<1>7. accepting' \in BOOLEAN /\ stop' \in BOOLEAN
  <2>1. CASE SchedulerThread
    BY <2>1 DEF SchedulerThread, CheckStop, Await, Fold, EndFold, DrainIngress, StartStep,
       Planning, PutPlan, BlockingGet, Crash, CloseIngress, CrashAbort, engine_vars, EngineTypeOK
  <2>2. CASE WorkerThread \/ Stopper \/ (\E s \in Sequences : Submit(s)) \/ UNCHANGED evars
    BY <2>2 DEF WorkerThread, WorkerGet, WorkerPut, Stopper, BeginSwitch, SetStop,
       WakeScheduler, WakeWorker, Joined, Submit, evars, engine_vars, EngineTypeOK
  <2> QED
    BY <2>1, <2>2 DEF EngineNext
<1> QED
  BY <1>1, <1>2, <1>3, <1>4, <1>5, <1>6, <1>7 DEF EngineTypeOK
-----------------------------------------------------------------------------
(* The theorems *)

LEMMA EngineInitInv == EngineInit => EngineInv
<1> SUFFICES ASSUME EngineInit PROVE EngineInv
  OBVIOUS
<1>1. /\ Init /\ ingress = <<>> /\ plan_queue = <<>> /\ results_queue = <<>> /\ accepting = TRUE
      /\ submitted = {} /\ ended = {} /\ stop = FALSE /\ worker = "get" /\ stopper = "serving"
  BY DEF EngineInit
<1>2. phase = "drain" /\ index = 1 /\ \A s \in Sequences : status[s] = "NEW"
  BY <1>1 DEF Init
<1>3. Known
  BY <1>1, InitInv, InitPlan DEF Known
<1>4. EngineTypeOK
  <2>1. <<>> \in Seq(Sequences \cup {None}) /\ <<>> \in Seq({"plan", "None"})
        /\ <<>> \in Seq({"results", "failed", "crash"})
    OBVIOUS
  <2>2. phase \in EnginePhases
    BY <1>2 DEF EnginePhases, Phases
  <2> QED
    BY <1>1, <2>1, <2>2 DEF EngineTypeOK
<1>5. KnownInv
  BY <1>2, <1>3 DEF KnownInv
<1>6. QueuesInv /\ HeldInv
  BY <1>3, KnownGives DEF HeldInv
<1>7. SubmittedInv /\ EndedInv
  BY <1>1, <1>2 DEF SubmittedInv, EndedInv
<1>8. ~ PlanQueued
  BY <1>1 DEF PlanQueued
<1>9. WorkInv
  BY <1>1, <1>2, <1>8 DEF WorkInv
<1> QED
  BY <1>4, <1>5, <1>6, <1>7, <1>9 DEF EngineInv

LEMMA EngineNextInv == EngineInv /\ [EngineNext]_evars => EngineInv'
<1> SUFFICES ASSUME EngineInv, [EngineNext]_evars PROVE EngineInv'
  OBVIOUS
<1>1. /\ EngineTypeOK /\ KnownInv /\ QueuesInv /\ HeldInv /\ SubmittedInv /\ EndedInv /\ WorkInv
  BY DEF EngineInv
<1>2. EngineTypeOK' /\ KnownInv'
  BY <1>1, TypeStep, KnownStep
<1>3. QueuesInv' /\ HeldInv' /\ SubmittedInv' /\ EndedInv' /\ WorkInv'
  BY <1>1, QueuesStep, SubmittedStep, EndedStep, WorkStep
<1> QED
  BY <1>2, <1>3 DEF EngineInv

\* The invariant that ties the scheduler's queues, the threads' queues and the counts
\* of requests together holds in every reachable state of the engine.
THEOREM EngineInvariance == EngineSpec => []EngineInv
  BY EngineInitInv, EngineNextInv, PTL DEF EngineSpec

\* Around the queues and the worker, the scheduler keeps what it keeps alone: while
\* it is scheduling, sequences are in one place, tables match tokens and the plan is
\* consistent.
THEOREM EngineKeepsThePlan ==
  EngineSpec => [](phase \in Phases => OnePlace /\ SlotsMatchTokens /\ PlanConsistent)
<1>1. EngineInv => (phase \in Phases => OnePlace /\ SlotsMatchTokens /\ PlanConsistent)
  BY DEF EngineInv, KnownInv, Known, PlanInv
<1> QED
  BY <1>1, EngineInvariance, PTL

\* While forward runs, nobody touches what it reads without a lock: sequences, their
\* tables and the plan change only when no plan is with the worker.
THEOREM WorkerSeesStableState == EngineSpec => WorkerReadsStableState
<1>1. EngineInv /\ [EngineNext]_evars
        => [worker = "forward" => UNCHANGED <<entries, kv_vars, running, status, generated,
                                              prefill_progress>>]_evars
  <2> SUFFICES ASSUME EngineInv, [EngineNext]_evars, worker = "forward"
               PROVE  UNCHANGED <<entries, kv_vars, running, status, generated, prefill_progress>>
    OBVIOUS
  <2>1. EngineTypeOK /\ KnownInv /\ SubmittedInv /\ EndedInv /\ WorkInv
    BY DEF EngineInv
  <2>2. phase = "in_flight" /\ results_queue = <<>>
    BY <2>1 DEF WorkInv
  <2>3. CASE UNCHANGED <<plan_queue, results_queue, worker>> /\ ~ PutPlan
    <3>1. UNCHANGED vars
      BY <2>1, <2>2, <2>3, WaitsForOutcome
    <3> QED
      BY <3>1 DEF vars, seq_vars, queue_vars, plan_vars
  <2>4. CASE WorkerGet \/ WorkerPut \/ WakeWorker
    <3>1. UNCHANGED vars
      BY <2>4 DEF WorkerGet, WorkerPut, WakeWorker
    <3> QED
      BY <3>1 DEF vars, seq_vars, queue_vars, plan_vars
  <2>5. ~ PutPlan /\ ~ Await
    BY <2>2 DEF PutPlan, HandOver, At, Await
  <2> QED
    BY <2>3, <2>4, <2>5, WorkMoves
<1> QED
  BY <1>1, EngineInvariance, PTL DEF EngineSpec, WorkerReadsStableState
-----------------------------------------------------------------------------
(* The contract *)

OutcomeOf == [s \in Sequences |-> IF Ended(s) THEN status[s] ELSE "none"]

\* A step in which the requests of a set end, all of them accepted and none ended
\* before.
LEMMA EndsAsPromised ==
  ASSUME NEW ending \in SUBSET submitted, submitted \subseteq Sequences,
         \A s \in ending : ~ Ended(s) /\ status'[s] \in {"DONE", "ABORTED"},
         \A s \in Sequences \ ending : Ended(s) => status'[s] = status[s],
         \A s \in Sequences \ ending : ~ Ended(s) => status'[s] \notin {"DONE", "ABORTED"},
         UNCHANGED submitted
  PROVE  Contract!End(ending)
<1> DEFINE result == [s \in ending |-> status'[s]]
<1>1. result \in [ending -> {"DONE", "ABORTED"}]
  OBVIOUS
<1>2. \A s \in ending : OutcomeOf[s] = "none"
  BY DEF OutcomeOf
<1>3. OutcomeOf' = [s \in Sequences |-> IF s \in ending THEN result[s] ELSE OutcomeOf[s]]
  BY DEF OutcomeOf, Ended
<1> QED
  BY <1>1, <1>2, <1>3 DEF Contract!End, OutcomeOf

\* Every step of the engine is one of the contract's, or none.
LEMMA ContractStep ==
  ASSUME EngineInv, [EngineNext]_evars
  PROVE  [Contract!Next]_<<accepting, submitted, OutcomeOf>>
<1>1. /\ EngineTypeOK /\ KnownInv /\ QueuesInv /\ SubmittedInv
      /\ submitted \subseteq Sequences /\ status \in [Sequences -> Statuses]
      /\ accepting \in BOOLEAN /\ accepting' \in BOOLEAN
  BY TypeStep DEF EngineInv, EngineTypeOK, QueuesInv
<1>2. accepting' => accepting
  BY FlagMoves
<1>3. CASE \E s \in Sequences : Submit(s)
  <2>1. PICK s \in Sequences : Submit(s)
    BY <1>3
  <2>2. /\ accepting /\ s \notin submitted /\ submitted' = submitted \cup {s}
        /\ UNCHANGED <<accepting, status>>
    BY <2>1 DEF Submit, vars, seq_vars
  <2>3. OutcomeOf' = OutcomeOf
    BY <2>2 DEF OutcomeOf, Ended
  <2>4. Contract!Accept(s)
    BY <2>2, <2>3 DEF Contract!Accept, OutcomeOf
  <2> QED
    BY <2>4 DEF Contract!Next
<1>4. CASE UNCHANGED submitted
  <2>1. \A s \in Sequences : ~ Ended(s) /\ status'[s] \in {"DONE", "ABORTED"}
                               => s \in submitted
    <3> SUFFICES ASSUME NEW s \in Sequences, ~ Ended(s), status'[s] \in {"DONE", "ABORTED"}
                 PROVE  s \in submitted
      OBVIOUS
    <3>1. status'[s] # status[s]
      BY DEF Ended
    <3>2. status[s] # "NEW"
      BY <1>1, <3>1, StatusStep
    <3> QED
      BY <1>1, <3>2 DEF SubmittedInv
  <2>2. PICK ending \in SUBSET submitted :
          ending = {s \in Sequences : ~ Ended(s) /\ status'[s] \in {"DONE", "ABORTED"}}
    BY <2>1
  <2>3. Contract!End(ending)
    <3>1. \A s \in ending : ~ Ended(s) /\ status'[s] \in {"DONE", "ABORTED"}
      BY <2>2
    <3>2. /\ \A s \in Sequences \ ending : Ended(s) => status'[s] = status[s]
          /\ \A s \in Sequences \ ending : ~ Ended(s) => status'[s] \notin {"DONE", "ABORTED"}
      BY <1>1, <2>2, StatusStep DEF Ended
    <3> QED
      BY <1>1, <1>4, <3>1, <3>2, EndsAsPromised
  <2>4. UNCHANGED accepting \/ accepting' = FALSE
    BY <1>1, <1>2
  <2>5. Contract!Next
    BY <2>3, <2>4 DEF Contract!Next
  <2> QED
    BY <2>5
<1> QED
  BY <1>1, <1>3, <1>4, IngressMoves

\* The engine implements module Service: nothing is accepted once the ingress is
\* closed, and whatever the scheduler, the worker and a crash do, a request that was
\* accepted ends at most once and no other ends at all.
THEOREM EngineKeepsContract == EngineSpec => KeepsContract
<1>1. EngineInit => Contract!Init
  <2> SUFFICES ASSUME EngineInit PROVE Contract!Init
    OBVIOUS
  <2>1. accepting = TRUE /\ submitted = {} /\ \A s \in Sequences : status[s] = "NEW"
    BY DEF EngineInit, Init
  <2> QED
    BY <2>1 DEF Contract!Init, Ended
<1>2. EngineInv /\ [EngineNext]_evars
        => [Contract!Next]_<<accepting, submitted,
                             [s \in Sequences |-> IF Ended(s) THEN status[s] ELSE "none"]>>
  BY ContractStep DEF OutcomeOf
<1> QED
  BY <1>1, <1>2, EngineInvariance, PTL DEF EngineSpec, KeepsContract, Contract!Spec
-----------------------------------------------------------------------------
(* Idle *)

\* What is free and what is held add up to the pool while the thread runs; when it has
\* returned everything is free.
AccountsInv ==
  /\ phase # "exited" => PoolTotal
  /\ phase = "exited" => free = Capacity

\* The thread returns because it is told to, or because the device is lost.
LEMMA ThreadReturns ==
  ASSUME EngineTypeOK, KnownInv, [EngineNext]_evars, phase # "exited", phase' = "exited"
  PROVE  CrashAbort \/ (stop /\ UNCHANGED kv_vars)
<1>1. CASE SchedulerMoves
  <2>1. Known /\ [Next]_vars
    BY <1>1 DEF SchedulerMoves, KnownInv, Next
  <2>2. IInv'
    BY <2>1, NextInv DEF Known
  <2> QED
    BY <2>2 DEF IInv, TypeOK, Phases
<1>2. CASE HeadAdmitted
  BY <1>2 DEF HeadAdmitted, Arrive, GoTo
<1>3. CASE CheckStop
  BY <1>3 DEF CheckStop
<1>4. CASE Await
  <2>1. Head(results_queue) \in {"results", "failed", "crash"} /\ phase' = Head(results_queue)
    BY <1>4 DEF Await, GoTo, EngineTypeOK
  <2> QED
    BY <2>1
<1>5. CASE Fold \/ EndFold \/ StartStep \/ Planning \/ PutPlan
  <2>1. SchedulerMoves
    <3>1. SchedulerStep \/ Outcome
      BY <1>5 DEF Fold, EndFold, StartStep, Planning, PutPlan, SchedulerStep, Outcome
    <3>2. UNCHANGED <<ingress, submitted, accepting, stop, stopper>>
      BY <1>5 DEF Fold, EndFold, StartStep, Planning, PutPlan, engine_vars
    <3>3. phase \in Phases
      BY <1>5 DEF Fold, EndFold, StartStep, PutPlan, ApplyResult, NoResult, AbortEntry,
         EndIteration, BeginStep, HandOver, At, Phases, Planning, SkipDecode, PlanDecode,
         PreemptForDecode, EndDecodes, SkipContinuation, PlanContinuation, BlockContinuation,
         EndContinuations, Reject, PassOver, Admit, EndAdmissions, AbortRejected
    <3> QED
      BY <3>1, <3>2, <3>3 DEF SchedulerMoves
  <2> QED
    BY <1>1, <2>1
<1>6. CASE DrainIngress \/ BlockingGet
  <2>1. CASE DrainIngress
    BY <2>1 DEF DrainIngress, vars, loop_vars
  <2>2. CASE BlockingGet
    BY <2>2 DEF BlockingGet, Arrive, GoTo
  <2> QED
    BY <1>6, <2>1, <2>2
<1>7. CASE Crash
  BY <1>7 DEF Crash, GoTo
<1>8. CASE WorkerThread \/ Stopper \/ (\E s \in Sequences : Submit(s)) \/ UNCHANGED evars
  <2>1. UNCHANGED vars
    BY <1>8 DEF WorkerThread, WorkerGet, WorkerPut, Stopper, BeginSwitch, SetStop,
       WakeScheduler, WakeWorker, Joined, Submit, evars
  <2> QED
    BY <2>1 DEF vars, loop_vars
<1> QED
  BY <1>3, <1>4, <1>5, <1>6, <1>7, <1>8 DEF EngineNext, SchedulerThread

\* Once all that was submitted has ended nobody runs or waits.
LEMMA NobodyIsLeft ==
  ASSUME SubmittedInv, EndedInv, ended = submitted, NEW s \in Sequences
  PROVE  ~ Live(s) /\ status[s] # "WAITING"
BY DEF SubmittedInv, EndedInv, Ended, Live

\* ... and if nobody holds anything, everything is free.
LEMMA NothingHeld ==
  ASSUME IsFiniteSet(Sequences), PoolTotal, KVTypeOK, \A s \in Sequences : held[s] = 0
  PROVE  free = Capacity
<1>1. held = [s \in Sequences |-> 0] /\ free \in Nat
  BY DEF KVTypeOK
<1>2. SumFunction(held) = 0
  BY <1>1, SumOfZeros
<1> QED
  BY <1>1, <1>2 DEF PoolTotal

\* A crash gives back what everybody in the queues holds, and that is all that is held.
LEMMA CrashGivesBack ==
  ASSUME IsFiniteSet(Sequences), PoolTotal, KVTypeOK, QueuesInv,
         \A s \in Sequences : ~ Live(s) => held[s] = 0, CrashAbort
  PROVE  free' = Capacity
<1>1. Outstanding \in SUBSET Sequences /\ held \in [Sequences -> Nat] /\ free \in Nat
  BY DEF Outstanding, QueuesInv, Range, KVTypeOK
<1>2. \A s \in Sequences \ Outstanding : held[s] = 0
  BY DEF Outstanding, QueuesInv
<1>3. SumFunctionOnSet(held, Outstanding) = SumFunction(held)
  <2>1. \A w \in [Sequences -> Nat], A \in SUBSET Sequences :
          (\A s \in Sequences \ A : w[s] = 0) => SumFunctionOnSet(w, A) = SumFunction(w)
    BY SumOverHolders
  <2> QED
    BY <1>1, <1>2, <2>1
<1>4. free' = free + SumFunctionOnSet(held, Outstanding)
  BY DEF CrashAbort
<1> QED
  BY <1>3, <1>4 DEF PoolTotal

LEMMA AccountsStep ==
  ASSUME IsFiniteSet(Sequences), EngineInv, AccountsInv, [EngineNext]_evars
  PROVE  AccountsInv'
<1>1. EngineTypeOK /\ KnownInv /\ QueuesInv /\ HeldInv /\ SubmittedInv /\ EndedInv
  BY DEF EngineInv
<1>2. Capacity' = Capacity
  BY DEF Capacity, Paged
<1>3. CASE SchedulerMoves
  <2>1. Known /\ [Next]_vars /\ phase # "exited"
    BY <1>1, <1>3 DEF SchedulerMoves, KnownInv, Next, Phases
  <2>2. PoolTotal'
    BY <2>1, TotalStep DEF AccountsInv
  <2>3. phase' # "exited"
    <3>1. IInv'
      BY <2>1, NextInv DEF Known
    <3> QED
      BY <3>1 DEF IInv, TypeOK, Phases
  <2> QED
    BY <2>2, <2>3 DEF AccountsInv
<1>4. CASE CrashAbort
  <2>1. phase = "crash_drain" /\ phase' = "exited"
    BY <1>4 DEF CrashAbort, At
  <2>2. /\ PoolTotal /\ KVTypeOK
        /\ \A s \in Sequences : ~ Live(s) => held[s] = 0
    BY <1>1, <2>1 DEF AccountsInv, HeldInv
  <2>3. free' = Capacity
    BY <1>1, <1>4, <2>2, CrashGivesBack
  <2> QED
    BY <1>2, <2>1, <2>3 DEF AccountsInv
<1>5. CASE (HeadAdmitted \/ OnlyThreads) /\ ~ CrashAbort
  <2>1. UNCHANGED <<free, held, slots>>
    BY <1>5 DEF HeadAdmitted, AdmitIngress, OnlyThreads, kv_vars
  <2>2. phase = "exited" => phase' = "exited"
    BY <1>5 DEF HeadAdmitted, OnlyThreads, vars, loop_vars, Phases
  <2>3. CASE phase = "exited"
    BY <1>2, <2>1, <2>2, <2>3 DEF AccountsInv
  <2>4. CASE phase # "exited" /\ phase' # "exited"
    BY <1>2, <2>1, <2>4 DEF AccountsInv, PoolTotal
  <2>5. CASE phase # "exited" /\ phase' = "exited"
    <3>1. stop
      BY <1>1, <1>5, <2>5, ThreadReturns
    <3>2. \A s \in Sequences : ~ Live(s)
      BY <1>1, <3>1, NobodyIsLeft DEF EndedInv
    <3>3. PoolTotal /\ KVTypeOK /\ \A s \in Sequences : held[s] = 0
      BY <1>1, <2>5, <3>2 DEF AccountsInv, HeldInv
    <3>4. free = Capacity
      BY <3>3, NothingHeld
    <3> QED
      BY <1>2, <2>1, <2>5, <3>4 DEF AccountsInv
  <2> QED
    BY <2>3, <2>4, <2>5
<1> QED
  BY <1>1, <1>3, <1>4, <1>5, Moves

LEMMA EndedMeansIdle ==
  ASSUME IsFiniteSet(Sequences), EngineInv, AccountsInv
  PROVE  IdleIsIdle
<1> SUFFICES ASSUME ended = submitted
             PROVE  /\ \A k \in 1 .. Len(ingress) : ingress[k] = None
                    /\ running = <<>> /\ waiting = <<>>
                    /\ worker # "forward" /\ results_queue = <<>>
                    /\ \A k \in 1 .. Len(plan_queue) : plan_queue[k] = "None"
                    /\ free = Capacity
  BY DEF IdleIsIdle, is_idle
<1>1. /\ EngineTypeOK /\ KnownInv /\ QueuesInv /\ HeldInv /\ SubmittedInv /\ EndedInv /\ WorkInv
  BY DEF EngineInv
<1>2. \A s \in Sequences : ~ Live(s) /\ status[s] # "WAITING"
  BY <1>1, NobodyIsLeft
<1>3. \A k \in 1 .. Len(ingress) : ingress[k] = None
  BY <1>1 DEF SubmittedInv, EndedInv, Ended
<1>4. running = <<>> /\ waiting = <<>>
  <2>1. running \in Seq(Sequences) /\ waiting \in Seq(Sequences)
    BY <1>1 DEF QueuesInv
  <2>2. \A s \in Sequences : s \notin Range(running) /\ s \notin Range(waiting)
    BY <1>1, <1>2 DEF QueuesInv
  <2>3. ASSUME NEW q \in Seq(Sequences), q # <<>> PROVE \E s \in Sequences : s \in Range(q)
    <3>1. 1 \in DOMAIN q /\ q[1] \in Sequences
      BY <2>3
    <3> QED
      BY <3>1 DEF Range
  <2> QED
    BY <2>1, <2>2, <2>3
<1>5. phase # "in_flight"
  BY <1>1, NotStopped
<1>6. worker # "forward" /\ results_queue = <<>> /\ ~ PlanQueued
  BY <1>1, <1>5 DEF WorkInv
<1>7. \A k \in 1 .. Len(plan_queue) : plan_queue[k] = "None"
  BY <1>1, <1>6 DEF EngineTypeOK, PlanQueued
<1>8. free = Capacity
  <2>1. CASE phase = "exited"
    BY <2>1 DEF AccountsInv
  <2>2. CASE phase # "exited"
    <3>1. PoolTotal /\ KVTypeOK /\ \A s \in Sequences : held[s] = 0
      BY <1>1, <1>2, <2>2 DEF AccountsInv, HeldInv
    <3> QED
      BY <3>1, NothingHeld
  <2> QED
    BY <2>1, <2>2
<1> QED
  BY <1>3, <1>4, <1>6, <1>7, <1>8

\* With finitely many requests, an engine that has counted as many ends as submissions
\* has nothing anywhere: no request in a queue, no plan or outcome on the way, the
\* whole pool free, even after the device was lost.
THEOREM IdleEngineIsIdle ==
  ASSUME IsFiniteSet(Sequences)
  PROVE  EngineSpec => []IdleIsIdle
<1>1. EngineInit => AccountsInv
  <2> SUFFICES ASSUME EngineInit PROVE AccountsInv
    OBVIOUS
  <2>1. free = Capacity /\ held = [s \in Sequences |-> 0] /\ Capacity \in Nat
    BY KVAllocatorAssumption DEF EngineInit, Init, AllocatorInit, Capacity
  <2>2. SumFunction([s \in Sequences |-> 0]) = 0
    BY SumOfZeros
  <2> QED
    BY <2>1, <2>2 DEF AccountsInv, PoolTotal
<1>2. EngineInv /\ AccountsInv /\ [EngineNext]_evars => AccountsInv'
  BY AccountsStep
<1>3. EngineInv /\ AccountsInv => IdleIsIdle
  BY EndedMeansIdle
<1> QED
  BY <1>1, <1>2, <1>3, EngineInvariance, PTL DEF EngineSpec
=============================================================================
