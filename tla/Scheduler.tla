------------------------------ MODULE Scheduler ------------------------------
(***************************************************************************)
(* The scheduler: what one iteration plans from `running` and `waiting`,   *)
(* and how the iteration's outcome is folded back in.                      *)
(*                                                                         *)
(* The code's loops are walked one turn per action, with `phase` naming    *)
(* the loop and `index` its position, so every intermediate state of a     *)
(* step (a preemption half way through the decodes, an admission half way  *)
(* through `waiting`) is a state of the model.  The phases follow one      *)
(* another as the calls do:                                                *)
(*                                                                         *)
(*   drain -> decodes -> continuations -> admissions -> rejects            *)
(*         -> in_flight -> results | failed -> drain                       *)
(*         -> blocked   -> drain               (the plan was empty)        *)
(*                                                                         *)
(* A sequence's prompt and tokens are counts.  What the model samples is   *)
(* the environment's choice, so a token may or may not be a stop token.    *)
(***************************************************************************)
EXTENDS KVAllocator, Sequences, SequencesExt

CONSTANTS
  scheduler,            \* "continuous" or "static"
  token_budget,         \* prefill tokens of one iteration
  max_running,          \* max_concurrent_sequences, or batch_size
  MAX_ADMISSION_SKIPS,
  Shapes                \* set of [prompt_len, max_tokens] a request may have

ASSUME SchedulerAssumption ==
  /\ Sequences \subseteq Nat
  /\ scheduler \in {"continuous", "static"}
  /\ token_budget \in Nat \ {0}
  /\ max_running \in Nat \ {0}
  /\ MAX_ADMISSION_SKIPS \in Nat
  /\ Shapes \subseteq [prompt_len : Nat \ {0}, max_tokens : Nat \ {0}]

VARIABLES
  status,            \* NEW (not submitted) WAITING PREFILLING DECODING DONE ABORTED
  shape,             \* the request's prompt length and max_tokens
  generated,         \* len(generated_tokens)
  prefill_progress,
  admission_skips,
  admitted,          \* metrics.admit_time is set
  running,           \* list of sequences, in admission order
  waiting,           \* deque of sequences
  entries,           \* plan.entries
  preempted,         \* plan.preempted
  rejected,          \* plan.rejected
  phase, index,      \* where the scheduler thread is
  budget,            \* prefill tokens left in this step
  cap                \* admission_cap, read once per step

seq_vars   == <<status, shape, generated, prefill_progress, admission_skips, admitted>>
queue_vars == <<running, waiting>>
plan_vars  == <<entries, preempted, rejected>>
loop_vars  == <<phase, index, budget, cap>>
vars == <<kv_vars, seq_vars, queue_vars, plan_vars, loop_vars>>
-----------------------------------------------------------------------------
Lesser(a, b) == IF a =< b THEN a ELSE b

max_prefill_chunk == IF token_budget < 2 THEN 1 ELSE token_budget \div 2

num_tokens(s) == shape[s].prompt_len + generated[s]

reservationMut_PromptOnly(s) == shape[s].prompt_len

reservation(s) == shape[s].prompt_len + shape[s].max_tokens

Entry(s, n, is_prefill) == [seq_id |-> s, n_tokens |-> n, is_prefill_chunk |-> is_prefill]

admission_capMut_Static == max_running

admission_cap == IF scheduler = "static" /\ running # <<>> THEN 0 ELSE max_running

At(p) == phase = p

GoTo(p) == phase' = p /\ index' = 1

Step == index' = index + 1 /\ UNCHANGED phase

\* The loop over `list` has turns left.
Turn(list) == index =< Len(list)

Live(s) == status[s] \in {"PREFILLING", "DECODING"}

Ended(s) == status[s] \in {"DONE", "ABORTED"}
-----------------------------------------------------------------------------
Init ==
  /\ AllocatorInit
  /\ status = [s \in Sequences |-> "NEW"]
  /\ shape \in [Sequences -> Shapes]
  /\ generated = [s \in Sequences |-> 0]
  /\ prefill_progress = [s \in Sequences |-> 0]
  /\ admission_skips = [s \in Sequences |-> 0]
  /\ admitted = [s \in Sequences |-> FALSE]
  /\ running = <<>>
  /\ waiting = <<>>
  /\ entries = <<>>
  /\ preempted = <<>>
  /\ rejected = <<>>
  /\ phase = "drain"
  /\ index = 1
  /\ budget = 0
  /\ cap = 0

\* _admit_ingress: the next request joins the tail of `waiting`.
AdmitIngress(s) ==
  /\ status[s] = "NEW"
  /\ \A t \in Sequences : t < s => status[t] # "NEW"
  /\ status' = [status EXCEPT ![s] = "WAITING"]
  /\ waiting' = Append(waiting, s)
  /\ UNCHANGED <<kv_vars, shape, generated, prefill_progress, admission_skips, admitted,
                 running, plan_vars, budget, cap>>

\* Requests arrive while the ingress is drained, or wake the blocked thread.
Arrive(s) ==
  /\ At("drain") \/ At("blocked")
  /\ AdmitIngress(s)
  /\ GoTo("drain")

\* scheduler_step begins: an empty BatchPlan.
BeginStep ==
  /\ At("drain")
  /\ GoTo("decodes")
  /\ budget' = token_budget
  /\ UNCHANGED <<kv_vars, seq_vars, queue_vars, plan_vars, cap>>
-----------------------------------------------------------------------------
(* _plan_decodes and _preempt_until_allocated *)

SkipDecode ==
  /\ At("decodes") /\ Turn(running)
  /\ status[running[index]] # "DECODING"
  /\ Step
  /\ UNCHANGED <<kv_vars, seq_vars, queue_vars, plan_vars, budget, cap>>

PlanDecode ==
  /\ At("decodes") /\ Turn(running)
  /\ LET s == running[index] IN
     /\ status[s] = "DECODING"
     /\ Allocate(s, 1, reservation(s), 0)
     /\ entries' = Append(entries, Entry(s, 1, FALSE))
  /\ Step
  /\ UNCHANGED <<seq_vars, queue_vars, preempted, rejected, budget, cap>>

PreemptMut_Head(s) ==
  LET victim == Head(running) IN
  /\ running' = Tail(running)
  /\ waiting' = Cons(victim, waiting)
  /\ Free(victim)
  /\ prefill_progress' = [prefill_progress EXCEPT ![victim] = 0]
  /\ status' = [status EXCEPT ![victim] = "WAITING"]
  /\ preempted' = Append(preempted, victim)

PreemptMut_NoReset(s) ==
  LET victim == Last(running) IN
  /\ running' = Front(running)
  /\ waiting' = Cons(victim, waiting)
  /\ Free(victim)
  /\ status' = [status EXCEPT ![victim] = "WAITING"]
  /\ preempted' = Append(preempted, victim)
  /\ UNCHANGED prefill_progress

PreemptMut_ToTail(s) ==
  LET victim == Last(running) IN
  /\ running' = Front(running)
  /\ waiting' = Append(waiting, victim)
  /\ Free(victim)
  /\ prefill_progress' = [prefill_progress EXCEPT ![victim] = 0]
  /\ status' = [status EXCEPT ![victim] = "WAITING"]
  /\ preempted' = Append(preempted, victim)

\* One turn of _preempt_until_allocated's loop: the tail of `running` gives way.
Preempt(s) ==
  LET victim == Last(running) IN
  /\ running' = Front(running)
  /\ waiting' = Cons(victim, waiting)
  /\ Free(victim)
  /\ prefill_progress' = [prefill_progress EXCEPT ![victim] = 0]
  /\ status' = [status EXCEPT ![victim] = "WAITING"]
  /\ preempted' = Append(preempted, victim)

AfterPreemptMut_NoRetry(s) == index + 1

\* The loop tries s again, unless s was itself the victim.
AfterPreempt(s) == IF Last(running) = s THEN index + 1 ELSE index

PreemptForDecode ==
  /\ At("decodes") /\ Turn(running)
  /\ LET s == running[index] IN
     /\ status[s] = "DECODING"
     /\ ~CanAllocate(s, 1, reservation(s), 0)
     /\ Preempt(s)
     /\ index' = AfterPreempt(s)
  /\ UNCHANGED <<shape, generated, admission_skips, admitted, entries, rejected,
                 phase, budget, cap>>

EndDecodes ==
  /\ At("decodes") /\ ~Turn(running)
  /\ GoTo("continuations")
  /\ UNCHANGED <<kv_vars, seq_vars, queue_vars, plan_vars, budget, cap>>
-----------------------------------------------------------------------------
(* _plan_prefill_continuations *)

\* _advance_prefill
AdvancePrefill(s, chunk) ==
  /\ prefill_progress' = [prefill_progress EXCEPT ![s] = @ + chunk]
  /\ status' = [status EXCEPT ![s] =
       IF prefill_progress[s] + chunk = num_tokens(s) THEN "DECODING" ELSE "PREFILLING"]

ChunkMut_IgnoresShare(s) == Lesser(num_tokens(s) - prefill_progress[s], budget)

Chunk(s) ==
  Lesser(num_tokens(s) - prefill_progress[s], Lesser(budget, max_prefill_chunk))

Continuing == status[running[index]] = "PREFILLING" /\ budget # 0

SkipContinuation ==
  /\ At("continuations") /\ Turn(running)
  /\ ~Continuing
  /\ Step
  /\ UNCHANGED <<kv_vars, seq_vars, queue_vars, plan_vars, budget, cap>>

PlanContinuation ==
  /\ At("continuations") /\ Turn(running) /\ Continuing
  /\ LET s == running[index] IN
     /\ Allocate(s, Chunk(s), reservation(s), 0)
     /\ entries' = Append(entries, Entry(s, Chunk(s), TRUE))
     /\ budget' = budget - Chunk(s)
     /\ AdvancePrefill(s, Chunk(s))
  /\ Step
  /\ UNCHANGED <<shape, generated, admission_skips, admitted, queue_vars,
                 preempted, rejected, cap>>

\* The chunk does not fit: it waits, and no budget is left for admissions.
BlockContinuation ==
  /\ At("continuations") /\ Turn(running) /\ Continuing
  /\ LET s == running[index] IN ~CanAllocate(s, Chunk(s), reservation(s), 0)
  /\ budget' = 0
  /\ cap' = admission_cap
  /\ GoTo("admissions")
  /\ UNCHANGED <<kv_vars, seq_vars, queue_vars, plan_vars>>

EndContinuations ==
  /\ At("continuations") /\ ~Turn(running)
  /\ cap' = admission_cap
  /\ GoTo("admissions")
  /\ UNCHANGED <<kv_vars, seq_vars, queue_vars, plan_vars, budget>>
-----------------------------------------------------------------------------
(* _plan_admissions *)

MoreAdmissionsMut_NoFreeze ==
  Turn(waiting) /\ budget > 0 /\ Len(running) < cap

\* The loop's condition, and the return that freezes admissions behind a head
\* whose skips are spent.
MoreAdmissions ==
  /\ Turn(waiting) /\ budget > 0 /\ Len(running) < cap
  /\ ~(index > 1 /\ admission_skips[Head(waiting)] >= MAX_ADMISSION_SKIPS)

Candidate == waiting[index]

CandidateFits == can_ever_fit(num_tokens(Candidate), reservation(Candidate))

\* The candidate can never be held: it leaves `waiting` for plan.rejected.
Reject ==
  /\ At("admissions") /\ MoreAdmissions
  /\ ~CandidateFits
  /\ rejected' = Append(rejected, Candidate)
  /\ waiting' = RemoveAt(waiting, index)
  /\ UNCHANGED <<kv_vars, seq_vars, running, entries, preempted, loop_vars>>

AdmissionReserveMut_None == 0

\* A block for every running sequence's next token stays free.
AdmissionReserve == Len(running)

PassOver ==
  /\ At("admissions") /\ MoreAdmissions
  /\ CandidateFits
  /\ ~CanAllocate(Candidate, Chunk(Candidate), reservation(Candidate), AdmissionReserve)
  /\ Step
  /\ UNCHANGED <<kv_vars, seq_vars, queue_vars, plan_vars, budget, cap>>

Admit ==
  /\ At("admissions") /\ MoreAdmissions
  /\ CandidateFits
  /\ LET s == Candidate
         chunk == Chunk(s)
         rest == RemoveAt(waiting, index)
     IN
     /\ Allocate(s, chunk, reservation(s), AdmissionReserve)
     /\ entries' = Append(entries, Entry(s, chunk, TRUE))
     /\ budget' = budget - chunk
     /\ AdvancePrefill(s, chunk)
     /\ admitted' = [admitted EXCEPT ![s] = TRUE]
     /\ waiting' = rest
     /\ running' = Append(running, s)
     /\ admission_skips' =
          IF index > 1 THEN [admission_skips EXCEPT ![Head(rest)] = @ + 1]
                       ELSE admission_skips
  /\ UNCHANGED <<shape, generated, preempted, rejected, phase, index, cap>>

EndAdmissions ==
  /\ At("admissions") /\ ~MoreAdmissions
  /\ GoTo("rejects")
  /\ UNCHANGED <<kv_vars, seq_vars, queue_vars, plan_vars, budget, cap>>
-----------------------------------------------------------------------------
(* Scheduler.abort and InferenceEngine._end, for one sequence *)

EndAsMut_StaysRunning(s, outcome) ==
  /\ status' = [status EXCEPT ![s] = outcome]
  /\ UNCHANGED running
  /\ Free(s)

EndAs(s, outcome) ==
  /\ status' = [status EXCEPT ![s] = outcome]
  /\ running' = RemoveFirst(running, s)
  /\ Free(s)

AbortRejected ==
  /\ At("rejects") /\ Turn(rejected)
  /\ EndAs(rejected[index], "ABORTED")
  /\ Step
  /\ UNCHANGED <<shape, generated, prefill_progress, admission_skips, admitted, waiting,
                 plan_vars, budget, cap>>

HandOverMut_Pipelined ==
  /\ At("rejects") /\ ~Turn(rejected)
  /\ GoTo(IF entries = <<>> THEN "blocked" ELSE "drain")
  /\ preempted' = <<>>
  /\ rejected' = <<>>
  /\ budget' = 0
  /\ cap' = 0
  /\ UNCHANGED <<kv_vars, seq_vars, queue_vars, entries>>

\* A plan with entries goes to the worker; an empty one means the thread blocks
\* on the ingress.
HandOver ==
  /\ At("rejects") /\ ~Turn(rejected)
  /\ GoTo(IF entries = <<>> THEN "blocked" ELSE "in_flight")
  /\ preempted' = <<>>
  /\ rejected' = <<>>
  /\ budget' = 0
  /\ cap' = 0
  /\ UNCHANGED <<kv_vars, seq_vars, queue_vars, entries>>
-----------------------------------------------------------------------------
(* The outcome of the iteration *)

Forward ==
  /\ At("in_flight")
  /\ GoTo("results") \/ GoTo("failed")
  /\ UNCHANGED <<kv_vars, seq_vars, queue_vars, plan_vars, budget, cap>>

owes_token(e) == ~(e.is_prefill_chunk /\ status[e.seq_id] = "PREFILLING")

\* handle_iteration_results, one result: the token is appended and, if it is a
\* stop token or the last one allowed, the sequence ends.
ApplyResult(stop) ==
  /\ At("results") /\ Turn(entries) /\ owes_token(entries[index])
  /\ LET s == entries[index].seq_id IN
     /\ generated' = [generated EXCEPT ![s] = @ + 1]
     /\ IF stop \/ generated[s] + 1 >= shape[s].max_tokens
        THEN EndAs(s, "DONE")
        ELSE UNCHANGED <<status, running, kv_vars>>
  /\ Step
  /\ UNCHANGED <<shape, prefill_progress, admission_skips, admitted, waiting,
                 plan_vars, budget, cap>>

NoResult ==
  /\ At("results") /\ Turn(entries) /\ ~owes_token(entries[index])
  /\ Step
  /\ UNCHANGED <<kv_vars, seq_vars, queue_vars, plan_vars, budget, cap>>

\* A failed batch had advanced prefill progress and tables the model never
\* computed, so every sequence in it is aborted.
AbortEntry ==
  /\ At("failed") /\ Turn(entries)
  /\ EndAs(entries[index].seq_id, "ABORTED")
  /\ Step
  /\ UNCHANGED <<shape, generated, prefill_progress, admission_skips, admitted, waiting,
                 plan_vars, budget, cap>>

EndIteration ==
  /\ At("results") \/ At("failed")
  /\ ~Turn(entries)
  /\ entries' = <<>>
  /\ GoTo("drain")
  /\ UNCHANGED <<kv_vars, seq_vars, queue_vars, preempted, rejected, budget, cap>>
-----------------------------------------------------------------------------
SchedulerStep ==
  \/ BeginStep
  \/ SkipDecode \/ PlanDecode \/ PreemptForDecode \/ EndDecodes
  \/ SkipContinuation \/ PlanContinuation \/ BlockContinuation \/ EndContinuations
  \/ Reject \/ PassOver \/ Admit \/ EndAdmissions
  \/ AbortRejected \/ HandOver

Outcome ==
  \/ Forward
  \/ \E stop \in BOOLEAN : ApplyResult(stop)
  \/ NoResult
  \/ AbortEntry
  \/ EndIteration

Next == SchedulerStep \/ Outcome \/ \E s \in Sequences : Arrive(s)

Spec == Init /\ [][Next]_vars

\* The scheduler thread runs until it blocks, and a forward pass returns.
\* Nothing makes requests arrive.
FairSpec == Spec /\ WF_vars(SchedulerStep) /\ WF_vars(Outcome)
=============================================================================
