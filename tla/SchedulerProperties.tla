------------------------- MODULE SchedulerProperties -------------------------
(***************************************************************************)
(* What the scheduler promises the rest of the engine.                     *)
(***************************************************************************)
EXTENDS Scheduler

Statuses == {"NEW", "WAITING", "PREFILLING", "DECODING", "DONE", "ABORTED"}

Phases == {"drain", "decodes", "continuations", "admissions", "rejects",
           "in_flight", "results", "failed", "blocked"}

Entries == [seq_id : Sequences, n_tokens : Nat, is_prefill_chunk : BOOLEAN]

\* Every variable has its type.
TypeOK ==
  /\ KVTypeOK
  /\ status \in [Sequences -> Statuses]
  /\ shape \in [Sequences -> Shapes]
  /\ generated \in [Sequences -> Nat]
  /\ prefill_progress \in [Sequences -> Nat]
  /\ admission_skips \in [Sequences -> Nat]
  /\ admitted \in [Sequences -> BOOLEAN]
  /\ running \in Seq(Sequences)
  /\ waiting \in Seq(Sequences)
  /\ entries \in Seq(Entries)
  /\ preempted \in Seq(Sequences)
  /\ rejected \in Seq(Sequences)
  /\ phase \in Phases
  /\ index \in Nat \ {0}
  /\ budget \in Nat
  /\ cap \in Nat
-----------------------------------------------------------------------------
\* Rejected sequences not yet aborted.
ToReject == {rejected[k] : k \in (IF At("rejects") THEN index ELSE 1) .. Len(rejected)}

\* The plan's entries whose outcome has not been folded in.
Pending ==
  {entries[k] : k \in (IF At("results") \/ At("failed") THEN index ELSE 1) .. Len(entries)}

PendingFor(s) == \E e \in Pending : e.seq_id = s

\* What is free and what the sequences hold add up to the pool after every call,
\* and a live sequence holds what its slots need, no more: with blocks, the blocks
\* of its slots; with reservations, one that its tokens never outgrow.  A
\* sequence that is not running holds nothing.
HoldingsExact ==
  /\ free + SumFunction(held) = Capacity
  /\ \A s \in Sequences :
       IF Live(s)
       THEN IF Paged THEN held[s] = BlocksFor(slots[s])
                     ELSE held[s] = reservation(s) /\ slots[s] =< reservation(s)
       ELSE held[s] = 0 /\ slots[s] = 0

\* A sequence is in one place, once: `running` iff it is live, else `waiting`
\* or about to be rejected iff it is WAITING.
OnePlace ==
  /\ IsInjective(running) /\ IsInjective(waiting) /\ IsInjective(rejected)
  /\ \A s \in Sequences :
       /\ s \in Range(running) <=> Live(s)
       /\ status[s] = "WAITING" <=> s \in Range(waiting) \cup ToReject
  /\ Range(waiting) \cap ToReject = {}

\* The slots of a sequence agree with its tokens.  A PREFILLING one has slots
\* for what is prefilled and is not finished prefilling; a DECODING one lacks a
\* slot for its latest token only, unless the plan in progress has added it.
\* This is what the worker relies on when it derives positions, context lengths
\* and destination slots from the table and from prefill_progress.
SlotsMatchTokens ==
  \A s \in Sequences :
    /\ status[s] = "PREFILLING" =>
         /\ slots[s] = prefill_progress[s]
         /\ prefill_progress[s] \in 1 .. num_tokens(s) - 1
    /\ status[s] = "DECODING" =>
         slots[s] = num_tokens(s) - (IF PendingFor(s) THEN 0 ELSE 1)
    /\ status[s] = "WAITING" => prefill_progress[s] = 0

\* Every entry handed to the worker is for a sequence still in `running`, one
\* entry per sequence, of the kind its status says: a preemption in the middle
\* of planning leaves no entry of its victim behind.
PlanConsistent ==
  /\ \A j, k \in 1 .. Len(entries) : entries[j].seq_id = entries[k].seq_id => j = k
  /\ \A e \in Pending :
       /\ Live(e.seq_id)
       /\ ~e.is_prefill_chunk => status[e.seq_id] = "DECODING" /\ e.n_tokens = 1
       /\ e.is_prefill_chunk => e.n_tokens \in 1 .. prefill_progress[e.seq_id]

PrefillOf(q) ==
  FoldLeft(LAMBDA sum, e : sum + (IF e.is_prefill_chunk THEN e.n_tokens ELSE 0), 0, q)

PrefillTokens == PrefillOf(entries)

\* An iteration's tokens fit the buckets the engine captured graphs for: at most
\* token_budget of prefill and a decode token per running sequence, no prefill
\* chunk above its share.
BatchFitsBuckets ==
  /\ PrefillTokens =< token_budget
  /\ Len(running) =< max_running
  /\ Cardinality({k \in DOMAIN entries : ~entries[k].is_prefill_chunk}) =< max_running
  /\ \A k \in DOMAIN entries :
       entries[k].is_prefill_chunk => entries[k].n_tokens =< max_prefill_chunk

\* A sequence that is decoding gets a token in every iteration, whatever prefill
\* work competes with it.
AllDecodesPlanned ==
  At("in_flight") \/ At("blocked") =>
    \A s \in Sequences : status[s] = "DECODING" => PendingFor(s)

\* At most MAX_ADMISSION_SKIPS admissions go ahead of a sequence while it is the
\* head of `waiting`, counting those of every time it becomes the head.
SkipsBounded == \A s \in Sequences : admission_skips[s] =< MAX_ADMISSION_SKIPS

\* `waiting` keeps its order: what was preempted is ahead of what was never
\* admitted, and among the latter the order is that of arrival.
WaitingInOrder ==
  \A j, k \in 1 .. Len(waiting) :
    j < k /\ ~admitted[waiting[j]] => ~admitted[waiting[k]] /\ waiting[j] < waiting[k]

\* A static batch is admitted together: no sequence joins one that has started.
StaticBatchTogether ==
  scheduler = "static" /\ At("in_flight") =>
    LET joined == {s \in Range(running) :
                     \E e \in Pending : /\ e.seq_id = s /\ e.is_prefill_chunk
                                        /\ e.n_tokens = prefill_progress[s]}
    IN joined \in {{}, Range(running)}

\* An empty plan leaves nothing running: the comment where the scheduler thread
\* blocks on the ingress relies on it, since no block would come free.
EmptyPlanLeavesNothingRunning == At("blocked") => running = <<>>

\* What is rejected would outgrow the pool: the pool does not hold the prompt and
\* all the tokens the request may still generate.
RejectedOutgrowsPool ==
  \A k \in 1 .. Len(rejected) : BlocksFor(reservation(rejected[k])) > num_blocks

\* Every request ends, once it is in `waiting`: it is neither passed over for
\* ever nor preempted and recomputed for ever.
EveryRequestEnds ==
  \A s \in Sequences : status[s] = "WAITING" ~> Ended(s)
=============================================================================
