--------------------------- MODULE SchedulerProofs ---------------------------
(***************************************************************************)
(* For every pool, policy, budget and set of requests: the scheduler's     *)
(* state keeps its types (in particular the pool is never overdrawn and    *)
(* the budget never negative), prefill never runs past the tokens there    *)
(* are, and admissions pass over a waiting head a bounded number of times. *)
(* Then: sequences are in one place, tables agree with tokens, and the     *)
(* plan handed to the worker is consistent, complete and within the        *)
(* buckets.                                                                *)
(*                                                                         *)
(* The latter hold together or not at all: that the plan has one entry for *)
(* a sequence follows from where the loops' cursor is in `running`, which  *)
(* is one place per sequence only because the plan's sequences are live.   *)
(***************************************************************************)
EXTENDS SchedulerHistory, Sums, SequenceTheorems

\* Prefill has not run past the tokens there are: a chunk's length is not negative.
ProgressBounded == \A s \in Sequences : prefill_progress[s] =< num_tokens(s)

IInv == TypeOK /\ ProgressBounded /\ SkipsBounded
-----------------------------------------------------------------------------
(* Lists *)

\* RemoveFirst takes out one occurrence, if there is one.
LEMMA RemoveFirstIsRemoveAt ==
  ASSUME NEW S, NEW f \in Seq(S), NEW e
  PROVE  \/ RemoveFirst(f, e) = f /\ \A k \in 1 .. Len(f) : f[k] # e
         \/ \E k \in 1 .. Len(f) : f[k] = e /\ RemoveFirst(f, e) = RemoveAt(f, k)
<1> DEFINE I == {k \in 1 .. Len(f) : f[k] = e}
<1>1. CASE I = {}
  BY <1>1 DEF RemoveFirst
<1>2. CASE I # {}
  <2>1. \E x \in I : \A y \in I : x =< y
    <3>1. I \subseteq Nat
      OBVIOUS
    <3> QED
      BY <3>1, <1>2, LeastElement
  <2>2. Min(I) \in I
    BY <2>1 DEF Min
  <2>3. SelectInSeq(f, LAMBDA v : v = e) = Min(I)
    BY <1>2 DEF SelectInSeq
  <2> QED
    BY <1>2, <2>2, <2>3 DEF RemoveFirst
<1> QED
  BY <1>1, <1>2

\* RemoveAt keeps the other elements in their order.
LEMMA RemoveAtProperties ==
  ASSUME NEW S, NEW f \in Seq(S), NEW k \in 1 .. Len(f)
  PROVE  /\ RemoveAt(f, k) \in Seq(S)
         /\ Len(RemoveAt(f, k)) = Len(f) - 1
         /\ \A i \in 1 .. k - 1 : RemoveAt(f, k)[i] = f[i]
         /\ \A i \in k .. Len(f) - 1 : RemoveAt(f, k)[i] = f[i + 1]
<1> DEFINE left == SubSeq(f, 1, k - 1)
           right == SubSeq(f, k + 1, Len(f))
<1>1. /\ left \in Seq(S) /\ Len(left) = k - 1
      /\ \A i \in 1 .. k - 1 : left[i] = f[i]
  OBVIOUS
<1>2. /\ right \in Seq(S) /\ Len(right) = Len(f) - k
      /\ \A i \in 1 .. Len(f) - k : right[i] = f[k + i]
  OBVIOUS
<1>3. RemoveAt(f, k) = left \o right
  BY DEF RemoveAt
<1> HIDE DEF left, right
<1>4. /\ left \o right \in Seq(S)
      /\ Len(left \o right) = Len(left) + Len(right)
      /\ \A i \in 1 .. Len(left) + Len(right) :
           (left \o right)[i] = IF i =< Len(left) THEN left[i] ELSE right[i - Len(left)]
  <2>1. left \in Seq(S) /\ right \in Seq(S)
    BY <1>1, <1>2
  <2> QED
    BY <2>1, ConcatProperties
<1>5. Len(left \o right) = Len(f) - 1
  BY <1>1, <1>2, <1>4
<1>6. ASSUME NEW i \in k .. Len(f) - 1 PROVE (left \o right)[i] = f[i + 1]
  <2>1. i - (k - 1) \in 1 .. Len(f) - k /\ k + (i - (k - 1)) = i + 1
    OBVIOUS
  <2>2. i \in 1 .. Len(left) + Len(right) /\ i > Len(left)
    BY <1>1, <1>2
  <2> QED
    BY <1>1, <1>2, <1>4, <2>1, <2>2
<1>7. ASSUME NEW i \in 1 .. k - 1 PROVE (left \o right)[i] = f[i]
  <2>1. i \in 1 .. Len(left) + Len(right) /\ i =< Len(left)
    BY <1>1, <1>2
  <2> QED
    BY <1>1, <1>4, <2>1
<1> QED
  BY <1>3, <1>4, <1>5, <1>6, <1>7

\* list.remove keeps a list of sequences one.
LEMMA RemoveFirstType ==
  ASSUME NEW S, NEW f \in Seq(S), NEW e
  PROVE  RemoveFirst(f, e) \in Seq(S)
BY RemoveFirstIsRemoveAt, RemoveAtProperties

\* The front of a non-empty list, and its last element.
LEMMA FrontLastType ==
  ASSUME NEW S, NEW f \in Seq(S), Len(f) > 0
  PROVE  Front(f) \in Seq(S) /\ Last(f) \in S
BY DEF Front, Last

\* appendleft keeps a list one.
LEMMA ConsType ==
  ASSUME NEW S, NEW f \in Seq(S), NEW e \in S
  PROVE  Cons(e, f) \in Seq(S)
BY DEF Cons
-----------------------------------------------------------------------------
(* The allocator interface *)

\* Blocks for a number of tokens.
LEMMA BlocksForType ==
  ASSUME NEW t \in Nat
  PROVE  BlocksFor(t) \in Nat
<1>1. block_size \in Nat \ {0}
  BY KVAllocatorAssumption
<1>2. t + block_size - 1 \in Nat
  BY <1>1
<1> QED
  BY <1>1, <1>2 DEF BlocksFor

\* allocate takes no more than is free, whichever allocator it is.
LEMMA AllocateType ==
  ASSUME KVTypeOK, NEW s \in Sequences, NEW n \in Nat, NEW r \in Nat, NEW d \in Nat,
         Allocate(s, n, r, d)
  PROVE  KVTypeOK'
<1> DEFINE k == needed(s, n, r)
<1>1. /\ free \in Nat /\ held \in [Sequences -> Nat] /\ slots \in [Sequences -> Nat]
  BY DEF KVTypeOK
<1>2. k \in Int /\ held[s] + k \in Nat
  <2>1. CASE Paged
    <3>1. BlocksFor(slots[s] + n) \in Nat
      BY <1>1, BlocksForType
    <3> QED
      BY <2>1, <3>1, <1>1 DEF needed
  <2>2. CASE ~Paged
    BY <2>2, <1>1 DEF needed
  <2> QED
    BY <2>1, <2>2
<1>3. k + (IF Paged THEN d ELSE 0) =< free
  BY DEF Allocate, CanAllocate
<1>4. /\ free' = free - k
      /\ held' = [held EXCEPT ![s] = @ + k]
      /\ slots' = [slots EXCEPT ![s] = @ + n]
  BY DEF Allocate
<1> HIDE DEF k
<1>5. free' \in Nat
  BY <1>1, <1>2, <1>3, <1>4
<1>6. held' \in [Sequences -> Nat] /\ slots' \in [Sequences -> Nat]
  BY <1>1, <1>2, <1>4
<1> QED
  BY <1>5, <1>6 DEF KVTypeOK

\* free returns what is held.
LEMMA FreeType ==
  ASSUME KVTypeOK, NEW s \in Sequences, Free(s)
  PROVE  KVTypeOK'
BY DEF KVTypeOK, Free

\* A sequence's token count and its reservation are positive.
LEMMA TokensType ==
  ASSUME TypeOK, NEW s \in Sequences
  PROVE  num_tokens(s) \in Nat \ {0} /\ reservation(s) \in Nat
<1>1. shape[s] \in [prompt_len : Nat \ {0}, max_tokens : Nat \ {0}] /\ generated[s] \in Nat
  BY SchedulerAssumption DEF TypeOK
<1> QED
  BY <1>1 DEF num_tokens, reservation

\* A chunk is no longer than what is left of the prompt, nor than the budget.
LEMMA ChunkBounds ==
  ASSUME TypeOK, ProgressBounded, NEW s \in Sequences
  PROVE  /\ Chunk(s) \in Nat
         /\ Chunk(s) =< budget
         /\ prefill_progress[s] + Chunk(s) =< num_tokens(s)
<1>1. /\ num_tokens(s) \in Nat /\ prefill_progress[s] \in Nat /\ budget \in Nat
      /\ prefill_progress[s] =< num_tokens(s)
  BY TokensType DEF TypeOK, ProgressBounded
<1>2. max_prefill_chunk \in Nat
  BY SchedulerAssumption DEF max_prefill_chunk
<1> QED
  BY <1>1, <1>2 DEF Chunk, Lesser
-----------------------------------------------------------------------------
(* The actions *)

\* The constructor's state.
LEMMA InitInv == Init => IInv
<1> SUFFICES ASSUME Init PROVE IInv
  OBVIOUS
<1>1. KVTypeOK
  BY KVAllocatorAssumption DEF Init, AllocatorInit, KVTypeOK, Capacity
<1>2. TypeOK
  BY <1>1 DEF Init, TypeOK, Statuses, Phases
<1>3. ProgressBounded
  <2> SUFFICES ASSUME NEW s \in Sequences PROVE prefill_progress[s] =< num_tokens(s)
    BY DEF ProgressBounded
  <2>1. prefill_progress[s] = 0 /\ prefill_progress[s] \in Nat
    BY DEF Init
  <2>2. num_tokens(s) \in Nat
    BY <1>2, TokensType
  <2> QED
    BY <2>1, <2>2
<1>4. SkipsBounded
  <2> SUFFICES ASSUME NEW s \in Sequences PROVE admission_skips[s] =< MAX_ADMISSION_SKIPS
    BY DEF SkipsBounded
  <2>1. admission_skips[s] = 0 /\ admission_skips[s] \in Nat
    BY DEF Init
  <2> QED
    BY <2>1, SchedulerAssumption
<1> QED
  BY <1>2, <1>3, <1>4 DEF IInv

\* The turns that move only the loop: what they skip or end changes no sequence.
LoopTurn ==
  \/ BeginStep
  \/ SkipDecode \/ EndDecodes
  \/ SkipContinuation \/ BlockContinuation \/ EndContinuations
  \/ PassOver \/ EndAdmissions
  \/ HandOver
  \/ Forward \/ NoResult \/ EndIteration

\* The cap on admissions is a number.
LEMMA CapType == admission_cap \in Nat
BY SchedulerAssumption DEF admission_cap

\* Nothing but the loop's position, its budget and the plan's lists changes.
LEMMA LoopTurnInv ==
  ASSUME IInv, LoopTurn
  PROVE  IInv'
<1>1. TypeOK /\ ProgressBounded /\ SkipsBounded
  BY DEF IInv
<1>2. UNCHANGED <<kv_vars, seq_vars, queue_vars>>
  BY DEF LoopTurn, BeginStep, SkipDecode, EndDecodes, SkipContinuation, BlockContinuation,
         EndContinuations, PassOver, EndAdmissions, HandOver, Forward, NoResult, EndIteration
<1>3. phase' \in Phases /\ index' \in Nat \ {0}
  <2>1. phase \in Phases /\ index \in Nat \ {0}
    BY <1>1 DEF TypeOK
  <2>2. \/ \E p \in Phases : GoTo(p)
        \/ Step
    BY DEF LoopTurn, BeginStep, SkipDecode, EndDecodes, SkipContinuation, BlockContinuation,
           EndContinuations, PassOver, EndAdmissions, HandOver, Forward, NoResult,
           EndIteration, Phases
  <2> QED
    BY <2>1, <2>2 DEF GoTo, Step
<1>4. budget' \in Nat /\ cap' \in Nat
  BY <1>1, CapType, SchedulerAssumption
     DEF LoopTurn, BeginStep, SkipDecode, EndDecodes, SkipContinuation, BlockContinuation,
         EndContinuations, PassOver, EndAdmissions, HandOver, Forward, NoResult, EndIteration,
         TypeOK
<1>5. /\ entries' \in Seq(Entries)
      /\ preempted' \in Seq(Sequences)
      /\ rejected' \in Seq(Sequences)
  <2>1. /\ entries' \in {entries, <<>>}
        /\ preempted' \in {preempted, <<>>}
        /\ rejected' \in {rejected, <<>>}
    BY DEF LoopTurn, BeginStep, SkipDecode, EndDecodes, SkipContinuation, BlockContinuation,
           EndContinuations, PassOver, EndAdmissions, HandOver, Forward, NoResult,
           EndIteration, plan_vars
  <2>2. /\ entries \in Seq(Entries) /\ <<>> \in Seq(Entries)
        /\ preempted \in Seq(Sequences) /\ rejected \in Seq(Sequences)
        /\ <<>> \in Seq(Sequences)
    BY <1>1 DEF TypeOK
  <2> QED
    BY <2>1, <2>2
<1>6. TypeOK'
  BY <1>1, <1>2, <1>3, <1>4, <1>5
     DEF TypeOK, KVTypeOK, kv_vars, seq_vars, queue_vars
<1>7. ProgressBounded'
  BY <1>1, <1>2 DEF ProgressBounded, num_tokens, seq_vars
<1>8. SkipsBounded'
  BY <1>1, <1>2 DEF SkipsBounded, seq_vars
<1> QED
  BY <1>6, <1>7, <1>8 DEF IInv

\* A request joins the tail of `waiting`.
LEMMA ArriveInv ==
  ASSUME IInv, NEW s \in Sequences, Arrive(s)
  PROVE  IInv'
<1>1. TypeOK /\ ProgressBounded /\ SkipsBounded
  BY DEF IInv
<1>2. TypeOK'
  <2>1. /\ status' = [status EXCEPT ![s] = "WAITING"] /\ waiting' = Append(waiting, s)
        /\ shape' \in [Sequences -> Shapes]
        /\ phase' \in Phases /\ index' \in Nat \ {0}
        /\ UNCHANGED <<kv_vars, generated, prefill_progress, admission_skips, admitted,
                       running, entries, preempted, rejected, budget, cap>>
    BY <1>1 DEF Arrive, AdmitIngress, GoTo, TypeOK, Phases, plan_vars
  <2>2. status' \in [Sequences -> Statuses]
    BY <1>1, <2>1 DEF TypeOK, Statuses
  <2>3. waiting' \in Seq(Sequences)
    BY <1>1, <2>1, AppendProperties DEF TypeOK
  <2>4. KVTypeOK'
    BY <1>1, <2>1 DEF TypeOK, KVTypeOK, kv_vars
  <2> QED
    BY <1>1, <2>1, <2>2, <2>3, <2>4 DEF TypeOK
<1>3. ProgressBounded' /\ SkipsBounded'
  BY <1>1 DEF Arrive, AdmitIngress, ProgressBounded, SkipsBounded, num_tokens
<1> QED
  BY <1>2, <1>3 DEF IInv

\* The sequence a turn of a loop over `running` is about.
LEMMA TurnType ==
  ASSUME TypeOK, Turn(running)
  PROVE  running[index] \in Sequences
BY DEF TypeOK, Turn

\* A decode takes one slot and adds an entry.
LEMMA PlanDecodeInv ==
  ASSUME IInv, PlanDecode
  PROVE  IInv'
<1>1. TypeOK /\ ProgressBounded /\ SkipsBounded
  BY DEF IInv
<1> DEFINE s == running[index]
<1>2. s \in Sequences
  BY <1>1, TurnType DEF PlanDecode
<1>3. /\ Allocate(s, 1, reservation(s), 0)
      /\ entries' = Append(entries, Entry(s, 1, FALSE))
      /\ index' = index + 1
      /\ UNCHANGED <<seq_vars, queue_vars, preempted, rejected, phase, budget, cap>>
  BY DEF PlanDecode, Step
<1> HIDE DEF s
<1>4. KVTypeOK'
  <2>1. reservation(s) \in Nat
    BY <1>1, <1>2, TokensType
  <2> QED
    BY <1>1, <1>2, <1>3, <2>1, AllocateType DEF TypeOK
<1>5. Entry(s, 1, FALSE) \in Entries
  BY <1>2 DEF Entry, Entries
<1>6. entries' \in Seq(Entries)
  <2>1. entries \in Seq(Entries)
    BY <1>1 DEF TypeOK
  <2> QED
    BY <1>3, <1>5, <2>1, AppendProperties
<1>7. TypeOK'
  <2>1. index' \in Nat \ {0}
    BY <1>1, <1>3 DEF TypeOK
  <2>2. preempted' \in Seq(Sequences) /\ rejected' \in Seq(Sequences)
    BY <1>1, <1>3 DEF TypeOK
  <2>3. running' \in Seq(Sequences) /\ waiting' \in Seq(Sequences)
    BY <1>1, <1>3 DEF TypeOK, queue_vars
  <2>4. phase' \in Phases /\ budget' \in Nat /\ cap' \in Nat
    BY <1>1, <1>3 DEF TypeOK
  <2> QED
    BY <1>1, <1>3, <1>4, <1>6, <2>1, <2>2, <2>3, <2>4 DEF TypeOK, seq_vars
<1>8. ProgressBounded' /\ SkipsBounded'
  BY <1>1, <1>3 DEF ProgressBounded, SkipsBounded, num_tokens, seq_vars
<1> QED
  BY <1>7, <1>8 DEF IInv

\* The tail of `running` gives way: its progress goes back to nothing.
LEMMA PreemptForDecodeInv ==
  ASSUME IInv, PreemptForDecode
  PROVE  IInv'
<1>1. TypeOK /\ ProgressBounded /\ SkipsBounded
  BY DEF IInv
<1> DEFINE victim == Last(running)
<1>2. /\ running' = Front(running)
      /\ waiting' = Cons(victim, waiting)
      /\ Free(victim)
      /\ prefill_progress' = [prefill_progress EXCEPT ![victim] = 0]
      /\ status' = [status EXCEPT ![victim] = "WAITING"]
      /\ preempted' = Append(preempted, victim)
      /\ UNCHANGED <<shape, generated, admission_skips, admitted, entries, rejected,
                     phase, budget, cap>>
  BY DEF PreemptForDecode, Preempt
<1>3. index' \in Nat \ {0}
  BY <1>1 DEF PreemptForDecode, AfterPreempt, TypeOK
<1>4. running' \in Seq(Sequences) /\ victim \in Sequences
  <2>1. running \in Seq(Sequences) /\ index \in Nat \ {0}
    BY <1>1 DEF TypeOK
  <2>2. running # <<>>
    BY <2>1 DEF PreemptForDecode, Turn
  <2> QED
    BY <1>2, <2>1, <2>2, FrontLastType
<1> HIDE DEF victim
<1>5. waiting' \in Seq(Sequences)
  BY <1>1, <1>2, <1>4, ConsType DEF TypeOK
<1>6. KVTypeOK'
  BY <1>1, <1>2, <1>4, FreeType DEF TypeOK
<1>7. TypeOK'
  <2>1. status' \in [Sequences -> Statuses] /\ prefill_progress' \in [Sequences -> Nat]
    BY <1>1, <1>2, <1>4 DEF TypeOK, Statuses
  <2>2. preempted' \in Seq(Sequences)
    BY <1>1, <1>2, <1>4, AppendProperties DEF TypeOK
  <2> QED
    BY <1>1, <1>2, <1>3, <1>4, <1>5, <1>6, <2>1, <2>2 DEF TypeOK
<1>8. ProgressBounded'
  <2> SUFFICES ASSUME NEW t \in Sequences
               PROVE  prefill_progress'[t] =< num_tokens(t)'
    BY DEF ProgressBounded, num_tokens
  <2>1. num_tokens(t)' = num_tokens(t) /\ num_tokens(t) \in Nat
    BY <1>1, <1>2, TokensType DEF num_tokens
  <2>2. prefill_progress'[t] = IF t = victim THEN 0 ELSE prefill_progress[t]
    BY <1>1, <1>2 DEF TypeOK
  <2> QED
    BY <1>1, <2>1, <2>2 DEF ProgressBounded
<1>9. SkipsBounded'
  BY <1>1, <1>2 DEF SkipsBounded
<1> QED
  BY <1>7, <1>8, <1>9 DEF IInv
-----------------------------------------------------------------------------
\* A chunk is taken: the pool, the plan, the budget and the progress stay what
\* they should be.
LEMMA TakeChunk ==
  ASSUME IInv, NEW s \in Sequences, NEW d \in Nat,
         Allocate(s, Chunk(s), reservation(s), d),
         entries' = Append(entries, Entry(s, Chunk(s), TRUE)),
         budget' = budget - Chunk(s),
         AdvancePrefill(s, Chunk(s)),
         UNCHANGED <<shape, generated>>
  PROVE  /\ KVTypeOK'
         /\ entries' \in Seq(Entries)
         /\ budget' \in Nat
         /\ prefill_progress' \in [Sequences -> Nat]
         /\ status' \in [Sequences -> Statuses]
         /\ ProgressBounded'
<1>1. TypeOK /\ ProgressBounded
  BY DEF IInv
<1> DEFINE chunk == Chunk(s)
<1>2. /\ chunk \in Nat /\ chunk =< budget
      /\ prefill_progress[s] + chunk =< num_tokens(s)
  BY <1>1, ChunkBounds
<1>3. reservation(s) \in Nat
  BY <1>1, TokensType
<1>4. /\ prefill_progress' = [prefill_progress EXCEPT ![s] = @ + chunk]
      /\ status' = [status EXCEPT ![s] =
           IF prefill_progress[s] + chunk = num_tokens(s) THEN "DECODING" ELSE "PREFILLING"]
  BY DEF AdvancePrefill
<1>5. Allocate(s, chunk, reservation(s), d)
  OBVIOUS
<1>6. entries' = Append(entries, Entry(s, chunk, TRUE)) /\ budget' = budget - chunk
  OBVIOUS
<1> HIDE DEF chunk
<1>7. KVTypeOK'
  BY <1>1, <1>2, <1>3, <1>5, AllocateType DEF TypeOK
<1>8. entries' \in Seq(Entries)
  <2>1. Entry(s, chunk, TRUE) \in Entries
    BY <1>2 DEF Entry, Entries
  <2>2. entries \in Seq(Entries)
    BY <1>1 DEF TypeOK
  <2>3. PICK f, x, T : f = entries /\ x = Entry(s, chunk, TRUE) /\ T = Entries
    OBVIOUS
  <2>4. f \in Seq(T) /\ x \in T
    BY <2>1, <2>2, <2>3
  <2>5. Append(f, x) \in Seq(T)
    BY <2>4, AppendProperties
  <2> QED
    BY <1>6, <2>3, <2>5
<1>9. budget' \in Nat
  BY <1>1, <1>2, <1>6 DEF TypeOK
<1>10. /\ prefill_progress' \in [Sequences -> Nat]
       /\ status' \in [Sequences -> Statuses]
  <2>1. /\ prefill_progress \in [Sequences -> Nat] /\ status \in [Sequences -> Statuses]
        /\ prefill_progress[s] + chunk \in Nat
    BY <1>1, <1>2 DEF TypeOK
  <2>2. \A v : (IF v THEN "DECODING" ELSE "PREFILLING") \in Statuses
    BY DEF Statuses
  <2> QED
    BY <1>4, <2>1, <2>2
<1>11. ProgressBounded'
  <2> SUFFICES ASSUME NEW t \in Sequences
               PROVE  prefill_progress'[t] =< num_tokens(t)'
    BY DEF ProgressBounded, num_tokens
  <2>1. num_tokens(t)' = num_tokens(t)
    BY DEF num_tokens
  <2>2. prefill_progress'[t] = IF t = s THEN prefill_progress[s] + chunk
                                        ELSE prefill_progress[t]
    BY <1>1, <1>4 DEF TypeOK
  <2> QED
    BY <1>1, <1>2, <2>1, <2>2 DEF ProgressBounded
<1> QED
  BY <1>7, <1>8, <1>9, <1>10, <1>11

\* A PREFILLING sequence takes its next chunk.
LEMMA PlanContinuationInv ==
  ASSUME IInv, PlanContinuation
  PROVE  IInv'
<1>1. TypeOK /\ SkipsBounded
  BY DEF IInv
<1> DEFINE s == running[index]
<1>2. s \in Sequences
  BY <1>1, TurnType DEF PlanContinuation
<1>3. /\ Allocate(s, Chunk(s), reservation(s), 0)
      /\ entries' = Append(entries, Entry(s, Chunk(s), TRUE))
      /\ budget' = budget - Chunk(s)
      /\ AdvancePrefill(s, Chunk(s))
      /\ index' = index + 1
      /\ UNCHANGED <<shape, generated, admission_skips, admitted, queue_vars,
                     preempted, rejected, phase, cap>>
  BY DEF PlanContinuation, Step
<1> HIDE DEF s
<1>4. /\ KVTypeOK' /\ entries' \in Seq(Entries) /\ budget' \in Nat
      /\ prefill_progress' \in [Sequences -> Nat]
      /\ status' \in [Sequences -> Statuses]
      /\ ProgressBounded'
  BY <1>2, <1>3, TakeChunk
<1>5. TypeOK'
  <2>1. index' \in Nat \ {0}
    BY <1>1, <1>3 DEF TypeOK
  <2>2. running' \in Seq(Sequences) /\ waiting' \in Seq(Sequences)
    BY <1>1, <1>3 DEF TypeOK, queue_vars
  <2> QED
    BY <1>1, <1>3, <1>4, <2>1, <2>2 DEF TypeOK
<1>6. SkipsBounded'
  BY <1>1, <1>3 DEF SkipsBounded
<1> QED
  BY <1>4, <1>5, <1>6 DEF IInv

\* An admission from behind the head charges the head a skip, and only while it
\* has one to spare: the freeze of MoreAdmissions.
LEMMA AdmitInv ==
  ASSUME IInv, Admit
  PROVE  IInv'
<1>1. TypeOK /\ ProgressBounded /\ SkipsBounded
  BY DEF IInv
<1> DEFINE s == waiting[index]
           rest == RemoveAt(waiting, index)
<1>2. /\ index \in 1 .. Len(waiting)
      /\ waiting \in Seq(Sequences)
      /\ s \in Sequences
  BY <1>1 DEF Admit, MoreAdmissions, Turn, TypeOK
<1>3. /\ Allocate(s, Chunk(s), reservation(s), Len(running))
      /\ entries' = Append(entries, Entry(s, Chunk(s), TRUE))
      /\ budget' = budget - Chunk(s)
      /\ AdvancePrefill(s, Chunk(s))
      /\ admitted' = [admitted EXCEPT ![s] = TRUE]
      /\ waiting' = rest
      /\ running' = Append(running, s)
      /\ admission_skips' =
           IF index > 1 THEN [admission_skips EXCEPT ![Head(rest)] = @ + 1]
                        ELSE admission_skips
      /\ UNCHANGED <<shape, generated, preempted, rejected, phase, index, cap>>
  BY DEF Admit, Candidate, AdmissionReserve
<1>4. index > 1 => admission_skips[Head(waiting)] < MAX_ADMISSION_SKIPS
  <2>1. index > 1 => ~ (admission_skips[Head(waiting)] >= MAX_ADMISSION_SKIPS)
    BY DEF Admit, MoreAdmissions
  <2>2. admission_skips[Head(waiting)] \in Nat
    <3>1. /\ admission_skips \in [Sequences -> Nat] /\ waiting \in Seq(Sequences)
          /\ waiting # <<>>
      BY <1>1, <1>2 DEF TypeOK
    <3>2. Head(waiting) \in Sequences
      BY <3>1
    <3> QED
      BY <3>1, <3>2
  <2> QED
    BY <2>1, <2>2, SchedulerAssumption
<1>5. rest \in Seq(Sequences) /\ (index > 1 => Head(rest) = Head(waiting))
  <2>1. /\ rest \in Seq(Sequences)
        /\ Len(rest) = Len(waiting) - 1
        /\ \A i \in 1 .. index - 1 : rest[i] = waiting[i]
    BY <1>2, RemoveAtProperties
  <2>2. ASSUME index > 1 PROVE Head(rest) = Head(waiting)
    <3>1. 1 \in 1 .. index - 1 /\ Len(rest) > 0
      BY <1>2, <2>1, <2>2
    <3> QED
      BY <1>2, <2>1, <3>1
  <2> QED
    BY <2>1, <2>2
<1>6. Len(running) \in Nat /\ running' \in Seq(Sequences)
  BY <1>1, <1>2, <1>3 DEF TypeOK
<1> HIDE DEF s, rest
<1>7. /\ KVTypeOK' /\ entries' \in Seq(Entries) /\ budget' \in Nat
      /\ prefill_progress' \in [Sequences -> Nat]
      /\ status' \in [Sequences -> Statuses]
      /\ ProgressBounded'
  BY <1>2, <1>3, <1>6, TakeChunk
<1>8. /\ admission_skips' \in [Sequences -> Nat]
      /\ SkipsBounded'
  <2>1. CASE index > 1
    <3>1. admission_skips' = [admission_skips EXCEPT ![Head(waiting)] = @ + 1]
      BY <1>3, <1>5, <2>1
    <3>2. Head(waiting) \in Sequences
      BY <1>2
    <3>3. admission_skips \in [Sequences -> Nat]
      BY <1>1 DEF TypeOK
    <3>4. admission_skips[Head(waiting)] + 1 =< MAX_ADMISSION_SKIPS
      <4>1. admission_skips[Head(waiting)] \in Nat
        BY <3>2, <3>3
      <4> QED
        BY <1>4, <2>1, <4>1, SchedulerAssumption
    <3> QED
      BY <1>1, <3>1, <3>2, <3>3, <3>4 DEF SkipsBounded
  <2>2. CASE ~ (index > 1)
    BY <1>1, <1>3, <2>2 DEF TypeOK, SkipsBounded
  <2> QED
    BY <2>1, <2>2
<1>9. admitted' \in [Sequences -> BOOLEAN]
  BY <1>1, <1>3 DEF TypeOK
<1>10. TypeOK'
  BY <1>1, <1>3, <1>5, <1>6, <1>7, <1>8, <1>9 DEF TypeOK
<1> QED
  BY <1>7, <1>8, <1>10 DEF IInv

\* A candidate that can never be held moves from `waiting` to plan.rejected.
LEMMA RejectInv ==
  ASSUME IInv, Reject
  PROVE  IInv'
<1>1. TypeOK /\ ProgressBounded /\ SkipsBounded
  BY DEF IInv
<1>2. index \in 1 .. Len(waiting) /\ waiting \in Seq(Sequences) /\ Candidate \in Sequences
  BY <1>1 DEF Reject, MoreAdmissions, Turn, TypeOK, Candidate
<1>3. waiting' \in Seq(Sequences)
  BY <1>2, RemoveAtProperties DEF Reject
<1>4. rejected' \in Seq(Sequences)
  BY <1>1, <1>2 DEF Reject, TypeOK
<1>5. UNCHANGED <<kv_vars, seq_vars, running, entries, preempted, loop_vars>>
  BY DEF Reject
<1>6. TypeOK'
  BY <1>1, <1>3, <1>4, <1>5 DEF TypeOK, KVTypeOK, kv_vars, seq_vars, loop_vars
<1>7. ProgressBounded' /\ SkipsBounded'
  BY <1>1, <1>5 DEF ProgressBounded, SkipsBounded, num_tokens, seq_vars
<1> QED
  BY <1>6, <1>7 DEF IInv
-----------------------------------------------------------------------------
\* A sequence ends: it leaves `running` and gives back what it holds.
LEMMA EndAsType ==
  ASSUME TypeOK, NEW s \in Sequences, NEW outcome \in {"DONE", "ABORTED"}, EndAs(s, outcome)
  PROVE  /\ status' \in [Sequences -> Statuses]
         /\ running' \in Seq(Sequences)
         /\ KVTypeOK'
<1>1. /\ status' = [status EXCEPT ![s] = outcome]
      /\ running' = RemoveFirst(running, s)
      /\ Free(s)
  BY DEF EndAs
<1>2. status' \in [Sequences -> Statuses]
  BY <1>1 DEF TypeOK, Statuses
<1>3. running' \in Seq(Sequences)
  BY <1>1, RemoveFirstType DEF TypeOK
<1>4. KVTypeOK'
  BY <1>1, FreeType DEF TypeOK
<1> QED
  BY <1>2, <1>3, <1>4

\* A sequence is aborted: rejected by the plan, or in a batch that failed.
LEMMA AbortInv ==
  ASSUME IInv, AbortRejected \/ AbortEntry
  PROVE  IInv'
<1>1. TypeOK /\ ProgressBounded /\ SkipsBounded
  BY DEF IInv
<1>2. \E s \in Sequences : EndAs(s, "ABORTED")
  <2>1. CASE AbortRejected
    BY <1>1, <2>1 DEF AbortRejected, Turn, TypeOK
  <2>2. CASE AbortEntry
    <3>1. entries[index] \in Entries
      BY <1>1, <2>2 DEF AbortEntry, Turn, TypeOK
    <3> QED
      BY <2>2, <3>1 DEF AbortEntry, Entries
  <2> QED
    BY <2>1, <2>2
<1>3. /\ status' \in [Sequences -> Statuses] /\ running' \in Seq(Sequences) /\ KVTypeOK'
  BY <1>1, <1>2, EndAsType
<1>4. /\ index' = index + 1
      /\ UNCHANGED <<shape, generated, prefill_progress, admission_skips, admitted, waiting,
                     plan_vars, phase, budget, cap>>
  BY DEF AbortRejected, AbortEntry, Step
<1>5. TypeOK'
  BY <1>1, <1>3, <1>4 DEF TypeOK, plan_vars
<1>6. ProgressBounded' /\ SkipsBounded'
  BY <1>1, <1>4 DEF ProgressBounded, SkipsBounded, num_tokens
<1> QED
  BY <1>5, <1>6 DEF IInv

\* A token is appended, and the sequence may end with it.
LEMMA ApplyResultInv ==
  ASSUME IInv, NEW stop \in BOOLEAN, ApplyResult(stop)
  PROVE  IInv'
<1>1. TypeOK /\ ProgressBounded /\ SkipsBounded
  BY DEF IInv
<1> DEFINE s == entries[index].seq_id
<1>2. s \in Sequences
  <2>1. entries[index] \in Entries
    BY <1>1 DEF ApplyResult, Turn, TypeOK
  <2> QED
    BY <2>1 DEF Entries
<1>3. /\ generated' = [generated EXCEPT ![s] = @ + 1]
      /\ EndAs(s, "DONE") \/ UNCHANGED <<status, running, kv_vars>>
      /\ index' = index + 1
      /\ UNCHANGED <<shape, prefill_progress, admission_skips, admitted, waiting,
                     plan_vars, phase, budget, cap>>
  BY DEF ApplyResult, Step
<1> HIDE DEF s
<1>4. /\ status' \in [Sequences -> Statuses] /\ running' \in Seq(Sequences) /\ KVTypeOK'
  <2>1. CASE EndAs(s, "DONE")
    BY <1>1, <1>2, <2>1, EndAsType
  <2>2. CASE UNCHANGED <<status, running, kv_vars>>
    BY <1>1, <2>2 DEF TypeOK, KVTypeOK, kv_vars
  <2> QED
    BY <1>3, <2>1, <2>2
<1>5. generated' \in [Sequences -> Nat]
  <2>1. generated \in [Sequences -> Nat] /\ generated' = [generated EXCEPT ![s] = @ + 1]
    BY <1>1, <1>3 DEF TypeOK
  <2> QED
    BY <1>2, <2>1
<1>6. TypeOK'
  <2>1. index' \in Nat \ {0}
    BY <1>1, <1>3 DEF TypeOK
  <2>2. UNCHANGED <<shape, prefill_progress, admission_skips, admitted, waiting,
                    entries, preempted, rejected, phase, budget, cap>>
    BY <1>3 DEF plan_vars
  <2> QED
    BY <1>1, <1>4, <1>5, <2>1, <2>2 DEF TypeOK
<1>7. ProgressBounded'
  <2> SUFFICES ASSUME NEW t \in Sequences
               PROVE  prefill_progress'[t] =< num_tokens(t)'
    BY DEF ProgressBounded, num_tokens
  <2>1. /\ prefill_progress'[t] = prefill_progress[t]
        /\ prefill_progress[t] \in Nat /\ num_tokens(t) \in Nat
        /\ prefill_progress[t] =< num_tokens(t)
    BY <1>1, <1>3, TokensType DEF TypeOK, ProgressBounded
  <2>2. shape'[t].prompt_len = shape[t].prompt_len /\ shape[t].prompt_len \in Nat
    BY <1>1, <1>3, SchedulerAssumption DEF TypeOK
  <2>3. generated[t] \in Nat /\ generated'[t] \in {generated[t], generated[t] + 1}
    BY <1>1, <1>3 DEF TypeOK
  <2> QED
    BY <2>1, <2>2, <2>3 DEF num_tokens
<1>8. SkipsBounded'
  BY <1>1, <1>3 DEF SkipsBounded
<1> QED
  BY <1>6, <1>7, <1>8 DEF IInv
-----------------------------------------------------------------------------
\* Every step keeps the invariant.
LEMMA NextInv == IInv /\ [Next]_vars => IInv'
<1> SUFFICES ASSUME IInv, [Next]_vars PROVE IInv'
  OBVIOUS
<1>1. CASE LoopTurn
  BY <1>1, LoopTurnInv
<1>2. CASE PlanDecode
  BY <1>2, PlanDecodeInv
<1>3. CASE PreemptForDecode
  BY <1>3, PreemptForDecodeInv
<1>4. CASE PlanContinuation
  BY <1>4, PlanContinuationInv
<1>5. CASE Reject
  BY <1>5, RejectInv
<1>6. CASE Admit
  BY <1>6, AdmitInv
<1>7. CASE AbortRejected \/ AbortEntry
  BY <1>7, AbortInv
<1>8. ASSUME NEW stop \in BOOLEAN, ApplyResult(stop) PROVE IInv'
  BY <1>8, ApplyResultInv
<1>9. ASSUME NEW s \in Sequences, Arrive(s) PROVE IInv'
  BY <1>9, ArriveInv
<1>10. CASE UNCHANGED vars
  BY <1>10 DEF IInv, TypeOK, KVTypeOK, ProgressBounded, SkipsBounded, num_tokens, vars,
               kv_vars, seq_vars, queue_vars, plan_vars, loop_vars
<1> QED
  BY <1>1, <1>2, <1>3, <1>4, <1>5, <1>6, <1>7, <1>8, <1>9, <1>10
     DEF Next, SchedulerStep, Outcome, LoopTurn

\* The invariant holds in every reachable state of the scheduler.
THEOREM Invariance == Spec => []IInv
  BY InitInv, NextInv, PTL DEF Spec

\* Every variable keeps its type: the pool is never overdrawn, the budget of a
\* step never negative, and every list holds sequences.
THEOREM TypeCorrect == Spec => []TypeOK
  BY Invariance, PTL DEF IInv

\* Prefill never runs past the tokens a sequence has.
THEOREM PrefillBounded == Spec => []ProgressBounded
  BY Invariance, PTL DEF IInv

\* However admissions, preemptions and arrivals interleave, at most
\* MAX_ADMISSION_SKIPS admissions pass over a sequence while it heads `waiting`.
THEOREM SkipsAreBounded == Spec => []SkipsBounded
  BY Invariance, PTL DEF IInv
-----------------------------------------------------------------------------
(* The plan *)

\* Requests become WAITING in the order of their ids.
ArrivedInOrder ==
  \A s, t \in Sequences : t < s /\ status[t] = "NEW" => status[s] = "NEW"

\* A sequence that may still be scheduled has a token to generate.
TokensToCome ==
  \A s \in Sequences : ~ Ended(s) => generated[s] < shape[s].max_tokens

\* admit_time tells the sequences that have been in `running`, and no other has
\* made progress.
AdmittedInv ==
  \A s \in Sequences : /\ status[s] = "NEW" => ~ admitted[s] /\ prefill_progress[s] = 0
                       /\ Live(s) => admitted[s]

Before == {running[j] : j \in {i \in 1 .. Len(running) : i < index}}

\* What the plan has when a loop has come to `index`: nothing before the first,
\* one decode for each DECODING sequence passed by the first, chunks only of
\* sequences passed by the second.
CursorInv ==
  /\ At("drain") \/ At("blocked") => entries = <<>>
  /\ At("decodes") =>
       /\ \A k \in 1 .. Len(entries) :
            ~ entries[k].is_prefill_chunk /\ entries[k].seq_id \in Before
       /\ \A s \in Before : status[s] = "DECODING" => PendingFor(s)
  /\ At("continuations") =>
       \A k \in 1 .. Len(entries) :
         entries[k].is_prefill_chunk => entries[k].seq_id \in Before
  /\ phase \in {"continuations", "admissions", "rejects", "in_flight", "blocked"} =>
       \A s \in Sequences : status[s] = "DECODING" => PendingFor(s)

\* What a sequence holds, whichever allocator it is.
SequenceHoldings ==
  \A s \in Sequences :
    IF Live(s)
    THEN IF Paged THEN held[s] = BlocksFor(slots[s])
                  ELSE held[s] = reservation(s) /\ slots[s] =< reservation(s)
    ELSE held[s] = 0 /\ slots[s] = 0

PlanInv ==
  /\ OnePlace /\ ArrivedInOrder /\ TokensToCome /\ AdmittedInv
  /\ PlanConsistent /\ CursorInv /\ SlotsMatchTokens /\ SequenceHoldings
-----------------------------------------------------------------------------
(* Lists without repetition *)

\* A list without its tail.
LEMMA FrontOfInjective ==
  ASSUME NEW S, NEW f \in Seq(S), IsInjective(f), Len(f) > 0
  PROVE  /\ Front(f) \in Seq(S) /\ Len(Front(f)) = Len(f) - 1
         /\ \A k \in 1 .. Len(f) - 1 : Front(f)[k] = f[k]
         /\ Last(f) = f[Len(f)]
         /\ IsInjective(Front(f))
         /\ Range(Front(f)) = Range(f) \ {Last(f)}
<1>1. /\ Front(f) \in Seq(S) /\ Len(Front(f)) = Len(f) - 1
      /\ \A k \in 1 .. Len(f) - 1 : Front(f)[k] = f[k]
      /\ Last(f) = f[Len(f)]
  <2> DEFINE n == Len(f) - 1
  <2>1. n \in Nat /\ n =< Len(f) /\ Len(f) = n + 1
    OBVIOUS
  <2> HIDE DEF n
  <2>2. \A k \in 1 .. n : f[k] \in S /\ 1 + k - 1 = k
    BY <2>1
  <2>3. n - 1 + 1 = n /\ (1 =< n \/ n = 0)
    BY <2>1
  <2>4. /\ SubSeq(f, 1, n) \in Seq(S)
        /\ Len(SubSeq(f, 1, n)) = n
        /\ \A k \in 1 .. n : SubSeq(f, 1, n)[k] = f[k]
    BY <2>1, <2>2, <2>3, SubSeqProperties
  <2> QED
    BY <2>4 DEF Front, Last, n
<1> DEFINE g == Front(f)
<1> HIDE DEF g
<1>2. IsInjective(g)
  BY <1>1 DEF g, Range, IsInjective
<1>3. Range(g) = Range(f) \ {Last(f)}
  BY <1>1 DEF g, Range, IsInjective
<1> QED
  BY <1>1, <1>2, <1>3 DEF g

\* A list with a new tail.
LEMMA AppendToInjective ==
  ASSUME NEW S, NEW f \in Seq(S), IsInjective(f), NEW e \in S, e \notin Range(f)
  PROVE  IsInjective(Append(f, e)) /\ Range(Append(f, e)) = Range(f) \cup {e}
<1> DEFINE g == Append(f, e)
<1>1. /\ g \in Seq(S) /\ Len(g) = Len(f) + 1
      /\ \A k \in 1 .. Len(f) : g[k] = f[k]
      /\ g[Len(f) + 1] = e
  OBVIOUS
<1> HIDE DEF g
<1>2. IsInjective(g)
  BY <1>1 DEF Range, IsInjective
<1>3. Range(g) = Range(f) \cup {e}
  BY <1>1 DEF Range, IsInjective
<1> QED
  BY <1>2, <1>3 DEF g

\* A list with a new head.
LEMMA ConsToInjective ==
  ASSUME NEW S, NEW f \in Seq(S), IsInjective(f), NEW e \in S, e \notin Range(f)
  PROVE  /\ IsInjective(Cons(e, f)) /\ Range(Cons(e, f)) = Range(f) \cup {e}
         /\ Len(Cons(e, f)) = Len(f) + 1
         /\ Cons(e, f)[1] = e
         /\ \A k \in 1 .. Len(f) : Cons(e, f)[k + 1] = f[k]
<1> DEFINE g == Cons(e, f)
<1>1. /\ g \in Seq(S) /\ Len(g) = Len(f) + 1
      /\ g[1] = e
      /\ \A k \in 1 .. Len(f) : g[k + 1] = f[k]
  <2>1. <<e>> \in Seq(S) /\ Len(<<e>>) = 1 /\ <<e>>[1] = e
    OBVIOUS
  <2> QED
    BY <2>1, ConcatProperties DEF Cons
<1> HIDE DEF g
<1>2. \A k \in 2 .. Len(g) : k - 1 \in 1 .. Len(f) /\ g[k] = f[k - 1]
  <2> SUFFICES ASSUME NEW k \in 2 .. Len(g)
               PROVE  k - 1 \in 1 .. Len(f) /\ g[k] = f[k - 1]
    OBVIOUS
  <2>1. k - 1 \in 1 .. Len(f) /\ (k - 1) + 1 = k
    BY <1>1
  <2> QED
    BY <1>1, <2>1
<1>3. IsInjective(g)
  <2> SUFFICES ASSUME NEW j \in 1 .. Len(g), NEW k \in 1 .. Len(g), g[j] = g[k]
               PROVE  j = k
    BY <1>1 DEF Range, IsInjective
  <2>1. CASE j = 1 \/ k = 1
    BY <1>1, <1>2, <2>1 DEF Range, IsInjective
  <2>2. CASE j # 1 /\ k # 1
    <3>1. j \in 2 .. Len(g) /\ k \in 2 .. Len(g)
      BY <1>1, <2>2
    <3>2. f[j - 1] = f[k - 1] /\ j - 1 \in 1 .. Len(f) /\ k - 1 \in 1 .. Len(f)
      BY <1>2, <3>1
    <3>3. j - 1 = k - 1
      BY <3>2 DEF Range, IsInjective
    <3> QED
      BY <3>1, <3>3
  <2> QED
    BY <2>1, <2>2
<1>4. Range(g) = Range(f) \cup {e}
  <2>1. ASSUME NEW x \in Range(g) PROVE x \in Range(f) \cup {e}
    <3>1. PICK k \in 1 .. Len(g) : x = g[k]
      BY <1>1 DEF Range, IsInjective
    <3>2. CASE k = 1
      BY <1>1, <3>1, <3>2
    <3>3. CASE k \in 2 .. Len(g)
      BY <1>2, <3>1, <3>3 DEF Range, IsInjective
    <3> QED
      BY <1>1, <3>1, <3>2, <3>3
  <2>2. ASSUME NEW x \in Range(f) PROVE x \in Range(g)
    <3>1. PICK k \in 1 .. Len(f) : x = f[k]
      BY DEF Range, IsInjective
    <3>2. k + 1 \in 1 .. Len(g) /\ g[k + 1] = x
      BY <1>1, <3>1
    <3>3. DOMAIN g = 1 .. Len(g)
      BY <1>1
    <3> QED
      BY <3>2, <3>3 DEF Range
  <2>3. e \in Range(g)
    <3>1. 1 \in 1 .. Len(g)
      BY <1>1
    <3> QED
      BY <1>1, <3>1 DEF Range, IsInjective
  <2> QED
    BY <2>1, <2>2, <2>3
<1> QED
  BY <1>1, <1>3, <1>4 DEF g

\* A list without its k-th element.
LEMMA RemoveAtOfInjective ==
  ASSUME NEW S, NEW f \in Seq(S), IsInjective(f), NEW k \in 1 .. Len(f)
  PROVE  /\ IsInjective(RemoveAt(f, k))
         /\ Range(RemoveAt(f, k)) = Range(f) \ {f[k]}
<1> DEFINE g == RemoveAt(f, k)
           Old(i) == IF i < k THEN i ELSE i + 1
<1>1. /\ g \in Seq(S) /\ Len(g) = Len(f) - 1
      /\ \A i \in 1 .. k - 1 : g[i] = f[i]
      /\ \A i \in k .. Len(f) - 1 : g[i] = f[i + 1]
  BY RemoveAtProperties
<1> HIDE DEF g
<1>2. \A i \in 1 .. Len(g) : Old(i) \in 1 .. Len(f) /\ Old(i) # k /\ g[i] = f[Old(i)]
  BY <1>1
<1>3. \A j \in 1 .. Len(f) : j # k => \E i \in 1 .. Len(g) : Old(i) = j
  <2> SUFFICES ASSUME NEW j \in 1 .. Len(f), j # k
               PROVE  \E i \in 1 .. Len(g) : Old(i) = j
    OBVIOUS
  <2>1. CASE j < k
    <3>1. j \in 1 .. Len(g) /\ Old(j) = j
      BY <1>1, <2>1
    <3> QED
      BY <3>1
  <2>2. CASE ~ (j < k)
    <3>1. j - 1 \in 1 .. Len(g) /\ Old(j - 1) = j
      BY <1>1, <2>2
    <3> QED
      BY <3>1
  <2> QED
    BY <2>1, <2>2
<1>4. \A i, j \in 1 .. Len(g) : Old(i) = Old(j) => i = j
  BY <1>1
<1> HIDE DEF Old
<1>5. IsInjective(g)
  <2> SUFFICES ASSUME NEW i \in 1 .. Len(g), NEW j \in 1 .. Len(g), g[i] = g[j]
               PROVE  i = j
    BY <1>1 DEF Range, IsInjective
  <2>1. Old(i) = Old(j)
    BY <1>2 DEF Range, IsInjective
  <2> QED
    BY <1>4, <2>1
<1>6. Range(g) = Range(f) \ {f[k]}
  <2>1. Range(g) = {g[i] : i \in 1 .. Len(g)} /\ Range(f) = {f[i] : i \in 1 .. Len(f)}
    BY <1>1 DEF Range, IsInjective
  <2>2. \A i, j \in 1 .. Len(f) : f[i] = f[j] => i = j
    BY DEF Range, IsInjective
  <2>3. ASSUME NEW x \in Range(g) PROVE x \in Range(f) \ {f[k]}
    BY <1>2, <2>1, <2>2, <2>3
  <2>4. ASSUME NEW x \in Range(f) \ {f[k]} PROVE x \in Range(g)
    <3>1. PICK j \in 1 .. Len(f) : x = f[j]
      BY <2>1
    <3>2. PICK i \in 1 .. Len(g) : Old(i) = j
      BY <1>3, <2>4, <3>1
    <3> QED
      BY <1>2, <2>1, <3>1, <3>2
  <2> QED
    BY <2>3, <2>4
<1> QED
  BY <1>5, <1>6 DEF g

\* A list without an element, which may not be in it.
LEMMA RemoveFirstOfInjective ==
  ASSUME NEW S, NEW f \in Seq(S), IsInjective(f), NEW e
  PROVE  /\ IsInjective(RemoveFirst(f, e))
         /\ Range(RemoveFirst(f, e)) = Range(f) \ {e}
         /\ Len(RemoveFirst(f, e)) =< Len(f)
<1>1. CASE RemoveFirst(f, e) = f /\ \A k \in 1 .. Len(f) : f[k] # e
  BY <1>1 DEF Range, IsInjective
<1>2. CASE \E k \in 1 .. Len(f) : f[k] = e /\ RemoveFirst(f, e) = RemoveAt(f, k)
  BY <1>2, RemoveAtOfInjective, RemoveAtProperties
<1> QED
  BY <1>1, <1>2, RemoveFirstIsRemoveAt
-----------------------------------------------------------------------------
(* The turns that move only the loop *)

\* The sequences passed, after one more turn of a loop over `running`.
LEMMA BeforeAfterTurn ==
  ASSUME TypeOK, Turn(running), UNCHANGED running, index' = index + 1
  PROVE  Before' = Before \cup {running[index]}
<1>1. running \in Seq(Sequences) /\ index \in 1 .. Len(running)
  BY DEF TypeOK, Turn
<1> QED
  BY <1>1 DEF Before

\* At the end of a loop over `running`, all of it has been passed.
LEMMA BeforeAtEnd ==
  ASSUME TypeOK, ~ Turn(running)
  PROVE  Before = Range(running)
<1>1. running \in Seq(Sequences) /\ index \in Nat /\ Len(running) < index
  BY DEF TypeOK, Turn
<1> QED
  BY <1>1 DEF Before, Range

\* Where no sequence, table or queue changes, it is enough to look at the plan.
LEMMA UnchangedSequences ==
  ASSUME IInv, PlanInv, UNCHANGED <<kv_vars, seq_vars, queue_vars>>,
         rejected' \in {rejected, <<>>}, ToReject' = ToReject,
         entries' \in {entries, <<>>}, Pending' \subseteq Pending,
         \A s \in Sequences : status[s] = "DECODING" => (PendingFor(s)' <=> PendingFor(s)),
         CursorInv'
  PROVE  PlanInv'
<1>1. /\ UNCHANGED <<free, held, slots, status, shape, generated, prefill_progress,
                     admission_skips, admitted, running, waiting>>
  BY DEF kv_vars, seq_vars, queue_vars
<1>2. TypeOK
  BY DEF IInv
<1>3. OnePlace'
  <2>1. IsInjective(rejected')
    BY DEF PlanInv, OnePlace, IsInjective
  <2> QED
    BY <1>1, <2>1 DEF PlanInv, OnePlace, Live
<1>4. ArrivedInOrder' /\ TokensToCome' /\ AdmittedInv'
  BY <1>1 DEF PlanInv, ArrivedInOrder, TokensToCome, AdmittedInv, Ended, Live
<1>5. PlanConsistent'
  BY <1>1 DEF PlanInv, PlanConsistent, Live
<1>6. SlotsMatchTokens'
  BY <1>1 DEF PlanInv, SlotsMatchTokens, num_tokens
<1>7. SequenceHoldings'
  BY <1>1 DEF PlanInv, SequenceHoldings, Live, reservation
<1> QED
  BY <1>3, <1>4, <1>5, <1>6, <1>7 DEF PlanInv

\* The loop over the decodes.
LEMMA DecodeTurnPlan ==
  ASSUME IInv, PlanInv, BeginStep \/ SkipDecode \/ EndDecodes
  PROVE  PlanInv'
<1>1. TypeOK /\ CursorInv /\ OnePlace
  BY DEF IInv, PlanInv
<1>2. /\ UNCHANGED <<kv_vars, seq_vars, queue_vars, plan_vars>>
      /\ phase \notin {"results", "failed", "rejects"}
      /\ phase' \notin {"results", "failed", "rejects"}
  BY DEF BeginStep, SkipDecode, EndDecodes, At, GoTo, Step
<1>3. Pending' = Pending /\ ToReject' = ToReject
  BY <1>2 DEF Pending, ToReject, At, plan_vars
<1>4. \A s \in Sequences : PendingFor(s)' <=> PendingFor(s)
  BY <1>3 DEF PendingFor
<1>5. CursorInv'
  <2>1. UNCHANGED <<running, status, entries>>
    BY <1>2 DEF seq_vars, queue_vars, plan_vars
  <2>2. CASE BeginStep
    BY <1>1, <2>1, <2>2 DEF BeginStep, GoTo, At, CursorInv, Before
  <2>3. CASE SkipDecode
    <3>1. Before' = Before \cup {running[index]}
      BY <1>1, <2>1, <2>3, BeforeAfterTurn DEF SkipDecode, Step
    <3>2. Before \subseteq Sequences
      <4>1. running \in Seq(Sequences)
        BY <1>1 DEF TypeOK
      <4>2. \A j \in 1 .. Len(running) : running[j] \in Sequences
        BY <4>1
      <4> QED
        BY <4>2 DEF Before
    <3> QED
      BY <1>1, <1>4, <2>1, <2>3, <3>1, <3>2 DEF SkipDecode, Step, At, CursorInv
  <2>4. CASE EndDecodes
    <3>1. Before = Range(running)
      BY <1>1, <2>4, BeforeAtEnd DEF EndDecodes
    <3>2. \A s \in Sequences : status[s] = "DECODING" => PendingFor(s)
      BY <1>1, <2>4, <3>1 DEF EndDecodes, At, CursorInv, OnePlace, Live
    <3> QED
      BY <1>1, <1>4, <2>1, <2>4, <3>2 DEF EndDecodes, GoTo, At, CursorInv
  <2> QED
    BY <2>2, <2>3, <2>4
<1> QED
  BY <1>2, <1>3, <1>4, <1>5, UnchangedSequences DEF plan_vars

\* The loops over the continuations and the admissions.
LEMMA PrefillTurnPlan ==
  ASSUME IInv, PlanInv,
         \/ SkipContinuation \/ BlockContinuation \/ EndContinuations
         \/ PassOver \/ EndAdmissions
  PROVE  PlanInv'
<1>1. TypeOK /\ CursorInv /\ OnePlace
  BY DEF IInv, PlanInv
<1>2. /\ UNCHANGED <<kv_vars, seq_vars, queue_vars, plan_vars>>
      /\ phase \in {"continuations", "admissions"}
      /\ phase' \in {"continuations", "admissions", "rejects"}
      /\ phase' = "rejects" => index' = 1
  BY DEF SkipContinuation, BlockContinuation, EndContinuations, PassOver, EndAdmissions,
         At, GoTo, Step
<1>3. Pending' = Pending /\ ToReject' = ToReject
  BY <1>2 DEF Pending, ToReject, At, plan_vars
<1>4. \A s \in Sequences : PendingFor(s)' <=> PendingFor(s)
  BY <1>3 DEF PendingFor
<1>5. CursorInv'
  <2>1. UNCHANGED <<running, status, entries>>
    BY <1>2 DEF seq_vars, queue_vars, plan_vars
  <2>2. \A s \in Sequences : status[s] = "DECODING" => PendingFor(s)'
    BY <1>1, <1>2, <1>4 DEF CursorInv
  <2>3. CASE SkipContinuation
    <3>1. Before' = Before \cup {running[index]}
      BY <1>1, <2>1, <2>3, BeforeAfterTurn DEF SkipContinuation, Step
    <3> QED
      BY <1>1, <2>1, <2>2, <2>3, <3>1 DEF SkipContinuation, Step, At, CursorInv
  <2>4. CASE phase' # "continuations"
    BY <1>2, <2>1, <2>2, <2>4 DEF At, CursorInv
  <2> QED
    BY <2>3, <2>4 DEF BlockContinuation, EndContinuations, PassOver, EndAdmissions, GoTo, Step,
                      At
<1> QED
  BY <1>2, <1>3, <1>4, <1>5, UnchangedSequences DEF plan_vars

\* The plan goes to the worker, and comes back.
LEMMA HandOverPlan ==
  ASSUME IInv, PlanInv, HandOver \/ Forward \/ NoResult \/ EndIteration
  PROVE  PlanInv'
<1>1. /\ TypeOK /\ CursorInv /\ OnePlace /\ PlanConsistent
      /\ entries \in Seq(Entries) /\ rejected \in Seq(Sequences) /\ index \in Nat \ {0}
  BY DEF IInv, PlanInv, TypeOK
<1>2. UNCHANGED <<kv_vars, seq_vars, queue_vars>>
  BY DEF HandOver, Forward, NoResult, EndIteration
<1>3. UNCHANGED <<running, status>>
  BY <1>2 DEF seq_vars, queue_vars
<1>4. CASE HandOver
  <2>1. /\ phase = "rejects" /\ phase' \in {"in_flight", "blocked"}
        /\ phase' = "blocked" => entries = <<>>
        /\ index > Len(rejected)
        /\ rejected' = <<>> /\ entries' = entries
    BY <1>1, <1>4 DEF HandOver, At, GoTo, Turn
  <2>2. ToReject = {} /\ ToReject' = {}
    BY <1>1, <2>1 DEF ToReject, At
  <2>3. Pending' = Pending
    BY <2>1 DEF Pending, At
  <2>4. \A s \in Sequences : PendingFor(s)' <=> PendingFor(s)
    BY <2>3 DEF PendingFor
  <2>5. CursorInv'
    BY <1>1, <1>3, <2>1, <2>4 DEF CursorInv, At
  <2> QED
    BY <1>2, <2>1, <2>2, <2>3, <2>4, <2>5, UnchangedSequences
<1>5. CASE Forward
  <2>1. /\ phase = "in_flight" /\ phase' \in {"results", "failed"} /\ index' = 1
        /\ UNCHANGED <<rejected, entries>>
    BY <1>5 DEF Forward, At, GoTo, plan_vars
  <2>2. ToReject' = ToReject /\ Pending' = Pending
    BY <2>1 DEF ToReject, Pending, At
  <2>3. \A s \in Sequences : PendingFor(s)' <=> PendingFor(s)
    BY <2>2 DEF PendingFor
  <2>4. CursorInv'
    BY <2>1 DEF CursorInv, At
  <2> QED
    BY <1>2, <2>1, <2>2, <2>3, <2>4, UnchangedSequences
<1>6. CASE NoResult
  <2>1. /\ phase = "results" /\ phase' = phase /\ index' = index + 1
        /\ index \in 1 .. Len(entries)
        /\ status[entries[index].seq_id] = "PREFILLING"
        /\ UNCHANGED <<rejected, entries>>
    BY <1>1, <1>6 DEF NoResult, At, Step, Turn, owes_token, plan_vars
  <2>2. ToReject' = ToReject /\ Pending' \subseteq Pending
        /\ Pending = Pending' \cup {entries[index]}
    BY <1>1, <2>1 DEF ToReject, Pending, At
  <2>3. \A s \in Sequences : status[s] = "DECODING" => (PendingFor(s)' <=> PendingFor(s))
    BY <2>1, <2>2 DEF PendingFor
  <2>4. CursorInv'
    BY <2>1 DEF CursorInv, At
  <2> QED
    BY <1>2, <2>1, <2>2, <2>3, <2>4, UnchangedSequences
<1>7. CASE EndIteration
  <2>1. /\ phase \in {"results", "failed"} /\ phase' = "drain"
        /\ index > Len(entries) /\ entries' = <<>>
        /\ rejected' = rejected
    BY <1>1, <1>7 DEF EndIteration, At, GoTo, Turn
  <2>2. ToReject' = ToReject /\ Pending = {} /\ Pending' = {}
    BY <1>1, <2>1 DEF ToReject, Pending, At
  <2>3. \A s \in Sequences : PendingFor(s)' <=> PendingFor(s)
    BY <2>2 DEF PendingFor
  <2>4. CursorInv'
    BY <2>1 DEF CursorInv, At
  <2> QED
    BY <1>2, <2>1, <2>2, <2>3, <2>4, UnchangedSequences
<1> QED
  BY <1>4, <1>5, <1>6, <1>7
-----------------------------------------------------------------------------
(* An entry joins the plan *)

\* While a plan is made all of its entries are pending.
LEMMA EntryJoins ==
  ASSUME TypeOK, NEW e \in Entries, entries' = Append(entries, e),
         phase' = phase, phase \notin {"results", "failed"}
  PROVE  /\ Pending = {entries[k] : k \in 1 .. Len(entries)}
         /\ Pending' = Pending \cup {e}
         /\ Len(entries') = Len(entries) + 1
         /\ \A k \in 1 .. Len(entries) : entries'[k] = entries[k]
         /\ entries'[Len(entries) + 1] = e
<1>1. /\ entries \in Seq(Entries)
      /\ Len(entries') = Len(entries) + 1
      /\ \A k \in 1 .. Len(entries) : entries'[k] = entries[k]
      /\ entries'[Len(entries) + 1] = e
  BY DEF TypeOK
<1>2. /\ Pending = {entries[k] : k \in 1 .. Len(entries)}
      /\ Pending' = {entries'[k] : k \in 1 .. Len(entries')}
  BY DEF Pending, At
<1>3. Pending' = Pending \cup {e}
  BY <1>1, <1>2
<1> QED
  BY <1>1, <1>2, <1>3

\* An entry for a sequence that has none: the plan stays consistent if the entry is
\* of the sequence's kind and the other live sequences stay as they were.
LEMMA EntryKeepsPlanConsistent ==
  ASSUME TypeOK, PlanConsistent, NEW e \in Entries, entries' = Append(entries, e),
         phase' = phase, phase \notin {"results", "failed"}, ~ PendingFor(e.seq_id),
         status' \in [Sequences -> Statuses],
         \A s \in Sequences \ {e.seq_id} : Live(s) =>
           status'[s] = status[s] /\ prefill_progress'[s] = prefill_progress[s],
         status'[e.seq_id] \in {"PREFILLING", "DECODING"},
         ~ e.is_prefill_chunk => status'[e.seq_id] = "DECODING" /\ e.n_tokens = 1,
         e.is_prefill_chunk => e.n_tokens \in 1 .. prefill_progress'[e.seq_id]
  PROVE  /\ PlanConsistent'
         /\ \A s \in Sequences : PendingFor(s)' <=> PendingFor(s) \/ s = e.seq_id
<1>1. /\ Pending = {entries[k] : k \in 1 .. Len(entries)}
      /\ Pending' = Pending \cup {e}
      /\ Len(entries') = Len(entries) + 1
      /\ \A k \in 1 .. Len(entries) : entries'[k] = entries[k]
      /\ entries'[Len(entries) + 1] = e
  BY EntryJoins
<1>2. entries \in Seq(Entries) /\ Pending \subseteq Entries
  BY <1>1 DEF TypeOK
<1>3. \A k \in 1 .. Len(entries) : entries[k].seq_id # e.seq_id
  BY <1>1 DEF PendingFor
<1>4. \A j, k \in 1 .. Len(entries') : entries'[j].seq_id = entries'[k].seq_id => j = k
  <2> SUFFICES ASSUME NEW j \in 1 .. Len(entries'), NEW k \in 1 .. Len(entries'),
                      entries'[j].seq_id = entries'[k].seq_id
               PROVE  j = k
    OBVIOUS
  <2>1. CASE j \in 1 .. Len(entries) /\ k \in 1 .. Len(entries)
    BY <1>1, <2>1 DEF PlanConsistent
  <2>2. CASE j = Len(entries) + 1 \/ k = Len(entries) + 1
    BY <1>1, <1>2, <1>3, <2>2
  <2> QED
    BY <1>1, <1>2, <2>1, <2>2
<1>5. \A x \in Pending :
        /\ x.seq_id \in Sequences \ {e.seq_id} /\ Live(x.seq_id)
        /\ ~ x.is_prefill_chunk => status[x.seq_id] = "DECODING" /\ x.n_tokens = 1
        /\ x.is_prefill_chunk => x.n_tokens \in 1 .. prefill_progress[x.seq_id]
  BY <1>2 DEF PlanConsistent, PendingFor, Entries
<1>6. \A x \in Pending' :
        /\ Live(x.seq_id)'
        /\ ~ x.is_prefill_chunk => status'[x.seq_id] = "DECODING" /\ x.n_tokens = 1
        /\ x.is_prefill_chunk => x.n_tokens \in 1 .. prefill_progress'[x.seq_id]
  BY <1>1, <1>5 DEF Live
<1>7. PlanConsistent'
  BY <1>4, <1>6 DEF PlanConsistent
<1>8. \A s \in Sequences : PendingFor(s)' <=> PendingFor(s) \/ s = e.seq_id
  BY <1>1 DEF PendingFor
<1> QED
  BY <1>7, <1>8

\* A sequence with tokens to come has fewer than it reserves slots for.
LEMMA TokensWithinReservation ==
  ASSUME TypeOK, TokensToCome, NEW s \in Sequences, ~ Ended(s)
  PROVE  num_tokens(s) < reservation(s)
<1>1. /\ shape[s] \in [prompt_len : Nat \ {0}, max_tokens : Nat \ {0}]
      /\ generated[s] \in Nat /\ generated[s] < shape[s].max_tokens
  BY SchedulerAssumption DEF TypeOK, TokensToCome
<1> QED
  BY <1>1 DEF num_tokens, reservation

\* What a sequence holds after it grows within its reservation.
LEMMA AllocateHoldings ==
  ASSUME TypeOK, SequenceHoldings, NEW s \in Sequences, NEW n \in Nat, NEW d \in Nat,
         Allocate(s, n, reservation(s), d), slots[s] + n =< reservation(s)
  PROVE  /\ IF Paged THEN held'[s] = BlocksFor(slots'[s])
                     ELSE held'[s] = reservation(s) /\ slots'[s] =< reservation(s)
         /\ slots'[s] = slots[s] + n
         /\ \A t \in Sequences \ {s} : held'[t] = held[t] /\ slots'[t] = slots[t]
<1>1. /\ held \in [Sequences -> Nat] /\ slots \in [Sequences -> Nat]
      /\ reservation(s) \in Nat
  BY TokensType DEF TypeOK, KVTypeOK
<1>2. /\ held' = [held EXCEPT ![s] = @ + needed(s, n, reservation(s))]
      /\ slots' = [slots EXCEPT ![s] = @ + n]
  BY DEF Allocate
<1>3. held'[s] = held[s] + needed(s, n, reservation(s)) /\ slots'[s] = slots[s] + n
  BY <1>1, <1>2
<1>4. CASE Paged
  <2>1. BlocksFor(slots[s] + n) \in Nat
    BY <1>1, BlocksForType
  <2> QED
    BY <1>1, <1>2, <1>3, <1>4, <2>1 DEF needed
<1>5. CASE ~ Paged
  <2>1. held[s] \in {0, reservation(s)}
    BY <1>1, <1>5 DEF SequenceHoldings
  <2>2. held'[s] = reservation(s)
    BY <1>1, <1>3, <1>5, <2>1 DEF needed
  <2> QED
    BY <1>1, <1>2, <1>3, <1>5, <2>2
<1> QED
  BY <1>4, <1>5

\* The sequence a turn is about has not been passed.
LEMMA TurnNotBefore ==
  ASSUME TypeOK, OnePlace, Turn(running)
  PROVE  /\ running[index] \in Sequences /\ running[index] \in Range(running)
         /\ running[index] \notin Before
         /\ Before \subseteq Sequences
<1>1. running \in Seq(Sequences) /\ index \in 1 .. Len(running)
  BY DEF TypeOK, Turn
<1>2. running[index] \notin Before
  BY <1>1 DEF Before, OnePlace, IsInjective
<1> QED
  BY <1>1, <1>2 DEF Before, Range

\* The indices of a plan with an entry more.
LEMMA TurnsOfPlan ==
  ASSUME TypeOK, Len(entries') = Len(entries) + 1
  PROVE  \A k \in 1 .. Len(entries') : k \in 1 .. Len(entries) \/ k = Len(entries) + 1
<1>1. Len(entries) \in Nat
  BY DEF TypeOK
<1>2. PICK n, m : n = Len(entries) /\ m = Len(entries')
  OBVIOUS
<1>3. \A k \in 1 .. m : k \in 1 .. n \/ k = n + 1
  BY <1>1, <1>2
<1> QED
  BY <1>2, <1>3

\* A decode of a sequence that has none in the plan.
LEMMA PlanDecodePlan ==
  ASSUME IInv, PlanInv, PlanDecode
  PROVE  PlanInv'
<1>1. /\ TypeOK /\ TypeOK' /\ OnePlace /\ ArrivedInOrder /\ TokensToCome /\ AdmittedInv
      /\ PlanConsistent /\ CursorInv /\ SlotsMatchTokens /\ SequenceHoldings
  BY PlanDecodeInv DEF IInv, PlanInv
<1> DEFINE s == running[index]
           e == Entry(s, 1, FALSE)
<1>2. /\ s \in Sequences /\ s \in Range(running) /\ s \notin Before /\ Before \subseteq Sequences
  BY <1>1, TurnNotBefore DEF PlanDecode
<1>3. /\ status[s] = "DECODING"
      /\ Allocate(s, 1, reservation(s), 0)
      /\ entries' = Append(entries, e)
      /\ phase = "decodes" /\ phase' = phase /\ index' = index + 1
      /\ UNCHANGED <<seq_vars, queue_vars, preempted, rejected, budget, cap>>
  BY DEF PlanDecode, Step, At
<1>4. Before' = Before \cup {s}
  BY <1>1, <1>3, BeforeAfterTurn DEF PlanDecode, queue_vars
<1> HIDE DEF s
<1>5. UNCHANGED <<status, shape, generated, prefill_progress, admitted, running, waiting>>
  BY <1>3 DEF seq_vars, queue_vars
<1>6. /\ e \in Entries /\ e.seq_id = s /\ ~ e.is_prefill_chunk /\ e.n_tokens = 1
  BY <1>2 DEF Entry, Entries
<1> HIDE DEF e
<1>7. /\ Pending = {entries[k] : k \in 1 .. Len(entries)}
      /\ Len(entries') = Len(entries) + 1
      /\ \A k \in 1 .. Len(entries) : entries'[k] = entries[k]
      /\ entries'[Len(entries) + 1] = e
  BY <1>1, <1>3, <1>6, EntryJoins
<1>8. \A k \in 1 .. Len(entries) :
        ~ entries[k].is_prefill_chunk /\ entries[k].seq_id \in Before
  BY <1>1, <1>3 DEF CursorInv, At
<1>9. ~ PendingFor(s)
  BY <1>2, <1>7, <1>8 DEF PendingFor
<1>10. /\ PlanConsistent'
       /\ \A t \in Sequences : PendingFor(t)' <=> PendingFor(t) \/ t = s
  BY <1>1, <1>2, <1>3, <1>5, <1>6, <1>9, EntryKeepsPlanConsistent DEF TypeOK
<1>11. CursorInv'
  <2>1. \A k \in 1 .. Len(entries') :
          ~ entries'[k].is_prefill_chunk /\ entries'[k].seq_id \in Before'
    <3>1. \A k \in 1 .. Len(entries') : k \in 1 .. Len(entries) \/ k = Len(entries) + 1
      BY <1>1, <1>7, TurnsOfPlan
    <3> QED
      BY <1>4, <1>6, <1>7, <1>8, <3>1
  <2>2. \A t \in Before' : status'[t] = "DECODING" => PendingFor(t)'
    BY <1>1, <1>2, <1>3, <1>4, <1>5, <1>10 DEF CursorInv, At
  <2> QED
    BY <1>3, <2>1, <2>2 DEF CursorInv, At
<1>12. slots[s] + 1 = num_tokens(s) /\ num_tokens(s) \in Nat
  <2>1. num_tokens(s) \in Nat
    BY <1>1, <1>2, TokensType
  <2>2. slots[s] \in Nat
    BY <1>1, <1>2 DEF TypeOK, KVTypeOK
  <2> QED
    BY <1>1, <1>2, <1>3, <1>9, <2>1, <2>2 DEF SlotsMatchTokens
<1>13. ~ Ended(s) /\ Live(s)
  BY <1>3 DEF Ended, Live
<1>14. slots[s] + 1 =< reservation(s)
  BY <1>1, <1>2, <1>12, <1>13, TokensWithinReservation, TokensType
<1>15. /\ IF Paged THEN held'[s] = BlocksFor(slots'[s])
                   ELSE held'[s] = reservation(s) /\ slots'[s] =< reservation(s)
       /\ slots'[s] = slots[s] + 1
       /\ \A t \in Sequences \ {s} : held'[t] = held[t] /\ slots'[t] = slots[t]
  BY <1>1, <1>2, <1>3, <1>14, AllocateHoldings
<1>16. SlotsMatchTokens'
  BY <1>1, <1>3, <1>5, <1>10, <1>12, <1>15 DEF SlotsMatchTokens, num_tokens
<1>17. SequenceHoldings'
  BY <1>1, <1>5, <1>13, <1>15 DEF SequenceHoldings, Live, reservation
<1>18. OnePlace'
  BY <1>1, <1>3, <1>5 DEF OnePlace, Live, ToReject, At
<1>19. ArrivedInOrder' /\ TokensToCome' /\ AdmittedInv'
  BY <1>1, <1>5 DEF ArrivedInOrder, TokensToCome, AdmittedInv, Ended, Live
<1> QED
  BY <1>10, <1>11, <1>16, <1>17, <1>18, <1>19 DEF PlanInv

\* The victim of a preemption is not in the plan, whose entries are for sequences
\* passed, and goes to the head of `waiting` with nothing left of its progress.
LEMMA PreemptForDecodePlan ==
  ASSUME IInv, PlanInv, PreemptForDecode
  PROVE  PlanInv'
<1>1. /\ TypeOK /\ TypeOK' /\ OnePlace /\ ArrivedInOrder /\ TokensToCome /\ AdmittedInv
      /\ PlanConsistent /\ CursorInv /\ SlotsMatchTokens /\ SequenceHoldings
  BY PreemptForDecodeInv DEF IInv, PlanInv
<1> DEFINE victim == Last(running)
<1>2. /\ phase = "decodes" /\ phase' = phase
      /\ running' = Front(running)
      /\ waiting' = Cons(victim, waiting)
      /\ Free(victim)
      /\ prefill_progress' = [prefill_progress EXCEPT ![victim] = 0]
      /\ status' = [status EXCEPT ![victim] = "WAITING"]
      /\ index' = IF victim = running[index] THEN index + 1 ELSE index
      /\ index \in 1 .. Len(running)
      /\ UNCHANGED <<shape, generated, admitted, entries, rejected>>
  BY <1>1 DEF PreemptForDecode, Preempt, AfterPreempt, At, Turn, TypeOK
<1>3. /\ running \in Seq(Sequences) /\ waiting \in Seq(Sequences) /\ Len(running) \in Nat
      /\ IsInjective(running) /\ IsInjective(waiting) /\ Len(running) > 0
      /\ \A j, k \in 1 .. Len(running) : running[j] = running[k] => j = k
  <2>1. running \in Seq(Sequences) /\ waiting \in Seq(Sequences) /\ Len(running) \in Nat
    BY <1>1 DEF TypeOK
  <2>2. IsInjective(running) /\ IsInjective(waiting)
    BY <1>1 DEF OnePlace
  <2>3. Len(running) > 0
    BY <1>2, <2>1
  <2> QED
    BY <2>1, <2>2, <2>3 DEF IsInjective
<1>4. /\ Len(running') = Len(running) - 1
      /\ \A k \in 1 .. Len(running) - 1 : running'[k] = running[k]
      /\ victim = running[Len(running)]
      /\ IsInjective(running')
      /\ Range(running') = Range(running) \ {victim}
  BY <1>2, <1>3, FrontOfInjective
<1>5. victim \in Sequences /\ victim \in Range(running)
  BY <1>3, <1>4 DEF Range
<1>6. victim \notin Before
  BY <1>2, <1>3, <1>4 DEF Before, IsInjective
<1>7. Before' = Before
  <2>1. CASE victim = running[index]
    <3>1. index = Len(running)
      <4>1. index \in 1 .. Len(running) /\ Len(running) \in 1 .. Len(running)
        BY <1>2, <1>3
      <4>2. running[index] = running[Len(running)]
        BY <1>4, <2>1
      <4> QED
        BY <1>3, <4>1, <4>2
    <3>4. index' = index + 1 /\ Len(running') = index - 1
      BY <1>2, <1>4, <2>1, <3>1
    <3>2. \A i \in Nat : i \in 1 .. Len(running') /\ i < index'
                      <=> i \in 1 .. Len(running) /\ i < index
      BY <1>3, <3>1, <3>4
    <3>3. \A i \in 1 .. Len(running') : running'[i] = running[i]
      BY <1>3, <1>4
    <3> QED
      BY <1>3, <3>2, <3>3 DEF Before
  <2>2. CASE victim # running[index]
    <3>1. index < Len(running) /\ index' = index
      BY <1>2, <1>3, <1>4, <2>2
    <3>2. \A i \in Nat : i \in 1 .. Len(running') /\ i < index'
                      <=> i \in 1 .. Len(running) /\ i < index
      BY <1>2, <1>3, <1>4, <3>1
    <3>3. \A i \in 1 .. Len(running') : running'[i] = running[i]
      BY <1>3, <1>4
    <3> QED
      BY <1>3, <3>2, <3>3 DEF Before
  <2> QED
    BY <2>1, <2>2
<1> HIDE DEF victim
<1>8. Live(victim) /\ status[victim] \notin {"NEW", "WAITING"} /\ ~ Ended(victim)
  BY <1>1, <1>5 DEF OnePlace, Live, Ended
<1>9. /\ status'[victim] = "WAITING" /\ prefill_progress'[victim] = 0
      /\ held'[victim] = 0 /\ slots'[victim] = 0
      /\ \A t \in Sequences \ {victim} :
           /\ status'[t] = status[t] /\ prefill_progress'[t] = prefill_progress[t]
           /\ held'[t] = held[t] /\ slots'[t] = slots[t]
  BY <1>1, <1>2, <1>5 DEF TypeOK, KVTypeOK, Free
<1>10. Pending' = Pending /\ Pending = {entries[k] : k \in 1 .. Len(entries)}
  BY <1>2 DEF Pending, At
<1>11. \A s \in Sequences : PendingFor(s)' <=> PendingFor(s)
  BY <1>10 DEF PendingFor
<1>12. \A x \in Pending : x.seq_id \in Before /\ x.seq_id \in Sequences
  <2>2. \A k \in 1 .. Len(entries) : entries[k].seq_id \in Before
    BY <1>1, <1>2 DEF CursorInv, At
  <2>3. Before \subseteq Sequences
    BY <1>3 DEF Before
  <2> QED
    BY <1>10, <2>2, <2>3
<1>13. ToReject' = ToReject
  BY <1>2 DEF ToReject, At
<1>14. OnePlace'
  <2>1. victim \notin Range(waiting) /\ victim \notin ToReject
    BY <1>1, <1>5, <1>8 DEF OnePlace
  <2>2. IsInjective(waiting') /\ Range(waiting') = Range(waiting) \cup {victim}
    BY <1>2, <1>3, <1>5, <2>1, ConsToInjective
  <2>3. IsInjective(running') /\ IsInjective(rejected')
    BY <1>1, <1>2, <1>4 DEF OnePlace
  <2>4. \A s \in Sequences :
          /\ s \in Range(running') <=> Live(s)'
          /\ status'[s] = "WAITING" <=> s \in Range(waiting') \cup ToReject'
    BY <1>1, <1>4, <1>9, <1>13, <2>2 DEF OnePlace, Live
  <2> QED
    BY <1>1, <1>13, <2>1, <2>2, <2>3, <2>4 DEF OnePlace
<1>15. ArrivedInOrder' /\ TokensToCome' /\ AdmittedInv'
  BY <1>1, <1>2, <1>5, <1>8, <1>9 DEF ArrivedInOrder, TokensToCome, AdmittedInv, Ended, Live
<1>16. PlanConsistent'
  BY <1>1, <1>2, <1>6, <1>9, <1>10, <1>12 DEF PlanConsistent, Live
<1>17. CursorInv'
  <2>1. \A s \in Before : status'[s] = status[s]
    <3>1. Before \subseteq Sequences
      BY <1>3 DEF Before
    <3> QED
      BY <1>6, <1>9, <3>1
  <2> QED
    BY <1>1, <1>2, <1>7, <1>10, <2>1 DEF CursorInv, At, PendingFor
<1>18. SlotsMatchTokens'
  BY <1>1, <1>2, <1>9, <1>11 DEF SlotsMatchTokens, num_tokens
<1>19. SequenceHoldings'
  BY <1>1, <1>2, <1>9 DEF SequenceHoldings, Live, reservation
<1> QED
  BY <1>14, <1>15, <1>16, <1>17, <1>18, <1>19 DEF PlanInv

\* A chunk is never empty, and it goes to a sequence that has no entry yet.
LEMMA TakeChunkPlan ==
  ASSUME IInv, PlanInv, TypeOK', NEW s \in Sequences, NEW d \in Nat,
         ~ PendingFor(s), status[s] \in {"WAITING", "PREFILLING"}, budget # 0,
         phase' = phase, phase \notin {"results", "failed"},
         Allocate(s, Chunk(s), reservation(s), d),
         entries' = Append(entries, Entry(s, Chunk(s), TRUE)),
         AdvancePrefill(s, Chunk(s)),
         UNCHANGED <<shape, generated>>
  PROVE  /\ PlanConsistent' /\ SlotsMatchTokens' /\ SequenceHoldings'
         /\ \A t \in Sequences : PendingFor(t)' <=> PendingFor(t) \/ t = s
         /\ status'[s] \in {"PREFILLING", "DECODING"}
         /\ \A t \in Sequences \ {s} :
              status'[t] = status[t] /\ prefill_progress'[t] = prefill_progress[t]
<1>1. /\ TypeOK /\ ProgressBounded /\ TokensToCome
      /\ PlanConsistent /\ SlotsMatchTokens /\ SequenceHoldings
  BY DEF IInv, PlanInv
<1> DEFINE chunk == Chunk(s)
           e == Entry(s, chunk, TRUE)
<1>2. /\ num_tokens(s) \in Nat \ {0} /\ reservation(s) \in Nat
      /\ num_tokens(s) < reservation(s)
  <2>1. ~ Ended(s)
    BY DEF Ended
  <2> QED
    BY <1>1, <2>1, TokensType, TokensWithinReservation
<1>3. /\ prefill_progress[s] \in Nat /\ slots[s] = prefill_progress[s]
      /\ prefill_progress[s] < num_tokens(s)
  <2>1. prefill_progress[s] \in Nat
    BY <1>1 DEF TypeOK
  <2>2. CASE status[s] = "WAITING"
    BY <1>1, <1>2, <2>2 DEF SlotsMatchTokens, SequenceHoldings, Live
  <2>3. CASE status[s] = "PREFILLING"
    BY <1>1, <1>2, <2>1, <2>3 DEF SlotsMatchTokens
  <2> QED
    BY <2>1, <2>2, <2>3
<1>4. /\ chunk \in Nat \ {0}
      /\ prefill_progress[s] + chunk =< num_tokens(s)
  <2>1. /\ budget \in Nat \ {0}
        /\ max_prefill_chunk \in Nat \ {0}
    <3>1. budget \in Nat \ {0}
      BY <1>1 DEF TypeOK
    <3>2. max_prefill_chunk \in Nat \ {0}
      <4>1. token_budget \in Nat \ {0}
        BY SchedulerAssumption
      <4>2. CASE token_budget < 2
        BY <4>2 DEF max_prefill_chunk
      <4>3. CASE ~ (token_budget < 2)
        <5>1. token_budget \div 2 \in Nat \ {0}
          BY <4>1, <4>3
        <5> QED
          BY <4>3, <5>1 DEF max_prefill_chunk
      <4> QED
        BY <4>2, <4>3
    <3> QED
      BY <3>1, <3>2
  <2>2. Lesser(budget, max_prefill_chunk) \in Nat \ {0}
    BY <2>1 DEF Lesser
  <2>3. num_tokens(s) - prefill_progress[s] \in Nat \ {0}
    BY <1>2, <1>3
  <2> HIDE DEF num_tokens
  <2>4. chunk \in {num_tokens(s) - prefill_progress[s], Lesser(budget, max_prefill_chunk)}
        /\ chunk =< num_tokens(s) - prefill_progress[s]
    <3> DEFINE a == num_tokens(s) - prefill_progress[s]
               b == Lesser(budget, max_prefill_chunk)
    <3>1. a \in Nat /\ b \in Nat /\ chunk = IF a =< b THEN a ELSE b
      BY <2>2, <2>3 DEF Chunk, Lesser
    <3> HIDE DEF a, b, chunk
    <3>2. chunk \in {a, b} /\ chunk =< a
      BY <3>1
    <3> QED
      BY <3>2 DEF a, b
  <2> HIDE DEF chunk
  <2> QED
    BY <1>2, <1>3, <2>2, <2>3, <2>4
<1>5. /\ prefill_progress' = [prefill_progress EXCEPT ![s] = @ + chunk]
      /\ status' = [status EXCEPT ![s] =
           IF prefill_progress[s] + chunk = num_tokens(s) THEN "DECODING" ELSE "PREFILLING"]
      /\ Allocate(s, chunk, reservation(s), d)
      /\ entries' = Append(entries, e)
  BY DEF AdvancePrefill
<1> HIDE DEF chunk
<1>6. /\ prefill_progress'[s] = prefill_progress[s] + chunk
      /\ status'[s] = IF prefill_progress[s] + chunk = num_tokens(s)
                      THEN "DECODING" ELSE "PREFILLING"
      /\ \A t \in Sequences \ {s} :
           status'[t] = status[t] /\ prefill_progress'[t] = prefill_progress[t]
  BY <1>1, <1>5 DEF TypeOK
<1>7. /\ e \in Entries /\ e.seq_id = s /\ e.is_prefill_chunk /\ e.n_tokens = chunk
  BY <1>4 DEF Entry, Entries
<1> HIDE DEF e
<1>8. /\ PlanConsistent'
      /\ \A t \in Sequences : PendingFor(t)' <=> PendingFor(t) \/ t = s
  <2>1. e.n_tokens \in 1 .. prefill_progress'[e.seq_id]
    BY <1>3, <1>4, <1>6, <1>7
  <2>2. status' \in [Sequences -> Statuses]
    BY DEF TypeOK
  <2> QED
    BY <1>1, <1>5, <1>6, <1>7, <2>1, <2>2, EntryKeepsPlanConsistent
<1>9. slots[s] + chunk =< reservation(s)
  BY <1>2, <1>3, <1>4
<1>10. /\ IF Paged THEN held'[s] = BlocksFor(slots'[s])
                   ELSE held'[s] = reservation(s) /\ slots'[s] =< reservation(s)
       /\ slots'[s] = slots[s] + chunk
       /\ \A t \in Sequences \ {s} : held'[t] = held[t] /\ slots'[t] = slots[t]
  BY <1>1, <1>4, <1>5, <1>9, AllocateHoldings
<1>11. \A t \in Sequences : num_tokens(t)' = num_tokens(t) /\ reservation(t)' = reservation(t)
  BY DEF num_tokens, reservation
<1>12. SlotsMatchTokens'
  <2> SUFFICES ASSUME NEW t \in Sequences
               PROVE  /\ status'[t] = "PREFILLING" =>
                           /\ slots'[t] = prefill_progress'[t]
                           /\ prefill_progress'[t] \in 1 .. num_tokens(t)' - 1
                      /\ status'[t] = "DECODING" =>
                           slots'[t] = num_tokens(t)' - (IF PendingFor(t)' THEN 0 ELSE 1)
                      /\ status'[t] = "WAITING" => prefill_progress'[t] = 0
    BY DEF SlotsMatchTokens
  <2>1. CASE t = s
    <3> DEFINE q == prefill_progress[s] + chunk
               n == num_tokens(s)
    <3>1. q \in Nat /\ n \in Nat /\ 1 =< q /\ q =< n /\ n - 0 = n
      BY <1>2, <1>3, <1>4
    <3>2. /\ slots'[t] = q /\ prefill_progress'[t] = q /\ num_tokens(t)' = n
          /\ status'[t] = IF q = n THEN "DECODING" ELSE "PREFILLING"
          /\ PendingFor(t)'
      BY <1>3, <1>6, <1>8, <1>10, <1>11, <2>1
    <3> HIDE DEF q, n
    <3>3. q # n => q \in 1 .. n - 1
      BY <3>1
    <3> QED
      BY <3>1, <3>2, <3>3
  <2>2. CASE t # s
    BY <1>1, <1>6, <1>8, <1>10, <1>11, <2>2 DEF SlotsMatchTokens
  <2> QED
    BY <2>1, <2>2
<1>13. SequenceHoldings'
  BY <1>1, <1>6, <1>10, <1>11 DEF SequenceHoldings, Live
<1> QED
  BY <1>6, <1>8, <1>12, <1>13

\* The next chunk of a sequence that has none in the plan.
LEMMA PlanContinuationPlan ==
  ASSUME IInv, PlanInv, PlanContinuation
  PROVE  PlanInv'
<1>1. /\ TypeOK /\ TypeOK' /\ OnePlace /\ ArrivedInOrder /\ TokensToCome /\ AdmittedInv
      /\ PlanConsistent /\ CursorInv
  BY PlanContinuationInv DEF IInv, PlanInv
<1> DEFINE s == running[index]
<1>2. /\ s \in Sequences /\ s \in Range(running) /\ s \notin Before /\ Before \subseteq Sequences
  BY <1>1, TurnNotBefore DEF PlanContinuation
<1>3. /\ status[s] = "PREFILLING" /\ budget # 0
      /\ Allocate(s, Chunk(s), reservation(s), 0)
      /\ entries' = Append(entries, Entry(s, Chunk(s), TRUE))
      /\ AdvancePrefill(s, Chunk(s))
      /\ phase = "continuations" /\ phase' = phase /\ index' = index + 1
      /\ UNCHANGED <<shape, generated, admitted, running, waiting, rejected>>
  BY DEF PlanContinuation, Continuing, Step, At, queue_vars
<1>4. Before' = Before \cup {s}
  BY <1>1, <1>3, BeforeAfterTurn DEF PlanContinuation
<1> HIDE DEF s
<1>5. /\ Entry(s, Chunk(s), TRUE) \in Entries /\ Entry(s, Chunk(s), TRUE).seq_id = s
      /\ Entry(s, Chunk(s), TRUE).is_prefill_chunk
  <2>1. Chunk(s) \in Nat
    BY <1>2, ChunkBounds DEF IInv
  <2> QED
    BY <1>2, <2>1 DEF Entry, Entries
<1>6. /\ Pending = {entries[k] : k \in 1 .. Len(entries)}
      /\ Len(entries') = Len(entries) + 1
      /\ \A k \in 1 .. Len(entries) : entries'[k] = entries[k]
      /\ entries'[Len(entries) + 1] = Entry(s, Chunk(s), TRUE)
  BY <1>1, <1>3, <1>5, EntryJoins
<1>7. ~ PendingFor(s)
  <2>1. \A k \in 1 .. Len(entries) : entries[k].is_prefill_chunk => entries[k].seq_id \in Before
    BY <1>1, <1>3 DEF CursorInv, At
  <2>2. \A x \in Pending : ~ x.is_prefill_chunk => status[x.seq_id] = "DECODING"
    BY <1>1 DEF PlanConsistent
  <2> QED
    BY <1>2, <1>3, <1>6, <2>1, <2>2 DEF PendingFor
<1>8. /\ PlanConsistent' /\ SlotsMatchTokens' /\ SequenceHoldings'
      /\ \A t \in Sequences : PendingFor(t)' <=> PendingFor(t) \/ t = s
      /\ status'[s] \in {"PREFILLING", "DECODING"}
      /\ \A t \in Sequences \ {s} :
           status'[t] = status[t] /\ prefill_progress'[t] = prefill_progress[t]
  BY <1>1, <1>2, <1>3, <1>7, TakeChunkPlan
<1>9. CursorInv'
  <2>1. \A k \in 1 .. Len(entries') :
          entries'[k].is_prefill_chunk => entries'[k].seq_id \in Before'
    <3>1. \A k \in 1 .. Len(entries') : k \in 1 .. Len(entries) \/ k = Len(entries) + 1
      BY <1>1, <1>6, TurnsOfPlan
    <3>2. \A k \in 1 .. Len(entries) :
            entries[k].is_prefill_chunk => entries[k].seq_id \in Before
      BY <1>1, <1>3 DEF CursorInv, At
    <3> QED
      BY <1>4, <1>5, <1>6, <3>1, <3>2
  <2>2. \A t \in Sequences : status'[t] = "DECODING" => PendingFor(t)'
    BY <1>1, <1>3, <1>8 DEF CursorInv, At
  <2> QED
    BY <1>3, <2>1, <2>2 DEF CursorInv, At
<1>10. OnePlace'
  <2>1. ToReject' = ToReject
    BY <1>3 DEF ToReject, At
  <2> QED
    BY <1>1, <1>2, <1>3, <1>8, <2>1 DEF OnePlace, Live
<1>11. ArrivedInOrder' /\ TokensToCome' /\ AdmittedInv'
  BY <1>1, <1>2, <1>3, <1>8 DEF ArrivedInOrder, TokensToCome, AdmittedInv, Ended, Live
<1> QED
  BY <1>8, <1>9, <1>10, <1>11 DEF PlanInv

\* The candidate joins the tail of `running` with its first chunk.
LEMMA AdmitPlan ==
  ASSUME IInv, PlanInv, Admit
  PROVE  PlanInv'
<1>1. /\ TypeOK /\ TypeOK' /\ OnePlace /\ ArrivedInOrder /\ TokensToCome /\ AdmittedInv
      /\ PlanConsistent /\ CursorInv
  BY AdmitInv DEF IInv, PlanInv
<1>2. /\ running \in Seq(Sequences) /\ waiting \in Seq(Sequences)
      /\ IsInjective(running) /\ IsInjective(waiting)
      /\ admitted \in [Sequences -> BOOLEAN] /\ Len(running) \in Nat
  BY <1>1 DEF TypeOK, OnePlace
<1> DEFINE s == waiting[index]
<1>3. index \in 1 .. Len(waiting) /\ s \in Sequences /\ s \in Range(waiting)
  <2>1. index \in 1 .. Len(waiting)
    BY <1>1, <1>2 DEF Admit, MoreAdmissions, Turn, TypeOK
  <2> QED
    BY <1>2, <2>1 DEF Range
<1>4. /\ budget # 0
      /\ Allocate(s, Chunk(s), reservation(s), Len(running))
      /\ entries' = Append(entries, Entry(s, Chunk(s), TRUE))
      /\ AdvancePrefill(s, Chunk(s))
      /\ admitted' = [admitted EXCEPT ![s] = TRUE]
      /\ waiting' = RemoveAt(waiting, index)
      /\ running' = Append(running, s)
      /\ phase = "admissions" /\ phase' = phase
      /\ UNCHANGED <<shape, generated, rejected>>
  BY <1>1 DEF Admit, MoreAdmissions, Candidate, AdmissionReserve, At, TypeOK
<1>5. /\ IsInjective(waiting') /\ Range(waiting') = Range(waiting) \ {s}
  BY <1>2, <1>3, <1>4, RemoveAtOfInjective
<1> HIDE DEF s
<1>6. status[s] = "WAITING" /\ s \notin Range(running) /\ s \notin ToReject
  BY <1>1, <1>3 DEF OnePlace, Live
<1>7. ~ PendingFor(s)
  BY <1>1, <1>6 DEF PendingFor, PlanConsistent, Live
<1>8. /\ PlanConsistent' /\ SlotsMatchTokens' /\ SequenceHoldings'
      /\ \A t \in Sequences : PendingFor(t)' <=> PendingFor(t) \/ t = s
      /\ status'[s] \in {"PREFILLING", "DECODING"}
      /\ \A t \in Sequences \ {s} :
           status'[t] = status[t] /\ prefill_progress'[t] = prefill_progress[t]
  BY <1>1, <1>2, <1>3, <1>4, <1>6, <1>7, TakeChunkPlan
<1>9. CursorInv'
  <2>1. \A t \in Sequences : status'[t] = "DECODING" => PendingFor(t)'
    BY <1>1, <1>4, <1>8 DEF CursorInv, At
  <2> QED
    BY <1>4, <2>1 DEF CursorInv, At
<1>10. OnePlace'
  <2>1. ToReject' = ToReject
    BY <1>4 DEF ToReject, At
  <2>2. IsInjective(running') /\ Range(running') = Range(running) \cup {s}
    BY <1>2, <1>3, <1>4, <1>6, AppendToInjective
  <2>3. IsInjective(rejected')
    BY <1>1, <1>4 DEF OnePlace
  <2>4. \A t \in Sequences :
          /\ t \in Range(running') <=> Live(t)'
          /\ status'[t] = "WAITING" <=> t \in Range(waiting') \cup ToReject'
    BY <1>1, <1>5, <1>6, <1>8, <2>1, <2>2 DEF OnePlace, Live
  <2>5. Range(waiting') \cap ToReject' = {}
    BY <1>1, <1>5, <2>1 DEF OnePlace
  <2> QED
    BY <1>5, <2>2, <2>3, <2>4, <2>5 DEF OnePlace
<1>11. ArrivedInOrder' /\ TokensToCome' /\ AdmittedInv'
  <2>1. admitted'[s] /\ \A t \in Sequences \ {s} : admitted'[t] = admitted[t]
    BY <1>2, <1>3, <1>4
  <2> QED
    BY <1>1, <1>3, <1>4, <1>6, <1>8, <2>1
       DEF ArrivedInOrder, TokensToCome, AdmittedInv, Ended, Live
<1> QED
  BY <1>8, <1>9, <1>10, <1>11 DEF PlanInv

\* The candidate moves from `waiting` to plan.rejected, and stays in one place.
LEMMA RejectPlan ==
  ASSUME IInv, PlanInv, Reject
  PROVE  PlanInv'
<1>1. /\ TypeOK /\ OnePlace /\ ArrivedInOrder /\ TokensToCome /\ AdmittedInv
      /\ PlanConsistent /\ CursorInv /\ SlotsMatchTokens /\ SequenceHoldings
  BY DEF IInv, PlanInv
<1>2. /\ rejected \in Seq(Sequences) /\ waiting \in Seq(Sequences)
      /\ IsInjective(rejected) /\ IsInjective(waiting)
  BY <1>1 DEF TypeOK, OnePlace
<1> DEFINE s == waiting[index]
<1>3. index \in 1 .. Len(waiting) /\ s \in Sequences /\ s \in Range(waiting)
  <2>1. index \in Nat \ {0} /\ index =< Len(waiting) /\ Len(waiting) \in Nat
    BY <1>1, <1>2 DEF Reject, MoreAdmissions, Turn, TypeOK
  <2>2. index \in 1 .. Len(waiting)
    BY <2>1
  <2> QED
    BY <1>2, <2>2 DEF Range
<1>4. /\ rejected' = Append(rejected, s)
      /\ waiting' = RemoveAt(waiting, index)
      /\ phase = "admissions" /\ phase' = phase /\ index' = index
      /\ UNCHANGED <<held, slots, status, shape, generated, prefill_progress, admitted,
                     running, entries>>
  BY DEF Reject, Candidate, At, kv_vars, seq_vars, loop_vars
<1>5. /\ IsInjective(waiting') /\ Range(waiting') = Range(waiting) \ {s}
  BY <1>2, <1>3, <1>4, RemoveAtOfInjective
<1> HIDE DEF s
<1>6. ToReject = Range(rejected) /\ ToReject' = Range(rejected')
  <2>1. rejected' \in Seq(Sequences)
    BY <1>2, <1>3, <1>4
  <2> QED
    BY <1>2, <1>4, <2>1 DEF ToReject, At, Range
<1>7. s \notin Range(rejected)
  BY <1>1, <1>3, <1>6 DEF OnePlace
<1>8. IsInjective(rejected') /\ Range(rejected') = Range(rejected) \cup {s}
  BY <1>2, <1>3, <1>4, <1>7, AppendToInjective
<1>9. Pending' = Pending
  BY <1>4 DEF Pending, At
<1>10. \A t \in Sequences : PendingFor(t)' <=> PendingFor(t)
  BY <1>9 DEF PendingFor
<1>11. OnePlace'
  BY <1>1, <1>3, <1>4, <1>5, <1>6, <1>8 DEF OnePlace, Live
<1>12. ArrivedInOrder' /\ TokensToCome' /\ AdmittedInv'
  BY <1>1, <1>4 DEF ArrivedInOrder, TokensToCome, AdmittedInv, Ended, Live
<1>13. PlanConsistent'
  BY <1>1, <1>4, <1>9 DEF PlanConsistent, Live
<1>14. CursorInv'
  BY <1>1, <1>4, <1>10 DEF CursorInv, At
<1>15. SlotsMatchTokens'
  BY <1>1, <1>4, <1>10 DEF SlotsMatchTokens, num_tokens
<1>16. SequenceHoldings'
  BY <1>1, <1>4 DEF SequenceHoldings, Live, reservation
<1> QED
  BY <1>11, <1>12, <1>13, <1>14, <1>15, <1>16 DEF PlanInv
-----------------------------------------------------------------------------
(* A sequence ends *)

\* It leaves `running`, if it is there, and holds nothing; no other changes.
LEMMA EndAsEffect ==
  ASSUME TypeOK, OnePlace, NEW s \in Sequences, NEW outcome \in {"DONE", "ABORTED"},
         EndAs(s, outcome)
  PROVE  /\ status'[s] = outcome /\ held'[s] = 0 /\ slots'[s] = 0
         /\ \A t \in Sequences \ {s} :
              status'[t] = status[t] /\ held'[t] = held[t] /\ slots'[t] = slots[t]
         /\ IsInjective(running') /\ Range(running') = Range(running) \ {s}
<1>1. /\ status' = [status EXCEPT ![s] = outcome]
      /\ running' = RemoveFirst(running, s)
      /\ held' = [held EXCEPT ![s] = 0]
      /\ slots' = [slots EXCEPT ![s] = 0]
  BY DEF EndAs, Free
<1>2. IsInjective(running') /\ Range(running') = Range(running) \ {s}
  <2>1. running \in Seq(Sequences) /\ IsInjective(running)
    BY DEF TypeOK, OnePlace
  <2> QED
    BY <1>1, <2>1, RemoveFirstOfInjective
<1> QED
  BY <1>1, <1>2 DEF TypeOK, KVTypeOK

\* A rejected sequence is in no queue once it has been aborted.
LEMMA AbortRejectedPlan ==
  ASSUME IInv, PlanInv, AbortRejected
  PROVE  PlanInv'
<1>1. /\ TypeOK /\ OnePlace /\ ArrivedInOrder /\ TokensToCome /\ AdmittedInv
      /\ PlanConsistent /\ CursorInv /\ SlotsMatchTokens /\ SequenceHoldings
  BY DEF IInv, PlanInv
<1> DEFINE s == rejected[index]
<1>2. /\ index \in 1 .. Len(rejected) /\ rejected \in Seq(Sequences) /\ s \in Sequences
      /\ IsInjective(rejected)
  BY <1>1 DEF AbortRejected, Turn, TypeOK, OnePlace
<1>3. /\ EndAs(s, "ABORTED") /\ phase = "rejects" /\ phase' = phase /\ index' = index + 1
      /\ UNCHANGED <<shape, generated, prefill_progress, admitted, waiting, entries, rejected>>
  BY DEF AbortRejected, At, Step, plan_vars
<1>4. /\ ToReject = {rejected[k] : k \in index .. Len(rejected)}
      /\ ToReject' = {rejected[k] : k \in index + 1 .. Len(rejected)}
  BY <1>3 DEF ToReject, At
<1>5. s \in ToReject /\ ToReject' = ToReject \ {s}
  <2>1. \A k \in Nat : k \in index .. Len(rejected)
                   <=> k = index \/ k \in index + 1 .. Len(rejected)
    BY <1>2
  <2>2. \A k \in index + 1 .. Len(rejected) : rejected[k] # s
    BY <1>2 DEF IsInjective
  <2> QED
    BY <1>2, <1>4, <2>1, <2>2
<1> HIDE DEF s
<1>6. /\ status'[s] = "ABORTED" /\ held'[s] = 0 /\ slots'[s] = 0
      /\ \A t \in Sequences \ {s} :
           status'[t] = status[t] /\ held'[t] = held[t] /\ slots'[t] = slots[t]
      /\ IsInjective(running') /\ Range(running') = Range(running) \ {s}
  BY <1>1, <1>2, <1>3, EndAsEffect
<1>7. status[s] = "WAITING" /\ s \notin Range(running) /\ s \notin Range(waiting)
  BY <1>1, <1>2, <1>5 DEF OnePlace, Live
<1>8. Pending' = Pending /\ \A x \in Pending : x.seq_id \in Sequences \ {s} /\ Live(x.seq_id)
  <2>1. Pending' = Pending /\ Pending \subseteq Entries
    BY <1>1, <1>3 DEF Pending, At, TypeOK
  <2> QED
    BY <1>1, <1>7, <2>1 DEF PlanConsistent, Live, Entries
<1>9. \A t \in Sequences : PendingFor(t)' <=> PendingFor(t)
  BY <1>8 DEF PendingFor
<1>10. OnePlace'
  BY <1>1, <1>2, <1>3, <1>5, <1>6, <1>7 DEF OnePlace, Live
<1>11. ArrivedInOrder' /\ TokensToCome' /\ AdmittedInv'
  BY <1>1, <1>2, <1>3, <1>6, <1>7
     DEF ArrivedInOrder, TokensToCome, AdmittedInv, Ended, Live
<1>12. PlanConsistent'
  BY <1>1, <1>3, <1>6, <1>8 DEF PlanConsistent, Live
<1>13. CursorInv'
  BY <1>1, <1>3, <1>6, <1>9 DEF CursorInv, At
<1>14. SlotsMatchTokens'
  BY <1>1, <1>3, <1>6, <1>9 DEF SlotsMatchTokens, num_tokens
<1>15. SequenceHoldings'
  BY <1>1, <1>3, <1>6 DEF SequenceHoldings, Live, reservation
<1> QED
  BY <1>10, <1>11, <1>12, <1>13, <1>14, <1>15 DEF PlanInv

\* The entry whose outcome is folded in was the only one pending for its sequence.
LEMMA EntryLeaves ==
  ASSUME TypeOK, PlanConsistent, phase \in {"results", "failed"}, phase' = phase,
         index \in 1 .. Len(entries), index' = index + 1, UNCHANGED entries
  PROVE  /\ entries[index].seq_id \in Sequences /\ Live(entries[index].seq_id)
         /\ entries[index] \in Pending /\ Pending' \subseteq Pending
         /\ \A x \in Pending' : x.seq_id \in Sequences \ {entries[index].seq_id}
         /\ \A t \in Sequences \ {entries[index].seq_id} : PendingFor(t)' <=> PendingFor(t)
<1>1. /\ Pending = {entries[k] : k \in index .. Len(entries)}
      /\ Pending' = {entries[k] : k \in index + 1 .. Len(entries)}
  BY DEF Pending, At
<1>2. entries \in Seq(Entries)
  BY DEF TypeOK
<1>3. \A k \in Nat : k \in index .. Len(entries) <=> k = index \/ k \in index + 1 .. Len(entries)
  BY <1>2
<1>4. Pending = Pending' \cup {entries[index]} /\ Pending \subseteq Entries
  BY <1>1, <1>2, <1>3
<1>5. \A x \in Pending' : x.seq_id # entries[index].seq_id
  <2> SUFFICES ASSUME NEW k \in index + 1 .. Len(entries),
                      entries[k].seq_id = entries[index].seq_id
               PROVE  FALSE
    BY <1>1
  <2>1. k \in 1 .. Len(entries) /\ k # index
    BY <1>2
  <2> QED
    BY <2>1 DEF PlanConsistent
<1>6. Live(entries[index].seq_id)
  BY <1>4 DEF PlanConsistent
<1>7. \A t \in Sequences \ {entries[index].seq_id} : PendingFor(t)' <=> PendingFor(t)
  BY <1>4 DEF PendingFor
<1> QED
  BY <1>4, <1>5, <1>6, <1>7 DEF Entries

\* The batch failed: each of its sequences is aborted, once.
LEMMA AbortEntryPlan ==
  ASSUME IInv, PlanInv, AbortEntry
  PROVE  PlanInv'
<1>1. /\ TypeOK /\ OnePlace /\ ArrivedInOrder /\ TokensToCome /\ AdmittedInv
      /\ PlanConsistent /\ CursorInv /\ SlotsMatchTokens /\ SequenceHoldings
  BY DEF IInv, PlanInv
<1> DEFINE s == entries[index].seq_id
<1>2. /\ EndAs(s, "ABORTED") /\ phase = "failed" /\ phase' = phase /\ index' = index + 1
      /\ index \in 1 .. Len(entries)
      /\ UNCHANGED <<shape, generated, prefill_progress, admitted, waiting, entries, rejected>>
  BY <1>1 DEF AbortEntry, At, Step, Turn, TypeOK, plan_vars
<1>3. /\ s \in Sequences /\ Live(s) /\ Pending' \subseteq Pending
      /\ \A x \in Pending' : x.seq_id \in Sequences \ {s}
      /\ \A t \in Sequences \ {s} : PendingFor(t)' <=> PendingFor(t)
  BY <1>1, <1>2, EntryLeaves
<1> HIDE DEF s
<1>4. /\ status'[s] = "ABORTED" /\ held'[s] = 0 /\ slots'[s] = 0
      /\ \A t \in Sequences \ {s} :
           status'[t] = status[t] /\ held'[t] = held[t] /\ slots'[t] = slots[t]
      /\ IsInjective(running') /\ Range(running') = Range(running) \ {s}
  BY <1>1, <1>2, <1>3, EndAsEffect
<1>5. OnePlace'
  <2>1. ToReject' = ToReject /\ status[s] # "WAITING"
    BY <1>2, <1>3 DEF ToReject, At, Live
  <2> QED
    BY <1>1, <1>2, <1>3, <1>4, <2>1 DEF OnePlace, Live
<1>6. ArrivedInOrder' /\ TokensToCome' /\ AdmittedInv'
  BY <1>1, <1>2, <1>3, <1>4 DEF ArrivedInOrder, TokensToCome, AdmittedInv, Ended, Live
<1>7. PlanConsistent'
  BY <1>1, <1>2, <1>3, <1>4 DEF PlanConsistent, Live
<1>8. CursorInv'
  BY <1>2 DEF CursorInv, At
<1>9. SlotsMatchTokens'
  BY <1>1, <1>2, <1>3, <1>4 DEF SlotsMatchTokens, num_tokens
<1>10. SequenceHoldings'
  BY <1>1, <1>2, <1>4 DEF SequenceHoldings, Live, reservation
<1> QED
  BY <1>5, <1>6, <1>7, <1>8, <1>9, <1>10 DEF PlanInv

\* The token that has no slot yet is the one just appended.
LEMMA ApplyResultPlan ==
  ASSUME IInv, PlanInv, NEW stop \in BOOLEAN, ApplyResult(stop)
  PROVE  PlanInv'
<1>1. /\ TypeOK /\ OnePlace /\ ArrivedInOrder /\ TokensToCome /\ AdmittedInv
      /\ PlanConsistent /\ CursorInv /\ SlotsMatchTokens /\ SequenceHoldings
  BY DEF IInv, PlanInv
<1>0. PICK s \in Sequences : s = entries[index].seq_id
  <2>1. entries[index] \in Entries
    BY <1>1 DEF ApplyResult, Turn, TypeOK
  <2> QED
    BY <2>1 DEF Entries
<1> DEFINE last == stop \/ generated[s] + 1 >= shape[s].max_tokens
<1>2. /\ owes_token(entries[index])
      /\ generated' = [generated EXCEPT ![s] = @ + 1]
      /\ phase = "results" /\ phase' = phase /\ index' = index + 1
      /\ index \in 1 .. Len(entries)
      /\ UNCHANGED <<shape, prefill_progress, admitted, waiting, entries, rejected>>
  BY <1>0, <1>1 DEF ApplyResult, At, Step, Turn, TypeOK, plan_vars
<1>3. IF last THEN EndAs(s, "DONE") ELSE UNCHANGED <<status, running, kv_vars>>
  BY <1>0 DEF ApplyResult
<1>4. /\ Live(s) /\ Pending' \subseteq Pending
      /\ entries[index] \in Pending
      /\ \A x \in Pending' : x.seq_id \in Sequences \ {s}
      /\ \A t \in Sequences \ {s} : PendingFor(t)' <=> PendingFor(t)
  BY <1>0, <1>1, <1>2, EntryLeaves
<1>5. PendingFor(s) /\ ~ PendingFor(s)'
  BY <1>0, <1>4 DEF PendingFor
<1>6. status[s] = "DECODING"
  BY <1>0, <1>1, <1>2, <1>4 DEF owes_token, PlanConsistent, Live
<1> HIDE DEF last
<1>7. /\ generated'[s] = generated[s] + 1 /\ generated[s] \in Nat
      /\ \A t \in Sequences \ {s} : generated'[t] = generated[t]
  BY <1>1, <1>2, <1>4 DEF TypeOK
<1>8. /\ status'[s] = IF last THEN "DONE" ELSE "DECODING"
      /\ last => held'[s] = 0 /\ slots'[s] = 0
      /\ ~ last => held'[s] = held[s] /\ slots'[s] = slots[s]
      /\ \A t \in Sequences \ {s} :
           status'[t] = status[t] /\ held'[t] = held[t] /\ slots'[t] = slots[t]
      /\ IsInjective(running')
      /\ Range(running') = IF last THEN Range(running) \ {s} ELSE Range(running)
  <2>1. CASE last
    <3>1. EndAs(s, "DONE")
      BY <1>3, <2>1
    <3> QED
      BY <1>1, <1>4, <2>1, <3>1, EndAsEffect
  <2>2. CASE ~ last
    BY <1>1, <1>3, <1>6, <2>2 DEF kv_vars, OnePlace
  <2> QED
    BY <2>1, <2>2
<1>9. OnePlace'
  <2>1. ToReject' = ToReject
    BY <1>2 DEF ToReject, At
  <2> QED
    BY <1>1, <1>2, <1>4, <1>6, <1>8, <2>1 DEF OnePlace, Live
<1>10. ArrivedInOrder' /\ AdmittedInv'
  BY <1>1, <1>2, <1>4, <1>6, <1>8 DEF ArrivedInOrder, AdmittedInv, Live
<1>11. TokensToCome'
  <2>1. shape[s] \in [prompt_len : Nat \ {0}, max_tokens : Nat \ {0}]
    BY <1>1, <1>4, SchedulerAssumption DEF TypeOK
  <2>2. ~ last => generated[s] + 1 < shape[s].max_tokens
    BY <1>7, <2>1 DEF last
  <2> QED
    BY <1>1, <1>2, <1>7, <1>8, <2>2 DEF TokensToCome, Ended
<1>12. PlanConsistent'
  BY <1>1, <1>2, <1>4, <1>8 DEF PlanConsistent, Live
<1>13. CursorInv'
  BY <1>2 DEF CursorInv, At
<1>14. SlotsMatchTokens'
  <2>1. num_tokens(s)' = num_tokens(s) + 1 /\ num_tokens(s) \in Nat
    <3>1. /\ shape[s] \in [prompt_len : Nat \ {0}, max_tokens : Nat \ {0}]
      BY <1>1, <1>4, SchedulerAssumption DEF TypeOK
    <3> QED
      BY <1>2, <1>7, <3>1 DEF num_tokens
  <2>2. slots[s] = num_tokens(s)
    BY <1>1, <1>4, <1>5, <1>6, <2>1 DEF SlotsMatchTokens
  <2>3. status'[s] = "DECODING" => slots'[s] = num_tokens(s)' - 1
    BY <1>8, <2>1, <2>2
  <2>4. \A t \in Sequences \ {s} : num_tokens(t)' = num_tokens(t)
    BY <1>2, <1>7 DEF num_tokens
  <2> QED
    BY <1>1, <1>2, <1>4, <1>5, <1>8, <2>3, <2>4 DEF SlotsMatchTokens
<1>15. SequenceHoldings'
  <2>1. \A t \in Sequences : reservation(t)' = reservation(t)
    BY <1>2 DEF reservation
  <2> QED
    BY <1>1, <1>6, <1>8, <2>1 DEF SequenceHoldings, Live
<1> QED
  BY <1>9, <1>10, <1>11, <1>12, <1>13, <1>14, <1>15 DEF PlanInv

\* A request that arrives is in `waiting`, with nothing done for it yet.
LEMMA ArrivePlan ==
  ASSUME IInv, PlanInv, NEW s \in Sequences, Arrive(s)
  PROVE  PlanInv'
<1>1. /\ TypeOK /\ OnePlace /\ ArrivedInOrder /\ TokensToCome /\ AdmittedInv
      /\ PlanConsistent /\ CursorInv /\ SlotsMatchTokens /\ SequenceHoldings
  BY DEF IInv, PlanInv
<1>2. /\ phase \in {"drain", "blocked"} /\ phase' = "drain"
      /\ status[s] = "NEW"
      /\ \A t \in Sequences : t < s => status[t] # "NEW"
      /\ status' = [status EXCEPT ![s] = "WAITING"]
      /\ waiting' = Append(waiting, s)
      /\ UNCHANGED <<held, slots, shape, generated, prefill_progress, admitted, running,
                     entries, rejected>>
  BY DEF Arrive, AdmitIngress, At, GoTo, kv_vars, plan_vars
<1>3. /\ status'[s] = "WAITING"
      /\ \A t \in Sequences \ {s} : status'[t] = status[t]
  BY <1>1, <1>2 DEF TypeOK
<1>4. Pending' = Pending /\ ToReject' = ToReject
  BY <1>2 DEF Pending, ToReject, At
<1>5. \A t \in Sequences : PendingFor(t)' <=> PendingFor(t)
  BY <1>4 DEF PendingFor
<1>6. OnePlace'
  <2>1. s \notin Range(waiting) /\ s \notin ToReject
    BY <1>1, <1>2 DEF OnePlace
  <2>2. IsInjective(waiting') /\ Range(waiting') = Range(waiting) \cup {s}
    <3>1. waiting \in Seq(Sequences) /\ IsInjective(waiting)
      BY <1>1 DEF TypeOK, OnePlace
    <3> QED
      BY <1>2, <2>1, <3>1, AppendToInjective
  <2> QED
    BY <1>1, <1>2, <1>3, <1>4, <2>1, <2>2 DEF OnePlace, Live
<1>7. ArrivedInOrder'
  <2> SUFFICES ASSUME NEW u \in Sequences, NEW t \in Sequences, t < u, status'[t] = "NEW"
               PROVE  status'[u] = "NEW"
    BY DEF ArrivedInOrder
  <2>1. t # s /\ status[t] = "NEW" /\ ~ (t < s)
    BY <1>2, <1>3
  <2>2. t \in Nat /\ u \in Nat /\ s \in Nat
    BY SchedulerAssumption
  <2>3. u # s
    BY <2>1, <2>2
  <2> QED
    BY <1>1, <1>3, <2>1, <2>3 DEF ArrivedInOrder
<1>8. TokensToCome' /\ AdmittedInv'
  BY <1>1, <1>2, <1>3 DEF TokensToCome, AdmittedInv, Ended, Live
<1>9. PlanConsistent'
  <2>1. Pending \subseteq Entries
    BY <1>1, <1>2 DEF Pending, At, TypeOK
  <2> QED
    BY <1>1, <1>2, <1>3, <1>4, <2>1 DEF PlanConsistent, Live, Entries
<1>10. CursorInv'
  BY <1>1, <1>2 DEF CursorInv, At
<1>11. SlotsMatchTokens'
  BY <1>1, <1>2, <1>3, <1>5 DEF SlotsMatchTokens, AdmittedInv, num_tokens
<1>12. SequenceHoldings'
  BY <1>1, <1>2, <1>3 DEF SequenceHoldings, Live, reservation
<1> QED
  BY <1>6, <1>7, <1>8, <1>9, <1>10, <1>11, <1>12 DEF PlanInv
-----------------------------------------------------------------------------
(* The invariant *)

\* A new scheduler has neither plan nor sequences.
LEMMA InitPlan == Init => PlanInv
<1> SUFFICES ASSUME Init PROVE PlanInv
  OBVIOUS
<1>1. TypeOK
  BY InitInv DEF IInv
<1>2. /\ running = <<>> /\ waiting = <<>> /\ rejected = <<>> /\ entries = <<>>
      /\ phase = "drain"
      /\ \A s \in Sequences : /\ status[s] = "NEW" /\ generated[s] = 0
                              /\ prefill_progress[s] = 0 /\ ~ admitted[s]
                              /\ held[s] = 0 /\ slots[s] = 0
  BY DEF Init, AllocatorInit
<1>3. Pending = {} /\ ToReject = {}
  BY <1>2 DEF Pending, ToReject, At
<1>4. OnePlace
  BY <1>2, <1>3 DEF OnePlace, Live, IsInjective, Range
<1>5. ArrivedInOrder /\ AdmittedInv
  BY <1>2 DEF ArrivedInOrder, AdmittedInv, Live
<1>6. TokensToCome
  <2> SUFFICES ASSUME NEW s \in Sequences PROVE 0 < shape[s].max_tokens
    BY <1>2 DEF TokensToCome
  <2>1. shape[s] \in [prompt_len : Nat \ {0}, max_tokens : Nat \ {0}]
    BY <1>1, SchedulerAssumption DEF TypeOK
  <2> QED
    BY <2>1
<1>7. PlanConsistent /\ CursorInv
  BY <1>2, <1>3 DEF PlanConsistent, CursorInv, At
<1>8. SlotsMatchTokens /\ SequenceHoldings
  BY <1>2 DEF SlotsMatchTokens, SequenceHoldings, Live
<1> QED
  BY <1>4, <1>5, <1>6, <1>7, <1>8 DEF PlanInv

\* Every step keeps it.
LEMMA NextPlan == IInv /\ PlanInv /\ [Next]_vars => PlanInv'
<1> SUFFICES ASSUME IInv, PlanInv, [Next]_vars PROVE PlanInv'
  OBVIOUS
<1>1. CASE BeginStep \/ SkipDecode \/ EndDecodes
  BY <1>1, DecodeTurnPlan
<1>2. CASE PlanDecode
  BY <1>2, PlanDecodePlan
<1>3. CASE PreemptForDecode
  BY <1>3, PreemptForDecodePlan
<1>4. CASE \/ SkipContinuation \/ BlockContinuation \/ EndContinuations
           \/ PassOver \/ EndAdmissions
  BY <1>4, PrefillTurnPlan
<1>5. CASE PlanContinuation
  BY <1>5, PlanContinuationPlan
<1>6. CASE Reject
  BY <1>6, RejectPlan
<1>7. CASE Admit
  BY <1>7, AdmitPlan
<1>8. CASE AbortRejected
  BY <1>8, AbortRejectedPlan
<1>9. CASE AbortEntry
  BY <1>9, AbortEntryPlan
<1>10. CASE HandOver \/ Forward \/ NoResult \/ EndIteration
  BY <1>10, HandOverPlan
<1>11. ASSUME NEW stop \in BOOLEAN, ApplyResult(stop) PROVE PlanInv'
  BY <1>11, ApplyResultPlan
<1>12. ASSUME NEW s \in Sequences, Arrive(s) PROVE PlanInv'
  BY <1>12, ArrivePlan
<1>13. CASE UNCHANGED vars
  <2>1. /\ UNCHANGED <<kv_vars, seq_vars, queue_vars, rejected, entries, phase, index>>
    BY <1>13 DEF vars, plan_vars, loop_vars
  <2>2. Pending' = Pending /\ ToReject' = ToReject
    BY <2>1 DEF Pending, ToReject, At
  <2>3. \A s \in Sequences : PendingFor(s)' <=> PendingFor(s)
    BY <2>2 DEF PendingFor
  <2>4. CursorInv'
    <3>1. CursorInv /\ UNCHANGED <<status, running>>
      BY <2>1 DEF PlanInv, seq_vars, queue_vars
    <3>2. Before' = Before
      BY <2>1, <3>1 DEF Before
    <3> QED
      BY <2>1, <2>2, <3>1, <3>2 DEF CursorInv, At, PendingFor
  <2> QED
    BY <2>1, <2>2, <2>3, <2>4, UnchangedSequences
<1> QED
  BY <1>1, <1>2, <1>3, <1>4, <1>5, <1>6, <1>7, <1>8, <1>9, <1>10, <1>11, <1>12, <1>13
     DEF Next, SchedulerStep, Outcome

\* The plan, the queues and the tables agree in every reachable state.
THEOREM PlanInvariance == Spec => [](IInv /\ PlanInv)
  BY InitInv, NextInv, InitPlan, NextPlan, PTL DEF Spec

\* Every sequence is in one queue, once, and it is the one its status names: no
\* interleaving of preemption, admission, rejection and abort loses one.
THEOREM SequencesAreInOnePlace == Spec => []OnePlace
  BY PlanInvariance, PTL DEF PlanInv

\* The tables always have the slots that the worker derives positions and context
\* lengths from, in the middle of a step too.
THEOREM TablesMatchTokens == Spec => []SlotsMatchTokens
  BY PlanInvariance, PTL DEF PlanInv

\* The plan never holds two entries for a sequence, nor one for a sequence that is
\* no longer running.
THEOREM PlanStaysConsistent == Spec => []PlanConsistent
  BY PlanInvariance, PTL DEF PlanInv

\* When the plan is handed over, every sequence that is decoding has its entry.
THEOREM DecodesArePlanned == Spec => []AllDecodesPlanned
<1>1. IInv /\ PlanInv => AllDecodesPlanned
  BY DEF PlanInv, CursorInv, AllDecodesPlanned, At
<1> QED
  BY <1>1, PlanInvariance, PTL
-----------------------------------------------------------------------------
(* The queues, what is refused, how large an iteration gets, and the pool's accounts *)

\* What the earlier proofs give in every state.
Known == IInv /\ PlanInv

\* The turns that leave the queues, the sequences and what is rejected alone.
LEMMA QuietTurns ==
  ASSUME [Next]_vars
  PROVE  \/ \E s \in Sequences : Arrive(s)
         \/ PlanDecode \/ PreemptForDecode \/ PlanContinuation \/ Reject \/ Admit
         \/ AbortRejected \/ AbortEntry
         \/ \E stop \in BOOLEAN : ApplyResult(stop)
         \/ LoopTurn
         \/ UNCHANGED vars
BY DEF Next, SchedulerStep, Outcome, LoopTurn

\* ... and what that leaves alone.
LEMMA LoopTurnKeeps ==
  ASSUME LoopTurn \/ UNCHANGED vars
  PROVE  UNCHANGED <<free, held, slots, status, shape, generated, prefill_progress,
                     admission_skips, admitted, running, waiting>>
         /\ rejected' \in {rejected, <<>>} /\ entries' \in {entries, <<>>}
<1>1. UNCHANGED <<kv_vars, seq_vars, queue_vars>>
  BY DEF LoopTurn, BeginStep, SkipDecode, EndDecodes, SkipContinuation, BlockContinuation,
         EndContinuations, PassOver, EndAdmissions, HandOver, Forward, NoResult, EndIteration,
         vars
<1>2. rejected' \in {rejected, <<>>} /\ entries' \in {entries, <<>>}
  BY DEF LoopTurn, BeginStep, SkipDecode, EndDecodes, SkipContinuation, BlockContinuation,
         EndContinuations, PassOver, EndAdmissions, HandOver, Forward, NoResult, EndIteration,
         vars, plan_vars
<1> QED
  BY <1>1, <1>2 DEF kv_vars, seq_vars, queue_vars

\* A request's shape is never changed.
LEMMA ShapesStay ==
  ASSUME [Next]_vars
  PROVE  UNCHANGED shape
<1>1. CASE LoopTurn \/ UNCHANGED vars
  BY <1>1, LoopTurnKeeps
<1>2. ASSUME NEW s \in Sequences, Arrive(s) PROVE UNCHANGED shape
  BY <1>2 DEF Arrive, AdmitIngress
<1>3. CASE PlanDecode \/ PreemptForDecode \/ PlanContinuation \/ Reject \/ Admit
  BY <1>3 DEF PlanDecode, PreemptForDecode, PlanContinuation, Reject, Admit, seq_vars
<1>4. CASE AbortRejected \/ AbortEntry
  BY <1>4 DEF AbortRejected, AbortEntry
<1>5. ASSUME NEW stop \in BOOLEAN, ApplyResult(stop) PROVE UNCHANGED shape
  BY <1>5 DEF ApplyResult
<1> QED
  BY <1>1, <1>2, <1>3, <1>4, <1>5, QuietTurns
-----------------------------------------------------------------------------
(* The order of `waiting` *)

\* A list without its k-th element is a part of it, in its order.
LEMMA RemoveAtIsPart ==
  ASSUME NEW S, NEW f \in Seq(S), NEW k \in 1 .. Len(f)
  PROVE  \A i, j \in 1 .. Len(RemoveAt(f, k)) : i < j =>
           \E a, b \in 1 .. Len(f) :
             a < b /\ RemoveAt(f, k)[i] = f[a] /\ RemoveAt(f, k)[j] = f[b]
<1> DEFINE g == RemoveAt(f, k)
           Old(i) == IF i < k THEN i ELSE i + 1
<1>1. /\ g \in Seq(S) /\ Len(g) = Len(f) - 1
      /\ \A i \in 1 .. k - 1 : g[i] = f[i]
      /\ \A i \in k .. Len(f) - 1 : g[i] = f[i + 1]
  BY RemoveAtProperties
<1> HIDE DEF g
<1>2. \A i \in 1 .. Len(g) : Old(i) \in 1 .. Len(f) /\ g[i] = f[Old(i)]
  BY <1>1
<1>3. \A i, j \in 1 .. Len(g) : i < j => Old(i) < Old(j)
  BY <1>1
<1> HIDE DEF Old
<1> QED
  BY <1>2, <1>3 DEF g

\* Preemption puts at the head what has been admitted before, a request arrives at
\* the tail with the largest id so far, and whatever leaves keeps the rest in order.
LEMMA WaitingStep ==
  ASSUME Known, WaitingInOrder, [Next]_vars
  PROVE  WaitingInOrder'
<1>1. /\ TypeOK /\ OnePlace /\ ArrivedInOrder /\ AdmittedInv
      /\ waiting \in Seq(Sequences) /\ admitted \in [Sequences -> BOOLEAN]
  BY DEF Known, IInv, PlanInv, TypeOK
<1>2. ASSUME UNCHANGED <<waiting, admitted>> PROVE WaitingInOrder'
  BY <1>2 DEF WaitingInOrder
<1>3. ASSUME NEW s \in Sequences, Arrive(s) PROVE WaitingInOrder'
  <2>1. /\ status[s] = "NEW" /\ waiting' = Append(waiting, s) /\ admitted' = admitted
    BY <1>3 DEF Arrive, AdmitIngress
  <2>2. ~ admitted[s]
    BY <1>1, <2>1 DEF AdmittedInv
  <2>3. \A k \in 1 .. Len(waiting) : waiting[k] < s
    <3> SUFFICES ASSUME NEW k \in 1 .. Len(waiting) PROVE waiting[k] < s
      OBVIOUS
    <3>1. waiting[k] \in Sequences /\ status[waiting[k]] = "WAITING"
      <4>1. waiting[k] \in Range(waiting)
        BY <1>1 DEF Range
      <4> QED
        BY <1>1, <4>1 DEF OnePlace
    <3>2. ~ (s < waiting[k]) /\ s # waiting[k]
      BY <1>1, <2>1, <3>1 DEF ArrivedInOrder
    <3>3. s \in Nat /\ waiting[k] \in Nat
      BY <3>1, SchedulerAssumption
    <3> QED
      BY <3>2, <3>3
  <2>4. /\ Len(waiting') = Len(waiting) + 1
        /\ \A k \in 1 .. Len(waiting) : waiting'[k] = waiting[k]
        /\ waiting'[Len(waiting) + 1] = s
    BY <1>1, <2>1
  <2> SUFFICES ASSUME NEW j \in 1 .. Len(waiting'), NEW k \in 1 .. Len(waiting'),
                      j < k, ~ admitted[waiting'[j]]
               PROVE  ~ admitted[waiting'[k]] /\ waiting'[j] < waiting'[k]
    BY <2>1 DEF WaitingInOrder
  <2>5. j \in 1 .. Len(waiting) /\ (k \in 1 .. Len(waiting) \/ k = Len(waiting) + 1)
    BY <1>1, <2>4
  <2> QED
    BY <2>2, <2>3, <2>4, <2>5 DEF WaitingInOrder
<1>4. CASE PreemptForDecode
  <2>1. waiting' = Cons(Last(running), waiting) /\ admitted' = admitted
    BY <1>4 DEF PreemptForDecode, Preempt
  <2>2. Last(running) \in Sequences /\ Last(running) \in Range(running)
    <3>1. running \in Seq(Sequences) /\ Len(running) \in 1 .. Len(running)
      BY <1>1, <1>4 DEF PreemptForDecode, Turn, TypeOK
    <3> QED
      BY <3>1 DEF Last, Range
  <2>3. admitted[Last(running)] /\ Last(running) \notin Range(waiting)
    BY <1>1, <2>2 DEF OnePlace, AdmittedInv, Live
  <2>4. /\ Len(waiting') = Len(waiting) + 1
        /\ waiting'[1] = Last(running)
        /\ \A k \in 1 .. Len(waiting) : waiting'[k + 1] = waiting[k]
    <3>1. IsInjective(waiting)
      BY <1>1 DEF OnePlace
    <3> QED
      BY <1>1, <2>1, <2>2, <2>3, <3>1, ConsToInjective
  <2> SUFFICES ASSUME NEW j \in 1 .. Len(waiting'), NEW k \in 1 .. Len(waiting'),
                      j < k, ~ admitted[waiting'[j]]
               PROVE  ~ admitted[waiting'[k]] /\ waiting'[j] < waiting'[k]
    BY <2>1 DEF WaitingInOrder
  <2>5. j - 1 \in 1 .. Len(waiting) /\ k - 1 \in 1 .. Len(waiting) /\ j - 1 < k - 1
    BY <1>1, <2>3, <2>4
  <2>6. waiting'[j] = waiting[j - 1] /\ waiting'[k] = waiting[k - 1]
    <3>1. (j - 1) + 1 = j /\ (k - 1) + 1 = k
      OBVIOUS
    <3>2. waiting'[(j - 1) + 1] = waiting[j - 1] /\ waiting'[(k - 1) + 1] = waiting[k - 1]
      BY <2>4, <2>5
    <3> QED
      BY <3>1, <3>2
  <2> QED
    BY <2>5, <2>6 DEF WaitingInOrder
<1>5. CASE Reject \/ Admit
  <2>1. /\ index \in 1 .. Len(waiting) /\ waiting' = RemoveAt(waiting, index)
        /\ \A t \in Range(waiting) \ {waiting[index]} : admitted'[t] = admitted[t]
    <3>1. index \in 1 .. Len(waiting) /\ waiting' = RemoveAt(waiting, index)
      <4>1. MoreAdmissions /\ waiting' = RemoveAt(waiting, index)
        BY <1>5 DEF Reject, Admit
      <4>2. index \in Nat \ {0}
        BY <1>1 DEF TypeOK
      <4> QED
        BY <1>1, <4>1, <4>2 DEF MoreAdmissions, Turn
    <3>2. \/ admitted' = admitted
          \/ admitted' = [admitted EXCEPT ![waiting[index]] = TRUE]
      BY <1>5 DEF Reject, Admit, Candidate, seq_vars
    <3>3. Range(waiting) \subseteq Sequences
      BY <1>1 DEF Range
    <3> QED
      BY <1>1, <3>1, <3>2, <3>3
  <2>2. /\ Range(waiting') = Range(waiting) \ {waiting[index]}
        /\ waiting' \in Seq(Sequences)
    <3>1. IsInjective(waiting)
      BY <1>1 DEF OnePlace
    <3> QED
      BY <1>1, <2>1, <3>1, RemoveAtOfInjective, RemoveAtProperties
  <2>3. \A k \in 1 .. Len(waiting') : admitted'[waiting'[k]] = admitted[waiting'[k]]
    <3>1. \A k \in 1 .. Len(waiting') : waiting'[k] \in Range(waiting')
      BY <2>2 DEF Range
    <3> QED
      BY <2>1, <2>2, <3>1
  <2> SUFFICES ASSUME NEW j \in 1 .. Len(waiting'), NEW k \in 1 .. Len(waiting'),
                      j < k, ~ admitted[waiting'[j]]
               PROVE  ~ admitted[waiting'[k]] /\ waiting'[j] < waiting'[k]
    BY <2>3 DEF WaitingInOrder
  <2>4. PICK a \in 1 .. Len(waiting), b \in 1 .. Len(waiting) :
          a < b /\ waiting'[j] = waiting[a] /\ waiting'[k] = waiting[b]
    <3>1. \A i, h \in 1 .. Len(RemoveAt(waiting, index)) : i < h =>
            \E a, b \in 1 .. Len(waiting) :
              /\ a < b
              /\ RemoveAt(waiting, index)[i] = waiting[a]
              /\ RemoveAt(waiting, index)[h] = waiting[b]
      <4>1. waiting \in Seq(Sequences) /\ index \in 1 .. Len(waiting)
        BY <1>1, <2>1
      <4>2. PICK f, h : f = waiting /\ h = index
        OBVIOUS
      <4>3. f \in Seq(Sequences) /\ h \in 1 .. Len(f)
        BY <4>1, <4>2
      <4>4. \A i, m \in 1 .. Len(RemoveAt(f, h)) : i < m =>
              \E a, b \in 1 .. Len(f) :
                a < b /\ RemoveAt(f, h)[i] = f[a] /\ RemoveAt(f, h)[m] = f[b]
        BY <4>3, RemoveAtIsPart
      <4> QED
        BY <4>2, <4>4
    <3>2. waiting' = RemoveAt(waiting, index)
      BY <2>1
    <3> QED
      BY <3>1, <3>2
  <2> QED
    BY <2>4 DEF WaitingInOrder
<1>6. CASE PlanDecode \/ PlanContinuation \/ AbortRejected \/ AbortEntry
  BY <1>2, <1>6 DEF PlanDecode, PlanContinuation, AbortRejected, AbortEntry, seq_vars,
                    queue_vars
<1>7. ASSUME NEW stop \in BOOLEAN, ApplyResult(stop) PROVE WaitingInOrder'
  BY <1>2, <1>7 DEF ApplyResult
<1>8. CASE LoopTurn \/ UNCHANGED vars
  BY <1>2, <1>8, LoopTurnKeeps
<1> QED
  BY <1>3, <1>4, <1>5, <1>6, <1>7, <1>8, QuietTurns

\* Whatever is preempted, admitted and refused, first come is first served among the
\* requests that have never run, and they are behind those that have.
THEOREM WaitingKeepsItsOrder == Spec => []WaitingInOrder
<1>1. Init => WaitingInOrder
  BY DEF Init, WaitingInOrder
<1>2. Spec => []Known
  BY PlanInvariance DEF Known
<1> QED
  BY <1>1, <1>2, WaitingStep, PTL DEF Spec
-----------------------------------------------------------------------------
(* What an admission costs *)

\* A sequence gives way only as the tail, to a decode that finds no block.
LEMMA GivesWay ==
  ASSUME Known, [Next]_vars, NEW s \in Sequences, Live(s), status'[s] = "WAITING"
  PROVE  PreemptForDecode /\ s = Last(running)
<1>1. TypeOK /\ OnePlace /\ status \in [Sequences -> Statuses]
  BY DEF Known, IInv, PlanInv, TypeOK
<1>2. status[s] \in {"PREFILLING", "DECODING"}
  BY DEF Live
<1>3. ASSUME NEW t \in Sequences, Arrive(t) PROVE FALSE
  BY <1>1, <1>2, <1>3 DEF Arrive, AdmitIngress
<1>4. CASE PreemptForDecode
  <2>1. status' = [status EXCEPT ![Last(running)] = "WAITING"]
    BY <1>4 DEF PreemptForDecode, Preempt
  <2> QED
    BY <1>1, <1>2, <1>4, <2>1
<1>5. CASE PlanContinuation \/ Admit
  <2>1. \E t : \/ status' = [status EXCEPT ![t] = "PREFILLING"]
               \/ status' = [status EXCEPT ![t] = "DECODING"]
    BY <1>5 DEF PlanContinuation, Admit, AdvancePrefill
  <2> QED
    BY <1>1, <1>2, <2>1
<1>6. CASE AbortRejected \/ AbortEntry
  <2>1. \E t : status' = [status EXCEPT ![t] = "ABORTED"]
    BY <1>6 DEF AbortRejected, AbortEntry, EndAs
  <2> QED
    BY <1>1, <1>2, <2>1
<1>7. ASSUME NEW stop \in BOOLEAN, ApplyResult(stop) PROVE FALSE
  <2>1. status' = status \/ \E t : status' = [status EXCEPT ![t] = "DONE"]
    BY <1>7 DEF ApplyResult, EndAs
  <2> QED
    BY <1>1, <1>2, <2>1
<1>8. CASE PlanDecode \/ Reject
  <2>1. status' = status
    BY <1>8 DEF PlanDecode, Reject, seq_vars
  <2> QED
    BY <1>2, <2>1
<1>9. CASE LoopTurn \/ UNCHANGED vars
  <2>1. status' = status
    BY <1>9, LoopTurnKeeps
  <2> QED
    BY <1>2, <2>1
<1> QED
  BY <1>3, <1>4, <1>5, <1>6, <1>7, <1>8, <1>9, QuietTurns

\* One token more takes at most one block more.
LEMMA BlockForToken ==
  ASSUME NEW t \in Nat
  PROVE  BlocksFor(t + 1) =< BlocksFor(t) + 1
<1>1. block_size \in Nat \ {0}
  BY KVAllocatorAssumption
<1>2. ASSUME NEW b \in Nat \ {0}
      PROVE  (t + 1 + b - 1) \div b =< ((t + b - 1) \div b) + 1
  <2> DEFINE k == (t + b - 1) \div b
             m == (t + 1 + b - 1) \div b
  <2>1. k \in Nat /\ t + b - 1 < k * b + b
    BY <1>2
  <2>2. m \in Nat /\ m * b =< t + 1 + b - 1
    BY <1>2
  <2>3. ASSUME m > k + 1 PROVE FALSE
    <3>1. m >= k + 2
      BY <2>1, <2>2, <2>3
    <3>2. m * b >= (k + 2) * b
      BY <1>2, <2>1, <2>2, <3>1
    <3>3. (k + 2) * b = k * b + b + b
      BY <1>2, <2>1
    <3> QED
      BY <1>2, <2>1, <2>2, <3>2, <3>3
  <2> QED
    BY <2>1, <2>2, <2>3
<1> QED
  BY <1>1, <1>2 DEF BlocksFor

\* What a decode asks of the pool: a block at most, and nothing of a pool of
\* reservations.
LEMMA DecodeNeeds ==
  ASSUME Known, NEW s \in Sequences, status[s] = "DECODING"
  PROVE  /\ needed(s, 1, reservation(s)) \in Int
         /\ needed(s, 1, reservation(s)) =< 1
         /\ ~ Paged => needed(s, 1, reservation(s)) = 0
<1>1. /\ TypeOK /\ held[s] \in Nat /\ slots[s] \in Nat
      /\ SequenceHoldings
  BY DEF Known, IInv, PlanInv, TypeOK, KVTypeOK
<1>2. Live(s)
  BY DEF Live
<1>3. CASE Paged
  <2>1. held[s] = BlocksFor(slots[s])
    BY <1>1, <1>2, <1>3 DEF SequenceHoldings
  <2>2. /\ BlocksFor(slots[s]) \in Nat /\ BlocksFor(slots[s] + 1) \in Nat
        /\ BlocksFor(slots[s] + 1) =< BlocksFor(slots[s]) + 1
    BY <1>1, BlocksForType, BlockForToken
  <2> QED
    BY <1>3, <2>1, <2>2 DEF needed
<1>4. CASE ~ Paged
  <2>1. reservation(s) \in Nat \ {0}
    <3>1. shape[s] \in [prompt_len : Nat \ {0}, max_tokens : Nat \ {0}]
      BY <1>1, SchedulerAssumption DEF TypeOK
    <3> QED
      BY <3>1 DEF reservation
  <2>2. held[s] = reservation(s)
    BY <1>1, <1>2, <1>4 DEF SequenceHoldings
  <2> QED
    BY <1>4, <2>1, <2>2 DEF needed
<1> QED
  BY <1>3, <1>4

\* The sequence admitted last is the tail of `running`, or has left it.
NewestIsTail == \A k \in 1 .. Len(running) : running[k] \in newest => k = Len(running)

NewestRuns == Len(running) > 0 /\ running[Len(running)] \in newest

\* Sequences that are to get a block before the one admitted last asks for one.
Elders == Len(running) - (IF NewestRuns THEN 1 ELSE 0)

\* Those of them whose turn is over.
Served == IF At("decodes") THEN index - 1 ELSE 0

\* What an admission leaves free stays enough for all who are served before it.
RoomInv ==
  newest # {} => /\ ~ At("continuations")
                 /\ NewestIsTail
                 /\ (Paged => Elders =< free + Served)

\* The types of what these speak of.
LEMMA RoomType ==
  ASSUME TypeOK
  PROVE  /\ running \in Seq(Sequences) /\ Len(running) \in Nat /\ free \in Nat
         /\ index \in Nat \ {0} /\ Served \in Nat
         /\ Elders \in {Len(running), Len(running) - 1} /\ Elders \in Int
BY DEF TypeOK, KVTypeOK, Elders, Served

\* No decode is refused a block but the one of the sequence admitted last.
LEMMA RefusedIsNewest ==
  ASSUME Known, RoomInv, newest # {}, PreemptForDecode
  PROVE  index = Len(running) /\ running[index] \in newest
<1>1. TypeOK
  BY DEF Known, IInv
<1>2. /\ At("decodes") /\ index =< Len(running)
      /\ running[index] \in Sequences /\ status[running[index]] = "DECODING"
      /\ ~ CanAllocate(running[index], 1, reservation(running[index]), 0)
  BY <1>1, TurnType DEF PreemptForDecode, Turn
<1>3. PICK n \in Int : n = needed(running[index], 1, reservation(running[index]))
  BY <1>2, DecodeNeeds
<1>4. n =< 1 /\ (~ Paged => n = 0) /\ n > free
  <2>1. n =< 1 /\ (~ Paged => n = 0)
    BY <1>2, <1>3, DecodeNeeds
  <2>2. ~ (n + 0 =< free)
    BY <1>2, <1>3 DEF CanAllocate
  <2> QED
    BY <1>1, <2>1, <2>2, RoomType
<1>5. Paged /\ free = 0
  BY <1>1, <1>4, RoomType
<1>6. Elders =< index - 1
  BY <1>1, <1>2, <1>5, RoomType DEF RoomInv, Served
<1>7. index = Len(running) /\ Elders = Len(running) - 1
  BY <1>1, <1>2, <1>6, RoomType
<1>8. NewestRuns
  BY <1>1, <1>7, RoomType DEF Elders
<1> QED
  BY <1>7, <1>8 DEF NewestRuns

\* What ends leaves its blocks, and the sequence admitted last stays the tail.
LEMMA RoomAfterEnd ==
  ASSUME TypeOK, OnePlace, RoomInv, newest # {}, newest' = newest,
         NEW e \in Sequences, running' = RemoveFirst(running, e), free' = free + held[e],
         ~ At("decodes"), ~ At("continuations"), phase' = phase
  PROVE  RoomInv'
<1>1. /\ free \in Nat /\ held[e] \in Nat /\ Served = 0 /\ Served' = 0
      /\ ~ At("continuations")'
  BY DEF TypeOK, KVTypeOK, Served, At
<1>2. CASE running' = running
  <2>1. NewestIsTail' /\ Elders' = Elders
    BY <1>2 DEF RoomInv, NewestIsTail, Elders, NewestRuns
  <2>2. Paged => Elders =< free
    BY <1>1 DEF RoomInv
  <2> QED
    BY <1>1, <2>1, <2>2, RoomType DEF RoomInv
<1>3. ASSUME NEW p \in 1 .. Len(running), running' = RemoveAt(running, p)
      PROVE  RoomInv'
  <2>1. PICK n \in Nat : n = Len(running)
    BY RoomType
  <2>2. /\ Len(running') = n - 1
        /\ \A k \in 1 .. p - 1 : running'[k] = running[k]
        /\ \A k \in p .. n - 1 : running'[k] = running[k + 1]
    BY <1>3, <2>1, RemoveAtProperties, RoomType
  <2>3. \A k \in 1 .. n : running[k] \in newest => k = n
    BY <2>1 DEF RoomInv, NewestIsTail
  <2>4. p \in 1 .. n
    BY <1>3, <2>1
  <2>5. \A k \in 1 .. n - 1 : running'[k] \in newest => k = n - 1
    <3>1. ASSUME NEW k \in 1 .. n - 1, running'[k] \in newest PROVE k = n - 1
      <4>1. CASE k < p
        <5>1. k \in 1 .. p - 1 /\ k \in 1 .. n /\ k # n
          BY <2>1, <2>4, <4>1
        <5> QED
          BY <2>2, <2>3, <3>1, <5>1
      <4>2. CASE k >= p
        <5>1. k \in p .. n - 1 /\ k + 1 \in 1 .. n
          BY <2>1, <2>4, <4>2
        <5>2. k + 1 = n
          BY <2>2, <2>3, <3>1, <5>1
        <5> QED
          BY <2>1, <5>2
      <4> QED
        BY <2>4, <4>1, <4>2
    <3> QED
      BY <3>1
  <2>6. NewestIsTail'
    BY <2>2, <2>5 DEF NewestIsTail
  <2>7. Elders' =< n - 1
    BY <2>1, <2>2 DEF Elders
  <2>8. Elders >= n - 1
    BY <2>1, RoomType
  <2>9. Elders' \in Int
    BY <2>1, <2>2 DEF Elders
  <2>10. Paged => Elders =< free
    BY <1>1 DEF RoomInv
  <2>11. ASSUME Paged PROVE Elders' =< free + held[e]
    <3>1. Elders =< free /\ Elders \in Int
      BY <2>10, <2>11, RoomType
    <3> QED
      BY <1>1, <2>1, <2>7, <2>8, <2>9, <3>1
  <2> QED
    BY <1>1, <2>6, <2>11 DEF RoomInv
<1>4. running \in Seq(Sequences)
  BY RoomType
<1> QED
  BY <1>2, <1>3, <1>4, RemoveFirstIsRemoveAt

\* A step that leaves the list and the pool alone leaves the room, if it only serves.
LEMMA RoomKept ==
  ASSUME TypeOK, RoomInv, newest # {}, newest' = newest, running' = running, free' = free,
         ~ At("continuations")', Served' \in Nat, Served =< Served'
  PROVE  RoomInv'
<1>1. NewestIsTail' /\ Elders' = Elders
  BY DEF RoomInv, NewestIsTail, Elders, NewestRuns
<1>2. Paged => Elders =< free + Served
  BY DEF RoomInv
<1>3. free \in Nat /\ Served \in Nat /\ Elders \in Int
  BY RoomType
<1>4. ASSUME Paged PROVE Elders =< free + Served'
  <2>1. Elders =< free + Served
    BY <1>2, <1>4
  <2>2. PICK v \in Nat : v = Served'
    OBVIOUS
  <2>3. PICK u \in Nat : u = Served
    BY <1>3
  <2>4. u =< v
    BY <2>2, <2>3
  <2>5. Elders =< free + u
    BY <2>1, <2>3
  <2>6. Elders =< free + v
    BY <1>3, <2>4, <2>5
  <2> QED
    BY <2>2, <2>6
<1> QED
  BY <1>1, <1>4 DEF RoomInv

\* The turns of the loops do.
LEMMA LoopTurnRoom ==
  ASSUME TypeOK, RoomInv, newest # {}, newest' = newest, ~ EndDecodes,
         LoopTurn \/ UNCHANGED vars
  PROVE  RoomInv'
<1>1. ~ At("continuations") /\ index \in Nat \ {0}
  BY RoomType DEF RoomInv
<1>2. running' = running /\ free' = free
  BY LoopTurnKeeps
<1>3. ~ At("continuations")' /\ Served' \in Nat /\ Served =< Served'
  <2>1. CASE SkipDecode
    <3>1. phase = "decodes" /\ phase' = "decodes" /\ index' = index + 1
      BY <2>1 DEF SkipDecode, Step, At
    <3> QED
      BY <1>1, <3>1 DEF Served, At
  <2>2. CASE BeginStep
    <3>1. phase = "drain" /\ phase' = "decodes" /\ index' = 1
      BY <2>2 DEF BeginStep, GoTo, At
    <3> QED
      BY <3>1 DEF Served, At
  <2>3. CASE PassOver \/ EndAdmissions \/ HandOver \/ Forward \/ NoResult \/ EndIteration
    <3>1. phase # "decodes" /\ phase' \notin {"decodes", "continuations"}
      BY <2>3 DEF PassOver, EndAdmissions, HandOver, Forward, NoResult, EndIteration, At,
                  GoTo, Step
    <3> QED
      BY <3>1 DEF Served, At
  <2>4. CASE UNCHANGED vars
    BY <1>1, <2>4 DEF vars, loop_vars, Served, At
  <2> QED
    BY <1>1, <2>1, <2>2, <2>3, <2>4 DEF LoopTurn, SkipContinuation, BlockContinuation,
                                       EndContinuations
<1> QED
  BY <1>2, <1>3, RoomKept

\* An admission leaves a block for every sequence that was running.
LEMMA AdmitRoom ==
  ASSUME Known, Known', Admit, newest' = {Candidate}
  PROVE  RoomInv'
<1>1. /\ TypeOK /\ TypeOK' /\ OnePlace'
      /\ running' = Append(running, Candidate) /\ phase' = phase /\ At("admissions")
      /\ Allocate(Candidate, Chunk(Candidate), reservation(Candidate), AdmissionReserve)
  BY DEF Known, IInv, PlanInv, Admit
<1>2. PICK n \in Nat : n = Len(running)
  BY <1>1, RoomType
<1>3. Len(running') = n + 1 /\ running'[n + 1] = Candidate
  BY <1>1, <1>2, RoomType
<1>4. NewestIsTail'
  <2>1. \A j, k \in 1 .. n + 1 : running'[j] = running'[k] => j = k
    BY <1>1, <1>3 DEF OnePlace, IsInjective
  <2>2. n + 1 \in 1 .. n + 1
    BY <1>2
  <2> QED
    BY <1>3, <2>1, <2>2 DEF NewestIsTail
<1>5. Elders' = n
  BY <1>2, <1>3 DEF Elders, NewestRuns
<1>6. Served' = 0 /\ ~ At("continuations")'
  BY <1>1 DEF Served, At
<1>7. Paged => n =< free'
  <2>1. SUFFICES ASSUME Paged PROVE n =< free'
    OBVIOUS
  <2>2. PICK c : c = needed(Candidate, Chunk(Candidate), reservation(Candidate))
    OBVIOUS
  <2>3. c + n =< free /\ free' = free - c
    BY <1>1, <1>2, <2>1, <2>2 DEF Allocate, CanAllocate, AdmissionReserve
  <2>4. c \in Int
    <3>1. Candidate \in Sequences
      BY <1>1 DEF Admit, MoreAdmissions, Turn, Candidate, TypeOK
    <3>2. /\ held[Candidate] \in Nat /\ slots[Candidate] \in Nat
          /\ reservation(Candidate) \in Nat /\ Chunk(Candidate) \in Nat
      BY <1>1, <3>1, TokensType, ChunkBounds DEF Known, IInv, TypeOK, KVTypeOK
    <3>3. BlocksFor(slots[Candidate] + Chunk(Candidate)) \in Nat
      BY <3>2, BlocksForType
    <3> QED
      BY <2>1, <2>2, <3>2, <3>3 DEF needed
  <2> QED
    BY <1>1, <1>2, <2>3, <2>4, RoomType
<1>8. free' \in Nat
  BY <1>1 DEF TypeOK, KVTypeOK
<1>9. Paged => n =< free' + 0
  BY <1>2, <1>7, <1>8
<1> QED
  BY <1>4, <1>5, <1>6, <1>9 DEF RoomInv

\* A decode takes a block at most, and its turn is over.
LEMMA PlanDecodeRoom ==
  ASSUME Known, RoomInv, newest # {}, newest' = newest, PlanDecode
  PROVE  RoomInv'
<1>1. TypeOK
  BY DEF Known, IInv
<1>2. /\ running[index] \in Sequences /\ status[running[index]] = "DECODING"
      /\ Allocate(running[index], 1, reservation(running[index]), 0)
      /\ phase = "decodes" /\ phase' = "decodes" /\ index' = index + 1
      /\ running' = running
  BY <1>1, TurnType DEF PlanDecode, Step, At, queue_vars
<1>3. PICK c \in Int : c = needed(running[index], 1, reservation(running[index]))
  BY <1>2, DecodeNeeds
<1>4. c =< 1 /\ free' = free - c
  <2>1. c =< 1
    BY <1>2, <1>3, DecodeNeeds
  <2> QED
    BY <1>2, <1>3, <2>1 DEF Allocate
<1>5. NewestIsTail' /\ Elders' = Elders
  BY <1>2 DEF RoomInv, NewestIsTail, Elders, NewestRuns
<1>6. Served = index - 1 /\ Served' = index /\ ~ At("continuations")'
  BY <1>1, <1>2, RoomType DEF Served, At
<1>7. Paged => Elders =< free + (index - 1)
  BY <1>6 DEF RoomInv
<1>8. ASSUME Paged PROVE Elders =< free' + index
  <2>1. Elders =< free + (index - 1)
    BY <1>7, <1>8
  <2>2. free \in Nat /\ index \in Nat /\ Elders \in Int
    BY <1>1, RoomType
  <2> QED
    BY <1>3, <1>4, <2>1, <2>2
<1> QED
  BY <1>5, <1>6, <1>8 DEF RoomInv

\* The one that gives way is the newest: with it nobody is owed a block any more.
LEMMA PreemptRoom ==
  ASSUME Known, RoomInv, newest # {}, newest' = newest, PreemptForDecode
  PROVE  RoomInv'
<1>1. TypeOK /\ IsInjective(running)
  BY DEF Known, IInv, PlanInv, OnePlace
<1>2. index = Len(running) /\ running[index] \in newest
  BY RefusedIsNewest
<1>3. PICK n \in Nat \ {0} : n = Len(running)
  BY <1>1, <1>2, RoomType
<1>4. /\ Len(running') = n - 1
      /\ \A k \in 1 .. n - 1 : running'[k] = running[k]
      /\ Last(running) = running[n]
  <2>1. running \in Seq(Sequences) /\ Len(running) > 0 /\ running' = Front(running)
    BY <1>1, <1>3, RoomType DEF PreemptForDecode, Preempt
  <2> QED
    BY <1>1, <1>3, <2>1, FrontOfInjective
<1>5. phase' = "decodes" /\ index' = n + 1 /\ Last(running) \in Sequences
  BY <1>1, <1>2, <1>3, <1>4, TurnType DEF PreemptForDecode, AfterPreempt, At
<1>6. free' = free + held[Last(running)] /\ held[Last(running)] \in Nat
  BY <1>1, <1>5 DEF PreemptForDecode, Preempt, Free, TypeOK, KVTypeOK
<1>7. \A k \in 1 .. n - 1 : running'[k] \notin newest
  BY <1>3, <1>4 DEF RoomInv, NewestIsTail
<1>8. NewestIsTail'
  BY <1>4, <1>7 DEF NewestIsTail
<1>9. Elders' = n - 1
  BY <1>3, <1>4, <1>7 DEF Elders, NewestRuns
<1>10. Served' = n /\ ~ At("continuations")'
  BY <1>3, <1>5 DEF Served, At
<1>11. n - 1 =< free' + n
  <2>1. free \in Nat
    BY <1>1, RoomType
  <2>2. free' \in Nat
    BY <1>6, <2>1
  <2> QED
    BY <1>3, <2>2
<1> QED
  BY <1>8, <1>9, <1>10, <1>11 DEF RoomInv

\* What a result or an abort ends.
LEMMA EndRoom ==
  ASSUME Known, RoomInv, newest # {}, newest' = newest,
         \/ AbortRejected \/ AbortEntry
         \/ \E stop \in BOOLEAN : ApplyResult(stop)
  PROVE  RoomInv'
<1>1. /\ TypeOK /\ OnePlace /\ ~ At("decodes") /\ ~ At("continuations") /\ phase' = phase
  BY DEF Known, IInv, PlanInv, AbortRejected, AbortEntry, ApplyResult, At, Step
<1>2. ASSUME NEW e \in Sequences, NEW outcome, EndAs(e, outcome) PROVE RoomInv'
  BY <1>1, <1>2, RoomAfterEnd DEF EndAs, Free
<1>3. CASE AbortRejected
  BY <1>1, <1>2, <1>3 DEF AbortRejected, Turn, TypeOK
<1>4. CASE AbortEntry
  <2>1. entries[index] \in Entries
    BY <1>1, <1>4 DEF AbortEntry, Turn, TypeOK
  <2>2. entries[index].seq_id \in Sequences
    BY <2>1 DEF Entries
  <2> QED
    BY <1>2, <1>4, <2>2 DEF AbortEntry
<1>5. ASSUME NEW stop \in BOOLEAN, ApplyResult(stop) PROVE RoomInv'
  <2>1. entries[index].seq_id \in Sequences
    <3>1. entries[index] \in Entries
      BY <1>1, <1>5 DEF ApplyResult, Turn, TypeOK
    <3> QED
      BY <3>1 DEF Entries
  <2>2. EndAs(entries[index].seq_id, "DONE") \/ UNCHANGED <<status, running, kv_vars>>
    BY <1>5 DEF ApplyResult
  <2>3. CASE UNCHANGED <<status, running, kv_vars>>
    <3>1. running' = running /\ free' = free /\ Served = 0 /\ Served' = 0
          /\ ~ At("continuations")'
      BY <1>1, <2>3 DEF kv_vars, Served, At
    <3> QED
      BY <1>1, <3>1, RoomKept
  <2> QED
    BY <1>2, <2>1, <2>2, <2>3
<1> QED
  BY <1>3, <1>4, <1>5

\* No step takes the room from those it is kept for.
LEMMA RoomStep ==
  ASSUME Known, RoomInv, [HNext]_hvars
  PROVE  RoomInv'
<1>1. TypeOK /\ [Next]_vars
  BY DEF Known, IInv, HNext, hvars
<1>2. Known'
  BY <1>1, NextInv, NextPlan DEF Known
<1>3. CASE newest' = {}
  BY <1>3 DEF RoomInv
<1>4. CASE Admit /\ newest' = {Candidate}
  BY <1>2, <1>4, AdmitRoom
<1>5. CASE newest # {} /\ newest' = newest /\ ~ EndDecodes /\ (~ Admit \/ UNCHANGED vars)
  <2>1. CASE LoopTurn \/ UNCHANGED vars
    BY <1>1, <1>5, <2>1, LoopTurnRoom
  <2>2. CASE PlanDecode
    BY <1>5, <2>2, PlanDecodeRoom
  <2>3. CASE PreemptForDecode
    BY <1>5, <2>3, PreemptRoom
  <2>4. CASE PlanContinuation
    BY <1>5, <2>4 DEF PlanContinuation, RoomInv
  <2>5. CASE Reject
    <3>1. UNCHANGED <<running, free, phase, index>> /\ ~ At("continuations")
      BY <1>5, <2>5 DEF Reject, kv_vars, loop_vars, RoomInv
    <3>2. Served' = Served /\ ~ At("continuations")'
      BY <3>1 DEF Served, At
    <3> QED
      BY <1>1, <1>5, <3>1, <3>2, RoomKept, RoomType
  <2>6. ASSUME NEW s \in Sequences, Arrive(s) PROVE RoomInv'
    <3>1. /\ UNCHANGED <<running, free>> /\ phase' = "drain"
          /\ phase \in {"drain", "blocked"}
      BY <2>6 DEF Arrive, AdmitIngress, kv_vars, At, GoTo
    <3>2. Served' = 0 /\ Served = 0 /\ ~ At("continuations")'
      BY <3>1 DEF Served, At
    <3> QED
      BY <1>1, <1>5, <3>1, <3>2, RoomKept
  <2>7. CASE AbortRejected \/ AbortEntry \/ \E stop \in BOOLEAN : ApplyResult(stop)
    BY <1>5, <2>7, EndRoom
  <2> QED
    BY <1>1, <1>5, <2>1, <2>2, <2>3, <2>4, <2>5, <2>6, <2>7, QuietTurns
<1>6. CASE HNext
  BY <1>3, <1>4, <1>5, <1>6 DEF HNext, Remember
<1>7. CASE UNCHANGED hvars
  <2>1. UNCHANGED vars /\ newest' = newest
    BY <1>7 DEF hvars
  <2>2. ~ EndDecodes
    <3>1. phase' = phase
      BY <2>1 DEF vars, loop_vars
    <3> QED
      BY <3>1 DEF EndDecodes, GoTo, At
  <2> QED
    BY <1>3, <1>5, <2>1, <2>2
<1> QED
  BY <1>6, <1>7

\* In no execution does an admission cost a running sequence its blocks: whoever gives
\* way in the decodes that follow is the one that was admitted.
THEOREM AdmissionsCostNobody == HSpec => AdmissionCostsNobody
<1>1. ASSUME Known, RoomInv, [HNext]_hvars
      PROVE  [newest # {} =>
                \A s \in Sequences :
                  Live(s) /\ status'[s] = "WAITING" =>
                    s \in newest /\ running[index] = s]_hvars
  <2>1. SUFFICES ASSUME newest # {}, NEW s \in Sequences, Live(s), status'[s] = "WAITING"
                 PROVE  s \in newest /\ running[index] = s
    OBVIOUS
  <2>2. [Next]_vars
    BY <1>1 DEF HNext, hvars
  <2>3. PreemptForDecode /\ s = Last(running)
    BY <1>1, <2>1, <2>2, GivesWay
  <2>4. index = Len(running) /\ running[index] \in newest
    BY <1>1, <2>1, <2>3, RefusedIsNewest
  <2> QED
    BY <2>3, <2>4 DEF Last
<1>2. HInit => Init /\ RoomInv
  BY DEF HInit, RoomInv
<1>3. [HNext]_hvars => [Next]_vars
  BY DEF HNext, hvars
<1>4. HSpec => []Known
  BY <1>2, <1>3, PlanInvariance, PTL DEF HSpec, Spec, Known
<1> QED
  BY <1>1, <1>2, <1>4, RoomStep, PTL DEF HSpec, AdmissionCostsNobody
-----------------------------------------------------------------------------
(* What is refused *)

\* Rounding up to blocks: monotone, and never more room than tokens.
LEMMA BlocksForBounds ==
  ASSUME NEW t \in Nat, NEW u \in Nat, t =< u
  PROVE  BlocksFor(t) =< BlocksFor(u) /\ t =< BlocksFor(t) * block_size
<1>1. block_size \in Nat \ {0}
  BY KVAllocatorAssumption
<1>2. ASSUME NEW b \in Nat \ {0}
      PROVE  (t + b - 1) \div b =< (u + b - 1) \div b /\ t =< ((t + b - 1) \div b) * b
  <2>1. t + b - 1 \in Nat /\ u + b - 1 \in Nat /\ t + b - 1 =< u + b - 1
    BY <1>2
  <2>2. ASSUME NEW a \in Nat, NEW c \in Nat, a =< c PROVE a \div b =< c \div b
    BY <1>2, <2>2
  <2> DEFINE k == (t + b - 1) \div b
  <2>3. k \in Nat /\ k * b =< t + b - 1 /\ t + b - 1 < k * b + b
    BY <1>2
  <2>4. t =< k * b
    BY <1>2, <2>3
  <2> QED
    BY <2>1, <2>2, <2>4
<1> QED
  BY <1>1, <1>2 DEF BlocksFor

\* A candidate that does not fit would outgrow the pool before it ends.
LEMMA RefusedOutgrows ==
  ASSUME Known, Reject
  PROVE  Candidate \in Sequences /\ BlocksFor(reservation(Candidate)) > num_blocks
<1>1. TypeOK /\ OnePlace /\ TokensToCome /\ waiting \in Seq(Sequences)
  BY DEF Known, IInv, PlanInv, TypeOK
<1> DEFINE s == waiting[index]
<1>2. s \in Sequences /\ s \in Range(waiting)
  <2>1. index \in 1 .. Len(waiting)
    BY <1>1 DEF Reject, MoreAdmissions, Turn, TypeOK
  <2> QED
    BY <1>1, <2>1 DEF Range
<1>3. ~ can_ever_fit(num_tokens(s), reservation(s))
  BY DEF Reject, CandidateFits, Candidate
<1> HIDE DEF s
<1>4. ~ Ended(s)
  BY <1>1, <1>2 DEF OnePlace, Ended
<1>5. /\ num_tokens(s) \in Nat /\ reservation(s) \in Nat
      /\ num_tokens(s) + 1 =< reservation(s)
  BY <1>1, <1>2, <1>4, TokensType, TokensWithinReservation
<1> HIDE DEF num_tokens, reservation
<1>6. BlocksFor(reservation(s)) \in Nat /\ num_blocks \in Nat /\ block_size \in Nat \ {0}
  BY <1>5, BlocksForType, KVAllocatorAssumption
<1>7. BlocksFor(reservation(s)) > num_blocks
  <2>1. CASE Paged
    <3>1. num_tokens(s) + 1 \in Nat
      BY <1>5
    <3>2. BlocksFor(num_tokens(s) + 1) > num_blocks
      BY <1>3, <1>6, <2>1, <3>1, BlocksForType DEF can_ever_fit
    <3>3. BlocksFor(num_tokens(s) + 1) =< BlocksFor(reservation(s))
      BY <1>5, <3>1, BlocksForBounds
    <3> QED
      BY <1>6, <3>1, <3>2, <3>3, BlocksForType
  <2>2. CASE ~ Paged
    <3> DEFINE n == BlocksFor(reservation(s))
               r == reservation(s)
    <3>1. r > num_blocks * block_size
      <4>1. num_blocks * block_size \in Nat
        BY <1>6
      <4> QED
        BY <1>3, <1>5, <2>2, <4>1 DEF can_ever_fit, Capacity
    <3>2. r =< n * block_size
      BY <1>5, BlocksForBounds
    <3> HIDE DEF n, r
    <3>3. ASSUME NEW m \in Nat, NEW b \in Nat, NEW p \in Nat, m =< p
          PROVE  m * b =< p * b
      BY <3>3
    <3>4. n \in Nat /\ r \in Nat
      BY <1>5, <1>6 DEF n, r
    <3>5. ~ (n =< num_blocks)
      <4> SUFFICES ASSUME n =< num_blocks PROVE FALSE
        OBVIOUS
      <4>1. n * block_size =< num_blocks * block_size
        BY <1>6, <3>3, <3>4
      <4>2. n * block_size \in Nat /\ num_blocks * block_size \in Nat
        BY <1>6, <3>4
      <4> QED
        BY <3>1, <3>2, <3>4, <4>1, <4>2
    <3> QED
      BY <1>6, <3>4, <3>5 DEF n
  <2> QED
    BY <2>1, <2>2
<1> QED
  BY <1>2, <1>7 DEF s, Candidate

\* Nothing joins plan.rejected but by that test, and a shape never changes.
LEMMA RejectedStep ==
  ASSUME Known, RejectedOutgrowsPool, [Next]_vars
  PROVE  RejectedOutgrowsPool'
<1>1. rejected \in Seq(Sequences)
  BY DEF Known, IInv, TypeOK
<1>2. \A s \in Sequences : reservation(s)' = reservation(s)
  BY ShapesStay DEF reservation
<1>3. ASSUME rejected' \in {rejected, <<>>} PROVE RejectedOutgrowsPool'
  BY <1>1, <1>2, <1>3 DEF RejectedOutgrowsPool
<1>4. CASE Reject
  <2>1. /\ rejected' = Append(rejected, Candidate)
        /\ Candidate \in Sequences /\ BlocksFor(reservation(Candidate)) > num_blocks
    BY <1>4, RefusedOutgrows DEF Reject
  <2>2. PICK s \in Sequences : s = Candidate
    BY <2>1
  <2>3. /\ Len(rejected') = Len(rejected) + 1
        /\ \A k \in 1 .. Len(rejected) : rejected'[k] = rejected[k]
        /\ rejected'[Len(rejected) + 1] = s
    BY <1>1, <2>1, <2>2
  <2> SUFFICES ASSUME NEW k \in 1 .. Len(rejected')
               PROVE  BlocksFor(reservation(rejected'[k])) > num_blocks
    BY ShapesStay DEF RejectedOutgrowsPool, BlocksFor, reservation
  <2>4. k \in 1 .. Len(rejected) \/ k = Len(rejected) + 1
    BY <1>1, <2>3
  <2> QED
    BY <2>1, <2>2, <2>3, <2>4 DEF RejectedOutgrowsPool
<1>5. CASE PlanDecode \/ PreemptForDecode \/ PlanContinuation \/ Admit
  BY <1>3, <1>5 DEF PlanDecode, PreemptForDecode, PlanContinuation, Admit
<1>6. CASE AbortRejected \/ AbortEntry
  BY <1>3, <1>6 DEF AbortRejected, AbortEntry, plan_vars
<1>7. ASSUME NEW stop \in BOOLEAN, ApplyResult(stop) PROVE RejectedOutgrowsPool'
  BY <1>3, <1>7 DEF ApplyResult, plan_vars
<1>8. ASSUME NEW s \in Sequences, Arrive(s) PROVE RejectedOutgrowsPool'
  BY <1>3, <1>8 DEF Arrive, AdmitIngress, plan_vars
<1>9. CASE LoopTurn \/ UNCHANGED vars
  BY <1>3, <1>9, LoopTurnKeeps
<1> QED
  BY <1>4, <1>5, <1>6, <1>7, <1>8, <1>9, QuietTurns

\* No request is refused that the pool could carry to the end, whatever has been
\* generated for it before it was preempted and whichever allocator serves it.
THEOREM RefusedWouldOutgrowThePool == Spec => []RejectedOutgrowsPool
<1>1. Init => RejectedOutgrowsPool
  BY DEF Init, RejectedOutgrowsPool
<1>2. Spec => []Known
  BY PlanInvariance DEF Known
<1> QED
  BY <1>1, <1>2, RejectedStep, PTL DEF Spec
-----------------------------------------------------------------------------
(* The pool's accounts, and the sums they are made of *)

Weight(e) == IF e.is_prefill_chunk THEN e.n_tokens ELSE 0

Greatest(S) == [T \in SUBSET S |-> Max(T)]

Weights(q) == [k \in 1 .. Len(q) |-> Weight(q[k])]

\* A non-empty set of indices has a greatest one.
LEMMA GreatestChosen ==
  ASSUME NEW n \in Nat
  PROVE  /\ Choice(Greatest(1 .. n), 1 .. n)
         /\ \A T \in SUBSET (1 .. n) : T # {} => \A y \in T : y =< Max(T)
<1> SUFFICES ASSUME NEW T \in SUBSET (1 .. n), T # {}
             PROVE  Max(T) \in T /\ \A y \in T : y =< Max(T)
  BY DEF Choice, Greatest
<1> DEFINE N == {n - x : x \in T}
<1>0. \A x \in T : x \in Nat /\ x =< n /\ n - x \in Nat
  OBVIOUS
<1>1. N \subseteq Nat /\ N # {}
  BY <1>0
<1>2. PICK k \in N : \A j \in N : k =< j
  <2> HIDE DEF N
  <2> QED
    BY <1>1, LeastElement
<1>3. PICK x \in T : k = n - x
  OBVIOUS
<1>4. \A y \in T : x >= y
  <2> SUFFICES ASSUME NEW y \in T PROVE x >= y
    OBVIOUS
  <2>1. n - x =< n - y
    BY <1>2, <1>3
  <2>2. x \in Nat /\ y \in Nat
    BY <1>0
  <2> QED
    BY <2>1, <2>2
<1>5. Max(T) \in T /\ \A y \in T : Max(T) >= y
  BY <1>4 DEF Max
<1>6. \A y \in T : y \in Int
  OBVIOUS
<1> QED
  BY <1>5, <1>6

\* The plan's prefill tokens are such a fold.
LEMMA PrefillIsFold ==
  ASSUME NEW q \in Seq(Entries)
  PROVE  /\ Weights(q) \in [1 .. Len(q) -> Nat]
         /\ \E f \in [SUBSET (1 .. Len(q)) -> Nat] :
              Folds(f, 1 .. Len(q), Greatest(1 .. Len(q)), Weights(q))
              /\ PrefillOf(q) = f[1 .. Len(q)]
<1> DEFINE S == 1 .. Len(q)
           c == Greatest(S)
           w == Weights(q)
           F == CHOOSE f : f = [T \in SUBSET DOMAIN q |->
                  IF T = {} THEN 0
                  ELSE f[T \ {Max(T)}] + (IF q[Max(T)].is_prefill_chunk
                                          THEN q[Max(T)].n_tokens ELSE 0)]
<1>1. PrefillOf(q) = F[DOMAIN q]
  BY DEF PrefillOf, FoldLeft, MapThenFoldSet
<1>2. w \in [S -> Nat]
  <2>1. \A k \in S : q[k] \in Entries
    OBVIOUS
  <2> QED
    BY <2>1 DEF Weights, Weight, Entries
<1>3. Choice(c, S) /\ IsFiniteSet(S)
  BY GreatestChosen, FS_Interval
<1>4. PICK f \in [SUBSET S -> Nat] : Folds(f, S, c, w)
  <2> HIDE DEF c, w, S
  <2> QED
    BY <1>2, <1>3, FoldExists
<1>5. \A T \in SUBSET S : T # {} =>
        /\ c[T] = Max(T) /\ Max(T) \in S /\ T \ {Max(T)} \in SUBSET S
        /\ w[c[T]] = IF q[Max(T)].is_prefill_chunk THEN q[Max(T)].n_tokens ELSE 0
  BY <1>3 DEF Choice, Greatest, Weights, Weight
<1>6. f = [T \in SUBSET DOMAIN q |->
             IF T = {} THEN 0
             ELSE f[T \ {Max(T)}] + (IF q[Max(T)].is_prefill_chunk
                                     THEN q[Max(T)].n_tokens ELSE 0)]
  <2>1. DOMAIN q = S /\ f = [T \in SUBSET S |-> f[T]]
    OBVIOUS
  <2>2. \A T \in SUBSET S : f[T] = IF T = {} THEN 0 ELSE w[c[T]] + f[T \ {c[T]}]
    BY <1>4 DEF Folds
  <2>3. \A T \in SUBSET S : T # {} => w[c[T]] + f[T \ {c[T]}] = f[T \ {c[T]}] + w[c[T]]
    <3> SUFFICES ASSUME NEW T \in SUBSET S, T # {}
                 PROVE  w[c[T]] + f[T \ {c[T]}] = f[T \ {c[T]}] + w[c[T]]
      OBVIOUS
    <3>1. w[c[T]] \in Nat /\ f[T \ {c[T]}] \in Nat
      BY <1>2, <1>5
    <3> QED
      BY <3>1
  <2> HIDE DEF S, c, w
  <2>4. \A T \in SUBSET S :
          f[T] = IF T = {} THEN 0
                 ELSE f[T \ {Max(T)}] + (IF q[Max(T)].is_prefill_chunk
                                         THEN q[Max(T)].n_tokens ELSE 0)
    BY <1>5, <2>2, <2>3
  <2> QED
    BY <2>1, <2>4
<1>7. F = [T \in SUBSET DOMAIN q |->
             IF T = {} THEN 0
             ELSE F[T \ {Max(T)}] + (IF q[Max(T)].is_prefill_chunk
                                     THEN q[Max(T)].n_tokens ELSE 0)]
  BY <1>6
<1> HIDE DEF F
<1>8. FoldsEitherWay(F, S, c, w)
  <2>1. DOMAIN q = S
    OBVIOUS
  <2> HIDE DEF S, c, w
  <2> QED
    BY <1>5, <1>7, <2>1 DEF FoldsEitherWay
<1>9. f = F
  <2> HIDE DEF S, c, w
  <2> QED
    BY <1>2, <1>3, <1>4, <1>8, FoldUnique
<1> QED
  BY <1>1, <1>2, <1>4, <1>9

\* An entry adds its own tokens to the plan's.
LEMMA PrefillOfAppend ==
  ASSUME NEW q \in Seq(Entries), NEW e \in Entries
  PROVE  /\ PrefillOf(Append(q, e)) = PrefillOf(q) + Weight(e)
         /\ PrefillOf(q) \in Nat /\ Weight(e) \in Nat
<1> DEFINE n == Len(q)
           S == 1 .. n
           r == Append(q, e)
           R == 1 .. n + 1
<1>1. n \in Nat /\ r \in Seq(Entries) /\ Len(r) = n + 1
      /\ r[n + 1] = e /\ \A k \in S : r[k] = q[k]
  OBVIOUS
<1>2. Weight(e) \in Nat
  BY DEF Weight, Entries
<1>3. PICK f \in [SUBSET S -> Nat] :
        Folds(f, S, Greatest(S), Weights(q)) /\ PrefillOf(q) = f[S]
  BY PrefillIsFold
<1> HIDE DEF r, n
<1>4. PICK g \in [SUBSET R -> Nat] :
        Folds(g, R, Greatest(R), Weights(r)) /\ PrefillOf(r) = g[R]
  BY <1>1, PrefillIsFold
<1>5. \A T \in SUBSET R : g[T] = IF T = {} THEN 0
                                 ELSE Weights(r)[Max(T)] + g[T \ {Max(T)}]
  BY <1>4 DEF Folds, Greatest
<1>6. Choice(Greatest(S), S) /\ IsFiniteSet(S) /\ Weights(q) \in [S -> Nat]
  <2>1. Weights(q) \in [S -> Nat]
    BY PrefillIsFold DEF n
  <2>2. Choice(Greatest(S), S)
    BY <1>1, GreatestChosen
  <2>3. IsFiniteSet(S)
    <3>1. 1 \in Int /\ n \in Int
      BY <1>1
    <3> QED
      BY <3>1, FS_Interval
  <2> QED
    BY <2>1, <2>2, <2>3
<1>7. \A k \in S : Weights(r)[k] = Weights(q)[k] /\ k \in R
  BY <1>1 DEF Weights, n
<1>8. Weights(r)[n + 1] = Weight(e) /\ R \ {n + 1} = S /\ SUBSET S \subseteq SUBSET R
  BY <1>1 DEF Weights
<1>9. Max(R) = n + 1
  <2>1. n + 1 \in Nat /\ n + 1 \in R /\ R \in SUBSET R
    BY <1>1
  <2>2. Max(R) \in R /\ \A y \in R : y =< Max(R)
    BY <2>1, GreatestChosen DEF Choice, Greatest
  <2> QED
    BY <1>1, <2>1, <2>2
<1>10. g[R] = Weight(e) + g[S]
  <2>1. n + 1 \in R
    BY <1>1
  <2> QED
    BY <1>5, <1>8, <1>9, <2>1
<1>11. g[S] = f[S]
  <2> DEFINE h == [T \in SUBSET S |-> g[T]]
  <2>1. h = [T \in SUBSET S |-> h[T]] /\ h[{}] = 0
    BY <1>5
  <2>2. ASSUME NEW T \in SUBSET S, T # {}
        PROVE  h[T] = Weights(q)[Greatest(S)[T]] + h[T \ {Greatest(S)[T]}]
    <3>1. Greatest(S)[T] = Max(T) /\ Max(T) \in T
      BY <1>6, <2>2 DEF Choice, Greatest
    <3>2. T \in SUBSET R /\ Max(T) \in S
      BY <1>8, <3>1
    <3> QED
      BY <1>5, <1>7, <2>2, <3>1, <3>2
  <2> HIDE DEF h, S
  <2>3. FoldsEitherWay(h, S, Greatest(S), Weights(q))
    BY <2>1, <2>2 DEF FoldsEitherWay
  <2>4. f = h
    BY <1>3, <1>6, <2>3, FoldUnique
  <2> QED
    BY <2>4 DEF h
<1>12. f[S] \in Nat
  BY <1>3
<1> QED
  BY <1>2, <1>3, <1>4, <1>10, <1>11, <1>12 DEF r

\* An empty plan has none.
LEMMA PrefillOfEmpty == PrefillOf(<< >>) = 0
<1>1. << >> \in Seq(Entries) /\ Len(<< >>) = 0 /\ 1 .. 0 = {}
  OBVIOUS
<1>2. PICK f \in [SUBSET (1 .. 0) -> Nat] :
        Folds(f, 1 .. 0, Greatest(1 .. 0), Weights(<< >>)) /\ PrefillOf(<< >>) = f[1 .. 0]
  BY <1>1, PrefillIsFold
<1> QED
  BY <1>1, <1>2 DEF Folds
-----------------------------------------------------------------------------
(* The pool's accounts *)

PoolTotal == free + SumFunction(held) = Capacity

\* A change of what is free that is the opposite of a change of what s holds.
LEMMA TotalStays ==
  ASSUME IsFiniteSet(Sequences), PoolTotal, KVTypeOK, KVTypeOK',
         NEW s \in Sequences, NEW k \in Int,
         held' = [held EXCEPT ![s] = @ + k], free' = free - k
  PROVE  PoolTotal'
<1>1. free \in Nat /\ held \in [Sequences -> Nat] /\ held' \in [Sequences -> Nat]
  BY DEF KVTypeOK
<1>2. SumFunction(held') = SumFunction(held) + k /\ SumFunction(held) \in Nat
  <2>1. ChangedBy(held, held', s, k)
    BY DEF ChangedBy
  <2>2. \A w, v \in [Sequences -> Nat] : \A t \in Sequences : \A d \in Int :
          ChangedBy(w, v, t, d) =>
            SumFunction(v) = SumFunction(w) + d /\ SumFunction(w) \in Nat
    BY SumChange
  <2> QED
    BY <1>1, <2>1, <2>2
<1>3. Capacity' = Capacity
  BY DEF Capacity, Paged
<1> QED
  BY <1>1, <1>2, <1>3 DEF PoolTotal

\* Every call of the allocator keeps the accounts.
LEMMA CallsKeepTotal ==
  ASSUME IsFiniteSet(Sequences), PoolTotal, KVTypeOK, KVTypeOK', NEW s \in Sequences,
         \/ Free(s)
         \/ \E n, r, d \in Nat : Allocate(s, n, r, d)
  PROVE  PoolTotal'
<1>1. free \in Nat /\ held \in [Sequences -> Nat] /\ slots \in [Sequences -> Nat]
  BY DEF KVTypeOK
<1>2. CASE Free(s)
  <2>1. held[s] \in Nat /\ -held[s] \in Int /\ held[s] + (-held[s]) = 0
    BY <1>1
  <2>2. held' = [held EXCEPT ![s] = @ + (-held[s])] /\ free' = free - (-held[s])
    <3>1. held' = [held EXCEPT ![s] = 0] /\ free' = free + held[s]
      BY <1>2 DEF Free
    <3>2. free - (-held[s]) = free + held[s]
      BY <1>1, <2>1
    <3> QED
      BY <1>1, <2>1, <3>1, <3>2
  <2> QED
    BY <2>1, <2>2, TotalStays
<1>3. ASSUME NEW n \in Nat, NEW r \in Nat, NEW d \in Nat, Allocate(s, n, r, d)
      PROVE  PoolTotal'
  <2> DEFINE k == needed(s, n, r)
  <2>1. k \in Int
    <3>1. BlocksFor(slots[s] + n) \in Nat /\ held[s] \in Nat
      BY <1>1, BlocksForType
    <3> QED
      BY <3>1 DEF needed
  <2>2. held' = [held EXCEPT ![s] = @ + k] /\ free' = free - k
    BY <1>3 DEF Allocate
  <2> HIDE DEF k
  <2> QED
    BY <2>1, <2>2, TotalStays
<1> QED
  BY <1>2, <1>3

\* Every step of the scheduler does.
LEMMA TotalStep ==
  ASSUME IsFiniteSet(Sequences), Known, PoolTotal, [Next]_vars
  PROVE  PoolTotal'
<1>1. /\ TypeOK /\ ProgressBounded /\ KVTypeOK /\ KVTypeOK'
      /\ Len(running) \in Nat /\ 0 \in Nat /\ 1 \in Nat
  <2>1. IInv /\ IInv'
    BY NextInv DEF Known
  <2>2. TypeOK /\ TypeOK' /\ ProgressBounded
    BY <2>1 DEF IInv
  <2>3. KVTypeOK /\ KVTypeOK'
    BY <2>2 DEF TypeOK
  <2>4. Len(running) \in Nat
    BY <2>2 DEF TypeOK
  <2> QED
    BY <2>2, <2>3, <2>4
<1>2. ASSUME UNCHANGED kv_vars PROVE PoolTotal'
  BY <1>2 DEF PoolTotal, Capacity, Paged, kv_vars
<1>3. ASSUME NEW s \in Sequences, Free(s) PROVE PoolTotal'
  BY <1>1, <1>3, CallsKeepTotal
<1>4. ASSUME NEW s \in Sequences, NEW d \in Nat,
             Allocate(s, Chunk(s), reservation(s), d) \/ Allocate(s, 1, reservation(s), d)
      PROVE  PoolTotal'
  <2>1. Chunk(s) \in Nat /\ reservation(s) \in Nat
    BY <1>1, ChunkBounds, TokensType
  <2>2. \E n, r \in Nat : Allocate(s, n, r, d)
    BY <1>1, <1>4, <2>1
  <2> QED
    BY <1>1, <2>2, CallsKeepTotal
<1>5. CASE PlanDecode \/ PlanContinuation
  <2>1. running[index] \in Sequences
    BY <1>1, <1>5, TurnType DEF PlanDecode, PlanContinuation
  <2>2. \/ Allocate(running[index], Chunk(running[index]), reservation(running[index]), 0)
        \/ Allocate(running[index], 1, reservation(running[index]), 0)
    BY <1>5 DEF PlanDecode, PlanContinuation
  <2> QED
    BY <1>1, <1>4, <2>1, <2>2
<1>6. CASE Admit
  <2>1. waiting[index] \in Sequences
    <3>1. index \in 1 .. Len(waiting) /\ waiting \in Seq(Sequences)
      BY <1>1, <1>6 DEF Admit, MoreAdmissions, Turn, TypeOK
    <3> QED
      BY <3>1
  <2>2. Allocate(waiting[index], Chunk(waiting[index]), reservation(waiting[index]),
                 Len(running))
    BY <1>6 DEF Admit, Candidate, AdmissionReserve
  <2> QED
    BY <1>1, <1>4, <2>1, <2>2
<1>7. CASE PreemptForDecode
  <2>1. Last(running) \in Sequences /\ Free(Last(running))
    BY <1>1, <1>7, FrontLastType DEF PreemptForDecode, Preempt, Turn, TypeOK
  <2> QED
    BY <1>3, <2>1
<1>8. CASE AbortRejected \/ AbortEntry
  <2>1. \E s \in Sequences : Free(s)
    <3>1. CASE AbortRejected
      BY <1>1, <3>1 DEF AbortRejected, Turn, TypeOK, EndAs
    <3>2. CASE AbortEntry
      <4>1. entries[index] \in Entries
        BY <1>1, <3>2 DEF AbortEntry, Turn, TypeOK
      <4> QED
        BY <3>2, <4>1 DEF AbortEntry, EndAs, Entries
    <3> QED
      BY <1>8, <3>1, <3>2
  <2> QED
    BY <1>3, <2>1
<1>9. ASSUME NEW stop \in BOOLEAN, ApplyResult(stop) PROVE PoolTotal'
  <2>1. entries[index].seq_id \in Sequences
    <3>1. entries[index] \in Entries
      BY <1>1, <1>9 DEF ApplyResult, Turn, TypeOK
    <3> QED
      BY <3>1 DEF Entries
  <2>2. Free(entries[index].seq_id) \/ UNCHANGED kv_vars
    BY <1>9 DEF ApplyResult, EndAs
  <2> QED
    BY <1>2, <1>3, <2>1, <2>2
<1>10. CASE Reject \/ \E s \in Sequences : Arrive(s)
  BY <1>2, <1>10 DEF Reject, Arrive, AdmitIngress
<1>11. CASE LoopTurn \/ UNCHANGED vars
  BY <1>2, <1>11, LoopTurnKeeps DEF kv_vars
<1> QED
  BY <1>5, <1>6, <1>7, <1>8, <1>9, <1>10, <1>11, QuietTurns

\* With finitely many requests (the sum of what they hold is not defined for more),
\* what is free and what is held always add up to the pool, and every sequence holds
\* exactly what its slots need: nothing leaks through growth, preemption and abort.
THEOREM HoldingsAreExact ==
  ASSUME IsFiniteSet(Sequences)
  PROVE  Spec => []HoldingsExact
<1>1. Init => PoolTotal
  <2> SUFFICES ASSUME Init PROVE PoolTotal
    OBVIOUS
  <2>1. free = Capacity /\ held = [s \in Sequences |-> 0] /\ Capacity \in Nat
    BY KVAllocatorAssumption DEF Init, AllocatorInit, Capacity
  <2>2. SumFunction([s \in Sequences |-> 0]) = 0
    BY SumOfZeros
  <2> QED
    BY <2>1, <2>2 DEF PoolTotal
<1>2. Known /\ PoolTotal /\ [Next]_vars => PoolTotal'
  BY TotalStep
<1>3. Known /\ PoolTotal => HoldingsExact
  BY DEF Known, PlanInv, SequenceHoldings, PoolTotal, HoldingsExact
<1>4. Spec => []Known
  BY PlanInvariance DEF Known
<1> QED
  BY <1>1, <1>2, <1>3, <1>4, PTL DEF Spec
-----------------------------------------------------------------------------
(* How large an iteration gets *)

DecodeEntries == {k \in DOMAIN entries : ~ entries[k].is_prefill_chunk}

\* The parts of BatchFitsBuckets, with what is left of the budget.
BucketsInv ==
  /\ Len(running) =< max_running
  /\ cap \in {0, max_running}
  /\ At("decodes") => Len(entries) =< index - 1 /\ index - 1 =< max_running
  /\ Cardinality(DecodeEntries) =< max_running
  /\ \A k \in DOMAIN entries :
       entries[k].is_prefill_chunk => entries[k].n_tokens =< max_prefill_chunk

TokensBudgeted ==
  /\ PrefillTokens =< token_budget
  /\ phase \in {"decodes", "continuations", "admissions", "rejects"} =>
       PrefillTokens + budget =< token_budget

\* Admissions stop at the cap, and the cap is one of two.
LEMMA RunningStep ==
  ASSUME Known, BucketsInv, [Next]_vars
  PROVE  Len(running') =< max_running /\ cap' \in {0, max_running}
<1>1. /\ TypeOK /\ OnePlace /\ running \in Seq(Sequences) /\ IsInjective(running)
      /\ Len(running) \in Nat
  BY DEF Known, IInv, PlanInv, TypeOK, OnePlace
<1>2. /\ Len(running) =< max_running /\ cap \in {0, max_running}
      /\ max_running \in Nat
  BY SchedulerAssumption DEF BucketsInv
<1>3. CASE LoopTurn \/ UNCHANGED vars
  <2>1. running' = running
    BY <1>3, LoopTurnKeeps
  <2>2. cap' \in {cap, 0, admission_cap}
    BY <1>3 DEF LoopTurn, BeginStep, SkipDecode, EndDecodes, SkipContinuation,
      BlockContinuation, EndContinuations, PassOver, EndAdmissions, HandOver, Forward,
      NoResult, EndIteration, vars, loop_vars
  <2> QED
    BY <1>2, <2>1, <2>2 DEF admission_cap
<1>4. CASE PlanDecode \/ PlanContinuation \/ Reject
  BY <1>2, <1>4 DEF PlanDecode, PlanContinuation, Reject, queue_vars, loop_vars
<1>5. ASSUME NEW s \in Sequences, Arrive(s)
      PROVE  Len(running') =< max_running /\ cap' \in {0, max_running}
  BY <1>2, <1>5 DEF Arrive, AdmitIngress
<1>6. CASE PreemptForDecode
  <2>1. Len(running) > 0
    BY <1>1, <1>6 DEF PreemptForDecode, Turn, TypeOK
  <2>2. running' = Front(running) /\ cap' = cap
    BY <1>6 DEF PreemptForDecode, Preempt
  <2>3. Len(running') = Len(running) - 1
    BY <1>1, <2>1, <2>2, FrontOfInjective
  <2> QED
    BY <1>1, <1>2, <2>2, <2>3
<1>7. CASE Admit
  <2>1. running' = Append(running, Candidate) /\ Len(running) < cap /\ cap' = cap
    BY <1>7 DEF Admit, MoreAdmissions
  <2>2. Len(running') = Len(running) + 1
    BY <1>1, <2>1
  <2> QED
    BY <1>1, <1>2, <2>1, <2>2
<1>8. ASSUME NEW e, running' = RemoveFirst(running, e), cap' = cap
      PROVE  Len(running') =< max_running /\ cap' \in {0, max_running}
  <2>1. Len(running') =< Len(running) /\ Len(running') \in Nat
    BY <1>1, <1>8, RemoveFirstOfInjective, RemoveFirstType
  <2> QED
    BY <1>1, <1>2, <1>8, <2>1
<1>9. CASE AbortRejected \/ AbortEntry
  BY <1>8, <1>9 DEF AbortRejected, AbortEntry, EndAs
<1>10. ASSUME NEW stop \in BOOLEAN, ApplyResult(stop)
       PROVE  Len(running') =< max_running /\ cap' \in {0, max_running}
  BY <1>2, <1>8, <1>10 DEF ApplyResult, EndAs
<1> QED
  BY <1>3, <1>4, <1>5, <1>6, <1>7, <1>9, <1>10, QuietTurns

\* What a chunk adds to the plan is taken from the budget.
LEMMA ChunkStep ==
  ASSUME Known, PlanContinuation \/ Admit
  PROVE  \E s \in Sequences : /\ Chunk(s) \in Nat /\ Chunk(s) =< budget
                              /\ Chunk(s) =< max_prefill_chunk
                              /\ entries' = Append(entries, Entry(s, Chunk(s), TRUE))
                              /\ budget' = budget - Chunk(s)
<1>1. TypeOK /\ ProgressBounded
  BY DEF Known, IInv
<1>2. ASSUME NEW s \in Sequences
      PROVE  Chunk(s) \in Nat /\ Chunk(s) =< budget /\ Chunk(s) =< max_prefill_chunk
  <2>1. /\ num_tokens(s) \in Nat /\ prefill_progress[s] \in Nat /\ budget \in Nat
        /\ prefill_progress[s] =< num_tokens(s)
    BY <1>1, TokensType DEF TypeOK, ProgressBounded
  <2>2. max_prefill_chunk \in Nat
    BY SchedulerAssumption DEF max_prefill_chunk
  <2> HIDE DEF num_tokens, max_prefill_chunk
  <2> QED
    BY <2>1, <2>2 DEF Chunk, Lesser
<1>3. CASE PlanContinuation
  <2>1. running[index] \in Sequences
    BY <1>1, <1>3, TurnType DEF PlanContinuation
  <2>2. /\ entries' = Append(entries, Entry(running[index], Chunk(running[index]), TRUE))
        /\ budget' = budget - Chunk(running[index])
    BY <1>3 DEF PlanContinuation
  <2> QED
    BY <1>2, <1>3, <2>1, <2>2
<1>4. CASE Admit
  <2>1. waiting[index] \in Sequences
    <3>1. index \in 1 .. Len(waiting) /\ waiting \in Seq(Sequences)
      BY <1>1, <1>4 DEF Admit, MoreAdmissions, Turn, TypeOK
    <3> QED
      BY <3>1
  <2>2. /\ entries' = Append(entries, Entry(waiting[index], Chunk(waiting[index]), TRUE))
        /\ budget' = budget - Chunk(waiting[index])
    BY <1>4 DEF Admit, Candidate
  <2> QED
    BY <1>2, <1>4, <2>1, <2>2
<1> QED
  BY <1>3, <1>4

\* What a step does to the plan.
LEMMA EntriesStep ==
  ASSUME Known, [Next]_vars
  PROVE  \/ entries' \in {entries, <<>>}
         \/ PlanDecode /\ \E s \in Sequences : entries' = Append(entries, Entry(s, 1, FALSE))
         \/ /\ PlanContinuation \/ Admit
            /\ \E s \in Sequences : /\ Chunk(s) \in Nat /\ Chunk(s) =< budget
                                    /\ Chunk(s) =< max_prefill_chunk
                                    /\ entries' = Append(entries, Entry(s, Chunk(s), TRUE))
                                    /\ budget' = budget - Chunk(s)
<1>1. TypeOK
  BY DEF Known, IInv
<1>2. CASE LoopTurn \/ UNCHANGED vars
  BY <1>2, LoopTurnKeeps
<1>3. CASE PreemptForDecode \/ Reject \/ AbortRejected \/ AbortEntry
  BY <1>3 DEF PreemptForDecode, Reject, AbortRejected, AbortEntry, plan_vars
<1>4. CASE (\E stop \in BOOLEAN : ApplyResult(stop)) \/ \E s \in Sequences : Arrive(s)
  BY <1>4 DEF ApplyResult, Arrive, AdmitIngress, plan_vars
<1>5. CASE PlanDecode
  <2>1. running[index] \in Sequences
    BY <1>1, <1>5, TurnType DEF PlanDecode
  <2> QED
    BY <1>5, <2>1 DEF PlanDecode
<1>6. CASE PlanContinuation \/ Admit
  BY <1>6, ChunkStep
<1> QED
  BY <1>2, <1>3, <1>4, <1>5, <1>6, QuietTurns

\* The first loop adds at most one decode for each turn it has taken, and its turns
\* are no more than there were sequences running.
LEMMA DecodesStep ==
  ASSUME Known, BucketsInv, [Next]_vars
  PROVE  /\ At("decodes")' => Len(entries') =< index' - 1 /\ index' - 1 =< max_running
         /\ Cardinality(DecodeEntries') =< max_running
<1>1. /\ entries \in Seq(Entries) /\ Len(entries) \in Nat /\ index \in Nat \ {0}
      /\ running \in Seq(Sequences) /\ Len(running) \in Nat /\ TypeOK /\ TypeOK' /\ CursorInv
  <2>1. IInv' /\ IInv /\ CursorInv
    BY NextInv DEF Known, PlanInv
  <2>2. TypeOK /\ TypeOK'
    BY <2>1 DEF IInv
  <2>3. /\ entries \in Seq(Entries) /\ index \in Nat \ {0} /\ running \in Seq(Sequences)
    BY <2>2 DEF TypeOK
  <2>4. Len(entries) \in Nat /\ Len(running) \in Nat
    BY <2>3
  <2> QED
    BY <2>1, <2>2, <2>3, <2>4
<1>2. /\ Len(running) =< max_running /\ max_running \in Nat \ {0}
      /\ phase = "decodes" => Len(entries) =< index - 1 /\ index - 1 =< max_running
      /\ Cardinality(DecodeEntries) =< max_running
  BY SchedulerAssumption DEF BucketsInv, At
<1>3. ASSUME phase' = "decodes"
      PROVE  Len(entries') =< index' - 1 /\ index' - 1 =< max_running
  <2>1. \/ BeginStep \/ SkipDecode \/ PlanDecode \/ PreemptForDecode
        \/ phase = "decodes" /\ UNCHANGED <<entries, index>>
    <3>1. CASE LoopTurn
      BY <1>3, <3>1 DEF LoopTurn, EndDecodes, SkipContinuation, BlockContinuation,
         EndContinuations, PassOver, EndAdmissions, HandOver, Forward, NoResult,
         EndIteration, GoTo, Step, At
    <3>2. CASE PlanContinuation \/ Admit \/ Reject \/ AbortRejected \/ AbortEntry
      BY <1>3, <3>2 DEF PlanContinuation, Admit, Reject, AbortRejected, AbortEntry, Step, At,
         loop_vars
    <3>3. CASE (\E stop \in BOOLEAN : ApplyResult(stop)) \/ \E s \in Sequences : Arrive(s)
      BY <1>3, <3>3 DEF ApplyResult, Arrive, GoTo, Step, At
    <3>4. CASE UNCHANGED vars
      BY <1>3, <3>4 DEF vars, plan_vars, loop_vars
    <3> QED
      BY <3>1, <3>2, <3>3, <3>4, QuietTurns
  <2>2. CASE BeginStep
    <3>1. entries' = entries /\ entries = <<>> /\ index' = 1
      BY <1>1, <2>2 DEF BeginStep, At, GoTo, CursorInv, plan_vars
    <3> QED
      BY <1>2, <3>1
  <2>3. CASE SkipDecode \/ PlanDecode
    <3>1. /\ phase = "decodes" /\ index' = index + 1 /\ index =< Len(running)
      BY <2>3 DEF SkipDecode, PlanDecode, At, Step, Turn
    <3>2. entries' = entries \/ \E e : entries' = Append(entries, e)
      BY <2>3 DEF SkipDecode, PlanDecode, plan_vars
    <3>3. Len(entries') \in {Len(entries), Len(entries) + 1}
      BY <1>1, <3>2
    <3>4. Len(entries) =< index - 1
      BY <1>2, <3>1
    <3> DEFINE n == Len(entries)
               m == Len(entries')
               r == Len(running)
    <3>5. /\ n \in Nat /\ r \in Nat /\ index \in Nat /\ max_running \in Nat
          /\ m \in {n, n + 1} /\ n =< index - 1 /\ index =< r /\ r =< max_running
      BY <1>1, <1>2, <3>1, <3>3, <3>4
    <3> HIDE DEF n, m, r
    <3>6. m =< index /\ index =< max_running /\ (index + 1) - 1 = index
      BY <3>5
    <3> QED
      BY <3>1, <3>6 DEF m
  <2>4. CASE PreemptForDecode
    <3>1. /\ phase = "decodes" /\ index' \in {index, index + 1} /\ index =< Len(running)
          /\ entries' = entries
      BY <2>4 DEF PreemptForDecode, AfterPreempt, At, Turn
    <3>2. Len(entries) =< index - 1
      BY <1>2, <3>1
    <3> DEFINE n == Len(entries)
               r == Len(running)
    <3>3. /\ n \in Nat /\ r \in Nat /\ index \in Nat /\ max_running \in Nat
          /\ n =< index - 1 /\ index =< r /\ r =< max_running
      BY <1>1, <1>2, <3>1, <3>2
    <3> HIDE DEF n, r
    <3>4. index' - 1 \in {index - 1, index}
      <4>1. (index + 1) - 1 = index
        BY <3>3
      <4>2. index' = index \/ index' = index + 1
        BY <3>1
      <4> QED
        BY <4>1, <4>2
    <3>5. n =< index' - 1 /\ index' - 1 =< max_running
      BY <3>3, <3>4
    <3> QED
      BY <3>1, <3>5 DEF n
  <2> QED
    BY <1>2, <2>1, <2>2, <2>3, <2>4
<1>4. Cardinality(DecodeEntries') =< max_running
  <2>1. CASE entries' = entries
    BY <1>2, <2>1 DEF DecodeEntries
  <2>2. CASE entries' = <<>>
    <3>1. DecodeEntries' = {}
      BY <2>2 DEF DecodeEntries
    <3> QED
      BY <1>2, <3>1, FS_EmptySet
  <2>3. CASE PlanDecode
    <3>1. phase' = "decodes" /\ index' - 1 =< Len(running)
      BY <1>1, <2>3 DEF PlanDecode, Step, Turn, At
    <3>2. Len(entries') =< max_running
      <4>1. Len(entries') =< index' - 1 /\ index' \in Nat /\ Len(entries') \in Nat
        BY <1>1, <1>3, <3>1 DEF TypeOK
      <4> QED
        BY <1>1, <1>2, <3>1, <4>1
    <3>3. /\ Cardinality(DecodeEntries') \in Nat
          /\ Cardinality(DecodeEntries') =< Len(entries')
      <4>1. entries' \in Seq(Entries)
        BY <1>1 DEF TypeOK
      <4>2. /\ Len(entries') \in Nat /\ DecodeEntries' \in SUBSET (1 .. Len(entries'))
        BY <4>1 DEF DecodeEntries
      <4>3. /\ IsFiniteSet(1 .. Len(entries'))
            /\ Cardinality(1 .. Len(entries')) = Len(entries')
        <5>1. 1 \in Int /\ Len(entries') \in Int
          BY <4>2
        <5>2. Cardinality(1 .. Len(entries'))
                = IF 1 > Len(entries') THEN 0 ELSE Len(entries') - 1 + 1
          BY <5>1, FS_Interval
        <5>3. IsFiniteSet(1 .. Len(entries'))
          BY <5>1, FS_Interval
        <5>4. PICK n, c : n = Len(entries') /\ c = Cardinality(1 .. Len(entries'))
          OBVIOUS
        <5>5. n \in Nat /\ c = IF 1 > n THEN 0 ELSE n - 1 + 1
          BY <4>2, <5>2, <5>4
        <5>6. c = n
          BY <5>5
        <5> QED
          BY <5>3, <5>4, <5>6
      <4> QED
        BY <4>2, <4>3, FS_Subset, FS_CardinalityType
    <3> QED
      BY <1>1, <1>2, <3>2, <3>3
  <2>4. ASSUME NEW s \in Sequences, Chunk(s) \in Nat,
               entries' = Append(entries, Entry(s, Chunk(s), TRUE))
        PROVE  Cardinality(DecodeEntries') =< max_running
    <3>1. Entry(s, Chunk(s), TRUE).is_prefill_chunk
      BY DEF Entry
    <3> DEFINE e == Entry(s, Chunk(s), TRUE)
    <3>2. /\ Len(entries') = Len(entries) + 1
          /\ DOMAIN entries' = 1 .. Len(entries) + 1 /\ DOMAIN entries = 1 .. Len(entries)
          /\ \A k \in 1 .. Len(entries) : entries'[k] = entries[k]
          /\ entries'[Len(entries) + 1] = e
      <4>1. e \in Entries
        BY <2>4 DEF Entry, Entries
      <4> HIDE DEF e
      <4>2. entries' = Append(entries, e)
        BY <2>4 DEF e
      <4> QED
        BY <1>1, <4>1, <4>2
    <3> HIDE DEF e
    <3>3. \A k \in 1 .. Len(entries) + 1 : k \in 1 .. Len(entries) \/ k = Len(entries) + 1
      BY <1>1
    <3>4. 1 .. Len(entries) \subseteq 1 .. Len(entries) + 1
      BY <1>1
    <3>5. e.is_prefill_chunk
      BY <3>1 DEF e
    <3>6. DecodeEntries' = DecodeEntries
      BY <3>2, <3>3, <3>4, <3>5 DEF DecodeEntries
    <3> QED
      BY <1>2, <3>6
  <2> QED
    BY <2>1, <2>2, <2>3, <2>4, EntriesStep
<1> QED
  BY <1>3, <1>4 DEF At

\* The loops that spend the budget.
Spending == phase \in {"decodes", "continuations", "admissions", "rejects"}

\* What a step does to the plan and the budget, outside the loops and in them.
LEMMA BudgetStep ==
  ASSUME Known, [Next]_vars
  PROVE  \/ ~ Spending' /\ entries' \in {entries, <<>>}
         \/ entries' = <<>> /\ budget' = token_budget
         \/ Spending /\ entries' = entries /\ budget' \in {budget, 0}
         \/ Spending /\ PlanDecode /\ budget' = budget
         \/ Spending /\ (PlanContinuation \/ Admit)
<1>1. CursorInv
  BY DEF Known, PlanInv
<1>2. CASE LoopTurn
  <2>1. CASE BeginStep
    BY <1>1, <2>1 DEF BeginStep, CursorInv, plan_vars
  <2>2. CASE \/ SkipDecode \/ EndDecodes \/ SkipContinuation \/ BlockContinuation
             \/ EndContinuations \/ PassOver \/ EndAdmissions
    BY <2>2 DEF SkipDecode, EndDecodes, SkipContinuation, BlockContinuation,
       EndContinuations, PassOver, EndAdmissions, plan_vars, At, Spending
  <2>3. CASE HandOver \/ Forward \/ NoResult \/ EndIteration
    BY <2>3 DEF HandOver, Forward, NoResult, EndIteration, plan_vars, At, GoTo, Step, Spending
  <2> QED
    BY <1>2, <2>1, <2>2, <2>3 DEF LoopTurn
<1>3. CASE PreemptForDecode \/ Reject \/ AbortRejected
  BY <1>3 DEF PreemptForDecode, Reject, AbortRejected, At, Spending, plan_vars, loop_vars
<1>4. CASE AbortEntry \/ (\E stop \in BOOLEAN : ApplyResult(stop))
           \/ \E s \in Sequences : Arrive(s)
  BY <1>4 DEF AbortEntry, ApplyResult, Arrive, AdmitIngress, At, GoTo, Step, Spending, plan_vars
<1>5. CASE PlanDecode \/ PlanContinuation \/ Admit
  BY <1>5 DEF PlanDecode, PlanContinuation, Admit, At, Spending
<1>6. CASE UNCHANGED vars
  BY <1>6 DEF vars, plan_vars, loop_vars, Spending
<1> QED
  BY <1>2, <1>3, <1>4, <1>5, <1>6, QuietTurns

\* A plan's prefill tokens are a number.
LEMMA PrefillOfType ==
  ASSUME NEW q \in Seq(Entries)
  PROVE  PrefillOf(q) \in Nat
<1>1. PICK f \in [SUBSET (1 .. Len(q)) -> Nat] : PrefillOf(q) = f[1 .. Len(q)]
  BY PrefillIsFold
<1> QED
  BY <1>1

\* An entry's tokens, once it is in the plan.
LEMMA EntryAdds ==
  ASSUME NEW q \in Seq(Entries), NEW s \in Sequences, NEW n \in Nat, NEW p \in BOOLEAN
  PROVE  PrefillOf(Append(q, Entry(s, n, p))) = PrefillOf(q) + (IF p THEN n ELSE 0)
<1> DEFINE e == Entry(s, n, p)
<1>1. e \in Entries /\ Weight(e) = IF p THEN n ELSE 0
  BY DEF Entry, Entries, Weight
<1> HIDE DEF e
<1>2. PrefillOf(Append(q, e)) = PrefillOf(q) + Weight(e)
  BY <1>1, PrefillOfAppend
<1> QED
  BY <1>1, <1>2 DEF e

\* The plan's prefill tokens and what is left of the budget add up to no more than it.
LEMMA TokensBudgetedStep ==
  ASSUME Known, TokensBudgeted, [Next]_vars
  PROVE  TokensBudgeted'
<1> DEFINE total == PrefillOf(entries)
           after == PrefillOf(entries')
<1>1. TypeOK /\ TypeOK'
  BY NextInv DEF Known, IInv
<1>2. /\ entries \in Seq(Entries) /\ budget \in Nat /\ token_budget \in Nat
      /\ entries' \in Seq(Entries) /\ budget' \in Nat
  BY <1>1, SchedulerAssumption DEF TypeOK
<1>3. total \in Nat /\ after \in Nat
  BY <1>2, PrefillOfType
<1>4. /\ total =< token_budget
      /\ Spending => total + budget =< token_budget
  BY DEF TokensBudgeted, PrefillTokens, Spending
<1>5. SUFFICES /\ after =< token_budget
               /\ Spending' => after + budget' =< token_budget
  BY DEF TokensBudgeted, PrefillTokens, Spending
<1>6. CASE ~ Spending' /\ entries' \in {entries, <<>>}
  BY <1>2, <1>4, <1>6, PrefillOfEmpty
<1>7. CASE entries' = <<>> /\ budget' = token_budget
  <2>1. after = 0
    BY <1>7, PrefillOfEmpty
  <2> HIDE DEF after
  <2> QED
    BY <1>2, <1>7, <2>1
<1>8. CASE Spending /\ entries' = entries /\ budget' \in {budget, 0}
  <2>1. after = total
    BY <1>8
  <2>2. budget' =< budget
    BY <1>2, <1>8
  <2> HIDE DEF after, total
  <2>3. total + budget =< token_budget
    BY <1>4, <1>8
  <2>4. total + budget' =< token_budget
    <3> DEFINE b == budget'
    <3>1. /\ b \in Nat /\ budget \in Nat /\ token_budget \in Nat /\ total \in Nat
          /\ b =< budget
      BY <1>2, <1>3, <2>2
    <3> HIDE DEF b
    <3>2. total + b =< token_budget
      BY <2>3, <3>1
    <3> QED
      BY <3>2 DEF b
  <2> QED
    BY <1>4, <2>1, <2>4
<1>9. CASE Spending /\ PlanDecode /\ budget' = budget
  <2>1. PICK s \in Sequences : entries' = Append(entries, Entry(s, 1, FALSE))
    <3>1. running[index] \in Sequences
      BY <1>1, <1>9, TurnType DEF PlanDecode
    <3> QED
      BY <1>9, <3>1 DEF PlanDecode
  <2>2. after = total + 0
    BY <1>2, <2>1, EntryAdds, Zenon
  <2> HIDE DEF after, total
  <2> QED
    BY <1>2, <1>3, <1>4, <1>9, <2>2
<1>10. CASE Spending /\ (PlanContinuation \/ Admit)
  <2>1. PICK s \in Sequences : /\ Chunk(s) \in Nat /\ Chunk(s) =< budget
                               /\ entries' = Append(entries, Entry(s, Chunk(s), TRUE))
                               /\ budget' = budget - Chunk(s)
    BY <1>10, ChunkStep
  <2> DEFINE n == Chunk(s)
  <2> HIDE DEF n
  <2>2. after = total + n
    <3>1. n \in Nat /\ entries' = Append(entries, Entry(s, n, TRUE))
      BY <2>1 DEF n
    <3> QED
      BY <1>2, <3>1, EntryAdds
  <2>3. n \in Nat /\ n =< budget /\ budget' = budget - n
    BY <2>1 DEF n
  <2> HIDE DEF after, total
  <2> QED
    BY <1>2, <1>3, <1>4, <1>10, <2>2, <2>3
<1> QED
  BY <1>6, <1>7, <1>8, <1>9, <1>10, BudgetStep

\* No chunk in the plan is above its share of the budget.
LEMMA ChunksStep ==
  ASSUME Known, BucketsInv, [Next]_vars
  PROVE  \A k \in DOMAIN entries' :
           entries'[k].is_prefill_chunk => entries'[k].n_tokens =< max_prefill_chunk
<1> DEFINE Fits(e) == e.is_prefill_chunk => e.n_tokens =< max_prefill_chunk
<1>1. /\ entries \in Seq(Entries)
      /\ \A k \in DOMAIN entries : Fits(entries[k])
  BY DEF BucketsInv, Known, IInv, TypeOK
<1>2. CASE entries' \in {entries, <<>>}
  BY <1>1, <1>2
<1>3. ASSUME NEW e \in Entries, Fits(e), entries' = Append(entries, e)
      PROVE  \A k \in DOMAIN entries' : Fits(entries'[k])
  <2> HIDE DEF Fits
  <2>1. DOMAIN entries = 1 .. Len(entries) /\ DOMAIN entries' = 1 .. Len(entries) + 1
    BY <1>1, <1>3
  <2>2. \A k \in 1 .. Len(entries) + 1 : k \in 1 .. Len(entries) \/ k = Len(entries) + 1
    BY <1>1
  <2>3. /\ \A k \in 1 .. Len(entries) : entries'[k] = entries[k]
        /\ entries'[Len(entries) + 1] = e
    BY <1>1, <1>3
  <2> QED
    BY <1>1, <1>3, <2>1, <2>2, <2>3
<1>4. ASSUME NEW s \in Sequences, entries' = Append(entries, Entry(s, 1, FALSE))
      PROVE  \A k \in DOMAIN entries' : Fits(entries'[k])
  <2>1. Entry(s, 1, FALSE) \in Entries /\ Fits(Entry(s, 1, FALSE))
    BY DEF Entry, Entries
  <2> QED
    BY <1>3, <1>4, <2>1
<1>5. ASSUME NEW s \in Sequences, NEW n \in Nat, n =< max_prefill_chunk,
             entries' = Append(entries, Entry(s, n, TRUE))
      PROVE  \A k \in DOMAIN entries' : Fits(entries'[k])
  <2>1. Entry(s, n, TRUE) \in Entries /\ Fits(Entry(s, n, TRUE))
    BY <1>5 DEF Entry, Entries
  <2> QED
    BY <1>3, <1>5, <2>1
<1> QED
  BY <1>2, <1>4, <1>5, EntriesStep

LEMMA BatchStep == Known /\ BucketsInv /\ TokensBudgeted /\ [Next]_vars
                     => BucketsInv' /\ TokensBudgeted'
<1> SUFFICES ASSUME Known, BucketsInv, TokensBudgeted, [Next]_vars
             PROVE  BucketsInv' /\ TokensBudgeted'
  OBVIOUS
<1>1. Len(running') =< max_running /\ cap' \in {0, max_running}
  BY RunningStep
<1>2. /\ At("decodes")' => Len(entries') =< index' - 1 /\ index' - 1 =< max_running
      /\ Cardinality(DecodeEntries') =< max_running
  BY DecodesStep
<1>3. \A k \in DOMAIN entries' :
        entries'[k].is_prefill_chunk => entries'[k].n_tokens =< max_prefill_chunk
  BY ChunksStep
<1>4. TokensBudgeted'
  BY TokensBudgetedStep
<1> QED
  BY <1>1, <1>2, <1>3, <1>4 DEF BucketsInv, max_prefill_chunk

\* An iteration's tokens fit the buckets the engine captured graphs for, whatever
\* was preempted, blocked or passed over while it was planned.
THEOREM BatchesFit == Spec => []BatchFitsBuckets
<1>1. Init => BucketsInv /\ TokensBudgeted
  <2> SUFFICES ASSUME Init PROVE BucketsInv /\ TokensBudgeted
    OBVIOUS
  <2>1. entries = <<>> /\ running = <<>> /\ phase = "drain" /\ cap = 0
    BY DEF Init
  <2>2. DecodeEntries = {} /\ PrefillTokens = 0
    BY <2>1, PrefillOfEmpty DEF DecodeEntries, PrefillTokens
  <2>3. Cardinality(DecodeEntries) = 0
    BY <2>2, FS_EmptySet
  <2> QED
    BY <2>1, <2>2, <2>3, SchedulerAssumption DEF BucketsInv, TokensBudgeted, At
<1>2. Spec => []Known
  BY PlanInvariance DEF Known
<1>3. BucketsInv /\ TokensBudgeted => BatchFitsBuckets
  BY DEF BucketsInv, TokensBudgeted, BatchFitsBuckets, DecodeEntries
<1> QED
  BY <1>1, <1>2, <1>3, BatchStep, PTL DEF Spec
-----------------------------------------------------------------------------
(* A static batch *)

\* The sequences whose first chunk is in the plan.
Joining == {s \in Range(running) :
  \E k \in 1 .. Len(entries) : /\ entries[k].seq_id = s /\ entries[k].is_prefill_chunk
                               /\ entries[k].n_tokens = prefill_progress[s]}

\* Nobody has joined before the admissions, and then either the cap is 0 because
\* somebody is running, or everybody who runs has just joined.
StaticInv ==
  scheduler = "static" =>
    /\ At("continuations") => Joining = {}
    /\ At("admissions") => IF cap = 0 THEN Joining = {} ELSE Joining = Range(running)
    /\ phase \in {"rejects", "in_flight"} => Joining \in {{}, Range(running)}

\* A chunk that continues a prefill is not a first chunk.
LEMMA ContinuationDoesNotJoin ==
  ASSUME Known, PlanContinuation
  PROVE  Joining' \subseteq Joining
<1>1. TypeOK /\ SlotsMatchTokens /\ ProgressBounded /\ PlanConsistent'
  BY PlanContinuationPlan DEF Known, IInv, PlanInv
<1> DEFINE s == running[index]
           n == Chunk(s)
           e == Entry(s, n, TRUE)
<1>2. s \in Sequences
  BY <1>1, TurnType DEF PlanContinuation
<1>3. /\ status[s] = "PREFILLING" /\ n \in Nat
      /\ entries' = Append(entries, e)
      /\ prefill_progress' = [prefill_progress EXCEPT ![s] = @ + n]
      /\ UNCHANGED running
  BY <1>1, <1>2, ChunkBounds DEF PlanContinuation, Continuing, AdvancePrefill, queue_vars
<1> HIDE DEF s, n
<1>4. prefill_progress[s] \in Nat \ {0} /\ prefill_progress \in [Sequences -> Nat]
  <2>1. prefill_progress \in [Sequences -> Nat] /\ num_tokens(s) \in Nat
    BY <1>1, <1>2, TokensType DEF TypeOK
  <2>2. prefill_progress[s] \in 1 .. num_tokens(s) - 1
    BY <1>1, <1>2, <1>3 DEF SlotsMatchTokens
  <2> QED
    BY <2>1, <2>2
<1>5. e \in Entries /\ e.seq_id = s /\ e.n_tokens = n
  BY <1>2, <1>3 DEF Entry, Entries
<1> HIDE DEF e
<1>6. /\ Len(entries) \in Nat /\ Len(entries') = Len(entries) + 1
      /\ \A k \in 1 .. Len(entries) : entries'[k] = entries[k]
      /\ entries'[Len(entries) + 1] = e
  BY <1>1, <1>3, <1>5 DEF TypeOK
<1> SUFFICES ASSUME NEW t \in Joining' PROVE t \in Joining
  OBVIOUS
<1>7. PICK k \in 1 .. Len(entries') : /\ entries'[k].seq_id = t /\ entries'[k].is_prefill_chunk
                                      /\ entries'[k].n_tokens = prefill_progress'[t]
  BY DEF Joining
<1>8. t \in Range(running)
  BY <1>3 DEF Joining
<1>9. t # s
  <2> SUFFICES ASSUME t = s PROVE FALSE
    OBVIOUS
  <2>1. Len(entries) + 1 \in 1 .. Len(entries')
    BY <1>6
  <2>2. entries'[Len(entries) + 1].seq_id = entries'[k].seq_id
    BY <1>5, <1>6, <1>7
  <2>3. k = Len(entries) + 1
    BY <1>1, <1>7, <2>1, <2>2 DEF PlanConsistent
  <2>4. n = prefill_progress'[s]
    BY <1>5, <1>6, <1>7, <2>3
  <2>5. prefill_progress'[s] = prefill_progress[s] + n
    BY <1>2, <1>3, <1>4
  <2> QED
    BY <1>3, <1>4, <2>4, <2>5
<1>10. k # Len(entries) + 1 /\ k \in 1 .. Len(entries)
  <2>1. k # Len(entries) + 1
    BY <1>5, <1>6, <1>7, <1>9
  <2> QED
    BY <1>6, <1>7, <2>1
<1>11. running \in Seq(Sequences) /\ t \in Sequences
  BY <1>1, <1>8 DEF TypeOK, Range
<1>12. prefill_progress'[t] = prefill_progress[t]
  BY <1>3, <1>4, <1>9, <1>11
<1> QED
  BY <1>6, <1>7, <1>8, <1>10, <1>12 DEF Joining

\* Who is admitted joins, and who had joined has.
LEMMA AdmittedJoins ==
  ASSUME Known, Admit, Joining = Range(running)
  PROVE  Joining' = Range(running')
<1>1. TypeOK /\ SlotsMatchTokens /\ ProgressBounded /\ OnePlace /\ running \in Seq(Sequences)
      /\ IsInjective(running)
  BY DEF Known, IInv, PlanInv, TypeOK, OnePlace
<1> DEFINE s == waiting[index]
           n == Chunk(s)
           e == Entry(s, n, TRUE)
<1>2. s \in Sequences /\ s \in Range(waiting)
  <2>1. index \in 1 .. Len(waiting) /\ waiting \in Seq(Sequences)
    BY <1>1 DEF Admit, MoreAdmissions, Turn, TypeOK
  <2> QED
    BY <2>1 DEF Range
<1>3. /\ n \in Nat
      /\ entries' = Append(entries, e)
      /\ prefill_progress' = [prefill_progress EXCEPT ![s] = @ + n]
      /\ running' = Append(running, s)
  BY <1>1, <1>2, ChunkBounds DEF Admit, Candidate, AdvancePrefill
<1> HIDE DEF s, n
<1>4. status[s] = "WAITING" /\ prefill_progress[s] = 0 /\ s \notin Range(running)
  BY <1>1, <1>2 DEF OnePlace, SlotsMatchTokens, Live
<1>5. e \in Entries /\ e.seq_id = s /\ e.n_tokens = n /\ e.is_prefill_chunk
  BY <1>2, <1>3 DEF Entry, Entries
<1> HIDE DEF e
<1>6. /\ Len(entries) \in Nat /\ Len(entries') = Len(entries) + 1
      /\ \A k \in 1 .. Len(entries) : entries'[k] = entries[k]
      /\ entries'[Len(entries) + 1] = e
  BY <1>1, <1>3, <1>5 DEF TypeOK
<1>7. Range(running') = Range(running) \cup {s}
  BY <1>1, <1>2, <1>3, <1>4, AppendToInjective
<1>8. prefill_progress'[s] = n
  BY <1>1, <1>2, <1>3, <1>4 DEF TypeOK
<1>9. s \in Joining'
  <2>1. Len(entries) + 1 \in 1 .. Len(entries') /\ s \in Range(running')
    BY <1>6, <1>7
  <2> QED
    BY <1>5, <1>6, <1>8, <2>1 DEF Joining
<1>10. ASSUME NEW t \in Range(running) PROVE t \in Joining'
  <2>1. PICK k \in 1 .. Len(entries) : /\ entries[k].seq_id = t /\ entries[k].is_prefill_chunk
                                       /\ entries[k].n_tokens = prefill_progress[t]
    BY DEF Joining
  <2>2. t # s /\ t \in Sequences
    BY <1>1, <1>4 DEF Range
  <2>3. prefill_progress'[t] = prefill_progress[t]
    BY <1>1, <1>3, <2>2 DEF TypeOK
  <2>4. k \in 1 .. Len(entries') /\ entries'[k] = entries[k] /\ t \in Range(running')
    BY <1>6, <1>7
  <2> QED
    BY <2>1, <2>3, <2>4 DEF Joining
<1>11. Joining' \subseteq Range(running')
  BY DEF Joining
<1> QED
  BY <1>7, <1>9, <1>10, <1>11

\* Nobody joins or leaves where plan, progress and `running` stay.
LEMMA JoiningStays ==
  ASSUME UNCHANGED <<entries, prefill_progress>>, Range(running') = Range(running)
  PROVE  Joining' = Joining
BY DEF Joining

LEMMA StaticStep ==
  Known /\ StaticInv /\ [Next]_vars => StaticInv'
<1> SUFFICES ASSUME Known, StaticInv, [Next]_vars, scheduler = "static"
             PROVE  /\ phase' = "continuations" => Joining' = {}
                    /\ phase' = "admissions" =>
                         IF cap' = 0 THEN Joining' = {} ELSE Joining' = Range(running')
                    /\ phase' \in {"rejects", "in_flight"} => Joining' \in {{}, Range(running')}
  BY DEF StaticInv, At
<1>1. /\ phase = "continuations" => Joining = {}
      /\ phase = "admissions" => IF cap = 0 THEN Joining = {} ELSE Joining = Range(running)
      /\ phase \in {"rejects", "in_flight"} => Joining \in {{}, Range(running)}
  BY DEF StaticInv, At
<1>2. TypeOK /\ OnePlace /\ CursorInv
  BY DEF Known, IInv, PlanInv
<1>3. CASE BeginStep \/ SkipDecode \/ PlanDecode \/ PreemptForDecode \/ Forward \/ NoResult
           \/ EndIteration \/ AbortEntry \/ (\E stop \in BOOLEAN : ApplyResult(stop))
           \/ (\E s \in Sequences : Arrive(s))
  BY <1>3 DEF BeginStep, SkipDecode, PlanDecode, PreemptForDecode, Forward, NoResult,
     EndIteration, AbortEntry, ApplyResult, Arrive, GoTo, Step, At
<1>4. ASSUME UNCHANGED <<entries, prefill_progress, running>>
      PROVE  Joining' = Joining
  BY <1>4, JoiningStays
<1>5. CASE EndDecodes
  <2>1. /\ phase = "decodes" /\ phase' = "continuations"
        /\ UNCHANGED <<entries, prefill_progress, running>>
    BY <1>5 DEF EndDecodes, At, GoTo, seq_vars, queue_vars, plan_vars
  <2>2. Joining = {}
    BY <1>2, <2>1 DEF CursorInv, At, Joining
  <2> QED
    BY <1>4, <2>1, <2>2
<1>6. CASE SkipContinuation \/ PassOver \/ Reject \/ UNCHANGED vars
  <2>1. UNCHANGED <<entries, prefill_progress, running, phase, cap>>
    BY <1>6 DEF SkipContinuation, PassOver, Reject, vars, seq_vars, queue_vars, plan_vars,
       loop_vars, Step
  <2> QED
    BY <1>1, <1>4, <2>1
<1>7. CASE PlanContinuation
  <2>1. phase = "continuations" /\ phase' = phase
    BY <1>7 DEF PlanContinuation, At, Step
  <2> QED
    BY <1>1, <1>7, <2>1, ContinuationDoesNotJoin
<1>8. CASE BlockContinuation \/ EndContinuations
  <2>1. /\ phase = "continuations" /\ phase' = "admissions" /\ cap' = admission_cap
        /\ UNCHANGED <<entries, prefill_progress, running>>
    BY <1>8 DEF BlockContinuation, EndContinuations, At, GoTo, seq_vars, queue_vars, plan_vars
  <2>2. Joining' = {}
    BY <1>1, <1>4, <2>1
  <2>3. cap' # 0 => running' = <<>>
    BY <2>1 DEF admission_cap
  <2>4. running' = <<>> => Range(running') = {}
    BY DEF Range
  <2> QED
    BY <2>1, <2>2, <2>3, <2>4
<1>9. CASE Admit
  <2>1. /\ phase = "admissions" /\ phase' = phase /\ cap' = cap /\ Len(running) < cap
    BY <1>9 DEF Admit, At, MoreAdmissions
  <2>2. cap # 0
    <3>1. Len(running) \in Nat
      BY <1>2 DEF TypeOK
    <3> QED
      BY <2>1, <3>1
  <2> QED
    BY <1>1, <1>9, <2>1, <2>2, AdmittedJoins
<1>10. CASE EndAdmissions
  <2>1. /\ phase = "admissions" /\ phase' = "rejects"
        /\ UNCHANGED <<entries, prefill_progress, running>>
    BY <1>10 DEF EndAdmissions, At, GoTo, seq_vars, queue_vars, plan_vars
  <2> QED
    BY <1>1, <1>4, <2>1
<1>11. CASE AbortRejected
  <2> DEFINE s == rejected[index]
  <2>1. /\ phase = "rejects" /\ phase' = phase /\ UNCHANGED <<entries, prefill_progress>>
        /\ running' = RemoveFirst(running, s)
    BY <1>11 DEF AbortRejected, At, Step, EndAs, plan_vars
  <2>2. s \in ToReject /\ s \in Sequences
    <3>1. index \in 1 .. Len(rejected) /\ rejected \in Seq(Sequences)
      BY <1>2, <1>11 DEF AbortRejected, Turn, TypeOK
    <3>2. index \in index .. Len(rejected)
      BY <3>1
    <3> QED
      BY <2>1, <3>1, <3>2 DEF ToReject, At
  <2> HIDE DEF s
  <2>3. s \notin Range(running)
    BY <1>2, <2>2 DEF OnePlace, Live
  <2>4. Range(running') = Range(running) \ {s}
    <3>1. running \in Seq(Sequences) /\ IsInjective(running)
      BY <1>2 DEF TypeOK, OnePlace
    <3> QED
      BY <2>1, <3>1, RemoveFirstOfInjective
  <2>5. Range(running') = Range(running) /\ Joining' = Joining
    BY <2>1, <2>3, <2>4, JoiningStays
  <2> QED
    BY <1>1, <2>1, <2>5
<1>12. CASE HandOver
  <2>1. /\ phase = "rejects" /\ UNCHANGED <<entries, prefill_progress, running>>
        /\ phase' \in {"blocked", "in_flight"}
    BY <1>12 DEF HandOver, At, GoTo, seq_vars, queue_vars
  <2> QED
    BY <1>1, <1>4, <2>1
<1> QED
  BY <1>3, <1>5, <1>6, <1>7, <1>8, <1>9, <1>10, <1>11, <1>12
     DEF Next, SchedulerStep, Outcome

\* With the static policy the worker is given either a batch that starts together
\* or one that nobody has joined since it started.
THEOREM StaticBatchesStartTogether == Spec => []StaticBatchTogether
<1>1. Init => StaticInv
  BY DEF Init, StaticInv, At
<1>2. Spec => []Known
  BY PlanInvariance DEF Known
<1>3. Known /\ StaticInv => StaticBatchTogether
  <2> SUFFICES ASSUME Known, StaticInv, scheduler = "static", phase = "in_flight"
               PROVE  {s \in Range(running) :
                         \E e \in Pending : /\ e.seq_id = s /\ e.is_prefill_chunk
                                            /\ e.n_tokens = prefill_progress[s]}
                      \in {{}, Range(running)}
    BY DEF StaticBatchTogether, At
  <2>1. Pending = {entries[k] : k \in 1 .. Len(entries)}
    BY DEF Pending, At
  <2>2. Joining = {s \in Range(running) :
                     \E e \in Pending : /\ e.seq_id = s /\ e.is_prefill_chunk
                                        /\ e.n_tokens = prefill_progress[s]}
    BY <2>1 DEF Joining
  <2>3. Joining \in {{}, Range(running)}
    BY DEF StaticInv
  <2> QED
    BY <2>2, <2>3
<1> QED
  BY <1>1, <1>2, <1>3, StaticStep, PTL DEF Spec
=============================================================================
