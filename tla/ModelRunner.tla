----------------------------- MODULE ModelRunner ------------------------------
(***************************************************************************)
(* ModelRunner: where a forward pass writes keys and values and what its   *)
(* attention reads back.  With a paged pool a sequence's keys and values   *)
(* lie in the blocks of its table; a decode graph reads the tables through *)
(* a copy of its own, of which it only refreshes what it believes is new.  *)
(* Without a pool each sequence has a buffer (_past_key_values, _kv_cache) *)
(* that a pass extends; buffers do not look at the tables, so that it is   *)
(* the paged allocator here that counts the slots makes no difference.     *)
(*                                                                         *)
(* A key/value pair is <<sequence, token, position>>: whose token it was   *)
(* computed from, which of its tokens, and at which position.              *)
(*                                                                         *)
(* Which sequences an iteration runs is left open: any admission, chunk,   *)
(* decode or preemption module Scheduler could choose, and more.           *)
(***************************************************************************)
EXTENDS BlockAllocator, FiniteSetsExt

CONSTANTS
  decode_buckets,   \* batch sizes with a captured decode graph
  PromptLengths,    \* lengths a prompt may have
  MaxLength,        \* bound: prompt plus max_tokens
  NoSeq             \* a graph row that records no sequence

ASSUME ModelRunnerAssumption ==
  /\ decode_buckets \subseteq Nat \ {0}
  /\ MaxLength \in Nat
  /\ PromptLengths \subseteq 1 .. MaxLength
  /\ NoSeq \notin Sequence
  /\ MaxNewTokens > 0

VARIABLES
  paged,             \* configuration: custom kernels, so the pool is allocated
  length,            \* Sequence.num_tokens: prompt plus generated
  prefill_progress,
  status,            \* WAITING PREFILLING DECODING ENDED
  plan,              \* entries of the iteration
  freed,             \* sequences model_runner.free is still to be called for
  pool,              \* pool[block][offset]
  graphs,            \* graphs[bucket][row]: occupant, blocks written, block_table row
  buffer,            \* buffer[s]: the sequence's own keys and values
  attended,          \* attended[s]: what the last pass read for s, in order
  phase              \* planning forward results failed

seq_state == <<length, prefill_progress, status>>
kv_state == <<pool, graphs, buffer, attended>>
rvars == <<vars, paged, seq_state, kv_state, plan, freed, phase>>
-----------------------------------------------------------------------------
_scratch_block_idMut_LastBlock == num_blocks - 1

\* One block beyond those the allocator hands out.
_scratch_block_id == num_blocks

Nothing == <<NoSeq, 0, 0>>

\* A captured graph has been run on dummy input: its rows name no sequence.
FreshRow == [seq_id |-> NoSeq, written |-> 0,
             block_table |-> [k \in 1 .. num_blocks |-> _scratch_block_id]]

RunnerInit ==
  /\ Init
  /\ paged \in BOOLEAN
  /\ length \in [Sequence -> PromptLengths]
  /\ prefill_progress = [s \in Sequence |-> 0]
  /\ status = [s \in Sequence |-> "WAITING"]
  /\ plan = <<>>
  /\ freed = {}
  /\ pool = [b \in 0 .. num_blocks |-> [k \in 0 .. block_size - 1 |-> Nothing]]
  /\ graphs = [b \in decode_buckets |-> [row \in 1 .. b |-> FreshRow]]
  /\ buffer = [s \in Sequence |-> <<>>]
  /\ attended = <<>>
  /\ phase = "planning"
-----------------------------------------------------------------------------
(* What a scheduler step does to the sequences *)

Planned == {plan[k].seq_id : k \in DOMAIN plan}

Add(s, n, is_prefill) ==
  plan' = Append(plan, [seq_id |-> s, n_tokens |-> n, is_prefill_chunk |-> is_prefill])

\* An admission of a WAITING sequence, or the next chunk of a PREFILLING one.
PrefillChunk(s, n) ==
  /\ phase = "planning" /\ s \notin Planned
  /\ status[s] \in {"WAITING", "PREFILLING"}
  /\ prefill_progress[s] + n =< length[s]
  /\ Allocate(s, n, 0)
  /\ Add(s, n, TRUE)
  /\ prefill_progress' = [prefill_progress EXCEPT ![s] = @ + n]
  /\ status' = [status EXCEPT ![s] =
       IF prefill_progress[s] + n = length[s] THEN "DECODING" ELSE "PREFILLING"]
  /\ UNCHANGED <<paged, length, freed, kv_state, phase>>

Decode(s) ==
  /\ phase = "planning" /\ s \notin Planned
  /\ status[s] = "DECODING"
  /\ Allocate(s, 1, 0)
  /\ Add(s, 1, FALSE)
  /\ UNCHANGED <<paged, seq_state, freed, kv_state, phase>>

\* The table is freed at once and its blocks may be taken again in this very
\* step; model_runner.free comes after the step.
Preempt(s) ==
  /\ phase = "planning" /\ s \notin Planned
  /\ status[s] \in {"PREFILLING", "DECODING"}
  /\ Free(s)
  /\ prefill_progress' = [prefill_progress EXCEPT ![s] = 0]
  /\ status' = [status EXCEPT ![s] = "WAITING"]
  /\ freed' = freed \cup {s}
  /\ UNCHANGED <<paged, length, plan, kv_state, phase>>

forgetMut_FirstGraphOnly(rows, gone) ==
  [b \in DOMAIN rows |-> [row \in DOMAIN rows[b] |->
     IF b = 1 /\ rows[b][row].seq_id \in gone
     THEN [rows[b][row] EXCEPT !.seq_id = NoSeq] ELSE rows[b][row]]]

\* DecodeGraphRunner.forget: every row of every graph that records the sequence.
forget(rows, gone) ==
  [b \in DOMAIN rows |-> [row \in DOMAIN rows[b] |->
     IF rows[b][row].seq_id \in gone
     THEN [rows[b][row] EXCEPT !.seq_id = NoSeq] ELSE rows[b][row]]]

\* ModelRunner.free, for every sequence of `freed`.
DropFreed ==
  /\ graphs' = forget(graphs, freed)
  /\ buffer' = [s \in Sequence |-> IF s \in freed THEN <<>> ELSE buffer[s]]
  /\ freed' = {}

\* The step is over: preempted sequences are dropped and the plan, if it has
\* entries, goes to the worker.
HandOver ==
  /\ phase = "planning"
  /\ freed # {} \/ plan # <<>>
  /\ DropFreed
  /\ phase' = IF plan = <<>> THEN "planning" ELSE "forward"
  /\ UNCHANGED <<vars, paged, seq_state, pool, attended, plan>>
-----------------------------------------------------------------------------
(* forward *)

\* _flat_rows: the first position of an entry, which is its first token too.
start_pos(e) ==
  IF e.is_prefill_chunk THEN prefill_progress[e.seq_id] - e.n_tokens
                        ELSE length[e.seq_id] - 1

\* _paging_rows: the slots the entry had before this pass.
cached(e) == num_tokens[e.seq_id] - e.n_tokens

\* The pair an entry computes for the i-th of its tokens, counting from 0.
Computed(e, i) == <<e.seq_id, start_pos(e) + i, start_pos(e) + i>>

\* A graph takes its positions from the tables.
ComputedInGraph(e) == <<e.seq_id, length[e.seq_id] - 1, num_tokens[e.seq_id] - 1>>

\* Where an entry's i-th token is written.
dest(e, i) ==
  LET pos == cached(e) + i
  IN <<physical_blocks[e.seq_id][(pos \div block_size) + 1], pos % block_size>>

\* The slots the plan's tokens go to, each with the pair it gets.  Padding rows of
\* a graph hold token 0 at position 0 and go to the scratch block.
Written(in_graph, padding) ==
  LET rows == {r \in Range(plan) \X (0 .. MaxNewTokens - 1) : r[2] < r[1].n_tokens} IN
  [slot \in {dest(r[1], r[2]) : r \in rows}
              \cup (IF padding THEN {<<_scratch_block_id, 0>>} ELSE {}) |->
     IF padding /\ slot = <<_scratch_block_id, 0>> THEN Nothing
     ELSE LET r == CHOOSE r \in rows : dest(r[1], r[2]) = slot
          IN IF in_graph THEN ComputedInGraph(r[1]) ELSE Computed(r[1], r[2])]

WritePool(written) ==
  pool' = [b \in DOMAIN pool |-> [k \in DOMAIN pool[b] |->
             IF <<b, k>> \in DOMAIN written THEN written[<<b, k>>] ELSE pool[b][k]]]

\* What attention reads for entry e through a block table: positions up to the
\* tokens that have a slot, this pass's included, after every write.
ReadPool(e, table) ==
  [k \in 1 .. num_tokens[e.seq_id] |->
     pool'[table[((k - 1) \div block_size) + 1]][(k - 1) % block_size]]

RowOf(s) == CHOOSE k \in DOMAIN plan : plan[k].seq_id = s

EntryOf(s) == plan[RowOf(s)]

OnlyDecodes == \A e \in Range(plan) : ~e.is_prefill_chunk

\* bucket_for: the smallest captured bucket that holds the plan.
BucketsFor == {b \in decode_buckets : b >= Len(plan)}

\* _fill_real, one row: only the cells it does not believe to be there already.
FillRow(row, s) ==
  LET fresh == IF row.seq_id = s THEN row.written ELSE 0 IN
  [seq_id |-> s,
   written |-> Len(physical_blocks[s]),
   block_table |-> [k \in 1 .. num_blocks |->
     IF fresh < k /\ k =< Len(physical_blocks[s]) THEN physical_blocks[s][k]
                                                  ELSE row.block_table[k]]]

FillReal(bucket) ==
  graphs' = [graphs EXCEPT ![bucket] =
    [row \in DOMAIN @ |-> IF row =< Len(plan) THEN FillRow(@[row], plan[row].seq_id) ELSE @[row]]]

\* A decode graph takes a plan of decodes that fits one.
Replay ==
  /\ phase = "forward" /\ paged
  /\ OnlyDecodes /\ BucketsFor # {}
  /\ LET bucket == Min(BucketsFor) IN
     /\ FillReal(bucket)
     /\ WritePool(Written(TRUE, bucket > Len(plan)))
     /\ attended' = [s \in Planned |->
                     ReadPool(EntryOf(s), graphs'[bucket][RowOf(s)].block_table)]
  /\ phase' = "results"
  /\ UNCHANGED <<vars, paged, seq_state, buffer, plan, freed>>

\* forward_fused, or piecewise graphs, whose token count may be padded: attention
\* reads the tables themselves.
ForwardPaged ==
  /\ phase = "forward" /\ paged
  /\ ~OnlyDecodes \/ BucketsFor = {}
  /\ \E padding \in BOOLEAN : WritePool(Written(FALSE, padding))
  /\ attended' = [s \in Planned |-> ReadPool(EntryOf(s), physical_blocks[s])]
  /\ phase' = "results"
  /\ UNCHANGED <<vars, paged, seq_state, graphs, buffer, plan, freed>>

Extended(e) == buffer[e.seq_id] \o [i \in 1 .. e.n_tokens |-> Computed(e, i - 1)]

\* _forward_hf and contiguous_attention: each entry extends its own buffer.
ForwardBuffered ==
  /\ phase = "forward" /\ ~paged
  /\ attended' = [s \in Planned |-> Extended(EntryOf(s))]
  /\ buffer' = [s \in Sequence |-> IF s \in Planned THEN attended'[s] ELSE buffer[s]]
  /\ phase' = "results"
  /\ UNCHANGED <<vars, paged, seq_state, pool, graphs, plan, freed>>

\* forward raises with the device still usable.  A prefix of the entries may have
\* been computed, and a graph's rows may say more than its table holds.
ForwardFails ==
  /\ phase = "forward"
  /\ phase' = "failed"
  /\ attended' = <<>>
  /\ \E reached \in 0 .. Len(plan) :
       LET Reached(s) == \E k \in 1 .. reached : plan[k].seq_id = s
       IN
       IF ~paged
       THEN /\ buffer' = [s \in Sequence |-> IF Reached(s) THEN Extended(EntryOf(s)) ELSE buffer[s]]
            /\ UNCHANGED <<pool, graphs>>
       ELSE /\ UNCHANGED pool \/ WritePool(Written(FALSE, FALSE))
            /\ graphs' = [b \in decode_buckets |-> [row \in 1 .. b |->
                 IF OnlyDecodes /\ BucketsFor # {} /\ b = Min(BucketsFor) /\ row =< reached
                 THEN [graphs[b][row] EXCEPT !.seq_id = plan[row].seq_id,
                                             !.written = Len(physical_blocks[plan[row].seq_id])]
                 ELSE graphs[b][row]]]
            /\ UNCHANGED buffer
  /\ UNCHANGED <<vars, paged, seq_state, plan, freed>>
-----------------------------------------------------------------------------
(* What the outcome does to the sequences *)

owes_token(e) == ~(e.is_prefill_chunk /\ status[e.seq_id] = "PREFILLING")

\* A sequence ends, finished or aborted: its table is freed, and model_runner.free
\* is called for it once the whole outcome is folded in.
End(s) ==
  /\ Free(s)
  /\ status' = [status EXCEPT ![s] = "ENDED"]
  /\ freed' = freed \cup {s}

\* handle_iteration_results, for the next entry.
ApplyResult ==
  /\ phase = "results" /\ plan # <<>>
  /\ LET e == Head(plan)
         s == e.seq_id
     IN
     IF owes_token(e)
     THEN /\ length' = [length EXCEPT ![s] = @ + 1]
          /\ \/ End(s)
             \/ length[s] + 1 < MaxLength /\ UNCHANGED <<vars, status, freed>>
     ELSE UNCHANGED <<vars, length, status, freed>>
  /\ plan' = Tail(plan)
  /\ attended' = <<>>
  /\ UNCHANGED <<paged, prefill_progress, pool, graphs, buffer, phase>>

AbortEntry ==
  /\ phase = "failed" /\ plan # <<>>
  /\ End(Head(plan).seq_id)
  /\ plan' = Tail(plan)
  /\ UNCHANGED <<paged, length, prefill_progress, kv_state, phase>>

EndIteration ==
  /\ phase \in {"results", "failed"} /\ plan = <<>>
  /\ DropFreed
  /\ phase' = "planning"
  /\ UNCHANGED <<vars, paged, seq_state, pool, attended, plan>>

RunnerNext ==
  \/ \E s \in Sequence :
       \/ \E n \in 1 .. MaxNewTokens : PrefillChunk(s, n)
       \/ Decode(s)
       \/ Preempt(s)
  \/ HandOver
  \/ Replay \/ ForwardPaged \/ ForwardBuffered \/ ForwardFails
  \/ ApplyResult \/ AbortEntry \/ EndIteration

RunnerSpec == RunnerInit /\ [][RunnerNext]_rvars
-----------------------------------------------------------------------------
\* Attention reads, for every sequence of the batch, that sequence's own tokens
\* from the first to the one being computed, each once, at its own position: not
\* what a block held for its previous owner, nor a block that has moved.
AttendsOwnTokens ==
  \A s \in DOMAIN attended :
    /\ Len(attended[s]) = num_tokens[s]
    /\ \A k \in 1 .. Len(attended[s]) : attended[s][k] = <<s, k - 1, k - 1>>

\* A graph row that records a sequence holds the start of its block table, so
\* that only new blocks need writing; a row may be stale only between a failed
\* pass and the end of the sequences it ran, or until model_runner.free is called.
\* Of an ended sequence no row and no buffer stays: its id never comes back, so
\* nothing would ever remove it.
RowsAreFresh ==
  \A s \in Sequence \ freed :
    LET rows == UNION {{graphs[b][row] : row \in 1 .. b} : b \in decode_buckets}
        own == {r \in rows : r.seq_id = s}
    IN
    /\ status[s] = "ENDED" => own = {} /\ buffer[s] = <<>>
    /\ phase # "failed" => \A r \in own :
         /\ r.written =< Len(physical_blocks[s])
         /\ \A k \in 1 .. r.written : r.block_table[k] = physical_blocks[s][k]
=============================================================================
