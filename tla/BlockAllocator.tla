---------------------------- MODULE BlockAllocator ----------------------------
(***************************************************************************)
(* The paged allocator with its blocks: a deque of free block ids and, per *)
(* sequence, the block table that maps token positions to blocks.  Any     *)
(* sequence may grow by any amount or give everything back at any time:    *)
(* the scheduler's discipline is not assumed.                              *)
(*                                                                         *)
(* Pool maps this state to module KVAllocator, the interface the scheduler *)
(* is modelled with.                                                       *)
(***************************************************************************)
EXTENDS Integers, Sequences, SequencesExt

CONSTANTS
  Sequence,        \* ids of the sequences that use the pool
  num_blocks,      \* blocks of the pool
  block_size,      \* token slots of a block
  MaxNewTokens,    \* bound: tokens one call asks for
  MaxReserve       \* bound: decode_reserve of one call

ASSUME BlockAllocatorAssumption ==
  /\ num_blocks \in Nat
  /\ block_size \in Nat \ {0}
  /\ MaxNewTokens \in Nat
  /\ MaxReserve \in Nat

VARIABLES
  free_blocks,      \* deque: taken from the left, returned on the right
  physical_blocks,  \* physical_blocks[s]: the blocks of s in position order
  num_tokens        \* num_tokens[s]: tokens of s that have a slot

vars == <<free_blocks, physical_blocks, num_tokens>>

Blocks == 0 .. num_blocks - 1
-----------------------------------------------------------------------------
Init ==
  /\ free_blocks = [k \in 1 .. num_blocks |-> k - 1]
  /\ physical_blocks = [s \in Sequence |-> <<>>]
  /\ num_tokens = [s \in Sequence |-> 0]

needed_blocksMut_Floor(s, new_tokens) ==
  (num_tokens[s] + new_tokens) \div block_size - Len(physical_blocks[s])

needed_blocksMut_IgnoresHeld(s, new_tokens) ==
  (new_tokens + block_size - 1) \div block_size

needed_blocks(s, new_tokens) ==
  (num_tokens[s] + new_tokens + block_size - 1) \div block_size - Len(physical_blocks[s])

AllocateMut_FromTail(s, new_tokens, decode_reserve) ==
  LET k == needed_blocks(s, new_tokens) IN
  /\ k + decode_reserve =< Len(free_blocks)
  /\ num_tokens' = [num_tokens EXCEPT ![s] = @ + new_tokens]
  /\ physical_blocks' = [physical_blocks EXCEPT ![s] = @ \o SubSeq(free_blocks, 1, k)]
  /\ free_blocks' = SubSeq(free_blocks, 1, Len(free_blocks) - k)

\* allocate: all or nothing; k blocks leave the head of the deque.
Allocate(s, new_tokens, decode_reserve) ==
  LET k == needed_blocks(s, new_tokens) IN
  /\ k + decode_reserve =< Len(free_blocks)
  /\ num_tokens' = [num_tokens EXCEPT ![s] = @ + new_tokens]
  /\ physical_blocks' = [physical_blocks EXCEPT ![s] = @ \o SubSeq(free_blocks, 1, k)]
  /\ free_blocks' = SubSeq(free_blocks, k + 1, Len(free_blocks))

FreeMut_LosesBlocks(s) ==
  /\ physical_blocks' = [physical_blocks EXCEPT ![s] = <<>>]
  /\ num_tokens' = [num_tokens EXCEPT ![s] = 0]
  /\ UNCHANGED free_blocks

Free(s) ==
  /\ free_blocks' = free_blocks \o physical_blocks[s]
  /\ physical_blocks' = [physical_blocks EXCEPT ![s] = <<>>]
  /\ num_tokens' = [num_tokens EXCEPT ![s] = 0]

Next ==
  \E s \in Sequence :
    \/ \E n \in 1 .. MaxNewTokens, r \in 0 .. MaxReserve : Allocate(s, n, r)
    \/ Free(s)

Spec == Init /\ [][Next]_vars
-----------------------------------------------------------------------------
TypeOK ==
  /\ free_blocks \in Seq(Blocks)
  /\ physical_blocks \in [Sequence -> Seq(Blocks)]
  /\ num_tokens \in [Sequence -> Nat]

\* No block is in two places: twice in the deque, twice in a table, in two
\* tables, or in a table and in the deque.  Two sequences that shared a block
\* would read each other's keys and values.
NoBlockTwice ==
  /\ IsInjective(free_blocks)
  /\ \A s \in Sequence : IsInjective(physical_blocks[s])
  /\ \A s \in Sequence : Range(physical_blocks[s]) \cap Range(free_blocks) = {}
  /\ \A s, t \in Sequence :
       s # t => Range(physical_blocks[s]) \cap Range(physical_blocks[t]) = {}

\* No block is lost: what no table holds is in the deque, so after every
\* sequence has been freed the whole pool can be handed out again.
NoBlockLost ==
  Blocks = Range(free_blocks) \cup UNION {Range(physical_blocks[s]) : s \in Sequence}

\* A table holds exactly the blocks its tokens need: position num_tokens - 1
\* has a block, and no block is kept beyond it.
TableCoversTokens ==
  \A s \in Sequence :
    LET k == Len(physical_blocks[s]) IN
    /\ num_tokens[s] =< k * block_size
    /\ k > 0 => num_tokens[s] > (k - 1) * block_size

Pool == INSTANCE KVAllocator WITH
          Sequences <- Sequence, kv_allocator <- "paged",
          free <- Len(free_blocks),
          held <- [s \in Sequence |-> Len(physical_blocks[s])],
          slots <- num_tokens

PoolNext ==
  \E s \in Sequence :
    \/ \E n \in 1 .. MaxNewTokens, r \in 0 .. MaxReserve : Pool!Allocate(s, n, 0, r)
    \/ Pool!Free(s)

\* The deque and the tables implement the counting interface the scheduler is
\* checked against: every call takes and returns as many blocks as it says.
ImplementsPool == Pool!AllocatorInit /\ [][PoolNext]_(Pool!kv_vars)
=============================================================================
