----------------------------- MODULE KVAllocator -----------------------------
(***************************************************************************)
(* What the scheduler sees of an allocator: how much of the pool is free,  *)
(* how much each sequence holds and how many of its tokens have a slot.    *)
(* The unit is a block for the paged allocator and a token slot for the    *)
(* contiguous one, which reserves a sequence's whole lifetime at once.     *)
(*                                                                         *)
(* Every decision of BlockAllocator and of ContiguousAllocator depends on  *)
(* these three numbers only.  Which block goes where is the business of    *)
(* module BlockAllocator, which implements this one.                       *)
(***************************************************************************)
EXTENDS Integers

CONSTANTS
  Sequences,     \* ids of the sequences, in the order they are submitted
  kv_allocator,  \* "paged" or "contiguous"
  num_blocks,    \* size of the pool in blocks
  block_size     \* token slots of a block

ASSUME KVAllocatorAssumption ==
  /\ kv_allocator \in {"paged", "contiguous"}
  /\ num_blocks \in Nat
  /\ block_size \in Nat \ {0}

VARIABLES
  free,   \* len(free_blocks), or capacity_tokens - used_tokens
  held,   \* held[s]: len(physical_blocks), or reserved_tokens
  slots   \* slots[s]: the table's num_tokens

kv_vars == <<free, held, slots>>
-----------------------------------------------------------------------------
Paged == kv_allocator = "paged"

Capacity == IF Paged THEN num_blocks ELSE num_blocks * block_size

BlocksFor(tokens) == (tokens + block_size - 1) \div block_size

\* Growth asked of the pool to give s new_tokens more slots.  Reservation is the
\* prompt plus max_tokens of s: the contiguous allocator takes it the first time.
needed(s, new_tokens, reservation) ==
  IF Paged THEN BlocksFor(slots[s] + new_tokens) - held[s]
           ELSE IF held[s] = 0 THEN reservation ELSE 0

CanAllocateMut_OfWholePool(s, new_tokens, reservation, decode_reserve) ==
  needed(s, new_tokens, reservation) + (IF Paged THEN decode_reserve ELSE 0) =< Capacity

CanAllocate(s, new_tokens, reservation, decode_reserve) ==
  needed(s, new_tokens, reservation) + (IF Paged THEN decode_reserve ELSE 0) =< free

Allocate(s, new_tokens, reservation, decode_reserve) ==
  /\ CanAllocate(s, new_tokens, reservation, decode_reserve)
  /\ free' = free - needed(s, new_tokens, reservation)
  /\ held' = [held EXCEPT ![s] = @ + needed(s, new_tokens, reservation)]
  /\ slots' = [slots EXCEPT ![s] = @ + new_tokens]

Free(s) ==
  /\ free' = free + held[s]
  /\ held' = [held EXCEPT ![s] = 0]
  /\ slots' = [slots EXCEPT ![s] = 0]

can_ever_fitMut_Always(num_tokens, reservation) == TRUE

can_ever_fitMut_Strict(num_tokens, reservation) ==
  IF Paged THEN BlocksFor(num_tokens + 1) < num_blocks
           ELSE reservation < Capacity

\* Whether a pool with nothing else in it takes the sequence and one more token.
can_ever_fit(num_tokens, reservation) ==
  IF Paged THEN BlocksFor(num_tokens + 1) =< num_blocks
           ELSE reservation =< Capacity

AllocatorInit ==
  /\ free = Capacity
  /\ held = [s \in Sequences |-> 0]
  /\ slots = [s \in Sequences |-> 0]

KVTypeOK ==
  /\ free \in Nat
  /\ held \in [Sequences -> Nat]
  /\ slots \in [Sequences -> Nat]
=============================================================================
