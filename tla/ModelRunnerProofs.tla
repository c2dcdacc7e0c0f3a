--------------------------- MODULE ModelRunnerProofs ---------------------------
(***************************************************************************)
(* For every pool, set of sequences and set of captured graphs: attention  *)
(* reads a sequence's own tokens, each once and at its own position, and a *)
(* graph's copy of a block table is never stale when it is read.           *)
(*                                                                         *)
(* The argument: no two positions of live sequences share a place of the   *)
(* pool, because no block is in two tables, a pass writes exactly the      *)
(* positions it was planned for, and everything before those was written   *)
(* by earlier passes, so the inductive invariant says of each sequence how *)
(* much of it is where attention will look.  A row that records a sequence *)
(* holds the start of its table because a table only grows until it is     *)
(* freed, and model_runner.free is called before the sequence is run again.*)
(***************************************************************************)
EXTENDS ModelRunner, Sums, SequenceTheorems
-----------------------------------------------------------------------------
(* The pool: a block is in exactly one place, tables hold exactly the      *)
(* blocks their tokens need, and BlockAllocator implements the counting    *)
(* interface of module KVAllocator.  The inductive invariant says how long *)
(* each table is: without that, needed_blocks could be negative and the    *)
(* deque would be sliced outside its domain.                               *)

BlocksOf(t) == (t + block_size - 1) \div block_size

\* A table is as long as its tokens require.
TableLength == \A s \in Sequence : Len(physical_blocks[s]) = BlocksOf(num_tokens[s])

IndInv == TypeOK /\ TableLength /\ NoBlockTwice /\ NoBlockLost
-----------------------------------------------------------------------------
\* More tokens never need fewer blocks, and no tokens need none.
LEMMA BlocksOfMonotonic ==
  ASSUME NEW t \in Nat, NEW n \in Nat
  PROVE  /\ BlocksOf(t) \in Nat
         /\ BlocksOf(t + n) \in Nat
         /\ BlocksOf(t) =< BlocksOf(t + n)
         /\ BlocksOf(0) = 0
<1>1. block_size \in Nat \ {0}
  BY BlockAllocatorAssumption
<1>2. ASSUME NEW a \in Nat, NEW c \in Nat, a =< c
      PROVE  a \div block_size \in Nat /\ a \div block_size =< c \div block_size
  BY <1>1, <1>2
<1>3. (block_size - 1) \div block_size = 0
  BY <1>1
<1>4. t + block_size - 1 \in Nat /\ t + n + block_size - 1 \in Nat
  BY <1>1
<1>5. t + block_size - 1 =< t + n + block_size - 1
  BY <1>1
<1> QED
  BY <1>1, <1>2, <1>3, <1>4, <1>5 DEF BlocksOf

\* Cutting a list without repetitions in two leaves two disjoint ones.
LEMMA CutInjective ==
  ASSUME NEW S, NEW f \in Seq(S), NEW k \in 0 .. Len(f), IsInjective(f)
  PROVE  LET left == SubSeq(f, 1, k)
             right == SubSeq(f, k + 1, Len(f))
         IN /\ left \in Seq(S) /\ right \in Seq(S)
            /\ Len(left) = k /\ Len(right) = Len(f) - k
            /\ IsInjective(left) /\ IsInjective(right)
            /\ Range(left) \cap Range(right) = {}
            /\ Range(left) \cup Range(right) = Range(f)
<1> DEFINE left == SubSeq(f, 1, k)
           right == SubSeq(f, k + 1, Len(f))
<1>1. /\ left \in Seq(S) /\ Len(left) = k
      /\ \A i \in 1 .. k : left[i] = f[i]
  OBVIOUS
<1>2. /\ right \in Seq(S) /\ Len(right) = Len(f) - k
      /\ \A i \in 1 .. Len(f) - k : right[i] = f[k + i]
  OBVIOUS
<1> HIDE DEF left, right
<1>3. DOMAIN f = 1 .. Len(f) /\ DOMAIN left = 1 .. k /\ DOMAIN right = 1 .. Len(f) - k
  BY <1>1, <1>2
<1>a. ASSUME NEW i \in DOMAIN left PROVE i \in DOMAIN f /\ left[i] = f[i] /\ i =< k
  BY <1>1, <1>3
<1>b. ASSUME NEW i \in DOMAIN right
      PROVE  k + i \in DOMAIN f /\ right[i] = f[k + i] /\ i \in Nat \ {0}
  BY <1>2, <1>3
<1>4. IsInjective(left) /\ IsInjective(right)
  <2>1. IsInjective(left)
    BY <1>a DEF IsInjective
  <2>2. ASSUME NEW i \in DOMAIN right, NEW j \in DOMAIN right, right[i] = right[j]
        PROVE  i = j
    <3>1. k + i = k + j
      BY <1>b, <2>2 DEF IsInjective
    <3> QED
      BY <3>1, <1>b
  <2> QED
    BY <2>1, <2>2 DEF IsInjective
<1>5. Range(left) \cap Range(right) = {}
  <2> SUFFICES ASSUME NEW i \in DOMAIN left, NEW j \in DOMAIN right, left[i] = right[j]
               PROVE  FALSE
    BY DEF Range
  <2>1. i = k + j
    BY <1>a, <1>b DEF IsInjective
  <2> QED
    BY <2>1, <1>a, <1>b
<1>6. ASSUME NEW x \in Range(f) PROVE x \in Range(left) \cup Range(right)
  <2>1. PICK i \in 1 .. Len(f) : x = f[i]
    BY <1>3 DEF Range
  <2>2. CASE i =< k
    BY <2>1, <2>2, <1>1, <1>3 DEF Range
  <2>3. CASE i > k
    <3>1. i - k \in 1 .. Len(f) - k /\ k + (i - k) = i
      BY <2>3
    <3>2. right[i - k] = x
      BY <3>1, <2>1, <1>2
    <3> QED
      BY <3>1, <3>2, <1>3 DEF Range
  <2> QED
    BY <2>2, <2>3
<1>7. Range(left) \cup Range(right) \subseteq Range(f)
  BY <1>a, <1>b DEF Range
<1> QED
  BY <1>1, <1>2, <1>4, <1>5, <1>6, <1>7 DEF left, right

\* Joining two disjoint lists without repetitions gives one.
LEMMA JoinInjective ==
  ASSUME NEW S, NEW f \in Seq(S), NEW g \in Seq(S),
         IsInjective(f), IsInjective(g), Range(f) \cap Range(g) = {}
  PROVE  /\ f \o g \in Seq(S)
         /\ Len(f \o g) = Len(f) + Len(g)
         /\ IsInjective(f \o g)
         /\ Range(f \o g) = Range(f) \cup Range(g)
<1> DEFINE h == f \o g
<1>1. /\ h \in Seq(S) /\ Len(h) = Len(f) + Len(g)
      /\ \A i \in 1 .. Len(f) : h[i] = f[i]
      /\ \A i \in Len(f) + 1 .. Len(f) + Len(g) : h[i] = g[i - Len(f)]
  OBVIOUS
<1> HIDE DEF h
<1>2. /\ DOMAIN f = 1 .. Len(f) /\ DOMAIN g = 1 .. Len(g)
      /\ DOMAIN h = 1 .. Len(f) + Len(g)
      /\ Len(f) \in Nat /\ Len(g) \in Nat
  BY <1>1
<1>3. ASSUME NEW i \in DOMAIN h
      PROVE  \/ i \in DOMAIN f /\ h[i] = f[i]
             \/ i > Len(f) /\ i - Len(f) \in DOMAIN g /\ h[i] = g[i - Len(f)]
  BY <1>1, <1>2
<1>4. IsInjective(h)
  <2> SUFFICES ASSUME NEW i \in DOMAIN h, NEW j \in DOMAIN h, h[i] = h[j]
               PROVE  i = j
    BY DEF IsInjective
  <2>1. CASE i \in DOMAIN f /\ h[i] = f[i] /\ j \in DOMAIN f /\ h[j] = f[j]
    BY <2>1 DEF IsInjective
  <2>2. CASE /\ i > Len(f) /\ i - Len(f) \in DOMAIN g /\ h[i] = g[i - Len(f)]
             /\ j > Len(f) /\ j - Len(f) \in DOMAIN g /\ h[j] = g[j - Len(f)]
    <3>1. i - Len(f) = j - Len(f)
      BY <2>2 DEF IsInjective
    <3> QED
      BY <3>1, <1>2
  <2>3. CASE /\ i \in DOMAIN f /\ h[i] = f[i]
             /\ j - Len(f) \in DOMAIN g /\ h[j] = g[j - Len(f)]
    BY <2>3 DEF Range
  <2>4. CASE /\ j \in DOMAIN f /\ h[j] = f[j]
             /\ i - Len(f) \in DOMAIN g /\ h[i] = g[i - Len(f)]
    BY <2>4 DEF Range
  <2> QED
    BY <1>3, <2>1, <2>2, <2>3, <2>4
<1>5. Range(h) \subseteq Range(f) \cup Range(g)
  BY <1>3 DEF Range
<1>6. Range(f) \subseteq Range(h)
  BY <1>1, <1>2 DEF Range
<1>7. ASSUME NEW x \in Range(g) PROVE x \in Range(h)
  <2>1. PICK i \in 1 .. Len(g) : x = g[i]
    BY <1>2 DEF Range
  <2>2. /\ Len(f) + i \in Len(f) + 1 .. Len(f) + Len(g)
        /\ (Len(f) + i) - Len(f) = i
    BY <1>2
  <2>3. h[Len(f) + i] = x
    BY <2>1, <2>2, <1>1
  <2> QED
    BY <2>2, <2>3, <1>2 DEF Range
<1> QED
  BY <1>1, <1>4, <1>5, <1>6, <1>7 DEF h
-----------------------------------------------------------------------------
\* The constructor's deque of every block and its empty tables satisfy the invariant.
LEMMA InitInv == Init => IndInv
<1> SUFFICES ASSUME Init PROVE IndInv
  OBVIOUS
<1>1. free_blocks \in Seq(Blocks) /\ DOMAIN free_blocks = 1 .. num_blocks
  BY BlockAllocatorAssumption DEF Init, Blocks
<1>2. \A s \in Sequence : physical_blocks[s] = <<>> /\ num_tokens[s] = 0
  BY DEF Init
<1>3. TypeOK
  BY <1>1, <1>2 DEF Init, TypeOK
<1>4. TableLength
  BY <1>2, BlocksOfMonotonic DEF TableLength
<1>5. NoBlockTwice
  <2>1. IsInjective(free_blocks)
    BY <1>1, BlockAllocatorAssumption DEF Init, IsInjective
  <2>2. \A s \in Sequence : Range(physical_blocks[s]) = {} /\ IsInjective(physical_blocks[s])
    BY <1>2 DEF Range, IsInjective
  <2> QED
    BY <2>1, <2>2 DEF NoBlockTwice
<1>6. NoBlockLost
  <2>1. \A s \in Sequence : Range(physical_blocks[s]) = {}
    BY <1>2 DEF Range
  <2>2. ASSUME NEW b \in Blocks PROVE b \in Range(free_blocks)
    <3>1. b + 1 \in 1 .. num_blocks /\ free_blocks[b + 1] = b
      BY BlockAllocatorAssumption DEF Blocks, Init
    <3> QED
      BY <3>1, <1>1 DEF Range
  <2>3. \A k \in 1 .. num_blocks : free_blocks[k] \in Blocks
    BY <1>1, BlockAllocatorAssumption DEF Init, Blocks
  <2>4. Range(free_blocks) \subseteq Blocks
    BY <1>1, <2>3 DEF Range
  <2> QED
    BY <2>1, <2>2, <2>4 DEF NoBlockLost
<1> QED
  BY <1>3, <1>4, <1>5, <1>6 DEF IndInv

\* A successful allocate keeps the invariant and moves exactly needed_blocks from
\* the deque to the table.
LEMMA AllocateInv ==
  ASSUME IndInv, NEW s \in Sequence, NEW n \in 1 .. MaxNewTokens, NEW r \in 0 .. MaxReserve,
         Allocate(s, n, r)
  PROVE  /\ IndInv'
         /\ Len(free_blocks') = Len(free_blocks) - needed_blocks(s, n)
         /\ Len(physical_blocks'[s]) = Len(physical_blocks[s]) + needed_blocks(s, n)
<1> DEFINE k == needed_blocks(s, n)
           left == SubSeq(free_blocks, 1, k)
           right == SubSeq(free_blocks, k + 1, Len(free_blocks))
<1>1. TypeOK /\ TableLength /\ NoBlockTwice /\ NoBlockLost
  BY DEF IndInv
<1>2. /\ n \in Nat /\ r \in Nat /\ num_tokens[s] \in Nat
      /\ free_blocks \in Seq(Blocks) /\ physical_blocks[s] \in Seq(Blocks)
  BY <1>1, BlockAllocatorAssumption DEF TypeOK
<1>3. k = BlocksOf(num_tokens[s] + n) - BlocksOf(num_tokens[s])
  BY <1>1, <1>2 DEF TableLength, needed_blocks, BlocksOf
<1>4. k \in Nat
  BY <1>2, <1>3, BlocksOfMonotonic
<1>5. k \in 0 .. Len(free_blocks)
  BY <1>2, <1>4 DEF Allocate
<1>6. /\ num_tokens' = [num_tokens EXCEPT ![s] = @ + n]
      /\ physical_blocks' = [physical_blocks EXCEPT ![s] = @ \o left]
      /\ free_blocks' = right
  BY DEF Allocate
<1> HIDE DEF k
<1>7. /\ left \in Seq(Blocks) /\ right \in Seq(Blocks)
      /\ Len(left) = k /\ Len(right) = Len(free_blocks) - k
      /\ IsInjective(left) /\ IsInjective(right)
      /\ Range(left) \cap Range(right) = {}
      /\ Range(left) \cup Range(right) = Range(free_blocks)
  BY <1>1, <1>2, <1>5, CutInjective DEF NoBlockTwice
<1> HIDE DEF left, right
<1>8. /\ IsInjective(physical_blocks[s])
      /\ Range(physical_blocks[s]) \cap Range(left) = {}
  BY <1>1, <1>7 DEF NoBlockTwice
<1>9. /\ physical_blocks[s] \o left \in Seq(Blocks)
      /\ Len(physical_blocks[s] \o left) = Len(physical_blocks[s]) + k
      /\ IsInjective(physical_blocks[s] \o left)
      /\ Range(physical_blocks[s] \o left) = Range(physical_blocks[s]) \cup Range(left)
  <2> DEFINE held == physical_blocks[s]
  <2>1. held \in Seq(Blocks) /\ IsInjective(held) /\ Range(held) \cap Range(left) = {}
    BY <1>2, <1>8
  <2>2. left \in Seq(Blocks) /\ IsInjective(left)
    BY <1>7
  <2> HIDE DEF held
  <2>3. /\ held \o left \in Seq(Blocks)
        /\ Len(held \o left) = Len(held) + Len(left)
        /\ IsInjective(held \o left)
        /\ Range(held \o left) = Range(held) \cup Range(left)
    BY <2>1, <2>2, JoinInjective
  <2> QED
    BY <2>3, <1>7 DEF held
<1>10. /\ physical_blocks'[s] = physical_blocks[s] \o left
       /\ num_tokens'[s] = num_tokens[s] + n
       /\ \A t \in Sequence : t # s => /\ physical_blocks'[t] = physical_blocks[t]
                                       /\ num_tokens'[t] = num_tokens[t]
  BY <1>1, <1>6 DEF TypeOK
<1>11. TypeOK'
  BY <1>1, <1>2, <1>6, <1>7, <1>9 DEF TypeOK, Blocks
<1>12. TableLength'
  <2>1. Len(physical_blocks'[s]) = BlocksOf(num_tokens'[s])
    <3>1. Len(physical_blocks[s]) = BlocksOf(num_tokens[s])
      BY <1>1 DEF TableLength
    <3>2. BlocksOf(num_tokens[s]) \in Nat /\ BlocksOf(num_tokens[s] + n) \in Nat
      BY <1>2, BlocksOfMonotonic
    <3> QED
      BY <3>1, <3>2, <1>3, <1>9, <1>10
  <2>2. \A t \in Sequence : Len(physical_blocks'[t]) = BlocksOf(num_tokens'[t])
    BY <2>1, <1>1, <1>10 DEF TableLength
  <2> QED
    BY <2>2 DEF TableLength, BlocksOf
<1>13. NoBlockTwice'
  <2>1. IsInjective(free_blocks')
    BY <1>6, <1>7
  <2>2. \A t \in Sequence : IsInjective(physical_blocks'[t])
    BY <1>1, <1>9, <1>10 DEF NoBlockTwice
  <2>3. \A t \in Sequence : Range(physical_blocks'[t]) \cap Range(free_blocks') = {}
    BY <1>1, <1>6, <1>7, <1>9, <1>10 DEF NoBlockTwice
  <2>4. ASSUME NEW t \in Sequence, NEW u \in Sequence, t # u
        PROVE  Range(physical_blocks'[t]) \cap Range(physical_blocks'[u]) = {}
    BY <2>4, <1>1, <1>7, <1>9, <1>10 DEF NoBlockTwice
  <2> QED
    BY <2>1, <2>2, <2>3, <2>4 DEF NoBlockTwice
<1>14. NoBlockLost'
  <2>1. Blocks = Range(free_blocks') \cup UNION {Range(physical_blocks'[t]) : t \in Sequence}
    BY <1>1, <1>6, <1>7, <1>9, <1>10 DEF NoBlockLost
  <2> QED
    BY <2>1 DEF NoBlockLost, Blocks
<1> QED
  BY <1>6, <1>7, <1>9, <1>10, <1>11, <1>12, <1>13, <1>14 DEF IndInv, k

\* free keeps the invariant and returns the whole table to the deque.
LEMMA FreeInv ==
  ASSUME IndInv, NEW s \in Sequence, Free(s)
  PROVE  /\ IndInv'
         /\ Len(free_blocks') = Len(free_blocks) + Len(physical_blocks[s])
<1>1. TypeOK /\ TableLength /\ NoBlockTwice /\ NoBlockLost
  BY DEF IndInv
<1>2. /\ free_blocks' = free_blocks \o physical_blocks[s]
      /\ physical_blocks' = [physical_blocks EXCEPT ![s] = <<>>]
      /\ num_tokens' = [num_tokens EXCEPT ![s] = 0]
  BY DEF Free
<1>3. /\ free_blocks' \in Seq(Blocks)
      /\ Len(free_blocks') = Len(free_blocks) + Len(physical_blocks[s])
      /\ IsInjective(free_blocks')
      /\ Range(free_blocks') = Range(free_blocks) \cup Range(physical_blocks[s])
  <2>1. /\ free_blocks \in Seq(Blocks) /\ physical_blocks[s] \in Seq(Blocks)
        /\ IsInjective(free_blocks) /\ IsInjective(physical_blocks[s])
        /\ Range(free_blocks) \cap Range(physical_blocks[s]) = {}
    BY <1>1 DEF TypeOK, NoBlockTwice
  <2> QED
    BY <2>1, <1>2, JoinInjective
<1>4. /\ physical_blocks'[s] = <<>> /\ num_tokens'[s] = 0
      /\ \A t \in Sequence : t # s => /\ physical_blocks'[t] = physical_blocks[t]
                                      /\ num_tokens'[t] = num_tokens[t]
  BY <1>1, <1>2 DEF TypeOK
<1>5. Range(physical_blocks'[s]) = {} /\ IsInjective(physical_blocks'[s])
  BY <1>4 DEF Range, IsInjective
<1>6. TypeOK'
  BY <1>1, <1>2, <1>3 DEF TypeOK, Blocks
<1>7. TableLength'
  <2>1. Len(physical_blocks'[s]) = BlocksOf(num_tokens'[s])
    BY <1>4, BlocksOfMonotonic
  <2>2. \A t \in Sequence : Len(physical_blocks'[t]) = BlocksOf(num_tokens'[t])
    BY <2>1, <1>1, <1>4 DEF TableLength
  <2> QED
    BY <2>2 DEF TableLength, BlocksOf
<1>8. NoBlockTwice'
  <2>1. \A t \in Sequence : IsInjective(physical_blocks'[t])
    BY <1>1, <1>4, <1>5 DEF NoBlockTwice
  <2>2. \A t \in Sequence : Range(physical_blocks'[t]) \cap Range(free_blocks') = {}
    BY <1>1, <1>3, <1>4, <1>5 DEF NoBlockTwice
  <2>3. \A t, u \in Sequence :
          t # u => Range(physical_blocks'[t]) \cap Range(physical_blocks'[u]) = {}
    BY <1>1, <1>4, <1>5 DEF NoBlockTwice
  <2> QED
    BY <1>3, <2>1, <2>2, <2>3 DEF NoBlockTwice
<1>9. NoBlockLost'
  <2>1. Blocks = Range(free_blocks') \cup UNION {Range(physical_blocks'[t]) : t \in Sequence}
    BY <1>1, <1>3, <1>4, <1>5 DEF NoBlockLost
  <2> QED
    BY <2>1 DEF NoBlockLost, Blocks
<1> QED
  BY <1>3, <1>6, <1>7, <1>8, <1>9 DEF IndInv

\* The invariant reads only the allocator's own variables.
LEMMA StutterInv == IndInv /\ UNCHANGED vars => IndInv'
  BY DEF IndInv, TypeOK, TableLength, NoBlockTwice, NoBlockLost, BlocksOf, Blocks, vars

\* Every call of the allocator keeps the invariant.
LEMMA NextInv == IndInv /\ [Next]_vars => IndInv'
<1> SUFFICES ASSUME IndInv, [Next]_vars PROVE IndInv'
  OBVIOUS
<1>1. ASSUME NEW s \in Sequence, NEW n \in 1 .. MaxNewTokens, NEW r \in 0 .. MaxReserve,
             Allocate(s, n, r)
      PROVE  IndInv'
  BY <1>1, AllocateInv
<1>2. ASSUME NEW s \in Sequence, Free(s) PROVE IndInv'
  BY <1>2, FreeInv
<1>3. CASE UNCHANGED vars
  BY <1>3, StutterInv
<1> QED
  BY <1>1, <1>2, <1>3 DEF Next

\* The invariant holds in every reachable state of BlockAllocator.
THEOREM Invariance == Spec => []IndInv
  BY InitInv, NextInv, PTL DEF Spec

\* Deque, tables and token counts keep their types.
THEOREM TypeCorrect == Spec => []TypeOK
  BY Invariance, PTL DEF IndInv

\* allocate and free never put a block in two places.
THEOREM BlocksAreExclusive == Spec => []NoBlockTwice
  BY Invariance, PTL DEF IndInv

\* allocate and free never lose a block.
THEOREM BlocksAreKept == Spec => []NoBlockLost
  BY Invariance, PTL DEF IndInv

\* A table has a block for every token with a slot and none to spare.
THEOREM TablesCover == Spec => []TableCoversTokens
<1>1. IndInv => TableCoversTokens
  <2> SUFFICES ASSUME IndInv, NEW s \in Sequence
               PROVE  LET k == Len(physical_blocks[s]) IN
                      /\ num_tokens[s] =< k * block_size
                      /\ k > 0 => num_tokens[s] > (k - 1) * block_size
    BY DEF TableCoversTokens
  <2>1. /\ Len(physical_blocks[s]) = (num_tokens[s] + block_size - 1) \div block_size
        /\ num_tokens[s] \in Nat
    BY DEF IndInv, TypeOK, TableLength, BlocksOf
  <2>2. ASSUME NEW t \in Nat, NEW b \in Nat \ {0}
        PROVE  LET k == (t + b - 1) \div b IN
               t =< k * b /\ (k > 0 => t > (k - 1) * b)
    <3> DEFINE k == (t + b - 1) \div b
    <3>1. k \in Nat /\ k * b =< t + b - 1 /\ t + b - 1 < k * b + b
      BY <2>2
    <3>2. (k - 1) * b = k * b - b
      BY <3>1
    <3> QED
      BY <3>1, <3>2
  <2> QED
    BY <2>1, <2>2, BlockAllocatorAssumption
<1> QED
  BY <1>1, Invariance, PTL
-----------------------------------------------------------------------------
\* Both modules count the blocks a call needs in the same way.
LEMMA PoolNeeded ==
  ASSUME NEW s \in Sequence, NEW n \in Nat
  PROVE  Pool!needed(s, n, 0) = needed_blocks(s, n)
BY DEF Pool!needed, Pool!Paged, Pool!BlocksFor, needed_blocks

\* A successful allocate is one of the counting interface.
LEMMA AllocateRefines ==
  ASSUME IndInv, NEW s \in Sequence, NEW n \in 1 .. MaxNewTokens, NEW r \in 0 .. MaxReserve,
         Allocate(s, n, r)
  PROVE  Pool!Allocate(s, n, 0, r)
<1> DEFINE k == needed_blocks(s, n)
<1>1. Pool!needed(s, n, 0) = k
  BY PoolNeeded, BlockAllocatorAssumption
<1>2. /\ k + r =< Len(free_blocks)
      /\ num_tokens' = [num_tokens EXCEPT ![s] = @ + n]
      /\ physical_blocks' = [physical_blocks EXCEPT
                               ![s] = @ \o SubSeq(free_blocks, 1, k)]
  BY DEF Allocate
<1>3. /\ Len(free_blocks') = Len(free_blocks) - k
      /\ Len(physical_blocks'[s]) = Len(physical_blocks[s]) + k
  BY AllocateInv
<1> HIDE DEF k
<1>4. [t \in Sequence |-> Len(physical_blocks'[t])]
        = [[t \in Sequence |-> Len(physical_blocks[t])] EXCEPT ![s] = @ + k]
  <2>1. \A t \in Sequence : t # s => physical_blocks'[t] = physical_blocks[t]
    BY <1>2 DEF IndInv, TypeOK
  <2> QED
    BY <2>1, <1>3
<1> QED
  BY <1>1, <1>2, <1>3, <1>4 DEF Pool!Allocate, Pool!CanAllocate, Pool!Paged

\* free is that of the counting interface.
LEMMA FreeRefines ==
  ASSUME IndInv, NEW s \in Sequence, Free(s)
  PROVE  Pool!Free(s)
<1>1. /\ Len(free_blocks') = Len(free_blocks) + Len(physical_blocks[s])
      /\ num_tokens' = [num_tokens EXCEPT ![s] = 0]
      /\ physical_blocks' = [physical_blocks EXCEPT ![s] = <<>>]
  BY FreeInv DEF Free
<1>2. [t \in Sequence |-> Len(physical_blocks'[t])]
        = [[t \in Sequence |-> Len(physical_blocks[t])] EXCEPT ![s] = 0]
  <2>1. /\ physical_blocks'[s] = <<>>
        /\ Len(physical_blocks'[s]) = 0
        /\ \A t \in Sequence : t # s => physical_blocks'[t] = physical_blocks[t]
    BY <1>1 DEF IndInv, TypeOK
  <2> QED
    BY <2>1
<1> QED
  BY <1>1, <1>2 DEF Pool!Free

\* The constructor's state is the counting interface's full pool.
LEMMA InitRefines == Init => Pool!AllocatorInit
<1> SUFFICES ASSUME Init PROVE Pool!AllocatorInit
  OBVIOUS
<1>1. Len(free_blocks) = num_blocks
  BY BlockAllocatorAssumption DEF Init
<1>2. /\ [t \in Sequence |-> Len(physical_blocks[t])] = [t \in Sequence |-> 0]
      /\ num_tokens = [t \in Sequence |-> 0]
  BY DEF Init
<1> QED
  BY <1>1, <1>2 DEF Pool!AllocatorInit, Pool!Capacity, Pool!Paged

\* Every call of the allocator is a call of the counting interface.
LEMMA NextRefines == IndInv /\ [Next]_vars => [PoolNext]_(Pool!kv_vars)
<1> SUFFICES ASSUME IndInv, [Next]_vars PROVE [PoolNext]_(Pool!kv_vars)
  OBVIOUS
<1>1. ASSUME NEW s \in Sequence, NEW n \in 1 .. MaxNewTokens, NEW r \in 0 .. MaxReserve,
             Allocate(s, n, r)
      PROVE  PoolNext
  BY <1>1, AllocateRefines DEF PoolNext
<1>2. ASSUME NEW s \in Sequence, Free(s) PROVE PoolNext
  BY <1>2, FreeRefines DEF PoolNext
<1>3. CASE UNCHANGED vars
  BY <1>3 DEF vars, Pool!kv_vars
<1> QED
  BY <1>1, <1>2, <1>3 DEF Next

\* The deque of block ids and the block tables implement the counters the
\* scheduler is modelled with: same answer of every call, same growth.
THEOREM Refinement == Spec => ImplementsPool
  BY InitRefines, Invariance, NextRefines, PTL DEF Spec, ImplementsPool
-----------------------------------------------------------------------------
(* The runner *)

Entry == [seq_id : Sequence, n_tokens : 1 .. MaxNewTokens, is_prefill_chunk : BOOLEAN]

Row == [seq_id : Sequence \cup {NoSeq}, written : Nat, block_table : [1 .. num_blocks -> Nat]]

Pair == Sequence \X Nat \X Nat

RunnerTypeOK ==
  /\ paged \in BOOLEAN
  /\ length \in [Sequence -> Nat]
  /\ prefill_progress \in [Sequence -> Nat]
  /\ status \in [Sequence -> {"WAITING", "PREFILLING", "DECODING", "ENDED"}]
  /\ plan \in Seq(Entry)
  /\ freed \subseteq Sequence
  /\ DOMAIN pool = 0 .. num_blocks
  /\ \A b \in 0 .. num_blocks : DOMAIN pool[b] = 0 .. block_size - 1
  /\ DOMAIN graphs = decode_buckets
  /\ \A b \in decode_buckets : graphs[b] \in [1 .. b -> Row]
  /\ phase \in {"planning", "forward", "results", "failed"}

\* No sequence has two entries.
OneEntryEach ==
  \A j, k \in 1 .. Len(plan) : plan[j].seq_id = plan[k].seq_id => j = k

\* How the slots of a sequence relate to its tokens.
SlotsOf(s) ==
  /\ status[s] \in {"WAITING", "ENDED"} => num_tokens[s] = 0 /\ s \notin Planned
  /\ status[s] = "WAITING" => prefill_progress[s] = 0
  /\ status[s] = "PREFILLING" => num_tokens[s] = prefill_progress[s]
  /\ status[s] = "DECODING" =>
       length[s] = IF s \in Planned THEN num_tokens[s] ELSE num_tokens[s] + 1

\* An entry's tokens are the last that have a slot.
EntryInv(e) ==
  /\ e.n_tokens =< num_tokens[e.seq_id]
  /\ e.is_prefill_chunk => num_tokens[e.seq_id] = prefill_progress[e.seq_id]
  /\ ~ e.is_prefill_chunk => e.n_tokens = 1 /\ status[e.seq_id] = "DECODING"

EntriesInv ==
  /\ OneEntryEach
  /\ \A s \in Sequence : SlotsOf(s)
  /\ \A k \in 1 .. Len(plan) : EntryInv(plan[k])
  /\ phase = "forward" => plan # <<>>

\* A sequence to be dropped has nothing the pass could read.
FreedInv ==
  /\ phase = "forward" => freed = {}
  /\ phase \in {"results", "failed"} => \A s \in freed : status[s] = "ENDED"
  /\ phase = "planning" => \A s \in freed :
       /\ s \notin Planned => num_tokens[s] = 0
       /\ \A k \in 1 .. Len(plan) : plan[k].seq_id = s => cached(plan[k]) = 0

\* Where position p of s is in the pool.
Place(s, p) == <<physical_blocks[s][(p \div block_size) + 1], p % block_size>>

\* The first n pairs of s are where attention will look for them.
Kept(s, n) ==
  /\ paged => \A p \in 0 .. n - 1 : pool[Place(s, p)[1]][Place(s, p)[2]] = <<s, p, p>>
  /\ ~ paged /\ s \notin freed => /\ buffer[s] \in Seq(Pair) /\ Len(buffer[s]) = n
                                  /\ \A k \in 1 .. n : buffer[s][k] = <<s, k - 1, k - 1>>

\* Kept are all the tokens that have a slot, but those the next pass is to compute;
\* and none can be relied on of a sequence whose pass has failed.
KeptInv ==
  /\ \A s \in Sequence : s \notin Planned \/ phase = "results" => Kept(s, num_tokens[s])
  /\ phase \in {"planning", "forward"} =>
       \A k \in 1 .. Len(plan) : Kept(plan[k].seq_id, cached(plan[k]))

\* What a row has of the table of s is the start of it.
Fresh(r, s) ==
  /\ r.written =< Len(physical_blocks[s])
  /\ \A k \in 1 .. r.written : r.block_table[k] = physical_blocks[s][k]

RowsInv ==
  \A s \in Sequence \ freed :
    /\ status[s] = "ENDED" =>
         /\ buffer[s] = <<>>
         /\ \A b \in decode_buckets : \A row \in 1 .. b : graphs[b][row].seq_id # s
    /\ ~ (phase = "failed" /\ s \in Planned) =>
         \A b \in decode_buckets : \A row \in 1 .. b :
           graphs[b][row].seq_id = s => Fresh(graphs[b][row], s)

AttendedInv ==
  /\ AttendsOwnTokens
  /\ attended # <<>> => phase = "results" /\ plan # <<>>

RunnerInv ==
  /\ IndInv
  /\ RunnerTypeOK /\ EntriesInv /\ FreedInv /\ KeptInv /\ RowsInv /\ AttendedInv
-----------------------------------------------------------------------------
(* Places in the pool *)

\* A position below t lies in a block that t tokens need, and quotient and remainder
\* tell it.
LEMMA PositionInTable ==
  ASSUME NEW t \in Nat, NEW p \in 0 .. t - 1
  PROVE  /\ (p \div block_size) + 1 \in 1 .. BlocksOf(t)
         /\ p % block_size \in 0 .. block_size - 1
         /\ p = block_size * (p \div block_size) + (p % block_size)
<1>1. block_size \in Nat \ {0} /\ p \in Nat
  BY BlockAllocatorAssumption
<1>2. ASSUME NEW b \in Nat \ {0}
      PROVE  LET k == (t + b - 1) \div b
                 q == p \div b
             IN /\ q + 1 \in 1 .. k
                /\ p % b \in 0 .. b - 1
                /\ p = b * q + (p % b)
  <2> DEFINE k == (t + b - 1) \div b
             q == p \div b
  <2>1. k \in Nat /\ t + b - 1 < k * b + b
    BY <1>2
  <2>2. q \in Nat /\ p % b \in 0 .. b - 1 /\ p = b * q + (p % b)
    BY <1>1, <1>2
  <2>3. q * b =< p
    BY <2>2
  <2>4. q < k
    <3> HIDE DEF q, k
    <3>1. SUFFICES ASSUME k =< q PROVE FALSE
      BY <2>1, <2>2
    <3>2. k * b =< q * b
      BY <2>1, <2>2, <3>1
    <3>3. k * b \in Int /\ q * b \in Int
      BY <2>1, <2>2
    <3> QED
      BY <1>1, <2>1, <2>3, <3>2, <3>3
  <2> QED
    BY <2>1, <2>2, <2>4
<1> QED
  BY <1>1, <1>2 DEF BlocksOf

\* A position with a slot has a place, and never in the scratch block.
LEMMA PlaceInPool ==
  ASSUME IndInv, NEW s \in Sequence, NEW p \in 0 .. num_tokens[s] - 1
  PROVE  /\ (p \div block_size) + 1 \in 1 .. Len(physical_blocks[s])
         /\ physical_blocks[s][(p \div block_size) + 1] \in Blocks
         /\ Place(s, p)[1] \in 0 .. num_blocks /\ Place(s, p)[1] # _scratch_block_id
         /\ Place(s, p)[2] \in 0 .. block_size - 1
<1>1. /\ num_tokens[s] \in Nat /\ Len(physical_blocks[s]) = BlocksOf(num_tokens[s])
      /\ physical_blocks[s] \in Seq(Blocks)
  BY DEF IndInv, TypeOK, TableLength
<1>2. /\ (p \div block_size) + 1 \in 1 .. Len(physical_blocks[s])
      /\ p % block_size \in 0 .. block_size - 1
  BY <1>1, PositionInTable
<1> DEFINE i == (p \div block_size) + 1
<1> HIDE DEF i
<1>3. physical_blocks[s][i] \in Blocks
  BY <1>1, <1>2 DEF i
<1>4. \A b \in Blocks : b \in 0 .. num_blocks /\ b # _scratch_block_id
  BY BlockAllocatorAssumption DEF Blocks, _scratch_block_id
<1> QED
  BY <1>2, <1>3, <1>4 DEF Place, i

\* No two positions share a place.
LEMMA PlacesDiffer ==
  ASSUME IndInv, NEW s \in Sequence, NEW t \in Sequence,
         NEW p \in 0 .. num_tokens[s] - 1, NEW q \in 0 .. num_tokens[t] - 1,
         Place(s, p) = Place(t, q)
  PROVE  s = t /\ p = q
<1> DEFINE i == (p \div block_size) + 1
           j == (q \div block_size) + 1
<1>1. /\ num_tokens[s] \in Nat /\ num_tokens[t] \in Nat
      /\ physical_blocks[s] \in Seq(Blocks) /\ physical_blocks[t] \in Seq(Blocks)
  BY DEF IndInv, TypeOK
<1>2. /\ i \in 1 .. Len(physical_blocks[s]) /\ j \in 1 .. Len(physical_blocks[t])
      /\ physical_blocks[s][i] = physical_blocks[t][j] /\ p % block_size = q % block_size
  BY PlaceInPool DEF Place
<1>3. /\ p = block_size * (p \div block_size) + (p % block_size)
      /\ q = block_size * (q \div block_size) + (q % block_size)
  BY <1>1, PositionInTable
<1>4. (p \div block_size) \in Int /\ (q \div block_size) \in Int
  BY BlockAllocatorAssumption
<1>5. i = j => p = q
  <2> DEFINE u == p \div block_size
             v == q \div block_size
  <2>1. i = u + 1 /\ j = v + 1 /\ u \in Int /\ v \in Int
    BY <1>4
  <2>2. p = block_size * u + (p % block_size) /\ q = block_size * v + (q % block_size)
    BY <1>3
  <2> HIDE DEF u, v, i, j
  <2>3. i = j => u = v
    BY <2>1
  <2> QED
    BY <1>2, <2>2, <2>3
<1> HIDE DEF i, j
<1>6. /\ i \in DOMAIN physical_blocks[s] /\ j \in DOMAIN physical_blocks[t]
  BY <1>1, <1>2
<1>7. s = t
  <2>1. physical_blocks[s][i] \in Range(physical_blocks[s]) \cap Range(physical_blocks[t])
    BY <1>2, <1>6 DEF Range
  <2> QED
    BY <2>1 DEF IndInv, NoBlockTwice
<1>8. i = j
  BY <1>2, <1>6, <1>7 DEF IndInv, NoBlockTwice, IsInjective
<1> QED
  BY <1>5, <1>7, <1>8

\* A table is no longer than the pool.
LEMMA TableFits ==
  ASSUME IndInv, NEW s \in Sequence
  PROVE  Len(physical_blocks[s]) =< num_blocks
<1> DEFINE f == physical_blocks[s]
<1>1. f \in Seq(Blocks) /\ IsInjective(f) /\ num_blocks \in Nat
  BY BlockAllocatorAssumption DEF IndInv, TypeOK, NoBlockTwice
<1> HIDE DEF f
<1>2. f \in [1 .. Len(f) -> Blocks] /\ Len(f) \in Nat /\ DOMAIN f = 1 .. Len(f)
  BY <1>1
<1>3. /\ IsFiniteSet(1 .. Len(f)) /\ Cardinality(1 .. Len(f)) = Len(f)
      /\ IsFiniteSet(Blocks) /\ Cardinality(Blocks) = num_blocks
  <2>1. \A a, b \in Int : /\ IsFiniteSet(a .. b)
                          /\ Cardinality(a .. b) = IF a > b THEN 0 ELSE b - a + 1
    BY FS_Interval
  <2>2. /\ IsFiniteSet(1 .. Len(f))
        /\ Cardinality(1 .. Len(f)) = IF 1 > Len(f) THEN 0 ELSE Len(f) - 1 + 1
    BY <1>2, <2>1
  <2>3. /\ IsFiniteSet(0 .. num_blocks - 1)
        /\ Cardinality(0 .. num_blocks - 1)
             = IF 0 > num_blocks - 1 THEN 0 ELSE num_blocks - 1 - 0 + 1
    BY <1>1, <2>1
  <2> QED
    BY <1>1, <1>2, <2>2, <2>3 DEF Blocks
<1>4. SUFFICES ASSUME num_blocks < Len(f) PROVE FALSE
  BY <1>1, <1>2 DEF f
<1>5. \E x, y \in 1 .. Len(f) : x # y /\ f[x] = f[y]
  BY <1>2, <1>3, <1>4, FS_PigeonHole
<1> QED
  BY <1>1, <1>2, <1>5 DEF IsInjective

\* Growing a table moves no position that had a slot.
LEMMA AllocateMoves ==
  ASSUME IndInv, NEW s \in Sequence, NEW n \in 1 .. MaxNewTokens, Allocate(s, n, 0)
  PROVE  /\ IndInv'
         /\ num_tokens' = [num_tokens EXCEPT ![s] = @ + n]
         /\ num_tokens'[s] = num_tokens[s] + n /\ num_tokens[s] \in Nat /\ n \in Nat
         /\ \A t \in Sequence \ {s} : /\ num_tokens'[t] = num_tokens[t]
                                      /\ physical_blocks'[t] = physical_blocks[t]
         /\ Len(physical_blocks[s]) =< Len(physical_blocks'[s])
         /\ \A k \in 1 .. Len(physical_blocks[s]) : physical_blocks'[s][k] = physical_blocks[s][k]
         /\ \A t \in Sequence : \A p \in 0 .. num_tokens[t] - 1 : Place(t, p)' = Place(t, p)
<1>0. 0 \in 0 .. MaxReserve
  BY BlockAllocatorAssumption
<1>1. IndInv'
  BY <1>0, AllocateInv
<1> DEFINE k == needed_blocks(s, n)
           old == physical_blocks[s]
           new == SubSeq(free_blocks, 1, k)
<1>2. /\ num_tokens' = [num_tokens EXCEPT ![s] = @ + n]
      /\ physical_blocks' = [physical_blocks EXCEPT ![s] = old \o new]
      /\ num_tokens \in [Sequence -> Nat] /\ n \in Nat
      /\ physical_blocks \in [Sequence -> Seq(Blocks)] /\ free_blocks \in Seq(Blocks)
      /\ k + 0 =< Len(free_blocks)
  BY BlockAllocatorAssumption DEF Allocate, IndInv, TypeOK
<1>3. /\ num_tokens'[s] = num_tokens[s] + n
      /\ physical_blocks'[s] = old \o new
      /\ \A t \in Sequence \ {s} : /\ num_tokens'[t] = num_tokens[t]
                                   /\ physical_blocks'[t] = physical_blocks[t]
  BY <1>2
<1>4. new \in Seq(Blocks) /\ old \in Seq(Blocks)
  <2>1. k = BlocksOf(num_tokens[s] + n) - BlocksOf(num_tokens[s])
    BY DEF IndInv, TableLength, needed_blocks, BlocksOf
  <2>2. k \in Nat
    <3>1. num_tokens[s] \in Nat /\ n \in Nat
      BY <1>2
    <3>2. /\ BlocksOf(num_tokens[s]) \in Nat /\ BlocksOf(num_tokens[s] + n) \in Nat
          /\ BlocksOf(num_tokens[s]) =< BlocksOf(num_tokens[s] + n)
      BY <3>1, BlocksOfMonotonic
    <3> HIDE DEF k
    <3> QED
      BY <2>1, <3>2
  <2> HIDE DEF k
  <2>3. \A i \in 1 .. k : i \in 1 .. Len(free_blocks)
    BY <1>2, <2>2
  <2> QED
    BY <1>2, <2>2, <2>3
<1> HIDE DEF new, old
<1>5. /\ Len(old) =< Len(old \o new)
      /\ \A i \in 1 .. Len(old) : (old \o new)[i] = old[i]
  <2>1. /\ Len(old \o new) = Len(old) + Len(new)
        /\ \A i \in 1 .. Len(old) + Len(new) :
             (old \o new)[i] = IF i =< Len(old) THEN old[i] ELSE new[i - Len(old)]
    BY <1>4, ConcatProperties
  <2>2. Len(old) \in Nat /\ Len(new) \in Nat
    BY <1>4
  <2> QED
    BY <2>1, <2>2
<1>6. ASSUME NEW t \in Sequence, NEW p \in 0 .. num_tokens[t] - 1
      PROVE  physical_blocks'[t][(p \div block_size) + 1] = physical_blocks[t][(p \div block_size) + 1]
  <2> DEFINE i == (p \div block_size) + 1
  <2>1. i \in 1 .. Len(physical_blocks[t])
    BY PlaceInPool
  <2> HIDE DEF i
  <2>2. CASE t = s
    BY <1>3, <1>5, <2>1, <2>2 DEF old, i
  <2>3. CASE t # s
    BY <1>3, <2>3 DEF i
  <2> QED
    BY <2>2, <2>3
<1>7. \A t \in Sequence : \A p \in 0 .. num_tokens[t] - 1 : Place(t, p)' = Place(t, p)
  BY <1>6 DEF Place
<1> QED
  BY <1>1, <1>2, <1>3, <1>5, <1>7 DEF old

\* Freeing a table moves nothing of another sequence.
LEMMA FreeMoves ==
  ASSUME IndInv, NEW s \in Sequence, Free(s)
  PROVE  /\ IndInv'
         /\ num_tokens'[s] = 0 /\ physical_blocks'[s] = <<>>
         /\ \A t \in Sequence \ {s} : /\ num_tokens'[t] = num_tokens[t]
                                      /\ physical_blocks'[t] = physical_blocks[t]
                                      /\ \A p : Place(t, p)' = Place(t, p)
<1>1. IndInv'
  BY FreeInv
<1>2. /\ num_tokens'[s] = 0 /\ physical_blocks'[s] = <<>>
      /\ \A t \in Sequence \ {s} : /\ num_tokens'[t] = num_tokens[t]
                                   /\ physical_blocks'[t] = physical_blocks[t]
  BY DEF Free, IndInv, TypeOK
<1> QED
  BY <1>1, <1>2 DEF Place
-----------------------------------------------------------------------------
(* The plan *)

\* Who has an entry, after one is added.
LEMMA PlanGrows ==
  ASSUME RunnerTypeOK, OneEntryEach, NEW s \in Sequence, NEW n \in 1 .. MaxNewTokens,
         NEW b \in BOOLEAN, s \notin Planned, Add(s, n, b)
  PROVE  /\ plan' \in Seq(Entry) /\ Len(plan') = Len(plan) + 1 /\ Len(plan) \in Nat
         /\ \A k \in 1 .. Len(plan) : plan'[k] = plan[k] /\ plan[k].seq_id # s
         /\ plan'[Len(plan) + 1] = [seq_id |-> s, n_tokens |-> n, is_prefill_chunk |-> b]
         /\ \A k \in 1 .. Len(plan') : k \in 1 .. Len(plan) \/ k = Len(plan) + 1
         /\ Planned' = Planned \cup {s}
         /\ OneEntryEach'
<1> DEFINE e == [seq_id |-> s, n_tokens |-> n, is_prefill_chunk |-> b]
<1>1. plan \in Seq(Entry) /\ e \in Entry /\ plan' = Append(plan, e)
  BY DEF RunnerTypeOK, Entry, Add
<1>e. e.seq_id = s
  OBVIOUS
<1> HIDE DEF e
<1>2. /\ plan' \in Seq(Entry) /\ Len(plan') = Len(plan) + 1 /\ Len(plan) \in Nat
      /\ \A k \in 1 .. Len(plan) : plan'[k] = plan[k]
      /\ plan'[Len(plan) + 1] = e
      /\ DOMAIN plan = 1 .. Len(plan) /\ DOMAIN plan' = 1 .. Len(plan')
  BY <1>1
<1>3. \A k \in 1 .. Len(plan') : k \in 1 .. Len(plan) \/ k = Len(plan) + 1
  BY <1>2
<1>4. \A k \in 1 .. Len(plan) : plan[k].seq_id # s
  BY <1>2 DEF Planned
<1>5. Planned' = Planned \cup {s}
  <2>1. Planned' = {plan'[k].seq_id : k \in 1 .. Len(plan')}
    BY <1>2 DEF Planned
  <2>2. \A k \in 1 .. Len(plan) : k \in 1 .. Len(plan') /\ plan'[k].seq_id = plan[k].seq_id
    BY <1>2
  <2>3. Len(plan) + 1 \in 1 .. Len(plan') /\ plan'[Len(plan) + 1].seq_id = s
    BY <1>2, <1>e
  <2>4. Planned = {plan[k].seq_id : k \in 1 .. Len(plan)}
    BY <1>2 DEF Planned
  <2> QED
    BY <1>3, <2>1, <2>2, <2>3, <2>4
<1>6. OneEntryEach'
  <2> SUFFICES ASSUME NEW j \in 1 .. Len(plan'), NEW k \in 1 .. Len(plan'),
                      plan'[j].seq_id = plan'[k].seq_id
               PROVE  j = k
    BY DEF OneEntryEach
  <2>1. plan'[Len(plan) + 1].seq_id = s
    BY <1>2, <1>e
  <2> QED
    BY <1>2, <1>3, <1>4, <2>1 DEF OneEntryEach
<1> QED
  BY <1>2, <1>3, <1>4, <1>5, <1>6 DEF e

\* Who has an entry, after the first is taken off.
LEMMA PlanShrinks ==
  ASSUME RunnerTypeOK, OneEntryEach, plan # <<>>, plan' = Tail(plan)
  PROVE  /\ plan' \in Seq(Entry) /\ Len(plan') = Len(plan) - 1 /\ Len(plan) \in Nat
         /\ Head(plan) = plan[1] /\ Head(plan) \in Entry /\ 1 \in 1 .. Len(plan)
         /\ Head(plan).seq_id \in Planned
         /\ \A k \in 1 .. Len(plan') : /\ plan'[k] = plan[k + 1] /\ k + 1 \in 1 .. Len(plan)
                                       /\ plan[k + 1].seq_id # Head(plan).seq_id
         /\ Planned' = Planned \ {Head(plan).seq_id}
         /\ OneEntryEach'
<1>1. plan \in Seq(Entry)
  BY DEF RunnerTypeOK
<1>2. /\ plan' \in Seq(Entry) /\ Len(plan') = Len(plan) - 1 /\ Len(plan) \in Nat
      /\ Len(plan) > 0 /\ Head(plan) = plan[1] /\ Head(plan) \in Entry
      /\ \A k \in 1 .. Len(plan') : plan'[k] = plan[k + 1]
      /\ DOMAIN plan = 1 .. Len(plan) /\ DOMAIN plan' = 1 .. Len(plan')
  <2>1. Len(plan) > 0 /\ Len(plan) \in Nat
    BY <1>1, EmptySeq
  <2> QED
    BY <1>1, <2>1, HeadTailProperties
<1>3. /\ 1 \in 1 .. Len(plan)
      /\ \A k \in 1 .. Len(plan') : k + 1 \in 1 .. Len(plan) /\ k + 1 # 1
      /\ \A k \in 1 .. Len(plan) : k = 1 \/ k - 1 \in 1 .. Len(plan')
      /\ \A k \in 1 .. Len(plan) : (k - 1) + 1 = k
  BY <1>2
<1>4. \A k \in 1 .. Len(plan') : plan[k + 1].seq_id # Head(plan).seq_id
  BY <1>2, <1>3 DEF OneEntryEach
<1>5. /\ Planned = {plan[k].seq_id : k \in 1 .. Len(plan)}
      /\ Planned' = {plan'[k].seq_id : k \in 1 .. Len(plan')}
  BY <1>2 DEF Planned
<1>6. Planned' = Planned \ {Head(plan).seq_id}
  <2>1. ASSUME NEW t \in Planned' PROVE t \in Planned \ {Head(plan).seq_id}
    BY <1>2, <1>3, <1>4, <1>5, <2>1
  <2>2. ASSUME NEW t \in Planned, t # Head(plan).seq_id PROVE t \in Planned'
    <3>1. PICK k \in 1 .. Len(plan) : plan[k].seq_id = t
      BY <1>5
    <3>2. k - 1 \in 1 .. Len(plan') /\ (k - 1) + 1 = k
      BY <1>2, <1>3, <2>2, <3>1
    <3>3. plan'[k - 1].seq_id = t
      BY <1>2, <3>1, <3>2
    <3> QED
      BY <1>5, <3>2, <3>3
  <2> QED
    BY <2>1, <2>2
<1>7. OneEntryEach'
  <2> SUFFICES ASSUME NEW j \in 1 .. Len(plan'), NEW k \in 1 .. Len(plan'),
                      plan'[j].seq_id = plan'[k].seq_id
               PROVE  j = k
    BY DEF OneEntryEach
  <2>1. j + 1 = k + 1
    BY <1>2, <1>3 DEF OneEntryEach
  <2> QED
    BY <1>2, <2>1
<1>8. Head(plan).seq_id \in Planned
  BY <1>2, <1>3, <1>5
<1> QED
  BY <1>2, <1>3, <1>4, <1>6, <1>7, <1>8

\* What is kept stays where it is as long as its places do and nothing is written.
LEMMA KeptStays ==
  ASSUME paged' = paged, pool' = pool
  PROVE  \A t, n : /\ Kept(t, n)
                   /\ \A p \in 0 .. n - 1 : Place(t, p)' = Place(t, p)
                   /\ t \notin freed' => t \notin freed
                   /\ t \notin freed' => buffer'[t] = buffer[t]
                   => Kept(t, n)'
BY DEF Kept

\* A row that holds the start of a table still does when the table has grown.
LEMMA FreshStays ==
  ASSUME NEW s \in Sequence,
         Len(physical_blocks[s]) \in Nat, Len(physical_blocks'[s]) \in Nat,
         Len(physical_blocks[s]) =< Len(physical_blocks'[s]),
         \A k \in 1 .. Len(physical_blocks[s]) : physical_blocks'[s][k] = physical_blocks[s][k]
  PROVE  \A r \in Row : Fresh(r, s) =>
           /\ r.written =< Len(physical_blocks'[s])
           /\ \A k \in 1 .. r.written : r.block_table[k] = physical_blocks'[s][k]
BY DEF Fresh, Row

\* The types of one sequence's state.
LEMMA SequenceTypes ==
  ASSUME RunnerInv, NEW s \in Sequence
  PROVE  /\ num_tokens[s] \in Nat /\ length[s] \in Nat /\ prefill_progress[s] \in Nat
         /\ physical_blocks[s] \in Seq(Blocks) /\ Len(physical_blocks[s]) \in Nat
BY DEF RunnerInv, RunnerTypeOK, IndInv, TypeOK

\* The types of an entry.
LEMMA EntryTypes ==
  ASSUME RunnerTypeOK, NEW k \in 1 .. Len(plan)
  PROVE  /\ plan[k] \in Entry /\ plan[k].seq_id \in Sequence /\ plan[k].n_tokens \in Nat
         /\ plan[k].n_tokens \in 1 .. MaxNewTokens /\ plan[k].seq_id \in Planned
<1>1. plan \in Seq(Entry)
  BY DEF RunnerTypeOK
<1>2. plan[k] \in Entry /\ k \in DOMAIN plan
  BY <1>1
<1>3. /\ plan[k].seq_id \in Sequence
      /\ plan[k].n_tokens \in 1 .. MaxNewTokens
  BY <1>2 DEF Entry
<1>4. plan[k].n_tokens \in Nat
  BY <1>3, BlockAllocatorAssumption
<1> QED
  BY <1>2, <1>3, <1>4 DEF Planned

\* A sequence with no entry gets one.
LEMMA AddEntryInv ==
  ASSUME RunnerInv, NEW s \in Sequence, NEW n \in 1 .. MaxNewTokens, NEW b \in BOOLEAN,
         phase = "planning", s \notin Planned, Allocate(s, n, 0), Add(s, n, b),
         UNCHANGED <<paged, length, freed, kv_state, phase>>,
         prefill_progress' \in [Sequence -> Nat],
         status' \in [Sequence -> {"WAITING", "PREFILLING", "DECODING", "ENDED"}],
         \A t \in Sequence \ {s} : /\ prefill_progress'[t] = prefill_progress[t]
                                   /\ status'[t] = status[t],
         status[s] # "ENDED", status'[s] \in {"PREFILLING", "DECODING"},
         status'[s] = "PREFILLING" => prefill_progress'[s] = num_tokens[s] + n,
         status'[s] = "DECODING" => length[s] = num_tokens[s] + n,
         b => prefill_progress'[s] = num_tokens[s] + n,
         ~ b => n = 1 /\ status'[s] = "DECODING"
  PROVE  RunnerInv'
<1>1. /\ IndInv /\ RunnerTypeOK /\ EntriesInv /\ OneEntryEach /\ FreedInv /\ KeptInv /\ RowsInv
      /\ AttendedInv
  BY DEF RunnerInv, EntriesInv
<1>2. /\ IndInv'
      /\ num_tokens'[s] = num_tokens[s] + n /\ num_tokens[s] \in Nat /\ n \in Nat
      /\ \A t \in Sequence \ {s} : /\ num_tokens'[t] = num_tokens[t]
                                   /\ physical_blocks'[t] = physical_blocks[t]
      /\ Len(physical_blocks[s]) =< Len(physical_blocks'[s])
      /\ \A k \in 1 .. Len(physical_blocks[s]) : physical_blocks'[s][k] = physical_blocks[s][k]
      /\ \A t \in Sequence : \A p \in 0 .. num_tokens[t] - 1 : Place(t, p)' = Place(t, p)
  BY <1>1, AllocateMoves
<1>3. /\ plan' \in Seq(Entry) /\ Len(plan') = Len(plan) + 1 /\ Len(plan) \in Nat
      /\ \A k \in 1 .. Len(plan) : plan'[k] = plan[k] /\ plan[k].seq_id # s
      /\ plan'[Len(plan) + 1] = [seq_id |-> s, n_tokens |-> n, is_prefill_chunk |-> b]
      /\ \A k \in 1 .. Len(plan') : k \in 1 .. Len(plan) \/ k = Len(plan) + 1
      /\ Planned' = Planned \cup {s}
      /\ OneEntryEach'
  BY <1>1, PlanGrows
<1>4. /\ paged' = paged /\ length' = length /\ freed' = freed /\ phase' = phase
      /\ pool' = pool /\ graphs' = graphs /\ buffer' = buffer /\ attended' = attended
  BY DEF kv_state
<1>5. \A k \in 1 .. Len(plan) : plan[k] \in Entry /\ plan[k].seq_id \in Sequence /\ plan[k].n_tokens \in Nat
  BY <1>1, EntryTypes
<1>6. /\ plan'[Len(plan) + 1].seq_id = s /\ plan'[Len(plan) + 1].n_tokens = n
      /\ plan'[Len(plan) + 1].is_prefill_chunk = b
  BY <1>3
<1>7. num_tokens'[s] - n = num_tokens[s] /\ n =< num_tokens'[s]
  BY <1>2
<1>8. RunnerTypeOK'
  BY <1>1, <1>3, <1>4 DEF RunnerTypeOK
<1>9. EntriesInv'
  <2>1. ASSUME NEW t \in Sequence PROVE SlotsOf(t)'
    <3>1. SlotsOf(t)
      BY <1>1 DEF EntriesInv
    <3>2. CASE t = s
      BY <1>2, <1>3, <1>4, <3>2 DEF SlotsOf
    <3>3. CASE t # s
      BY <1>2, <1>3, <1>4, <3>1, <3>3 DEF SlotsOf
    <3> QED
      BY <3>2, <3>3
  <2>2. ASSUME NEW k \in 1 .. Len(plan') PROVE EntryInv(plan[k])'
    <3>1. CASE k \in 1 .. Len(plan)
      <4>1. EntryInv(plan[k])
        BY <1>1, <3>1 DEF EntriesInv
      <4> QED
        BY <1>2, <1>3, <1>5, <3>1, <4>1 DEF EntryInv
    <3>2. CASE k = Len(plan) + 1
      BY <1>2, <1>6, <1>7, <3>2 DEF EntryInv
    <3> QED
      BY <1>3, <3>1, <3>2
  <2>3. phase' # "forward"
    BY <1>4
  <2> QED
    BY <1>3, <2>1, <2>2, <2>3 DEF EntriesInv
<1>10. FreedInv'
  <2>1. ASSUME NEW t \in freed'
        PROVE  /\ t \notin Planned' => num_tokens'[t] = 0
               /\ \A k \in 1 .. Len(plan') :
                    plan'[k].seq_id = t => num_tokens'[plan'[k].seq_id] - plan'[k].n_tokens = 0
    <3>1. /\ t \in Sequence
          /\ t \notin Planned => num_tokens[t] = 0
          /\ \A k \in 1 .. Len(plan) :
               plan[k].seq_id = t => num_tokens[plan[k].seq_id] - plan[k].n_tokens = 0
      BY <1>1, <1>4, <2>1 DEF FreedInv, RunnerTypeOK, cached
    <3>2. t \notin Planned' => num_tokens'[t] = 0
      BY <1>2, <1>3, <3>1
    <3>3. ASSUME NEW k \in 1 .. Len(plan'), plan'[k].seq_id = t
          PROVE  num_tokens'[plan'[k].seq_id] - plan'[k].n_tokens = 0
      <4>1. CASE k \in 1 .. Len(plan)
        BY <1>2, <1>3, <1>5, <3>1, <3>3, <4>1
      <4>2. CASE k = Len(plan) + 1
        BY <1>6, <1>7, <3>1, <3>3, <4>2
      <4> QED
        BY <1>3, <4>1, <4>2
    <3> QED
      BY <3>2, <3>3
  <2> QED
    BY <1>4, <2>1 DEF FreedInv, cached
<1>11. KeptInv'
  <2>1. \A t, m : /\ Kept(t, m) /\ \A p \in 0 .. m - 1 : Place(t, p)' = Place(t, p)
                  => Kept(t, m)'
    BY <1>4, KeptStays
  <2>2. ASSUME NEW t \in Sequence, t \notin Planned'
        PROVE  Kept(t, num_tokens[t])' /\ num_tokens'[t] = num_tokens[t]
    <3>1. t # s /\ t \notin Planned
      BY <1>3, <2>2
    <3>2. PICK m : m = num_tokens[t]
      OBVIOUS
    <3>3. Kept(t, m) /\ \A p \in 0 .. m - 1 : Place(t, p)' = Place(t, p)
      BY <1>1, <1>2, <3>1, <3>2 DEF KeptInv
    <3>4. Kept(t, m)'
      BY <2>1, <3>3
    <3>5. num_tokens'[t] = m
      BY <1>2, <3>1, <3>2
    <3> QED
      BY <3>2, <3>4, <3>5
  <2>3. ASSUME NEW k \in 1 .. Len(plan') PROVE Kept(plan[k].seq_id, cached(plan[k]))'
    <3>1. CASE k \in 1 .. Len(plan)
      <4>1. PICK t, m : t = plan[k].seq_id /\ m = cached(plan[k])
        OBVIOUS
      <4>2. /\ t \in Sequence /\ t # s /\ m = num_tokens[t] - plan[k].n_tokens
            /\ plan[k].n_tokens \in Nat /\ num_tokens[t] \in Nat
        BY <1>3, <1>5, <3>1, <4>1, SequenceTypes DEF cached
      <4>3. Kept(t, m)
        BY <1>1, <3>1, <4>1 DEF KeptInv
      <4>4. \A p \in 0 .. m - 1 : p \in 0 .. num_tokens[t] - 1
        <5>1. \A x, y \in Nat : \A p \in 0 .. (x - y) - 1 : p \in 0 .. x - 1
          OBVIOUS
        <5> QED
          BY <4>2, <5>1
      <4>5. Kept(t, m)'
        BY <1>2, <2>1, <4>2, <4>3, <4>4
      <4>6. plan'[k].seq_id = t /\ num_tokens'[t] - plan'[k].n_tokens = m
        BY <1>2, <1>3, <3>1, <4>1, <4>2
      <4> QED
        BY <4>5, <4>6 DEF cached
    <3>2. CASE k = Len(plan) + 1
      <4>1. PICK m : m = num_tokens[s]
        OBVIOUS
      <4>2. Kept(s, m)
        BY <1>1, <4>1 DEF KeptInv
      <4>3. Kept(s, m)'
        BY <1>2, <2>1, <4>1, <4>2
      <4>4. plan'[k].seq_id = s /\ num_tokens'[s] - plan'[k].n_tokens = m
        BY <1>6, <1>7, <3>2, <4>1
      <4> QED
        BY <4>3, <4>4 DEF cached
    <3> QED
      BY <1>3, <3>1, <3>2
  <2> QED
    BY <1>4, <2>2, <2>3 DEF KeptInv
<1>12. RowsInv'
  <2> SUFFICES ASSUME NEW t \in Sequence, t \notin freed'
               PROVE  /\ status'[t] = "ENDED" =>
                           /\ buffer'[t] = <<>>
                           /\ \A c \in decode_buckets : \A row \in 1 .. c : graphs'[c][row].seq_id # t
                      /\ \A c \in decode_buckets : \A row \in 1 .. c :
                           graphs'[c][row].seq_id = t => Fresh(graphs[c][row], t)'
    BY DEF RowsInv
  <2>1. /\ status[t] = "ENDED" =>
             /\ buffer[t] = <<>>
             /\ \A c \in decode_buckets : \A row \in 1 .. c : graphs[c][row].seq_id # t
        /\ \A c \in decode_buckets : \A row \in 1 .. c :
             graphs[c][row].seq_id = t => Fresh(graphs[c][row], t)
    BY <1>1, <1>4 DEF RowsInv
  <2>2. status'[t] = "ENDED" => status[t] = "ENDED"
    BY <1>2
  <2>3. ASSUME NEW c \in decode_buckets, NEW row \in 1 .. c, graphs'[c][row].seq_id = t
        PROVE  Fresh(graphs[c][row], t)'
    <3>1. graphs[c][row] \in Row /\ graphs'[c][row] = graphs[c][row]
      BY <1>1, <1>4 DEF RunnerTypeOK
    <3>2. Fresh(graphs[c][row], t)
      BY <1>4, <2>1, <2>3
    <3>3. /\ Len(physical_blocks[t]) \in Nat /\ Len(physical_blocks'[t]) \in Nat
          /\ Len(physical_blocks[t]) =< Len(physical_blocks'[t])
          /\ \A k \in 1 .. Len(physical_blocks[t]) : physical_blocks'[t][k] = physical_blocks[t][k]
      <4>1. Len(physical_blocks[t]) \in Nat /\ Len(physical_blocks'[t]) \in Nat
        BY <1>1, <1>2 DEF IndInv, TypeOK
      <4>2. CASE t = s
        BY <1>2, <4>1, <4>2
      <4>3. CASE t # s
        <5>1. physical_blocks'[t] = physical_blocks[t]
          BY <1>2, <4>3
        <5> QED
          BY <4>1, <5>1
      <4> QED
        BY <4>2, <4>3
    <3>4. PICK r : r = graphs[c][row]
      OBVIOUS
    <3>5. /\ r.written =< Len(physical_blocks'[t])
          /\ \A k \in 1 .. r.written : r.block_table[k] = physical_blocks'[t][k]
      BY <3>1, <3>2, <3>3, <3>4, FreshStays
    <3> QED
      BY <3>1, <3>4, <3>5 DEF Fresh
  <2> QED
    BY <1>4, <2>1, <2>2, <2>3
<1>13. AttendedInv'
  <2>1. attended = <<>>
    BY <1>1 DEF AttendedInv
  <2> QED
    BY <1>4, <2>1 DEF AttendedInv, AttendsOwnTokens
<1> QED
  BY <1>2, <1>8, <1>9, <1>10, <1>11, <1>12, <1>13 DEF RunnerInv

\* The next chunk of a prompt.
LEMMA PrefillChunkInv ==
  ASSUME RunnerInv, NEW s \in Sequence, NEW n \in 1 .. MaxNewTokens, PrefillChunk(s, n)
  PROVE  RunnerInv'
<1>1. /\ phase = "planning" /\ s \notin Planned /\ Allocate(s, n, 0) /\ Add(s, n, TRUE)
      /\ status[s] \in {"WAITING", "PREFILLING"}
      /\ prefill_progress' = [prefill_progress EXCEPT ![s] = @ + n]
      /\ status' = [status EXCEPT ![s] =
           IF prefill_progress[s] + n = length[s] THEN "DECODING" ELSE "PREFILLING"]
      /\ UNCHANGED <<paged, length, freed, kv_state, phase>>
  BY DEF PrefillChunk
<1>2. /\ prefill_progress \in [Sequence -> Nat] /\ n \in Nat
      /\ status \in [Sequence -> {"WAITING", "PREFILLING", "DECODING", "ENDED"}]
  BY BlockAllocatorAssumption DEF RunnerInv, RunnerTypeOK
<1>3. num_tokens[s] = prefill_progress[s]
  BY <1>1 DEF RunnerInv, EntriesInv, SlotsOf
<1>4. /\ prefill_progress' \in [Sequence -> Nat]
      /\ status' \in [Sequence -> {"WAITING", "PREFILLING", "DECODING", "ENDED"}]
      /\ \A t \in Sequence \ {s} : /\ prefill_progress'[t] = prefill_progress[t]
                                   /\ status'[t] = status[t]
      /\ status[s] # "ENDED" /\ status'[s] \in {"PREFILLING", "DECODING"}
      /\ prefill_progress'[s] = num_tokens[s] + n
      /\ status'[s] = "DECODING" => length[s] = num_tokens[s] + n
  BY <1>1, <1>2, <1>3
<1> QED
  BY <1>1, <1>4, AddEntryInv

\* A decode.
LEMMA DecodeInv ==
  ASSUME RunnerInv, NEW s \in Sequence, Decode(s)
  PROVE  RunnerInv'
<1>1. /\ phase = "planning" /\ s \notin Planned /\ Allocate(s, 1, 0) /\ Add(s, 1, FALSE)
      /\ status[s] = "DECODING"
      /\ UNCHANGED <<paged, length, freed, kv_state, phase>>
      /\ status' = status /\ prefill_progress' = prefill_progress
  BY DEF Decode, seq_state
<1>2. /\ prefill_progress' \in [Sequence -> Nat]
      /\ status' \in [Sequence -> {"WAITING", "PREFILLING", "DECODING", "ENDED"}]
      /\ 1 \in 1 .. MaxNewTokens
  BY <1>1, BlockAllocatorAssumption, ModelRunnerAssumption DEF RunnerInv, RunnerTypeOK
<1>3. length[s] = num_tokens[s] + 1
  BY <1>1 DEF RunnerInv, EntriesInv, SlotsOf
<1> QED
  BY <1>1, <1>2, <1>3, AddEntryInv

\* A sequence without an entry gives its table back.
LEMMA PreemptInv ==
  ASSUME RunnerInv, NEW s \in Sequence, Preempt(s)
  PROVE  RunnerInv'
<1>1. /\ IndInv /\ RunnerTypeOK /\ EntriesInv /\ FreedInv /\ KeptInv /\ RowsInv /\ AttendedInv
  BY DEF RunnerInv
<1>2. /\ phase = "planning" /\ s \notin Planned /\ Free(s)
      /\ prefill_progress' = [prefill_progress EXCEPT ![s] = 0]
      /\ status' = [status EXCEPT ![s] = "WAITING"]
      /\ freed' = freed \cup {s}
      /\ paged' = paged /\ length' = length /\ plan' = plan /\ phase' = phase
      /\ pool' = pool /\ graphs' = graphs /\ buffer' = buffer /\ attended' = attended
  BY DEF Preempt, kv_state
<1>3. /\ IndInv' /\ num_tokens'[s] = 0
      /\ \A t \in Sequence \ {s} : /\ num_tokens'[t] = num_tokens[t]
                                   /\ physical_blocks'[t] = physical_blocks[t]
                                   /\ \A p : Place(t, p)' = Place(t, p)
  BY <1>1, <1>2, FreeMoves
<1>4. /\ Planned' = Planned
      /\ \A k \in 1 .. Len(plan) : plan[k].seq_id \in Sequence \ {s} /\ plan[k].seq_id \in Planned
  <2>1. \A k \in 1 .. Len(plan) : plan[k].seq_id \in Sequence /\ plan[k].seq_id \in Planned
    BY <1>1, EntryTypes
  <2> QED
    BY <1>2, <2>1 DEF Planned
<1>5. /\ prefill_progress' \in [Sequence -> Nat]
      /\ status' \in [Sequence -> {"WAITING", "PREFILLING", "DECODING", "ENDED"}]
      /\ prefill_progress'[s] = 0 /\ status'[s] = "WAITING"
      /\ \A t \in Sequence \ {s} : /\ prefill_progress'[t] = prefill_progress[t]
                                   /\ status'[t] = status[t]
  BY <1>1, <1>2 DEF RunnerTypeOK
<1>6. RunnerTypeOK'
  BY <1>1, <1>2, <1>5 DEF RunnerTypeOK
<1>7. EntriesInv'
  <2>1. ASSUME NEW t \in Sequence PROVE SlotsOf(t)'
    <3>1. SlotsOf(t)
      BY <1>1 DEF EntriesInv
    <3>2. CASE t = s
      BY <1>2, <1>3, <1>4, <1>5, <3>2 DEF SlotsOf
    <3>3. CASE t # s
      BY <1>2, <1>3, <1>4, <1>5, <3>1, <3>3 DEF SlotsOf
    <3> QED
      BY <3>2, <3>3
  <2>2. ASSUME NEW k \in 1 .. Len(plan) PROVE EntryInv(plan[k])'
    <3>1. EntryInv(plan[k])
      BY <1>1 DEF EntriesInv
    <3> QED
      BY <1>2, <1>3, <1>4, <1>5, <3>1 DEF EntryInv
  <2>3. OneEntryEach'
    BY <1>1, <1>2 DEF EntriesInv, OneEntryEach
  <2> QED
    BY <1>2, <2>1, <2>2, <2>3 DEF EntriesInv
<1>8. FreedInv'
  <2>1. ASSUME NEW t \in freed'
        PROVE  /\ t \notin Planned' => num_tokens'[t] = 0
               /\ \A k \in 1 .. Len(plan) :
                    plan[k].seq_id = t => num_tokens'[plan[k].seq_id] - plan[k].n_tokens = 0
    <3>1. CASE t = s
      BY <1>3, <1>4, <3>1
    <3>2. CASE t # s
      <4>1. /\ t \in freed /\ t \in Sequence
            /\ t \notin Planned => num_tokens[t] = 0
            /\ \A k \in 1 .. Len(plan) :
                 plan[k].seq_id = t => num_tokens[plan[k].seq_id] - plan[k].n_tokens = 0
        BY <1>1, <1>2, <2>1, <3>2 DEF FreedInv, RunnerTypeOK, cached
      <4> QED
        BY <1>3, <1>4, <3>2, <4>1
    <3> QED
      BY <3>1, <3>2
  <2> QED
    BY <1>2, <2>1 DEF FreedInv, cached
<1>9. KeptInv'
  <2>1. \A t, m : /\ Kept(t, m) /\ \A p \in 0 .. m - 1 : Place(t, p)' = Place(t, p)
                  => Kept(t, m)'
    BY <1>2, KeptStays
  <2>2. ASSUME NEW t \in Sequence, t \notin Planned'
        PROVE  Kept(t, num_tokens[t])'
    <3>1. CASE t = s
      <4>1. num_tokens'[t] = 0 /\ t \in freed'
        BY <1>2, <1>3, <3>1
      <4>2. \A p \in 0 .. num_tokens'[t] - 1 : FALSE
        BY <4>1
      <4> QED
        BY <4>1, <4>2 DEF Kept
    <3>2. CASE t # s
      <4>1. PICK m : m = num_tokens[t]
        OBVIOUS
      <4>2. Kept(t, m)
        BY <1>1, <1>4, <2>2, <4>1 DEF KeptInv
      <4>3. Kept(t, m)' /\ num_tokens'[t] = m
        BY <1>3, <2>1, <3>2, <4>1, <4>2
      <4> QED
        BY <4>3
    <3> QED
      BY <3>1, <3>2
  <2>3. ASSUME NEW k \in 1 .. Len(plan) PROVE Kept(plan[k].seq_id, cached(plan[k]))'
    <3>1. PICK t, m : t = plan[k].seq_id /\ m = cached(plan[k])
      OBVIOUS
    <3>2. Kept(t, m)
      BY <1>1, <1>2, <3>1 DEF KeptInv
    <3>3. Kept(t, m)'
      BY <1>3, <1>4, <2>1, <3>1, <3>2
    <3>4. plan'[k].seq_id = t /\ num_tokens'[t] - plan'[k].n_tokens = m
      BY <1>2, <1>3, <1>4, <3>1 DEF cached
    <3> QED
      BY <3>3, <3>4 DEF cached
  <2> QED
    BY <1>2, <2>2, <2>3 DEF KeptInv
<1>10. RowsInv'
  <2> SUFFICES ASSUME NEW t \in Sequence, t \notin freed'
               PROVE  /\ status'[t] = "ENDED" =>
                           /\ buffer'[t] = <<>>
                           /\ \A c \in decode_buckets : \A row \in 1 .. c : graphs'[c][row].seq_id # t
                      /\ \A c \in decode_buckets : \A row \in 1 .. c :
                           graphs'[c][row].seq_id = t => Fresh(graphs[c][row], t)'
    BY DEF RowsInv
  <2>1. t # s /\ t \notin freed
    BY <1>2
  <2>2. /\ status[t] = "ENDED" =>
             /\ buffer[t] = <<>>
             /\ \A c \in decode_buckets : \A row \in 1 .. c : graphs[c][row].seq_id # t
        /\ \A c \in decode_buckets : \A row \in 1 .. c :
             graphs[c][row].seq_id = t => Fresh(graphs[c][row], t)
    BY <1>1, <1>2, <2>1 DEF RowsInv
  <2>3. status'[t] = status[t] /\ physical_blocks'[t] = physical_blocks[t]
    BY <1>3, <1>5, <2>1
  <2> QED
    BY <1>2, <2>2, <2>3 DEF Fresh
<1>11. AttendedInv'
  <2>1. attended = <<>>
    BY <1>1, <1>2 DEF AttendedInv
  <2> QED
    BY <1>2, <2>1 DEF AttendedInv, AttendsOwnTokens
<1> QED
  BY <1>3, <1>6, <1>7, <1>8, <1>9, <1>10, <1>11 DEF RunnerInv
-----------------------------------------------------------------------------
(* Forgetting *)

\* What forget leaves of a row.
LEMMA ForgetRows ==
  ASSUME RunnerTypeOK, graphs' = forget(graphs, freed)
  PROVE  /\ DOMAIN graphs' = decode_buckets
         /\ \A b \in decode_buckets : graphs'[b] \in [1 .. b -> Row]
         /\ \A b \in decode_buckets : \A row \in 1 .. b : \A s \in Sequence :
              graphs'[b][row].seq_id = s => s \notin freed /\ graphs'[b][row] = graphs[b][row]
<1>1. /\ DOMAIN graphs = decode_buckets
      /\ \A b \in decode_buckets : graphs[b] \in [1 .. b -> Row]
      /\ NoSeq \notin Sequence
  BY ModelRunnerAssumption DEF RunnerTypeOK
<1>2. /\ DOMAIN graphs' = decode_buckets
      /\ \A b \in decode_buckets :
           graphs'[b] = [row \in 1 .. b |->
             IF graphs[b][row].seq_id \in freed
             THEN [graphs[b][row] EXCEPT !.seq_id = NoSeq] ELSE graphs[b][row]]
  BY <1>1 DEF forget
<1>3. ASSUME NEW b \in decode_buckets, NEW row \in 1 .. b
      PROVE  /\ graphs'[b][row] \in Row
             /\ graphs[b][row].seq_id \in freed => graphs'[b][row].seq_id = NoSeq
             /\ graphs[b][row].seq_id \notin freed => graphs'[b][row] = graphs[b][row]
  <2>1. graphs[b][row] \in Row
    BY <1>1
  <2>2. graphs'[b][row] = IF graphs[b][row].seq_id \in freed
                          THEN [graphs[b][row] EXCEPT !.seq_id = NoSeq] ELSE graphs[b][row]
    <3> DEFINE f(i) == IF graphs[b][i].seq_id \in freed
                       THEN [graphs[b][i] EXCEPT !.seq_id = NoSeq] ELSE graphs[b][i]
    <3>1. graphs'[b] = [i \in 1 .. b |-> f(i)]
      BY <1>2
    <3> HIDE DEF f
    <3>2. graphs'[b][row] = f(row)
      BY <3>1
    <3> QED
      BY <3>2 DEF f
  <2>3. \A r \in Row : /\ [r EXCEPT !.seq_id = NoSeq] \in Row
                       /\ [r EXCEPT !.seq_id = NoSeq].seq_id = NoSeq
    BY DEF Row
  <2> QED
    BY <2>1, <2>2, <2>3
<1>4. ASSUME NEW b \in decode_buckets PROVE graphs'[b] \in [1 .. b -> Row]
  <2> DEFINE f(row) == IF graphs[b][row].seq_id \in freed
                       THEN [graphs[b][row] EXCEPT !.seq_id = NoSeq] ELSE graphs[b][row]
  <2>1. graphs'[b] = [row \in 1 .. b |-> f(row)]
    BY <1>2
  <2> HIDE DEF f
  <2> QED
    BY <1>3, <2>1
<1>5. ASSUME NEW b \in decode_buckets, NEW row \in 1 .. b, NEW s \in Sequence,
             graphs'[b][row].seq_id = s
      PROVE  s \notin freed /\ graphs'[b][row] = graphs[b][row]
  BY <1>1, <1>3, <1>5
<1> QED
  BY <1>2, <1>4, <1>5

\* Nothing is left of what was freed, and nothing was to be read of it.
LEMMA DropFreedInv ==
  ASSUME RunnerInv, DropFreed, UNCHANGED <<vars, paged, seq_state, pool, attended, plan>>,
         \/ phase = "planning" /\ phase' = IF plan = <<>> THEN "planning" ELSE "forward"
         \/ phase \in {"results", "failed"} /\ plan = <<>> /\ phase' = "planning"
  PROVE  RunnerInv'
<1>1. /\ IndInv /\ RunnerTypeOK /\ EntriesInv /\ FreedInv /\ KeptInv /\ RowsInv /\ AttendedInv
  BY DEF RunnerInv
<1>2. /\ free_blocks' = free_blocks /\ physical_blocks' = physical_blocks /\ num_tokens' = num_tokens
      /\ paged' = paged /\ length' = length /\ prefill_progress' = prefill_progress
      /\ status' = status /\ pool' = pool /\ attended' = attended /\ plan' = plan
  BY DEF vars, seq_state
<1>3. /\ graphs' = forget(graphs, freed) /\ freed' = {}
      /\ \A s \in Sequence : buffer'[s] = IF s \in freed THEN <<>> ELSE buffer[s]
  BY DEF DropFreed
<1>4. Planned' = Planned
  BY <1>2 DEF Planned
<1>5. IndInv'
  BY <1>1, StutterInv
<1>6. /\ DOMAIN graphs' = decode_buckets
      /\ \A b \in decode_buckets : graphs'[b] \in [1 .. b -> Row]
      /\ \A b \in decode_buckets : \A row \in 1 .. b : \A s \in Sequence :
           graphs'[b][row].seq_id = s => s \notin freed /\ graphs'[b][row] = graphs[b][row]
  BY <1>1, <1>3, ForgetRows
<1>7. RunnerTypeOK'
  BY <1>1, <1>2, <1>3, <1>6 DEF RunnerTypeOK
<1>8. EntriesInv'
  <2>1. \A s \in Sequence : SlotsOf(s)'
    BY <1>1, <1>2, <1>4 DEF EntriesInv, SlotsOf
  <2>2. \A k \in 1 .. Len(plan) : EntryInv(plan[k])'
    BY <1>1, <1>2 DEF EntriesInv, EntryInv
  <2>3. OneEntryEach'
    BY <1>1, <1>2 DEF EntriesInv, OneEntryEach
  <2> QED
    BY <1>2, <2>1, <2>2, <2>3 DEF EntriesInv
<1>9. FreedInv'
  BY <1>3 DEF FreedInv
<1>10. KeptInv'
  <2>1. ASSUME NEW t \in Sequence, NEW m, Kept(t, m), t \in freed => m = 0
        PROVE  Kept(t, m)'
    <3>1. \A p : Place(t, p)' = Place(t, p)
      BY <1>2 DEF Place
    <3>2. CASE t \in freed
      <4>1. m = 0 /\ buffer'[t] = <<>>
        BY <1>3, <2>1, <3>2
      <4>2. /\ <<>> \in Seq(Pair) /\ Len(<<>>) = 0
            /\ \A k \in 1 .. 0 : FALSE
            /\ \A p \in 0 .. 0 - 1 : FALSE
        OBVIOUS
      <4> QED
        BY <4>1, <4>2 DEF Kept
    <3>3. CASE t \notin freed
      <4>1. buffer'[t] = buffer[t]
        BY <1>3, <3>3
      <4>2. /\ paged => \A p \in 0 .. m - 1 : pool[Place(t, p)[1]][Place(t, p)[2]] = <<t, p, p>>
            /\ ~ paged => /\ buffer[t] \in Seq(Pair) /\ Len(buffer[t]) = m
                          /\ \A k \in 1 .. m : buffer[t][k] = <<t, k - 1, k - 1>>
        BY <2>1, <3>3 DEF Kept
      <4>3. paged' => \A p \in 0 .. m - 1 : pool'[Place(t, p)'[1]][Place(t, p)'[2]] = <<t, p, p>>
        BY <1>2, <4>2 DEF Place
      <4> QED
        BY <1>2, <4>1, <4>2, <4>3 DEF Kept
    <3> QED
      BY <3>2, <3>3
  <2>2. phase # "planning" => Planned = {}
    BY DEF Planned
  <2>3. ASSUME NEW t \in Sequence, t \notin Planned' PROVE Kept(t, num_tokens[t])'
    <3>1. PICK m : m = num_tokens[t]
      OBVIOUS
    <3>2. Kept(t, m)
      BY <1>1, <1>4, <2>3, <3>1 DEF KeptInv
    <3>3. t \in freed => m = 0
      <4>1. CASE phase = "planning"
        BY <1>1, <1>4, <2>3, <3>1, <4>1 DEF FreedInv
      <4>2. CASE phase # "planning"
        BY <1>1, <3>1, <4>2 DEF FreedInv, EntriesInv, SlotsOf
      <4> QED
        BY <4>1, <4>2
    <3>4. Kept(t, m)' /\ num_tokens'[t] = m
      BY <1>2, <2>1, <3>1, <3>2, <3>3
    <3> QED
      BY <3>4
  <2>4. ASSUME NEW k \in 1 .. Len(plan) PROVE Kept(plan[k].seq_id, cached(plan[k]))'
    <3>1. PICK t, m : t = plan[k].seq_id /\ m = cached(plan[k])
      OBVIOUS
    <3>2. t \in Sequence /\ t \in Planned /\ phase = "planning"
      BY <1>1, <2>2, <3>1, EntryTypes
    <3>3. Kept(t, m)
      BY <1>1, <3>1, <3>2 DEF KeptInv
    <3>4. t \in freed => m = 0
      BY <1>1, <3>1, <3>2 DEF FreedInv
    <3>5. Kept(t, m)'
      BY <2>1, <3>2, <3>3, <3>4
    <3>6. plan'[k].seq_id = t /\ num_tokens'[t] - plan'[k].n_tokens = m
      BY <1>2, <3>1 DEF cached
    <3> QED
      BY <3>5, <3>6 DEF cached
  <2>5. phase' # "results"
    OBVIOUS
  <2> QED
    BY <1>2, <2>3, <2>4, <2>5 DEF KeptInv
<1>11. RowsInv'
  <2> SUFFICES ASSUME NEW t \in Sequence
               PROVE  /\ status'[t] = "ENDED" =>
                           /\ buffer'[t] = <<>>
                           /\ \A c \in decode_buckets : \A row \in 1 .. c : graphs'[c][row].seq_id # t
                      /\ \A c \in decode_buckets : \A row \in 1 .. c :
                           graphs'[c][row].seq_id = t => Fresh(graphs[c][row], t)'
    BY DEF RowsInv
  <2>1. CASE t \in freed
    BY <1>3, <1>6, <2>1
  <2>2. CASE t \notin freed
    <3>1. ~ (phase = "failed" /\ t \in Planned)
      BY DEF Planned
    <3>2. /\ status[t] = "ENDED" =>
               /\ buffer[t] = <<>>
               /\ \A c \in decode_buckets : \A row \in 1 .. c : graphs[c][row].seq_id # t
          /\ \A c \in decode_buckets : \A row \in 1 .. c :
               graphs[c][row].seq_id = t => Fresh(graphs[c][row], t)
      BY <1>1, <2>2, <3>1 DEF RowsInv
    <3>3. \A c \in decode_buckets : \A row \in 1 .. c :
            graphs'[c][row].seq_id = t => graphs'[c][row] = graphs[c][row]
      BY <1>6
    <3> QED
      BY <1>2, <1>3, <2>2, <3>2, <3>3 DEF Fresh
  <2> QED
    BY <2>1, <2>2
<1>12. AttendedInv'
  <2>1. attended = <<>>
    BY <1>1 DEF AttendedInv
  <2> QED
    BY <1>2, <2>1 DEF AttendedInv, AttendsOwnTokens
<1> QED
  BY <1>5, <1>7, <1>8, <1>9, <1>10, <1>11, <1>12 DEF RunnerInv

LEMMA HandOverInv == RunnerInv /\ HandOver => RunnerInv'
BY DropFreedInv DEF HandOver

LEMMA EndIterationInv == RunnerInv /\ EndIteration => RunnerInv'
BY DropFreedInv DEF EndIteration
-----------------------------------------------------------------------------
(* What an outcome does *)

\* The sequence of the first entry ends.
LEMMA EndEntryInv ==
  ASSUME RunnerInv, NEW s, plan # <<>>, phase \in {"results", "failed"},
         s = Head(plan).seq_id, End(s), plan' = Tail(plan), attended' = <<>>,
         length' \in [Sequence -> Nat], \A t \in Sequence \ {s} : length'[t] = length[t],
         UNCHANGED <<paged, prefill_progress, pool, graphs, buffer, phase>>
  PROVE  RunnerInv'
<1>1. /\ IndInv /\ RunnerTypeOK /\ EntriesInv /\ OneEntryEach /\ FreedInv /\ KeptInv /\ RowsInv
  BY DEF RunnerInv, EntriesInv
<1>2. /\ plan' \in Seq(Entry) /\ Len(plan') = Len(plan) - 1 /\ Len(plan) \in Nat
      /\ Head(plan) = plan[1] /\ Head(plan) \in Entry /\ 1 \in 1 .. Len(plan)
      /\ s \in Planned
      /\ \A k \in 1 .. Len(plan') : /\ plan'[k] = plan[k + 1] /\ k + 1 \in 1 .. Len(plan)
                                    /\ plan[k + 1].seq_id # s
      /\ Planned' = Planned \ {s}
      /\ OneEntryEach'
  BY <1>1, PlanShrinks
<1>3. s \in Sequence
  BY <1>2 DEF Entry
<1>4. /\ Free(s) /\ status' = [status EXCEPT ![s] = "ENDED"] /\ freed' = freed \cup {s}
      /\ paged' = paged /\ prefill_progress' = prefill_progress /\ pool' = pool
      /\ graphs' = graphs /\ buffer' = buffer /\ phase' = phase
  BY DEF End
<1>5. /\ IndInv' /\ num_tokens'[s] = 0
      /\ \A t \in Sequence \ {s} : /\ num_tokens'[t] = num_tokens[t]
                                   /\ physical_blocks'[t] = physical_blocks[t]
                                   /\ \A p : Place(t, p)' = Place(t, p)
  BY <1>1, <1>3, <1>4, FreeMoves
<1>6. /\ status' \in [Sequence -> {"WAITING", "PREFILLING", "DECODING", "ENDED"}]
      /\ status'[s] = "ENDED"
      /\ \A t \in Sequence \ {s} : status'[t] = status[t]
  BY <1>1, <1>3, <1>4 DEF RunnerTypeOK
<1>7. RunnerTypeOK'
  BY <1>1, <1>2, <1>3, <1>4, <1>6 DEF RunnerTypeOK
<1>8. EntriesInv'
  <2>1. ASSUME NEW t \in Sequence PROVE SlotsOf(t)'
    <3>1. SlotsOf(t)
      BY <1>1 DEF EntriesInv
    <3>2. CASE t = s
      BY <1>2, <1>5, <1>6, <3>2 DEF SlotsOf
    <3>3. CASE t # s
      BY <1>2, <1>4, <1>5, <1>6, <3>1, <3>3 DEF SlotsOf
    <3> QED
      BY <3>2, <3>3
  <2>2. ASSUME NEW k \in 1 .. Len(plan') PROVE EntryInv(plan[k])'
    <3>1. plan'[k] = plan[k + 1] /\ plan[k + 1].seq_id \in Sequence \ {s}
      BY <1>1, <1>2, EntryTypes
    <3>2. EntryInv(plan[k + 1])
      BY <1>1, <1>2 DEF EntriesInv
    <3> QED
      BY <1>4, <1>5, <1>6, <3>1, <3>2 DEF EntryInv
  <2> QED
    BY <1>2, <1>4, <2>1, <2>2 DEF EntriesInv
<1>9. FreedInv'
  <2>1. \A t \in freed' : status'[t] = "ENDED"
    BY <1>1, <1>4, <1>6 DEF FreedInv, RunnerTypeOK
  <2> QED
    BY <1>4, <2>1 DEF FreedInv
<1>10. KeptInv'
  <2>1. \A t, m : /\ Kept(t, m) /\ \A p \in 0 .. m - 1 : Place(t, p)' = Place(t, p)
                  => Kept(t, m)'
    BY <1>4, KeptStays
  <2>2. ASSUME NEW t \in Sequence, t \notin Planned' \/ phase' = "results"
        PROVE  Kept(t, num_tokens[t])'
    <3>1. CASE t = s
      <4>1. num_tokens'[t] = 0 /\ t \in freed'
        BY <1>4, <1>5, <3>1
      <4>2. \A p \in 0 .. num_tokens'[t] - 1 : FALSE
        BY <4>1
      <4> QED
        BY <4>1, <4>2 DEF Kept
    <3>2. CASE t # s
      <4>1. PICK m : m = num_tokens[t]
        OBVIOUS
      <4>2. Kept(t, m)
        BY <1>1, <1>2, <1>4, <2>2, <3>2, <4>1 DEF KeptInv
      <4>3. Kept(t, m)' /\ num_tokens'[t] = m
        BY <1>5, <2>1, <3>2, <4>1, <4>2
      <4> QED
        BY <4>3
    <3> QED
      BY <3>1, <3>2
  <2> QED
    BY <1>4, <2>2 DEF KeptInv
<1>11. RowsInv'
  <2> SUFFICES ASSUME NEW t \in Sequence, t \notin freed'
               PROVE  /\ status'[t] = "ENDED" =>
                           /\ buffer'[t] = <<>>
                           /\ \A c \in decode_buckets : \A row \in 1 .. c : graphs'[c][row].seq_id # t
                      /\ ~ (phase' = "failed" /\ t \in Planned') =>
                           \A c \in decode_buckets : \A row \in 1 .. c :
                             graphs'[c][row].seq_id = t => Fresh(graphs[c][row], t)'
    BY DEF RowsInv
  <2>1. t # s /\ t \notin freed
    BY <1>4
  <2>2. /\ status[t] = "ENDED" =>
             /\ buffer[t] = <<>>
             /\ \A c \in decode_buckets : \A row \in 1 .. c : graphs[c][row].seq_id # t
        /\ ~ (phase = "failed" /\ t \in Planned) =>
             \A c \in decode_buckets : \A row \in 1 .. c :
               graphs[c][row].seq_id = t => Fresh(graphs[c][row], t)
    BY <1>1, <2>1 DEF RowsInv
  <2>3. /\ status'[t] = status[t] /\ physical_blocks'[t] = physical_blocks[t]
        /\ t \in Planned' <=> t \in Planned
    BY <1>2, <1>5, <1>6, <2>1
  <2> QED
    BY <1>4, <2>2, <2>3 DEF Fresh
<1>12. AttendedInv'
  BY DEF AttendedInv, AttendsOwnTokens
<1> QED
  BY <1>5, <1>7, <1>8, <1>9, <1>10, <1>11, <1>12 DEF RunnerInv

\* The sequence of the first entry goes on, with a token more if it was owed one.
LEMMA KeepEntryInv ==
  ASSUME RunnerInv, NEW s, plan # <<>>, phase = "results",
         s = Head(plan).seq_id, plan' = Tail(plan), attended' = <<>>,
         length' \in [Sequence -> Nat], \A t \in Sequence \ {s} : length'[t] = length[t],
         status[s] = "DECODING" => length'[s] = length[s] + 1,
         UNCHANGED <<vars, paged, prefill_progress, status, freed, pool, graphs, buffer, phase>>
  PROVE  RunnerInv'
<1>1. /\ IndInv /\ RunnerTypeOK /\ EntriesInv /\ OneEntryEach /\ FreedInv /\ KeptInv /\ RowsInv
  BY DEF RunnerInv, EntriesInv
<1>2. /\ plan' \in Seq(Entry) /\ Len(plan') = Len(plan) - 1 /\ Len(plan) \in Nat
      /\ Head(plan) \in Entry
      /\ s \in Planned
      /\ \A k \in 1 .. Len(plan') : /\ plan'[k] = plan[k + 1] /\ k + 1 \in 1 .. Len(plan)
                                    /\ plan[k + 1].seq_id # s
      /\ Planned' = Planned \ {s}
      /\ OneEntryEach'
  BY <1>1, PlanShrinks
<1>3. s \in Sequence
  BY <1>2 DEF Entry
<1>4. /\ physical_blocks' = physical_blocks /\ num_tokens' = num_tokens
      /\ paged' = paged /\ prefill_progress' = prefill_progress /\ status' = status
      /\ freed' = freed /\ pool' = pool
      /\ graphs' = graphs /\ buffer' = buffer /\ phase' = phase
  BY DEF vars
<1>5. IndInv'
  BY <1>1, StutterInv
<1>6. RunnerTypeOK'
  BY <1>1, <1>2, <1>4 DEF RunnerTypeOK
<1>7. EntriesInv'
  <2>1. ASSUME NEW t \in Sequence PROVE SlotsOf(t)'
    <3>1. SlotsOf(t)
      BY <1>1 DEF EntriesInv
    <3>2. CASE t = s
      <4>1. num_tokens[s] \in Nat /\ length[s] \in Nat
        BY <1>3, SequenceTypes
      <4> QED
        BY <1>2, <1>4, <3>1, <3>2, <4>1 DEF SlotsOf
    <3>3. CASE t # s
      BY <1>2, <1>4, <3>1, <3>3 DEF SlotsOf
    <3> QED
      BY <3>2, <3>3
  <2>2. ASSUME NEW k \in 1 .. Len(plan') PROVE EntryInv(plan[k])'
    <3>1. plan'[k] = plan[k + 1]
      BY <1>2
    <3>2. EntryInv(plan[k + 1])
      BY <1>1, <1>2 DEF EntriesInv
    <3> QED
      BY <1>4, <3>1, <3>2 DEF EntryInv
  <2> QED
    BY <1>2, <1>4, <2>1, <2>2 DEF EntriesInv
<1>8. FreedInv'
  BY <1>1, <1>4 DEF FreedInv
<1>9. KeptInv'
  <2>1. \A t, p : Place(t, p)' = Place(t, p)
    BY <1>4 DEF Place
  <2>2. \A t, m : Kept(t, m) => Kept(t, m)'
    BY <1>4, <2>1, KeptStays
  <2>3. ASSUME NEW t \in Sequence PROVE Kept(t, num_tokens[t])'
    <3>1. PICK m : m = num_tokens[t]
      OBVIOUS
    <3>2. Kept(t, m)' /\ num_tokens'[t] = m
      BY <1>1, <1>4, <2>2, <3>1 DEF KeptInv
    <3> QED
      BY <3>2
  <2> QED
    BY <1>4, <2>3 DEF KeptInv
<1>10. RowsInv'
  BY <1>1, <1>4 DEF RowsInv, Fresh
<1>11. AttendedInv'
  BY DEF AttendedInv, AttendsOwnTokens
<1> QED
  BY <1>5, <1>6, <1>7, <1>8, <1>9, <1>10, <1>11 DEF RunnerInv

\* The results are folded in.
LEMMA ApplyResultInv ==
  ASSUME RunnerInv, ApplyResult
  PROVE  RunnerInv'
<1> DEFINE e == Head(plan)
           s == e.seq_id
<1>1. /\ phase = "results" /\ plan # <<>> /\ plan' = Tail(plan) /\ attended' = <<>>
      /\ paged' = paged /\ prefill_progress' = prefill_progress /\ pool' = pool
      /\ graphs' = graphs /\ buffer' = buffer /\ phase' = phase
  BY DEF ApplyResult
<1>2. /\ length \in [Sequence -> Nat] /\ RunnerTypeOK /\ OneEntryEach /\ EntriesInv
  BY DEF RunnerInv, RunnerTypeOK, EntriesInv
<1>3. e \in Entry /\ e = plan[1] /\ 1 \in 1 .. Len(plan) /\ s \in Planned
  BY <1>1, <1>2, PlanShrinks
<1>4. s \in Sequence
  BY <1>3 DEF Entry
<1>5. PICK t : t = s
  OBVIOUS
<1>6. CASE owes_token(e)
  <2>1. /\ length' = [length EXCEPT ![s] = @ + 1]
        /\ \/ End(s)
           \/ UNCHANGED <<vars, status, freed>>
    BY <1>6 DEF ApplyResult
  <2>2. /\ length' \in [Sequence -> Nat] /\ \A u \in Sequence \ {s} : length'[u] = length[u]
        /\ length'[s] = length[s] + 1
    BY <1>2, <1>4, <2>1
  <2> HIDE DEF s, e
  <2>3. CASE End(s)
    <3>1. End(t) /\ t = Head(plan).seq_id
      BY <1>5, <2>3 DEF s, e
    <3> QED
      BY <1>1, <1>5, <2>2, <3>1, EndEntryInv
  <2>4. CASE UNCHANGED <<vars, status, freed>>
    <3>1. t = Head(plan).seq_id
      BY <1>5 DEF s, e
    <3> QED
      BY <1>1, <1>5, <2>2, <2>4, <3>1, KeepEntryInv
  <2> QED
    BY <2>1, <2>3, <2>4
<1>7. CASE ~ owes_token(e)
  <2>1. UNCHANGED <<vars, length, status, freed>>
    BY <1>7 DEF ApplyResult
  <2>2. status[s] # "DECODING"
    BY <1>7 DEF owes_token
  <2> HIDE DEF s, e
  <2>3. t = Head(plan).seq_id
    BY <1>5 DEF s, e
  <2>4. length' \in [Sequence -> Nat] /\ \A u \in Sequence \ {t} : length'[u] = length[u]
    BY <1>2, <2>1
  <2> QED
    BY <1>1, <1>5, <2>1, <2>2, <2>3, <2>4, KeepEntryInv
<1> QED
  BY <1>6, <1>7

\* A sequence whose pass failed is aborted.
LEMMA AbortEntryInv ==
  ASSUME RunnerInv, AbortEntry
  PROVE  RunnerInv'
<1>1. PICK t : t = Head(plan).seq_id
  OBVIOUS
<1>2. /\ phase = "failed" /\ plan # <<>> /\ End(t) /\ plan' = Tail(plan)
      /\ UNCHANGED <<paged, prefill_progress, pool, graphs, buffer, phase>>
      /\ attended' = attended /\ length' = length
  BY <1>1 DEF AbortEntry, kv_state
<1>3. attended = <<>> /\ length \in [Sequence -> Nat]
  BY <1>2 DEF RunnerInv, AttendedInv, RunnerTypeOK
<1> QED
  BY <1>1, <1>2, <1>3, EndEntryInv
-----------------------------------------------------------------------------
(* A pass over buffers *)

\* The entry of a planned sequence.
LEMMA EntryOfPlanned ==
  ASSUME RunnerTypeOK, OneEntryEach
  PROVE  /\ \A k \in 1 .. Len(plan) : RowOf(plan[k].seq_id) = k /\ EntryOf(plan[k].seq_id) = plan[k]
         /\ \A s \in Planned : \E k \in 1 .. Len(plan) :
              plan[k].seq_id = s /\ RowOf(s) = k /\ EntryOf(s) = plan[k]
<1>1. DOMAIN plan = 1 .. Len(plan)
  BY DEF RunnerTypeOK
<1>2. ASSUME NEW k \in 1 .. Len(plan) PROVE RowOf(plan[k].seq_id) = k
  <2>1. \E j \in DOMAIN plan : plan[j].seq_id = plan[k].seq_id
    BY <1>1
  <2>2. /\ RowOf(plan[k].seq_id) \in DOMAIN plan
        /\ plan[RowOf(plan[k].seq_id)].seq_id = plan[k].seq_id
    BY <2>1, Zenon DEF RowOf
  <2> QED
    BY <1>1, <2>2 DEF OneEntryEach
<1>3. ASSUME NEW s \in Planned PROVE \E k \in 1 .. Len(plan) : plan[k].seq_id = s
  BY <1>1, <1>3 DEF Planned
<1> QED
  BY <1>2, <1>3 DEF EntryOf

\* What an entry computes starts where its sequence's slots ended.
LEMMA StartIsCached ==
  ASSUME RunnerInv, NEW k \in 1 .. Len(plan)
  PROVE  /\ start_pos(plan[k]) = cached(plan[k]) /\ cached(plan[k]) \in Nat
         /\ num_tokens[plan[k].seq_id] = cached(plan[k]) + plan[k].n_tokens
         /\ ~ plan[k].is_prefill_chunk =>
              plan[k].n_tokens = 1 /\ length[plan[k].seq_id] = num_tokens[plan[k].seq_id]
<1> DEFINE e == plan[k]
           s == e.seq_id
<1>1. RunnerTypeOK /\ EntriesInv
  BY DEF RunnerInv
<1>2. s \in Sequence /\ s \in Planned /\ e.n_tokens \in Nat
  BY <1>1, EntryTypes
<1>3. EntryInv(e) /\ SlotsOf(s)
  BY <1>1, <1>2 DEF EntriesInv
<1>4. num_tokens[s] \in Nat /\ length[s] \in Nat /\ prefill_progress[s] \in Nat
  BY <1>2, SequenceTypes
<1> HIDE DEF e
<1> QED
  BY <1>2, <1>3, <1>4 DEF e, EntryInv, SlotsOf, start_pos, cached

\* A pass moves no sequence and no slot.
LEMMA PassFrame ==
  ASSUME RunnerInv, phase = "forward", phase' \in {"results", "failed"},
         UNCHANGED <<vars, paged, seq_state, plan, freed>>
  PROVE  /\ IndInv' /\ EntriesInv' /\ FreedInv'
         /\ physical_blocks' = physical_blocks /\ num_tokens' = num_tokens
         /\ paged' = paged /\ status' = status /\ plan' = plan
         /\ length' = length /\ prefill_progress' = prefill_progress
         /\ freed = {} /\ freed' = {}
         /\ Planned' = Planned /\ plan # <<>>
<1>1. /\ IndInv /\ RunnerTypeOK /\ EntriesInv /\ FreedInv
  BY DEF RunnerInv
<1>2. /\ physical_blocks' = physical_blocks /\ num_tokens' = num_tokens
      /\ paged' = paged /\ status' = status /\ plan' = plan
      /\ length' = length /\ prefill_progress' = prefill_progress
      /\ freed = {} /\ freed' = {} /\ plan # <<>>
  BY <1>1 DEF vars, seq_state, FreedInv, EntriesInv
<1>3. Planned' = Planned
  BY <1>2 DEF Planned
<1>4. EntriesInv'
  <2>1. \A s \in Sequence : SlotsOf(s)'
    BY <1>1, <1>2, <1>3 DEF EntriesInv, SlotsOf
  <2>2. \A k \in 1 .. Len(plan) : EntryInv(plan[k])'
    BY <1>1, <1>2 DEF EntriesInv, EntryInv
  <2>3. OneEntryEach'
    BY <1>1, <1>2 DEF EntriesInv, OneEntryEach
  <2> QED
    BY <1>2, <2>1, <2>2, <2>3 DEF EntriesInv
<1>5. FreedInv'
  BY <1>2 DEF FreedInv
<1>6. IndInv'
  BY <1>1, StutterInv
<1> QED
  BY <1>2, <1>3, <1>4, <1>5, <1>6

\* A buffer extended by its entry holds all of its sequence's tokens in order.
LEMMA ExtendedInOrder ==
  ASSUME RunnerInv, phase = "forward", ~ paged, NEW k \in 1 .. Len(plan)
  PROVE  LET s == plan[k].seq_id
             x == Extended(plan[k])
         IN /\ x \in Seq(Pair) /\ Len(x) = num_tokens[s]
            /\ \A i \in 1 .. num_tokens[s] : x[i] = <<s, i - 1, i - 1>>
<1>1. RunnerTypeOK /\ FreedInv /\ KeptInv
  BY DEF RunnerInv
<1>2. /\ start_pos(plan[k]) = cached(plan[k]) /\ cached(plan[k]) \in Nat
      /\ num_tokens[plan[k].seq_id] = cached(plan[k]) + plan[k].n_tokens
  BY StartIsCached
<1>3. plan[k].seq_id \in Sequence /\ plan[k].n_tokens \in Nat
  BY <1>1, EntryTypes
<1>4. PICK s, c, n, f : /\ s = plan[k].seq_id /\ c = cached(plan[k]) /\ n = plan[k].n_tokens
                        /\ f = buffer[plan[k].seq_id]
  OBVIOUS
<1>5. /\ f \in Seq(Pair) /\ Len(f) = c /\ c \in Nat /\ n \in Nat /\ s \in Sequence
      /\ \A i \in 1 .. c : f[i] = <<s, i - 1, i - 1>>
  BY <1>1, <1>2, <1>3, <1>4 DEF FreedInv, KeptInv, Kept
<1> DEFINE g == [i \in 1 .. n |-> <<s, c + (i - 1), c + (i - 1)>>]
<1>6. Extended(plan[k]) = f \o g
  BY <1>2, <1>4 DEF Extended, Computed
<1>7. g \in Seq(Pair) /\ Len(g) = n
  <2>1. \A i \in 1 .. n : <<s, c + (i - 1), c + (i - 1)>> \in Pair
    BY <1>5 DEF Pair
  <2>2. n \in Nat
    BY <1>5
  <2>3. PICK T : T = Pair
    OBVIOUS
  <2>4. \A i \in 1 .. n : g[i] \in T
    BY <2>1, <2>3
  <2>5. DOMAIN g = 1 .. n
    OBVIOUS
  <2>6. g = [i \in 1 .. n |-> g[i]]
    OBVIOUS
  <2> HIDE DEF g
  <2>7. g \in [1 .. n -> T]
    BY <2>4, <2>6
  <2>8. g \in Seq(T) /\ Len(g) = n
    BY <2>2, <2>7
  <2> QED
    BY <2>3, <2>8
<1>8. \A i \in 1 .. n : g[i] = <<s, c + (i - 1), c + (i - 1)>>
  OBVIOUS
<1> HIDE DEF g
<1>9. /\ f \o g \in Seq(Pair) /\ Len(f \o g) = c + n
      /\ \A i \in 1 .. c + n : (f \o g)[i] = IF i =< c THEN f[i] ELSE g[i - c]
  BY <1>5, <1>7, ConcatProperties
<1>10. ASSUME NEW i \in 1 .. c + n PROVE (f \o g)[i] = <<s, i - 1, i - 1>>
  <2>1. CASE i =< c
    BY <1>5, <1>9, <2>1
  <2>2. CASE ~ (i =< c)
    <3>1. i - c \in 1 .. n /\ c + ((i - c) - 1) = i - 1
      BY <1>5, <2>2
    <3>2. g[i - c] = <<s, i - 1, i - 1>>
      BY <1>8, <3>1
    <3> QED
      BY <1>9, <2>2, <3>2
  <2> QED
    BY <2>1, <2>2
<1> QED
  BY <1>2, <1>4, <1>6, <1>9, <1>10

LEMMA ForwardBufferedInv ==
  ASSUME RunnerInv, ForwardBuffered
  PROVE  RunnerInv'
<1>1. /\ RunnerTypeOK /\ EntriesInv /\ OneEntryEach /\ KeptInv /\ RowsInv
  BY DEF RunnerInv, EntriesInv
<1>2. /\ phase = "forward" /\ ~ paged /\ phase' = "results"
      /\ attended' = [s \in Planned |-> Extended(EntryOf(s))]
      /\ buffer' = [s \in Sequence |-> IF s \in Planned THEN attended'[s] ELSE buffer[s]]
      /\ UNCHANGED <<vars, paged, seq_state, plan, freed>>
      /\ pool' = pool /\ graphs' = graphs
  BY DEF ForwardBuffered
<1>3. /\ IndInv' /\ EntriesInv' /\ FreedInv'
      /\ physical_blocks' = physical_blocks /\ num_tokens' = num_tokens
      /\ paged' = paged /\ status' = status /\ plan' = plan
      /\ length' = length /\ prefill_progress' = prefill_progress
      /\ freed = {} /\ freed' = {}
      /\ Planned' = Planned /\ plan # <<>>
  BY <1>2, PassFrame
<1>4. RunnerTypeOK'
  BY <1>1, <1>2, <1>3 DEF RunnerTypeOK
<1>5. ASSUME NEW s \in Planned
      PROVE  /\ attended'[s] \in Seq(Pair) /\ Len(attended'[s]) = num_tokens[s]
             /\ \A i \in 1 .. num_tokens[s] : attended'[s][i] = <<s, i - 1, i - 1>>
  <2>1. PICK k \in 1 .. Len(plan) : plan[k].seq_id = s /\ EntryOf(s) = plan[k]
    BY <1>1, EntryOfPlanned
  <2>2. attended'[s] = Extended(plan[k])
    BY <1>2, <2>1
  <2> QED
    BY <1>2, <2>1, <2>2, ExtendedInOrder
<1>6. KeptInv'
  <2>1. ASSUME NEW s \in Sequence PROVE Kept(s, num_tokens[s])'
    <3>1. CASE s \in Planned
      <4>1. buffer'[s] = attended'[s]
        BY <1>2, <3>1
      <4>2. ~ paged' /\ num_tokens'[s] = num_tokens[s]
        BY <1>2, <1>3
      <4> QED
        BY <1>5, <3>1, <4>1, <4>2 DEF Kept
    <3>2. CASE s \notin Planned
      <4>1. Kept(s, num_tokens[s])
        BY <1>1, <3>2 DEF KeptInv
      <4>2. buffer'[s] = buffer[s]
        BY <1>2, <3>2
      <4> QED
        BY <1>2, <1>3, <4>1, <4>2 DEF Kept
    <3> QED
      BY <3>1, <3>2
  <2> QED
    BY <1>2, <2>1 DEF KeptInv
<1>7. RowsInv'
  <2> SUFFICES ASSUME NEW t \in Sequence
               PROVE  /\ status[t] = "ENDED" =>
                           /\ buffer'[t] = <<>>
                           /\ \A c \in decode_buckets : \A row \in 1 .. c : graphs[c][row].seq_id # t
                      /\ \A c \in decode_buckets : \A row \in 1 .. c :
                           graphs[c][row].seq_id = t => Fresh(graphs[c][row], t)'
    BY <1>2, <1>3 DEF RowsInv
  <2>1. /\ status[t] = "ENDED" =>
             /\ buffer[t] = <<>>
             /\ \A c \in decode_buckets : \A row \in 1 .. c : graphs[c][row].seq_id # t
        /\ \A c \in decode_buckets : \A row \in 1 .. c :
             graphs[c][row].seq_id = t => Fresh(graphs[c][row], t)
    BY <1>1, <1>2, <1>3 DEF RowsInv
  <2>2. status[t] = "ENDED" => t \notin Planned
    BY <1>1 DEF EntriesInv, SlotsOf
  <2> QED
    BY <1>2, <1>3, <2>1, <2>2 DEF Fresh
<1>8. AttendedInv'
  <2>1. DOMAIN attended' = Planned
    BY <1>2
  <2>2. ASSUME NEW s \in Planned
        PROVE  /\ Len(attended'[s]) = num_tokens'[s]
               /\ \A k \in 1 .. Len(attended'[s]) : attended'[s][k] = <<s, k - 1, k - 1>>
    BY <1>3, <1>5
  <2>3. AttendsOwnTokens'
    BY <2>1, <2>2 DEF AttendsOwnTokens
  <2> QED
    BY <1>2, <1>3, <2>3 DEF AttendedInv
<1> QED
  BY <1>3, <1>4, <1>6, <1>7, <1>8 DEF RunnerInv
-----------------------------------------------------------------------------
(* A pass over the pool *)

\* Where the i-th token of an entry goes, and that it has a slot.
LEMMA DestIsPlace ==
  ASSUME RunnerInv, NEW k \in 1 .. Len(plan), NEW i \in 0 .. plan[k].n_tokens - 1
  PROVE  /\ dest(plan[k], i) = Place(plan[k].seq_id, cached(plan[k]) + i)
         /\ cached(plan[k]) + i \in 0 .. num_tokens[plan[k].seq_id] - 1
         /\ cached(plan[k]) \in Nat /\ i \in Nat
<1>1. /\ cached(plan[k]) \in Nat
      /\ num_tokens[plan[k].seq_id] = cached(plan[k]) + plan[k].n_tokens
  BY StartIsCached
<1>2. plan[k].n_tokens \in Nat
  BY EntryTypes DEF RunnerInv
<1>3. PICK c, n : c = cached(plan[k]) /\ n = plan[k].n_tokens
  OBVIOUS
<1>4. i \in Nat /\ c + i \in 0 .. (c + n) - 1
  BY <1>1, <1>2, <1>3
<1> QED
  BY <1>1, <1>3, <1>4 DEF dest, Place

\* The tokens of a plan, as Written counts them.
Rows == {r \in Range(plan) \X (0 .. MaxNewTokens - 1) : r[2] < r[1].n_tokens}

LEMMA RowsAreTokens ==
  ASSUME RunnerTypeOK
  PROVE  /\ \A r \in Rows : \E k \in 1 .. Len(plan) : \E i \in 0 .. plan[k].n_tokens - 1 :
              r = <<plan[k], i>>
         /\ \A k \in 1 .. Len(plan) : \A i \in 0 .. plan[k].n_tokens - 1 : <<plan[k], i>> \in Rows
<1>1. DOMAIN plan = 1 .. Len(plan)
  BY DEF RunnerTypeOK
<1>2. ASSUME NEW r \in Rows
      PROVE  \E k \in 1 .. Len(plan) : \E i \in 0 .. plan[k].n_tokens - 1 : r = <<plan[k], i>>
  <2>1. /\ r[1] \in Range(plan) /\ r[2] \in 0 .. MaxNewTokens - 1 /\ r[2] < r[1].n_tokens
        /\ r = <<r[1], r[2]>>
    BY DEF Rows
  <2>2. PICK k \in 1 .. Len(plan) : r[1] = plan[k]
    BY <1>1, <2>1 DEF Range
  <2>3. plan[k].n_tokens \in Nat
    BY EntryTypes
  <2>4. r[2] \in 0 .. plan[k].n_tokens - 1
    BY <2>1, <2>2, <2>3, BlockAllocatorAssumption
  <2> QED
    BY <2>1, <2>2, <2>4
<1>3. ASSUME NEW k \in 1 .. Len(plan), NEW i \in 0 .. plan[k].n_tokens - 1
      PROVE  <<plan[k], i>> \in Rows
  <2>1. plan[k].n_tokens \in 1 .. MaxNewTokens
    BY EntryTypes
  <2>2. i \in 0 .. MaxNewTokens - 1 /\ i < plan[k].n_tokens
    BY <2>1, BlockAllocatorAssumption
  <2>3. plan[k] \in Range(plan)
    BY <1>1 DEF Range
  <2> QED
    BY <2>2, <2>3 DEF Rows
<1> QED
  BY <1>2, <1>3

\* Written, taken apart: its slots, and the pair each gets.
LEMMA WrittenParts ==
  ASSUME NEW g \in BOOLEAN, NEW pad \in BOOLEAN
  PROVE  /\ DOMAIN Written(g, pad) = {dest(r[1], r[2]) : r \in Rows}
                       \cup (IF pad THEN {<<_scratch_block_id, 0>>} ELSE {})
         /\ \A slot \in DOMAIN Written(g, pad) : slot # <<_scratch_block_id, 0>> =>
              \E r \in Rows : /\ dest(r[1], r[2]) = slot
                              /\ Written(g, pad)[slot] =
                                   IF g THEN ComputedInGraph(r[1]) ELSE Computed(r[1], r[2])
<1> DEFINE Pick(slot) == CHOOSE r \in Rows : dest(r[1], r[2]) = slot
           Val(slot) == IF pad /\ slot = <<_scratch_block_id, 0>> THEN Nothing
                        ELSE IF g THEN ComputedInGraph(Pick(slot)[1])
                                  ELSE Computed(Pick(slot)[1], Pick(slot)[2])
           D == {dest(r[1], r[2]) : r \in Rows}
                       \cup (IF pad THEN {<<_scratch_block_id, 0>>} ELSE {})
<1>1. Written(g, pad) = [slot \in D |-> Val(slot)]
  BY DEF Written, Rows
<1>2. ASSUME NEW slot \in D, slot # <<_scratch_block_id, 0>>
      PROVE  /\ Pick(slot) \in Rows /\ dest(Pick(slot)[1], Pick(slot)[2]) = slot
  <2>1. \E r \in Rows : dest(r[1], r[2]) = slot
    BY <1>2
  <2> QED
    BY <2>1, Zenon
<1>3. ASSUME NEW slot \in D, slot # <<_scratch_block_id, 0>>
      PROVE  Val(slot) = IF g THEN ComputedInGraph(Pick(slot)[1])
                         ELSE Computed(Pick(slot)[1], Pick(slot)[2])
  BY <1>3
<1> HIDE DEF Pick, Val, D
<1>4. DOMAIN Written(g, pad) = D /\ \A slot \in D : Written(g, pad)[slot] = Val(slot)
  BY <1>1
<1>5. ASSUME NEW slot \in D, slot # <<_scratch_block_id, 0>>
      PROVE  \E r \in Rows : /\ dest(r[1], r[2]) = slot
                             /\ Written(g, pad)[slot] =
                                  IF g THEN ComputedInGraph(r[1]) ELSE Computed(r[1], r[2])
  BY <1>2, <1>3, <1>4, <1>5
<1> QED
  BY <1>4, <1>5 DEF D

\* What an entry computes is its sequence's token at the position it is written to,
\* in a graph as well.
LEMMA ComputedIsOwn ==
  ASSUME RunnerInv, NEW g \in BOOLEAN, g => OnlyDecodes,
         NEW k \in 1 .. Len(plan), NEW i \in 0 .. plan[k].n_tokens - 1
  PROVE  (IF g THEN ComputedInGraph(plan[k]) ELSE Computed(plan[k], i))
           = <<plan[k].seq_id, cached(plan[k]) + i, cached(plan[k]) + i>>
<1>1. /\ start_pos(plan[k]) = cached(plan[k]) /\ cached(plan[k]) \in Nat
      /\ num_tokens[plan[k].seq_id] = cached(plan[k]) + plan[k].n_tokens
      /\ ~ plan[k].is_prefill_chunk =>
           plan[k].n_tokens = 1 /\ length[plan[k].seq_id] = num_tokens[plan[k].seq_id]
  BY StartIsCached
<1>2. CASE ~ g
  BY <1>1, <1>2 DEF Computed
<1>3. CASE g
  <2>1. DOMAIN plan = 1 .. Len(plan)
    BY DEF RunnerInv, RunnerTypeOK
  <2>2. plan[k] \in Range(plan)
    BY <2>1 DEF Range
  <2>3. ~ plan[k].is_prefill_chunk
    BY <1>3, <2>2 DEF OnlyDecodes
  <2>4. PICK c, m : c = cached(plan[k]) /\ m = num_tokens[plan[k].seq_id]
    OBVIOUS
  <2>5. length[plan[k].seq_id] = m /\ m = c + 1 /\ c \in Nat /\ plan[k].n_tokens = 1
    BY <1>1, <2>3, <2>4
  <2>6. i = 0 /\ m - 1 = c + i
    BY <2>5
  <2> QED
    BY <1>3, <2>4, <2>5, <2>6 DEF ComputedInGraph
<1> QED
  BY <1>2, <1>3

\* A slot that a pass writes is the place of a token it was planned for, and gets that
\* token's pair; the rest is padding, in the scratch block.
LEMMA WrittenOnlyPlanned ==
  ASSUME RunnerInv, NEW g \in BOOLEAN, NEW pad \in BOOLEAN, g => OnlyDecodes,
         NEW t \in Sequence, NEW p \in 0 .. num_tokens[t] - 1,
         Place(t, p) \in DOMAIN Written(g, pad)
  PROVE  /\ \E k \in 1 .. Len(plan) : plan[k].seq_id = t /\ cached(plan[k]) =< p
         /\ Written(g, pad)[Place(t, p)] = <<t, p, p>>
<1>1. IndInv /\ RunnerTypeOK
  BY DEF RunnerInv
<1>2. Place(t, p)[1] # _scratch_block_id
  BY <1>1, PlaceInPool
<1>3. Place(t, p) # <<_scratch_block_id, 0>>
  BY <1>2
<1>4. PICK r \in Rows : /\ dest(r[1], r[2]) = Place(t, p)
                        /\ Written(g, pad)[Place(t, p)] =
                             IF g THEN ComputedInGraph(r[1]) ELSE Computed(r[1], r[2])
  BY <1>3, WrittenParts
<1>k. PICK k \in 1 .. Len(plan) : \E i \in 0 .. plan[k].n_tokens - 1 : r = <<plan[k], i>>
  BY <1>1, RowsAreTokens
<1>5. PICK i \in 0 .. plan[k].n_tokens - 1 : r = <<plan[k], i>>
  BY <1>k
<1>6. /\ dest(plan[k], i) = Place(plan[k].seq_id, cached(plan[k]) + i)
      /\ cached(plan[k]) + i \in 0 .. num_tokens[plan[k].seq_id] - 1
      /\ cached(plan[k]) \in Nat /\ i \in Nat
  BY DestIsPlace
<1>7. plan[k].seq_id \in Sequence
  BY <1>1, EntryTypes
<1>8. r[1] = plan[k] /\ r[2] = i
  BY <1>5
<1>9. PICK s, q : s = plan[k].seq_id /\ q = cached(plan[k]) + i
  OBVIOUS
<1>10. s = t /\ q = p
  <2>1. Place(s, q) = Place(t, p) /\ s \in Sequence /\ q \in 0 .. num_tokens[s] - 1
    BY <1>4, <1>6, <1>7, <1>8, <1>9
  <2> QED
    BY <1>1, <2>1, PlacesDiffer
<1>11. (IF g THEN ComputedInGraph(plan[k]) ELSE Computed(plan[k], i)) = <<s, q, q>>
  BY <1>9, ComputedIsOwn
<1>12. Written(g, pad)[Place(t, p)] = <<t, p, p>>
  BY <1>4, <1>8, <1>10, <1>11
<1>13. cached(plan[k]) =< p
  BY <1>6, <1>9, <1>10
<1> QED
  BY <1>9, <1>10, <1>12, <1>13

\* Every token a pass was planned for is written.
LEMMA PlannedIsWritten ==
  ASSUME RunnerInv, NEW g \in BOOLEAN, NEW pad \in BOOLEAN,
         NEW k \in 1 .. Len(plan), NEW p \in 0 .. num_tokens[plan[k].seq_id] - 1,
         cached(plan[k]) =< p
  PROVE  Place(plan[k].seq_id, p) \in DOMAIN Written(g, pad)
<1>1. /\ cached(plan[k]) \in Nat
      /\ num_tokens[plan[k].seq_id] = cached(plan[k]) + plan[k].n_tokens
  BY StartIsCached
<1>2. plan[k].n_tokens \in Nat /\ RunnerTypeOK
  BY EntryTypes DEF RunnerInv
<1>3. PICK c, n : c = cached(plan[k]) /\ n = plan[k].n_tokens
  OBVIOUS
<1>4. p - c \in 0 .. n - 1 /\ c + (p - c) = p
  BY <1>1, <1>2, <1>3
<1>5. PICK i : i = p - c
  OBVIOUS
<1>6. dest(plan[k], i) = Place(plan[k].seq_id, p)
  BY <1>3, <1>4, <1>5, DestIsPlace
<1>7. <<plan[k], i>> \in Rows
  BY <1>2, <1>3, <1>4, <1>5, RowsAreTokens
<1>8. dest(plan[k], i) \in {dest(r[1], r[2]) : r \in Rows}
  <2>1. <<plan[k], i>>[1] = plan[k] /\ <<plan[k], i>>[2] = i
    OBVIOUS
  <2> QED
    BY <1>7, <2>1
<1>9. PICK D : D = {dest(r[1], r[2]) : r \in Rows}
  OBVIOUS
<1>10. DOMAIN Written(g, pad) = D \cup (IF pad THEN {<<_scratch_block_id, 0>>} ELSE {})
  BY <1>9, WrittenParts
<1> QED
  BY <1>6, <1>8, <1>9, <1>10

\* A pass changes nothing before the tokens it was planned for and writes those: every
\* token that has a slot is then where attention looks for it.
LEMMA PoolAfterPass ==
  ASSUME RunnerInv, phase = "forward", paged,
         NEW g \in BOOLEAN, NEW pad \in BOOLEAN, g => OnlyDecodes, WritePool(Written(g, pad))
  PROVE  /\ DOMAIN pool' = 0 .. num_blocks
         /\ \A b \in 0 .. num_blocks : DOMAIN pool'[b] = 0 .. block_size - 1
         /\ \A t \in Sequence : \A p \in 0 .. num_tokens[t] - 1 :
              pool'[Place(t, p)[1]][Place(t, p)[2]] = <<t, p, p>>
<1>1. IndInv /\ RunnerTypeOK /\ KeptInv /\ OneEntryEach
  BY DEF RunnerInv, EntriesInv
<1>2. PICK w : w = Written(g, pad)
  OBVIOUS
<1>3. pool' = [b \in DOMAIN pool |-> [j \in DOMAIN pool[b] |->
                 IF <<b, j>> \in DOMAIN w THEN w[<<b, j>>] ELSE pool[b][j]]]
  BY <1>2 DEF WritePool
<1>4. DOMAIN pool = 0 .. num_blocks /\ \A b \in 0 .. num_blocks : DOMAIN pool[b] = 0 .. block_size - 1
  BY <1>1 DEF RunnerTypeOK
<1>5. \A b \in 0 .. num_blocks : \A j \in 0 .. block_size - 1 :
        pool'[b][j] = IF <<b, j>> \in DOMAIN w THEN w[<<b, j>>] ELSE pool[b][j]
  BY <1>3, <1>4
<1>6. ASSUME NEW t \in Sequence, NEW p \in 0 .. num_tokens[t] - 1
      PROVE  pool'[Place(t, p)[1]][Place(t, p)[2]] = <<t, p, p>>
  <2>1. Place(t, p)[1] \in 0 .. num_blocks /\ Place(t, p)[2] \in 0 .. block_size - 1
    BY <1>1, PlaceInPool
  <2>2. PICK b, j : b = Place(t, p)[1] /\ j = Place(t, p)[2] /\ Place(t, p) = <<b, j>>
    BY DEF Place
  <2>3. pool'[b][j] = IF <<b, j>> \in DOMAIN w THEN w[<<b, j>>] ELSE pool[b][j]
    BY <1>5, <2>1, <2>2
  <2>4. CASE Place(t, p) \in DOMAIN Written(g, pad)
    <3>1. Written(g, pad)[Place(t, p)] = <<t, p, p>>
      BY <2>4, WrittenOnlyPlanned
    <3> QED
      BY <1>2, <2>2, <2>3, <2>4, <3>1
  <2>5. CASE Place(t, p) \notin DOMAIN Written(g, pad)
    <3>1. pool'[Place(t, p)[1]][Place(t, p)[2]] = pool[Place(t, p)[1]][Place(t, p)[2]]
      BY <1>2, <2>2, <2>3, <2>5
    <3>2. CASE t \notin Planned
      <4>1. Kept(t, num_tokens[t])
        BY <1>1, <3>2 DEF KeptInv
      <4> QED
        BY <3>1, <4>1 DEF Kept
    <3>3. CASE t \in Planned
      <4>1. PICK k \in 1 .. Len(plan) : plan[k].seq_id = t
        BY <1>1, <3>3, EntryOfPlanned
      <4>2. ~ (cached(plan[k]) =< p)
        BY <2>5, <4>1, PlannedIsWritten
      <4>3. cached(plan[k]) \in Nat
        BY StartIsCached
      <4>4. PICK c : c = cached(plan[k])
        OBVIOUS
      <4>5. p \in 0 .. c - 1
        <5>1. num_tokens[t] \in Nat
          BY SequenceTypes
        <5> QED
          BY <4>2, <4>3, <4>4, <5>1
      <4>6. Kept(t, c)
        BY <1>1, <4>1, <4>4 DEF KeptInv
      <4> QED
        BY <3>1, <4>5, <4>6 DEF Kept
    <3> QED
      BY <3>2, <3>3
  <2> QED
    BY <2>4, <2>5
<1>7. DOMAIN pool' = 0 .. num_blocks /\ \A b \in 0 .. num_blocks : DOMAIN pool'[b] = 0 .. block_size - 1
  BY <1>3, <1>4
<1> QED
  BY <1>6, <1>7

\* Attention that goes through a table agreeing with the sequence's own reads the
\* sequence's tokens in order.
LEMMA ReadsOwnTokens ==
  ASSUME RunnerInv, NEW k \in 1 .. Len(plan), NEW table,
         \A j \in 1 .. Len(physical_blocks[plan[k].seq_id]) :
           table[j] = physical_blocks[plan[k].seq_id][j],
         \A t \in Sequence : \A p \in 0 .. num_tokens[t] - 1 :
           pool'[Place(t, p)[1]][Place(t, p)[2]] = <<t, p, p>>
  PROVE  LET s == plan[k].seq_id
             x == ReadPool(plan[k], table)
         IN /\ Len(x) = num_tokens[s]
            /\ \A i \in 1 .. num_tokens[s] : x[i] = <<s, i - 1, i - 1>>
<1>1. IndInv /\ RunnerTypeOK
  BY DEF RunnerInv
<1>2. PICK s : s = plan[k].seq_id
  OBVIOUS
<1>3. s \in Sequence /\ num_tokens[s] \in Nat
  BY <1>1, <1>2, EntryTypes, SequenceTypes
<1> DEFINE V(i) == pool'[table[((i - 1) \div block_size) + 1]][(i - 1) % block_size]
<1>4. ReadPool(plan[k], table) = [i \in 1 .. num_tokens[s] |-> V(i)]
  BY <1>2 DEF ReadPool
<1>5. ASSUME NEW i \in 1 .. num_tokens[s] PROVE V(i) = <<s, i - 1, i - 1>>
  <2>1. PICK p : p = i - 1
    OBVIOUS
  <2>2. p \in 0 .. num_tokens[s] - 1
    BY <1>3, <2>1
  <2>3. (p \div block_size) + 1 \in 1 .. Len(physical_blocks[s])
    BY <1>1, <1>3, <2>2, PlaceInPool
  <2>4. PICK j : j = (p \div block_size) + 1
    OBVIOUS
  <2>5. table[j] = physical_blocks[s][j]
    BY <1>2, <2>3, <2>4
  <2>6. V(i) = pool'[table[j]][p % block_size]
    BY <2>1, <2>4
  <2>7. pool'[Place(s, p)[1]][Place(s, p)[2]] = <<s, p, p>>
    BY <1>3, <2>2
  <2>8. Place(s, p)[1] = physical_blocks[s][j] /\ Place(s, p)[2] = p % block_size
    BY <2>4 DEF Place
  <2> HIDE DEF V
  <2> QED
    BY <2>1, <2>5, <2>6, <2>7, <2>8
<1> HIDE DEF V
<1>6. PICK n : n = num_tokens[s]
  OBVIOUS
<1>7. Len([i \in 1 .. n |-> V(i)]) = n
  BY <1>3, <1>6
<1> QED
  BY <1>2, <1>4, <1>5, <1>6, <1>7

\* Refreshing a row that is right as far as it goes leaves the whole table in it.
LEMMA FillRowFresh ==
  ASSUME IndInv, NEW s \in Sequence, NEW row \in Row, row.seq_id = s => Fresh(row, s)
  PROVE  /\ FillRow(row, s) \in Row /\ FillRow(row, s).seq_id = s
         /\ Fresh(FillRow(row, s), s)
         /\ \A j \in 1 .. Len(physical_blocks[s]) :
              FillRow(row, s).block_table[j] = physical_blocks[s][j]
<1>1. PICK f, len : f = physical_blocks[s] /\ len = Len(physical_blocks[s])
  OBVIOUS
<1>2. f \in Seq(Blocks) /\ len = Len(f) /\ len \in Nat /\ len =< num_blocks /\ num_blocks \in Nat
  BY <1>1, TableFits, BlockAllocatorAssumption DEF IndInv, TypeOK
<1>3. \A j \in 1 .. len : f[j] \in Nat
  <2>1. \A j \in 1 .. len : f[j] \in Blocks
    BY <1>2
  <2> QED
    BY <1>2, <2>1 DEF Blocks
<1>4. row.written \in Nat /\ row.block_table \in [1 .. num_blocks -> Nat]
  BY DEF Row
<1>5. PICK fresh : fresh = IF row.seq_id = s THEN row.written ELSE 0
  OBVIOUS
<1>6. fresh \in Nat /\ \A j \in 1 .. fresh : row.block_table[j] = f[j]
  BY <1>1, <1>4, <1>5 DEF Fresh
<1> DEFINE Cell(j) == IF fresh < j /\ j =< len THEN f[j] ELSE row.block_table[j]
           table == [j \in 1 .. num_blocks |-> Cell(j)]
<1>7. FillRow(row, s) = [seq_id |-> s, written |-> len, block_table |-> table]
  BY <1>1, <1>5 DEF FillRow
<1>8. \A j \in 1 .. num_blocks : Cell(j) \in Nat
  BY <1>2, <1>3, <1>4, <1>6
<1>9. \A j \in 1 .. len : Cell(j) = f[j]
  BY <1>2, <1>6
<1> HIDE DEF Cell
<1>10. table \in [1 .. num_blocks -> Nat] /\ \A j \in 1 .. num_blocks : table[j] = Cell(j)
  BY <1>8
<1> HIDE DEF table
<1>11. \A j \in 1 .. len : table[j] = f[j]
  BY <1>2, <1>9, <1>10
<1>12. FillRow(row, s) \in Row
  BY <1>2, <1>7, <1>10 DEF Row
<1> QED
  BY <1>1, <1>2, <1>7, <1>11, <1>12 DEF Fresh

\* The smallest bucket that holds the plan is one of those captured.
LEMMA BucketHolds ==
  ASSUME BucketsFor # {}
  PROVE  /\ Min(BucketsFor) \in decode_buckets /\ Min(BucketsFor) \in Nat
         /\ Len(plan) =< Min(BucketsFor)
<1>1. BucketsFor \subseteq Nat
  BY ModelRunnerAssumption DEF BucketsFor
<1>2. PICK x \in BucketsFor : \A y \in BucketsFor : x =< y
  BY <1>1, LeastElement
<1>3. Min(BucketsFor) \in BucketsFor
  BY <1>2, Zenon DEF Min
<1> QED
  BY <1>1, <1>3 DEF BucketsFor

\* After a pass over the pool all is kept.
LEMMA AllKept ==
  ASSUME RunnerInv, paged, phase' = "results",
         physical_blocks' = physical_blocks, num_tokens' = num_tokens, paged' = paged,
         \A t \in Sequence : \A p \in 0 .. num_tokens[t] - 1 :
           pool'[Place(t, p)[1]][Place(t, p)[2]] = <<t, p, p>>
  PROVE  KeptInv'
<1>1. ASSUME NEW s \in Sequence PROVE Kept(s, num_tokens[s])'
  <2>1. \A p : Place(s, p)' = Place(s, p)
    BY DEF Place
  <2>2. \A p \in 0 .. num_tokens'[s] - 1 : pool'[Place(s, p)'[1]][Place(s, p)'[2]] = <<s, p, p>>
    BY <2>1
  <2> QED
    BY <2>2 DEF Kept
<1> QED
  BY <1>1 DEF KeptInv

LEMMA ForwardPagedInv ==
  ASSUME RunnerInv, ForwardPaged
  PROVE  RunnerInv'
<1>1. /\ RunnerTypeOK /\ EntriesInv /\ OneEntryEach /\ RowsInv
  BY DEF RunnerInv, EntriesInv
<1>2. /\ phase = "forward" /\ paged /\ phase' = "results"
      /\ attended' = [s \in Planned |-> ReadPool(EntryOf(s), physical_blocks[s])]
      /\ UNCHANGED <<vars, paged, seq_state, plan, freed>>
      /\ graphs' = graphs /\ buffer' = buffer
      /\ \E pad \in BOOLEAN : WritePool(Written(FALSE, pad))
  BY DEF ForwardPaged
<1>3. /\ IndInv' /\ EntriesInv' /\ FreedInv'
      /\ physical_blocks' = physical_blocks /\ num_tokens' = num_tokens
      /\ paged' = paged /\ status' = status /\ plan' = plan
      /\ length' = length /\ prefill_progress' = prefill_progress
      /\ freed = {} /\ freed' = {}
      /\ Planned' = Planned /\ plan # <<>>
  BY <1>2, PassFrame
<1>4. /\ DOMAIN pool' = 0 .. num_blocks
      /\ \A b \in 0 .. num_blocks : DOMAIN pool'[b] = 0 .. block_size - 1
      /\ \A t \in Sequence : \A p \in 0 .. num_tokens[t] - 1 :
           pool'[Place(t, p)[1]][Place(t, p)[2]] = <<t, p, p>>
  <2>1. PICK pad \in BOOLEAN : WritePool(Written(FALSE, pad))
    BY <1>2
  <2>2. PICK g \in BOOLEAN : g = FALSE
    OBVIOUS
  <2>3. WritePool(Written(g, pad))
    BY <2>1, <2>2
  <2> QED
    BY <1>2, <2>2, <2>3, PoolAfterPass
<1>5. RunnerTypeOK'
  BY <1>1, <1>2, <1>3, <1>4 DEF RunnerTypeOK
<1>6. KeptInv'
  BY <1>2, <1>3, <1>4, AllKept
<1>7. ASSUME NEW s \in Planned
      PROVE  /\ Len(attended'[s]) = num_tokens[s]
             /\ \A i \in 1 .. num_tokens[s] : attended'[s][i] = <<s, i - 1, i - 1>>
  <2>1. PICK k \in 1 .. Len(plan) : plan[k].seq_id = s /\ EntryOf(s) = plan[k]
    BY <1>1, EntryOfPlanned
  <2>2. PICK table : table = physical_blocks[s]
    OBVIOUS
  <2>3. attended'[s] = ReadPool(plan[k], table)
    BY <1>2, <2>1, <2>2
  <2>4. \A j \in 1 .. Len(physical_blocks[plan[k].seq_id]) :
          table[j] = physical_blocks[plan[k].seq_id][j]
    BY <2>1, <2>2
  <2>5. PICK x : x = ReadPool(plan[k], table)
    OBVIOUS
  <2>6. /\ Len(x) = num_tokens[plan[k].seq_id]
        /\ \A i \in 1 .. num_tokens[plan[k].seq_id] : x[i] = <<plan[k].seq_id, i - 1, i - 1>>
    BY <1>4, <2>4, <2>5, ReadsOwnTokens
  <2> QED
    BY <2>1, <2>3, <2>5, <2>6
<1>8. RowsInv'
  BY <1>1, <1>2, <1>3 DEF RowsInv, Fresh
<1>9. AttendedInv'
  <2>1. DOMAIN attended' = Planned
    BY <1>2
  <2>2. AttendsOwnTokens'
    BY <1>3, <1>7, <2>1 DEF AttendsOwnTokens
  <2> QED
    BY <1>2, <1>3, <2>2 DEF AttendedInv
<1> QED
  BY <1>3, <1>5, <1>6, <1>8, <1>9 DEF RunnerInv

\* A row before a pass: what FillRow may take from it.
LEMMA RowBefore ==
  ASSUME RunnerInv, phase = "forward", NEW b \in decode_buckets, NEW row \in 1 .. b
  PROVE  /\ graphs[b][row] \in Row
         /\ \A t \in Sequence : graphs[b][row].seq_id = t =>
              /\ Fresh(graphs[b][row], t)
              /\ status[t] # "ENDED"
<1>1. graphs[b] \in [1 .. b -> Row]
  BY DEF RunnerInv, RunnerTypeOK
<1>2. freed = {} /\ RowsInv
  BY DEF RunnerInv, FreedInv
<1> QED
  BY <1>1, <1>2 DEF RowsInv

LEMMA ReplayInv ==
  ASSUME RunnerInv, Replay
  PROVE  RunnerInv'
<1>1. /\ IndInv /\ RunnerTypeOK /\ EntriesInv /\ OneEntryEach /\ RowsInv
  BY DEF RunnerInv, EntriesInv
<1>2. PICK bucket : bucket = Min(BucketsFor)
  OBVIOUS
<1>3. /\ phase = "forward" /\ paged /\ phase' = "results" /\ OnlyDecodes /\ BucketsFor # {}
      /\ UNCHANGED <<vars, paged, seq_state, plan, freed>>
      /\ buffer' = buffer
      /\ FillReal(bucket)
      /\ WritePool(Written(TRUE, bucket > Len(plan)))
      /\ attended' = [s \in Planned |->
                        ReadPool(EntryOf(s), graphs'[bucket][RowOf(s)].block_table)]
  BY <1>2 DEF Replay
<1>4. /\ IndInv' /\ EntriesInv' /\ FreedInv'
      /\ physical_blocks' = physical_blocks /\ num_tokens' = num_tokens
      /\ paged' = paged /\ status' = status /\ plan' = plan
      /\ length' = length /\ prefill_progress' = prefill_progress
      /\ freed = {} /\ freed' = {}
      /\ Planned' = Planned /\ plan # <<>>
  BY <1>3, PassFrame
<1>5. bucket \in decode_buckets /\ bucket \in Nat /\ Len(plan) =< bucket /\ Len(plan) \in Nat
  BY <1>1, <1>2, <1>3, BucketHolds DEF RunnerTypeOK
<1>6. /\ DOMAIN pool' = 0 .. num_blocks
      /\ \A b \in 0 .. num_blocks : DOMAIN pool'[b] = 0 .. block_size - 1
      /\ \A t \in Sequence : \A p \in 0 .. num_tokens[t] - 1 :
           pool'[Place(t, p)[1]][Place(t, p)[2]] = <<t, p, p>>
  <2>0. (bucket > Len(plan)) \in BOOLEAN
    OBVIOUS
  <2>1. PICK pad : pad \in BOOLEAN /\ pad = (bucket > Len(plan))
    BY <2>0, Zenon
  <2>2. PICK g \in BOOLEAN : g = TRUE
    OBVIOUS
  <2>3. WritePool(Written(g, pad))
    BY <1>3, <2>1, <2>2
  <2> QED
    BY <1>3, <2>1, <2>2, <2>3, PoolAfterPass
<1>7. /\ DOMAIN graphs' = decode_buckets
      /\ \A b \in decode_buckets \ {bucket} : graphs'[b] = graphs[b]
      /\ DOMAIN graphs'[bucket] = 1 .. bucket
      /\ \A row \in 1 .. bucket : graphs'[bucket][row] =
           IF row =< Len(plan) THEN FillRow(graphs[bucket][row], plan[row].seq_id)
                               ELSE graphs[bucket][row]
  <2>1. DOMAIN graphs = decode_buckets /\ DOMAIN graphs[bucket] = 1 .. bucket
    BY <1>1, <1>5 DEF RunnerTypeOK
  <2> QED
    BY <1>3, <1>5, <2>1 DEF FillReal
<1>8. ASSUME NEW row \in 1 .. bucket, row =< Len(plan)
      PROVE  LET s == plan[row].seq_id
                 r == graphs'[bucket][row]
             IN /\ s \in Sequence /\ s \in Planned /\ r \in Row /\ r.seq_id = s /\ Fresh(r, s)
                /\ \A j \in 1 .. Len(physical_blocks[s]) : r.block_table[j] = physical_blocks[s][j]
  <2>1. row \in 1 .. Len(plan)
    BY <1>5, <1>8
  <2>2. PICK s, r : s = plan[row].seq_id /\ r = graphs[bucket][row]
    OBVIOUS
  <2>3. s \in Sequence /\ s \in Planned
    BY <1>1, <2>1, <2>2, EntryTypes
  <2>4. r \in Row /\ (r.seq_id = s => Fresh(r, s))
    BY <1>3, <1>5, <2>2, <2>3, RowBefore
  <2>5. graphs'[bucket][row] = FillRow(r, s)
    BY <1>7, <1>8, <2>2
  <2> QED
    BY <1>1, <2>2, <2>3, <2>4, <2>5, FillRowFresh
<1>9. RunnerTypeOK'
  <2>1. ASSUME NEW b \in decode_buckets PROVE graphs'[b] \in [1 .. b -> Row]
    <3>1. CASE b = bucket
      <4>1. \A row \in 1 .. bucket : graphs'[bucket][row] \in Row
        BY <1>3, <1>5, <1>7, <1>8, RowBefore
      <4>2. graphs'[bucket] = [row \in 1 .. bucket |-> graphs'[bucket][row]]
        BY <1>3, <1>5, <1>7 DEF FillReal, RunnerTypeOK
      <4> QED
        BY <3>1, <4>1, <4>2
    <3>2. CASE b # bucket
      BY <1>1, <1>7, <3>2 DEF RunnerTypeOK
    <3> QED
      BY <3>1, <3>2
  <2> QED
    BY <1>1, <1>3, <1>4, <1>6, <1>7, <2>1 DEF RunnerTypeOK
<1>10. KeptInv'
  BY <1>3, <1>4, <1>6, AllKept
<1>11. ASSUME NEW s \in Planned
       PROVE  /\ Len(attended'[s]) = num_tokens[s]
              /\ \A i \in 1 .. num_tokens[s] : attended'[s][i] = <<s, i - 1, i - 1>>
  <2>1. PICK k \in 1 .. Len(plan) : plan[k].seq_id = s /\ RowOf(s) = k /\ EntryOf(s) = plan[k]
    BY <1>1, EntryOfPlanned
  <2>2. PICK table : table = graphs'[bucket][k].block_table
    OBVIOUS
  <2>3. k \in 1 .. bucket /\ k =< Len(plan)
    BY <1>5
  <2>4. \A j \in 1 .. Len(physical_blocks[plan[k].seq_id]) :
          table[j] = physical_blocks[plan[k].seq_id][j]
    BY <1>8, <2>2, <2>3
  <2>5. attended'[s] = ReadPool(plan[k], table)
    BY <1>3, <2>1, <2>2
  <2>6. PICK x : x = ReadPool(plan[k], table)
    OBVIOUS
  <2>7. /\ Len(x) = num_tokens[plan[k].seq_id]
        /\ \A i \in 1 .. num_tokens[plan[k].seq_id] : x[i] = <<plan[k].seq_id, i - 1, i - 1>>
    BY <1>6, <2>4, <2>6, ReadsOwnTokens
  <2> QED
    BY <2>1, <2>5, <2>6, <2>7
<1>12. RowsInv'
  <2> SUFFICES ASSUME NEW t \in Sequence, NEW c \in decode_buckets, NEW row \in 1 .. c,
                      graphs'[c][row].seq_id = t
               PROVE  status[t] # "ENDED" /\ Fresh(graphs[c][row], t)'
    <3>1. ASSUME NEW t \in Sequence, status[t] = "ENDED" PROVE buffer'[t] = <<>>
      BY <1>1, <1>3, <1>4, <3>1 DEF RowsInv
    <3> QED
      BY <1>3, <1>4, <3>1 DEF RowsInv
  <2>1. CASE c = bucket /\ row =< Len(plan)
    <3>1. t \in Planned /\ Fresh(graphs'[c][row], t)
      BY <1>8, <2>1
    <3>2. status[t] # "ENDED"
      BY <1>1, <3>1 DEF EntriesInv, SlotsOf
    <3> QED
      BY <1>4, <3>1, <3>2 DEF Fresh
  <2>2. CASE ~ (c = bucket /\ row =< Len(plan))
    <3>1. graphs'[c][row] = graphs[c][row]
      BY <1>7, <2>2
    <3>2. Fresh(graphs[c][row], t) /\ status[t] # "ENDED"
      BY <1>3, <3>1, RowBefore
    <3> QED
      BY <1>4, <3>1, <3>2 DEF Fresh
  <2> QED
    BY <2>1, <2>2
<1>13. AttendedInv'
  <2>1. DOMAIN attended' = Planned
    BY <1>3
  <2>2. AttendsOwnTokens'
    BY <1>4, <1>11, <2>1 DEF AttendsOwnTokens
  <2> QED
    BY <1>3, <1>4, <2>2 DEF AttendedInv
<1> QED
  BY <1>4, <1>9, <1>10, <1>12, <1>13 DEF RunnerInv

\* A pass that fails leaves alone all that is not planned.
LEMMA ForwardFailsInv ==
  ASSUME RunnerInv, ForwardFails
  PROVE  RunnerInv'
<1>1. /\ IndInv /\ RunnerTypeOK /\ EntriesInv /\ OneEntryEach /\ KeptInv /\ RowsInv
  BY DEF RunnerInv, EntriesInv
<1>2. /\ phase = "forward" /\ phase' = "failed" /\ attended' = <<>>
      /\ UNCHANGED <<vars, paged, seq_state, plan, freed>>
  BY DEF ForwardFails
<1>3. PICK reached \in 0 .. Len(plan) :
        \/ /\ ~ paged
           /\ buffer' = [s \in Sequence |->
                IF \E k \in 1 .. reached : plan[k].seq_id = s THEN Extended(EntryOf(s)) ELSE buffer[s]]
           /\ pool' = pool /\ graphs' = graphs
        \/ /\ paged
           /\ pool' = pool \/ WritePool(Written(FALSE, FALSE))
           /\ graphs' = [b \in decode_buckets |-> [row \in 1 .. b |->
                 IF OnlyDecodes /\ BucketsFor # {} /\ b = Min(BucketsFor) /\ row =< reached
                 THEN [graphs[b][row] EXCEPT !.seq_id = plan[row].seq_id,
                                             !.written = Len(physical_blocks[plan[row].seq_id])]
                 ELSE graphs[b][row]]]
           /\ buffer' = buffer
  BY DEF ForwardFails
<1>4. /\ IndInv' /\ EntriesInv' /\ FreedInv'
      /\ physical_blocks' = physical_blocks /\ num_tokens' = num_tokens
      /\ paged' = paged /\ status' = status /\ plan' = plan
      /\ length' = length /\ prefill_progress' = prefill_progress
      /\ freed = {} /\ freed' = {}
      /\ Planned' = Planned /\ plan # <<>>
  BY <1>2, PassFrame
<1>5. Len(plan) \in Nat
  BY <1>1 DEF RunnerTypeOK
<1>6. ASSUME NEW s \in Sequence, s \notin Planned PROVE buffer'[s] = buffer[s]
  <2>1. \A k \in 1 .. reached : k \in 1 .. Len(plan)
    BY <1>5
  <2>2. \A k \in 1 .. reached : plan[k].seq_id # s
    BY <1>1, <1>6, <2>1, EntryTypes
  <2> QED
    BY <1>3, <2>2
<1>7. /\ DOMAIN pool' = 0 .. num_blocks
      /\ \A b \in 0 .. num_blocks : DOMAIN pool'[b] = 0 .. block_size - 1
      /\ \A s \in Sequence : s \notin Planned => Kept(s, num_tokens[s])'
  <2>1. CASE pool' = pool
    <3>1. ASSUME NEW s \in Sequence, s \notin Planned PROVE Kept(s, num_tokens[s])'
      <4>1. Kept(s, num_tokens[s])
        BY <1>1, <3>1 DEF KeptInv
      <4>2. \A p : Place(s, p)' = Place(s, p)
        BY <1>4 DEF Place
      <4>3. buffer'[s] = buffer[s]
        BY <1>6, <3>1
      <4> QED
        BY <1>4, <2>1, <4>1, <4>2, <4>3 DEF Kept
    <3> QED
      BY <1>1, <2>1, <3>1 DEF RunnerTypeOK
  <2>2. CASE paged /\ WritePool(Written(FALSE, FALSE))
    <3>1. PICK g \in BOOLEAN : g = FALSE
      OBVIOUS
    <3>2. WritePool(Written(g, g))
      BY <2>2, <3>1
    <3>3. /\ DOMAIN pool' = 0 .. num_blocks
          /\ \A b \in 0 .. num_blocks : DOMAIN pool'[b] = 0 .. block_size - 1
          /\ \A t \in Sequence : \A p \in 0 .. num_tokens[t] - 1 :
               pool'[Place(t, p)[1]][Place(t, p)[2]] = <<t, p, p>>
      BY <1>2, <2>2, <3>1, <3>2, PoolAfterPass
    <3>4. ASSUME NEW s \in Sequence PROVE Kept(s, num_tokens[s])'
      <4>1. \A p : Place(s, p)' = Place(s, p)
        BY <1>4 DEF Place
      <4>2. \A p \in 0 .. num_tokens'[s] - 1 :
              pool'[Place(s, p)'[1]][Place(s, p)'[2]] = <<s, p, p>>
        BY <1>4, <3>3, <4>1
      <4> QED
        BY <1>4, <2>2, <4>2 DEF Kept
    <3> QED
      BY <3>3, <3>4
  <2> QED
    BY <1>3, <2>1, <2>2
<1>8. ASSUME NEW b \in decode_buckets, NEW row \in 1 .. b
      PROVE  /\ graphs'[b][row] \in Row
             /\ \/ graphs'[b][row] = graphs[b][row]
                \/ graphs'[b][row].seq_id \in Planned
  <2>1. graphs[b] \in [1 .. b -> Row]
    BY <1>1 DEF RunnerTypeOK
  <2>2. PICK r : r = graphs[b][row]
    OBVIOUS
  <2>3. r \in Row
    BY <2>1, <2>2
  <2>4. CASE graphs'[b][row] = r
    BY <2>2, <2>3, <2>4
  <2>5. CASE /\ row =< reached
             /\ graphs'[b][row] = [r EXCEPT !.seq_id = plan[row].seq_id,
                                            !.written = Len(physical_blocks[plan[row].seq_id])]
    <3>1. row \in 1 .. Len(plan)
      <4>1. row \in Nat
        BY ModelRunnerAssumption
      <4> QED
        BY <1>5, <2>5, <4>1
    <3>2. PICK s, len : s = plan[row].seq_id /\ len = Len(physical_blocks[plan[row].seq_id])
      OBVIOUS
    <3>3. s \in Sequence /\ s \in Planned /\ len \in Nat
      BY <1>1, <3>1, <3>2, EntryTypes, SequenceTypes
    <3>4. graphs'[b][row] = [r EXCEPT !.seq_id = s, !.written = len]
      BY <2>5, <3>2
    <3> QED
      BY <2>3, <3>3, <3>4 DEF Row
  <2> QED
    <3>1. CASE ~ paged
      BY <1>3, <2>2, <2>4, <3>1
    <3>2. CASE paged
      <4> DEFINE Cell(c, j) ==
             IF OnlyDecodes /\ BucketsFor # {} /\ c = Min(BucketsFor) /\ j =< reached
             THEN [graphs[c][j] EXCEPT !.seq_id = plan[j].seq_id,
                                       !.written = Len(physical_blocks[plan[j].seq_id])]
             ELSE graphs[c][j]
      <4>1. graphs' = [c \in decode_buckets |-> [j \in 1 .. c |-> Cell(c, j)]]
        BY <1>3, <3>2
      <4>2. \/ Cell(b, row) = graphs[b][row]
            \/ /\ row =< reached
               /\ Cell(b, row) = [graphs[b][row] EXCEPT !.seq_id = plan[row].seq_id,
                                    !.written = Len(physical_blocks[plan[row].seq_id])]
        OBVIOUS
      <4> HIDE DEF Cell
      <4>3. graphs'[b][row] = Cell(b, row)
        BY <4>1
      <4> QED
        BY <2>2, <2>4, <2>5, <4>2, <4>3
    <3> QED
      BY <3>1, <3>2
<1>9. /\ DOMAIN graphs' = decode_buckets
      /\ \A b \in decode_buckets : graphs'[b] \in [1 .. b -> Row]
  <2>1. /\ DOMAIN graphs' = decode_buckets
        /\ \A b \in decode_buckets : graphs'[b] = [row \in 1 .. b |-> graphs'[b][row]]
    <3>1. CASE ~ paged
      BY <1>1, <1>3, <3>1 DEF RunnerTypeOK
    <3>2. CASE paged
      <4>1. \A b \in decode_buckets : DOMAIN graphs'[b] = 1 .. b
        BY <1>3, <3>2
      <4> QED
        BY <1>3, <3>2, <4>1
    <3> QED
      BY <3>1, <3>2
  <2> QED
    BY <1>8, <2>1
<1>10. RunnerTypeOK'
  BY <1>1, <1>2, <1>4, <1>7, <1>9 DEF RunnerTypeOK
<1>11. KeptInv'
  BY <1>2, <1>4, <1>7 DEF KeptInv
<1>12. RowsInv'
  <2>1. ASSUME NEW t \in Sequence, t \notin Planned,
               NEW c \in decode_buckets, NEW row \in 1 .. c, graphs'[c][row].seq_id = t
        PROVE  status[t] # "ENDED" /\ Fresh(graphs[c][row], t)'
    <3>1. graphs'[c][row] = graphs[c][row]
      BY <1>8, <2>1
    <3>2. Fresh(graphs[c][row], t) /\ status[t] # "ENDED"
      BY <1>2, <2>1, <3>1, RowBefore
    <3> QED
      BY <1>4, <3>1, <3>2 DEF Fresh
  <2>2. ASSUME NEW t \in Sequence, status[t] = "ENDED" PROVE t \notin Planned /\ buffer'[t] = <<>>
    <3>1. t \notin Planned
      BY <1>1, <2>2 DEF EntriesInv, SlotsOf
    <3>2. buffer[t] = <<>>
      BY <1>1, <1>4, <2>2 DEF RowsInv
    <3> QED
      BY <1>6, <3>1, <3>2
  <2> SUFFICES ASSUME NEW t \in Sequence
               PROVE  /\ status[t] = "ENDED" =>
                           /\ buffer'[t] = <<>>
                           /\ \A c \in decode_buckets : \A row \in 1 .. c : graphs'[c][row].seq_id # t
                      /\ t \notin Planned =>
                           \A c \in decode_buckets : \A row \in 1 .. c :
                             graphs'[c][row].seq_id = t => Fresh(graphs[c][row], t)'
    BY <1>2, <1>4 DEF RowsInv
  <2> QED
    BY <2>1, <2>2
<1>13. AttendedInv'
  BY <1>2 DEF AttendedInv, AttendsOwnTokens
<1> QED
  BY <1>4, <1>10, <1>11, <1>12, <1>13 DEF RunnerInv
-----------------------------------------------------------------------------
(* The specification *)

LEMMA RunnerInitInv ==
  ASSUME RunnerInit
  PROVE  RunnerInv
<1>1. /\ Init /\ paged \in BOOLEAN /\ length \in [Sequence -> PromptLengths]
      /\ prefill_progress = [s \in Sequence |-> 0]
      /\ status = [s \in Sequence |-> "WAITING"]
      /\ plan = <<>> /\ freed = {}
      /\ pool = [b \in 0 .. num_blocks |-> [k \in 0 .. block_size - 1 |-> Nothing]]
      /\ graphs = [b \in decode_buckets |-> [row \in 1 .. b |-> FreshRow]]
      /\ buffer = [s \in Sequence |-> <<>>]
      /\ attended = <<>> /\ phase = "planning"
  BY DEF RunnerInit
<1>2. IndInv /\ \A s \in Sequence : num_tokens[s] = 0
  <2>1. IndInv
    BY <1>1, InitInv
  <2>2. \A s \in Sequence : num_tokens[s] = 0
    BY <1>1 DEF Init
  <2> QED
    BY <2>1, <2>2
<1>3. /\ plan \in Seq(Entry) /\ Len(plan) = 0 /\ Planned = {}
      /\ \A k \in 1 .. Len(plan) : FALSE
  <2>1. plan \in Seq(Entry) /\ Len(plan) = 0 /\ DOMAIN plan = {}
    BY <1>1
  <2> QED
    BY <2>1 DEF Planned
<1>4. FreshRow \in Row /\ FreshRow.seq_id = NoSeq
  <2>1. num_blocks \in Nat
    BY BlockAllocatorAssumption
  <2>2. [k \in 1 .. num_blocks |-> num_blocks] \in [1 .. num_blocks -> Nat]
    BY <2>1
  <2> QED
    BY <2>2 DEF FreshRow, Row, _scratch_block_id
<1>5. RunnerTypeOK
  <2>1. length \in [Sequence -> Nat]
    <3>1. PromptLengths \subseteq Nat
      BY ModelRunnerAssumption
    <3> QED
      BY <1>1, <3>1
  <2>2. \A b \in decode_buckets : graphs[b] \in [1 .. b -> Row]
    BY <1>1, <1>4
  <2>3. freed \subseteq Sequence /\ DOMAIN graphs = decode_buckets /\ DOMAIN pool = 0 .. num_blocks
    BY <1>1
  <2>4. /\ prefill_progress \in [Sequence -> Nat]
        /\ status \in [Sequence -> {"WAITING", "PREFILLING", "DECODING", "ENDED"}]
    BY <1>1
  <2>5. \A b \in 0 .. num_blocks : DOMAIN pool[b] = 0 .. block_size - 1
    BY <1>1
  <2> QED
    BY <1>1, <1>3, <2>1, <2>2, <2>3, <2>4, <2>5 DEF RunnerTypeOK
<1>6. EntriesInv
  <2>1. \A s \in Sequence : SlotsOf(s)
    BY <1>1, <1>2, <1>3 DEF SlotsOf
  <2>2. OneEntryEach
    BY <1>3 DEF OneEntryEach
  <2> QED
    BY <1>1, <1>3, <2>1, <2>2 DEF EntriesInv
<1>7. FreedInv
  BY <1>1 DEF FreedInv
<1>8. KeptInv
  <2>1. ASSUME NEW s \in Sequence PROVE Kept(s, 0)
    <3>1. buffer[s] \in Seq(Pair) /\ Len(buffer[s]) = 0
      BY <1>1
    <3> QED
      BY <3>1 DEF Kept
  <2> QED
    BY <1>2, <1>3, <2>1 DEF KeptInv
<1>9. RowsInv
  <2>1. \A b \in decode_buckets : \A row \in 1 .. b : \A s \in Sequence : graphs[b][row].seq_id # s
    BY <1>1, <1>4, ModelRunnerAssumption
  <2> QED
    BY <1>1, <2>1 DEF RowsInv
<1>10. AttendedInv
  BY <1>1 DEF AttendedInv, AttendsOwnTokens
<1> QED
  BY <1>2, <1>5, <1>6, <1>7, <1>8, <1>9, <1>10 DEF RunnerInv

LEMMA RunnerStutter ==
  ASSUME RunnerInv, UNCHANGED rvars
  PROVE  RunnerInv'
<1>1. /\ vars' = vars /\ paged' = paged /\ length' = length /\ prefill_progress' = prefill_progress
      /\ status' = status /\ pool' = pool /\ graphs' = graphs /\ buffer' = buffer
      /\ attended' = attended /\ plan' = plan /\ freed' = freed /\ phase' = phase
      /\ physical_blocks' = physical_blocks /\ num_tokens' = num_tokens
  BY DEF rvars, seq_state, kv_state, vars
<1>2. IndInv'
  BY <1>1, StutterInv DEF RunnerInv
<1>3. RunnerTypeOK'
  BY <1>1 DEF RunnerInv, RunnerTypeOK
<1>4. Planned' = Planned
  BY <1>1 DEF Planned
<1>5. EntriesInv'
  <2>1. /\ OneEntryEach' <=> OneEntryEach
        /\ \A s : SlotsOf(s)' <=> SlotsOf(s)
        /\ \A k : EntryInv(plan[k])' <=> EntryInv(plan[k])
    BY <1>1, <1>4 DEF OneEntryEach, SlotsOf, EntryInv
  <2> QED
    BY <1>1, <2>1 DEF RunnerInv, EntriesInv
<1>6. FreedInv'
  <2>1. \A k : cached(plan[k])' = cached(plan[k])
    BY <1>1 DEF cached
  <2> QED
    BY <1>1, <1>4, <2>1 DEF RunnerInv, FreedInv
<1>7. KeptInv'
  <2>1. \A s, p : Place(s, p)' = Place(s, p)
    BY <1>1 DEF Place
  <2>2. \A s, n : Kept(s, n)' <=> Kept(s, n)
    BY <1>1, <2>1 DEF Kept
  <2>3. \A k : Kept(plan[k].seq_id, cached(plan[k]))' <=> Kept(plan[k].seq_id, cached(plan[k]))
    BY <1>1, <2>2 DEF cached
  <2>4. \A s : Kept(s, num_tokens[s])' <=> Kept(s, num_tokens[s])
    BY <1>1, <2>2
  <2> QED
    BY <1>1, <1>4, <2>3, <2>4 DEF RunnerInv, KeptInv
<1>8. RowsInv'
  BY <1>1, <1>4 DEF RunnerInv, RowsInv, Fresh
<1>9. AttendedInv'
  BY <1>1 DEF RunnerInv, AttendedInv, AttendsOwnTokens
<1> QED
  BY <1>2, <1>3, <1>5, <1>6, <1>7, <1>8, <1>9 DEF RunnerInv

LEMMA RunnerStep ==
  ASSUME RunnerInv, [RunnerNext]_rvars
  PROVE  RunnerInv'
<1>1. ASSUME NEW s \in Sequence, NEW n \in 1 .. MaxNewTokens, PrefillChunk(s, n) PROVE RunnerInv'
  BY <1>1, PrefillChunkInv
<1>2. ASSUME NEW s \in Sequence, Decode(s) PROVE RunnerInv'
  BY <1>2, DecodeInv
<1>3. ASSUME NEW s \in Sequence, Preempt(s) PROVE RunnerInv'
  BY <1>3, PreemptInv
<1>4. CASE HandOver
  BY <1>4, HandOverInv
<1>5. CASE Replay
  BY <1>5, ReplayInv
<1>6. CASE ForwardPaged
  BY <1>6, ForwardPagedInv
<1>7. CASE ForwardBuffered
  BY <1>7, ForwardBufferedInv
<1>8. CASE ForwardFails
  BY <1>8, ForwardFailsInv
<1>9. CASE ApplyResult
  BY <1>9, ApplyResultInv
<1>10. CASE AbortEntry
  BY <1>10, AbortEntryInv
<1>11. CASE EndIteration
  BY <1>11, EndIterationInv
<1>12. CASE UNCHANGED rvars
  BY <1>12, RunnerStutter
<1> QED
  BY <1>1, <1>2, <1>3, <1>4, <1>5, <1>6, <1>7, <1>8, <1>9, <1>10, <1>11, <1>12 DEF RunnerNext

\* The inductive invariant: the allocator's own, the lengths of tables, plans and
\* sequences in step with one another, every pair that a pass will rely on in its place,
\* and every row that records a sequence at the start of its table.
THEOREM RunnerInvariance == RunnerSpec => []RunnerInv
<1>1. RunnerInit => RunnerInv
  BY RunnerInitInv
<1>2. RunnerInv /\ [RunnerNext]_rvars => RunnerInv'
  BY RunnerStep
<1> QED
  BY <1>1, <1>2, PTL DEF RunnerSpec

\* Whatever was preempted, failed, ended and admitted before, a pass reads for each
\* sequence of its batch that sequence's own keys and values and no others, through the
\* tables, through a graph's copy of them, or from a buffer.
THEOREM AttentionReadsOwnTokens == RunnerSpec => []AttendsOwnTokens
<1>1. RunnerInv => AttendsOwnTokens
  BY DEF RunnerInv, AttendedInv
<1> QED
  BY <1>1, RunnerInvariance, PTL

\* The row that DecodeGraphRunner believes it has written is the start of the block
\* table, and model_runner.free leaves nothing of a sequence that has ended.
THEOREM RowsStayFresh == RunnerSpec => []RowsAreFresh
<1>1. RunnerInv => RowsAreFresh
  <2> SUFFICES ASSUME RunnerInv, NEW s \in Sequence \ freed
               PROVE  LET rows == UNION {{graphs[b][row] : row \in 1 .. b} : b \in decode_buckets}
                          own == {r \in rows : r.seq_id = s}
                      IN /\ status[s] = "ENDED" => own = {} /\ buffer[s] = <<>>
                         /\ phase # "failed" => \A r \in own :
                              /\ r.written =< Len(physical_blocks[s])
                              /\ \A k \in 1 .. r.written : r.block_table[k] = physical_blocks[s][k]
    BY DEF RowsAreFresh
  <2>1. /\ status[s] = "ENDED" =>
             /\ buffer[s] = <<>>
             /\ \A b \in decode_buckets : \A row \in 1 .. b : graphs[b][row].seq_id # s
        /\ phase # "failed" =>
             \A b \in decode_buckets : \A row \in 1 .. b :
               graphs[b][row].seq_id = s => Fresh(graphs[b][row], s)
    BY DEF RunnerInv, RowsInv
  <2> QED
    BY <2>1 DEF Fresh
<1> QED
  BY <1>1, RunnerInvariance, PTL
=============================================================================
