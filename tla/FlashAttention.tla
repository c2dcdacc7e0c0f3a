---------------------------- MODULE FlashAttention ----------------------------
(***************************************************************************)
(* The two attention kernels: which keys a query row meets, tile by tile,  *)
(* and how the online softmax keeps what it has summed in step with the    *)
(* running maximum.                                                        *)
(*                                                                         *)
(* A score is an integer and exp is not evaluated: a sum of terms          *)
(* exp(s - m) * v is the set of pairs <<address of v, s - m>>, so that     *)
(* scaling by exp(a) adds a to every pair, and a key that is masked, whose *)
(* term is exp(-inf), has no pair.  As a set keeps no repetition, terms    *)
(* counts what was added.  exp(-inf - -inf) is not a number.               *)
(*                                                                         *)
(* The programs of a launch read the same inputs and write rows of their   *)
(* own (AttendsCausally would not hold otherwise), so the order in which   *)
(* they run does not matter: they run here one after the other.            *)
(***************************************************************************)
EXTENDS Integers, Functions, FiniteSetsExt

CONSTANTS
  Entries,        \* 0 .. n - 1: entries of the batch plan, or the batch index Z
  H, N_GROUPS,    \* query heads, and how many of them share a K/V head
  BLOCK_M,        \* query rows of a tile
  BLOCK_N,        \* keys of a tile
  block_size,     \* slots of a block of the pool
  MaxContext,     \* bound: context length
  Scores          \* bound: values of a score

ASSUME FlashAttentionAssumption ==
  /\ {H, N_GROUPS, BLOCK_M, BLOCK_N, block_size, MaxContext} \subseteq Nat \ {0}
  /\ H % N_GROUPS = 0
  /\ Scores \subseteq Int
  /\ IsFiniteSet(Entries) /\ Entries # {} /\ Entries = 0 .. Cardinality(Entries) - 1

VARIABLES
  paged, is_causal,                  \* which kernel, and its mask
  q_len, context_len, query_offset,  \* per entry
  score,                             \* score[n]: of any row against position n
  program,                           \* number of the program that runs
  start_n,                           \* first key of its current tile
  rows,                              \* the rows of its tile: m, denominator, acc
  output                             \* rows stored: a function of <<head, token>>

inputs == <<paged, is_causal, q_len, context_len, query_offset, score>>
vars == <<inputs, program, start_n, rows, output>>
-----------------------------------------------------------------------------
\* A running maximum is the set of that one score, or of none.
NegInf == {}

FreshRows ==
  [r \in 0 .. BLOCK_M - 1 |-> [max |-> NegInf, denom |-> {}, acc |-> {}, terms |-> 0, nan |-> FALSE]]

Uniform(f) == \A e, d \in Entries : f[e] = f[d]

\* paged_attention_forward gets one row of each array per entry, the new tokens
\* being the last of the context; flash_attention_forward one length for all.
Init ==
  /\ context_len \in [Entries -> 1 .. MaxContext]
  /\ q_len \in [Entries -> 1 .. MaxContext]
  /\ query_offset \in [Entries -> 0 .. MaxContext - 1]
  /\ score \in [0 .. MaxContext - 1 -> Scores]
  /\ \/ /\ paged = TRUE /\ is_causal = TRUE
        /\ \A e \in Entries : query_offset[e] = context_len[e] - q_len[e]
     \/ /\ paged = FALSE /\ is_causal \in BOOLEAN
        /\ Uniform(context_len) /\ Uniform(q_len) /\ Uniform(query_offset)
        /\ IF is_causal THEN \A e \in Entries : query_offset[e] + q_len[e] =< context_len[e]
                        ELSE \A e \in Entries : query_offset[e] = 0
  /\ program = 0
  /\ start_n = 0
  /\ rows = FreshRows
  /\ output = [cell \in {} |-> {}]
-----------------------------------------------------------------------------
(* The launch and where a program stands in it *)

cdiv(a, b) == (a + b - 1) \div b

max_q_len == Max({q_len[e] : e \in Entries})

tiles == cdiv(max_q_len, BLOCK_M)

Programs == 0 .. tiles * Cardinality(Entries) * H - 1

start_m == program % tiles

entry_head == program \div tiles

entry_idx == entry_head \div H

head_idx == entry_head % H

kv_head(head) == head \div N_GROUPS

offs_m(r) == start_m * BLOCK_M + r

m_mask(r) == offs_m(r) < q_len[entry_idx]

\* The entry's first token among those of the batch.
q_start(e) == SumFunctionOnSet(q_len, 0 .. e - 1)

\* Where position n of an entry lies: blocks of a pool in no particular order, or
\* the entry's own tensor.
address(e, head, n) ==
  IF paged
  THEN <<(Cardinality(Entries) - e) * MaxContext - n \div block_size, n % block_size, kv_head(head)>>
  ELSE <<e, n, kv_head(head)>>

\* No row of the tile sees a key beyond the last row's own position.
end_n ==
  IF is_causal
  THEN Min({query_offset[entry_idx] + (start_m + 1) * BLOCK_M, context_len[entry_idx]})
  ELSE context_len[entry_idx]
-----------------------------------------------------------------------------
(* The loop over key tiles *)

\* The keys of the current tile that row r may see.
Unmasked(r) ==
  {n \in start_n .. start_n + BLOCK_N - 1 :
     /\ m_mask(r) /\ n < context_len[entry_idx]
     /\ is_causal => query_offset[entry_idx] + offs_m(r) >= n}

\* A sum multiplied by exp(old - new), where old is -inf for a sum of no terms.
ScaledMut_NotAtAll(sum, old, new) == sum

Scaled(sum, old, new) == {<<t[1], t[2] + m - new>> : t \in sum, m \in old}

\* One row takes in the keys it sees in the tile.
Absorb(row, keys) ==
  IF keys = {} /\ row.max = NegInf THEN [row EXCEPT !.nan = TRUE]
  ELSE LET new_max == Max({score[n] : n \in keys} \cup row.max)
           p == {<<address(entry_idx, head_idx, n), score[n] - new_max>> : n \in keys}
       IN [row EXCEPT !.max = {new_max},
                      !.denom = Scaled(@, row.max, new_max) \cup p,
                      !.acc = Scaled(@, row.max, new_max) \cup p,
                      !.terms = @ + Cardinality(keys)]

Running == program \in Programs

HasRows == start_m * BLOCK_M < q_len[entry_idx]

Tile ==
  /\ Running /\ HasRows
  /\ start_n < end_n
  /\ rows' = [r \in DOMAIN rows |-> Absorb(rows[r], Unmasked(r))]
  /\ start_n' = start_n + BLOCK_N
  /\ UNCHANGED <<inputs, program, output>>

NextProgram ==
  /\ program' = program + 1
  /\ start_n' = 0
  /\ rows' = FreshRows

\* acc / running_denom is stored for the rows that are tokens of the entry.
Store ==
  /\ Running /\ HasRows
  /\ start_n >= end_n
  /\ LET stored == {r \in DOMAIN rows : m_mask(r)}
         cell(r) == <<head_idx, q_start(entry_idx) + offs_m(r)>>
         RowOf(c) == CHOOSE r \in stored : cell(r) = c
     IN output' = [c \in DOMAIN output \cup {cell(r) : r \in stored} |->
                     IF \E r \in stored : cell(r) = c
                     THEN LET row == rows[RowOf(c)]
                          IN [denom |-> row.denom, acc |-> row.acc,
                              terms |-> row.terms, nan |-> row.nan]
                     ELSE output[c]]
  /\ NextProgram
  /\ UNCHANGED inputs

\* A program of the grid beyond the entry's tokens returns at once.
ReturnEarly ==
  /\ Running /\ ~HasRows
  /\ NextProgram
  /\ UNCHANGED <<inputs, output>>

Next == Tile \/ Store \/ ReturnEarly

Spec == Init /\ [][Next]_vars
-----------------------------------------------------------------------------
Tokens(e) == q_start(e) .. q_start(e) + q_len[e] - 1

\* The positions a token sees: those up to its own, or all there are.
Visible(e, token) ==
  IF is_causal THEN 0 .. query_offset[e] + (token - q_start(e)) ELSE 0 .. context_len[e] - 1

\* Softmax attention in one piece, its exponents taken relative to the maximum.
Attention(e, head, token) ==
  LET top == Max({score[n] : n \in Visible(e, token)})
      sum == {<<address(e, head, n), score[n] - top>> : n \in Visible(e, token)}
  IN [denom |-> sum, acc |-> sum, terms |-> Cardinality(Visible(e, token)), nan |-> FALSE]

\* What is stored for a token is attention over all the positions it sees and no
\* others, read from its own entry and K/V head, numerator and denominator in
\* step with the final maximum, and never the NaN of a row with no key at all; when
\* the launch has returned, every row of every entry and head has been stored, and
\* nothing else has.
AttendsCausally ==
  /\ \A e \in Entries : \A head \in 0 .. H - 1 : \A token \in Tokens(e) :
       <<head, token>> \in DOMAIN output => output[<<head, token>>] = Attention(e, head, token)
  /\ ~Running =>
       DOMAIN output = (0 .. H - 1) \X (0 .. SumFunctionOnSet(q_len, Entries) - 1)
=============================================================================
