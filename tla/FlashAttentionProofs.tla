------------------------- MODULE FlashAttentionProofs -------------------------
(***************************************************************************)
(* For every batch, tile size, context length and order of scores: what    *)
(* the kernels store for a token is attention over all the positions it    *)
(* sees, and a launch stores every row.                                    *)
(*                                                                         *)
(* The inductive invariant says of a row that its maximum, denominator and *)
(* accumulator are those of the keys it has met so far, whose exponents    *)
(* are all relative to the latest maximum, and of the output that it has   *)
(* the rows of the programs that have run, each in a place of its own.     *)
(***************************************************************************)
EXTENDS FlashAttention, Sums

InputInv ==
  /\ context_len \in [Entries -> 1 .. MaxContext]
  /\ q_len \in [Entries -> 1 .. MaxContext]
  /\ query_offset \in [Entries -> 0 .. MaxContext - 1]
  /\ score \in [0 .. MaxContext - 1 -> Scores]
  /\ is_causal \in BOOLEAN
  /\ is_causal => \A e \in Entries : query_offset[e] + q_len[e] =< context_len[e]

\* A row that has met the keys of S.
OverKeys(S) ==
  LET top == Max({score[n] : n \in S})
      sum == {<<address(entry_idx, head_idx, n), score[n] - top>> : n \in S}
  IN [max |-> IF S = {} THEN {} ELSE {top}, denom |-> sum, acc |-> sum,
      terms |-> Cardinality(S), nan |-> FALSE]

\* The keys before the current tile that row r may see.
Seen(r) ==
  {n \in 0 .. start_n - 1 :
     n < context_len[entry_idx] /\ (is_causal => query_offset[entry_idx] + offs_m(r) >= n)}

\* A row of the launch's output: entry, head, and the token's number in its entry.
Pieces == {x \in Entries \X (0 .. H - 1) \X (0 .. MaxContext - 1) : x[3] < q_len[x[1]]}

Cell(x) == <<x[2], q_start(x[1]) + x[3]>>

\* The program that stores it.
Storer(x) == (x[1] * H + x[2]) * tiles + x[3] \div BLOCK_M

RowsInv ==
  /\ DOMAIN rows = 0 .. BLOCK_M - 1
  /\ Running => \A r \in 0 .. BLOCK_M - 1 :
       m_mask(r) => \E S \in SUBSET (0 .. MaxContext - 1) : S = Seen(r) /\ rows[r] = OverKeys(S)

OutputInv ==
  /\ DOMAIN output = {Cell(x) : x \in {y \in Pieces : Storer(y) < program}}
  /\ \A x \in Pieces, c \in DOMAIN output :
       c = Cell(x) => output[c] = Attention(x[1], x[2], c[2])

KernelInv ==
  /\ InputInv
  /\ program \in 0 .. tiles * Cardinality(Entries) * H /\ start_n \in Nat
  /\ RowsInv
  /\ OutputInv
-----------------------------------------------------------------------------
(* The launch *)

LEMMA BatchType ==
  /\ Cardinality(Entries) \in Nat \ {0} /\ Entries = 0 .. Cardinality(Entries) - 1
  /\ H \in Nat \ {0} /\ BLOCK_M \in Nat \ {0} /\ BLOCK_N \in Nat \ {0} /\ MaxContext \in Nat \ {0}
  /\ Scores \subseteq Int /\ IsFiniteSet(Entries)
<1>1. /\ H \in Nat \ {0} /\ BLOCK_M \in Nat \ {0} /\ BLOCK_N \in Nat \ {0}
      /\ MaxContext \in Nat \ {0} /\ Scores \subseteq Int
  BY FlashAttentionAssumption
<1>2. PICK k : k = Cardinality(Entries)
  OBVIOUS
<1>3. IsFiniteSet(Entries) /\ Entries # {} /\ Entries = 0 .. k - 1
  BY <1>2, FlashAttentionAssumption
<1>4. k \in Nat
  BY <1>2, <1>3, FS_CardinalityType
<1>5. k # 0
  BY <1>3
<1> QED
  BY <1>1, <1>2, <1>3, <1>4, <1>5

LEMMA LengthsType ==
  ASSUME InputInv
  PROVE  q_len \in [0 .. Cardinality(Entries) - 1 -> Nat]
<1>1. q_len \in [Entries -> 1 .. MaxContext]
  BY DEF InputInv
<1>2. \A e \in Entries : q_len[e] \in Nat
  BY <1>1, BatchType
<1>3. q_len \in [Entries -> Nat]
  BY <1>1, <1>2
<1> QED
  BY <1>3, BatchType

\* The greatest of a set is the one it must be.
LEMMA MaxIs ==
  ASSUME NEW S, S \subseteq Int, NEW x \in S, \A y \in S : y =< x
  PROVE  Max(S) = x
<1>1. \E z \in S : \A y \in S : z >= y
  BY DEF Max
<1>2. PICK m : m = Max(S)
  OBVIOUS
<1>3. m \in S /\ \A y \in S : m >= y
  BY <1>1, <1>2, Zenon DEF Max
<1>4. m >= x /\ m =< x /\ m \in Int /\ x \in Int
  BY <1>3
<1> QED
  BY <1>2, <1>4

\* A finite set of integers has a greatest element.
LEMMA MaxType ==
  ASSUME NEW S, IsFiniteSet(S), S \subseteq Int, S # {}
  PROVE  Max(S) \in S /\ \A y \in S : y =< Max(S)
<1>1. PICK x \in S : \A y \in S : x >= y
  BY GreatestElement
<1>2. x \in Int /\ \A y \in S : y =< x
  BY <1>1
<1>3. Max(S) = x
  BY <1>2, MaxIs
<1> QED
  BY <1>2, <1>3

\* The grid has a tile for every token of every entry.
LEMMA TilesType ==
  ASSUME InputInv
  PROVE  /\ tiles \in Nat \ {0}
         /\ \A e \in Entries, i \in Nat : i < q_len[e] => i \div BLOCK_M < tiles
<1>1. PICK q, b, S : q = q_len /\ b = BLOCK_M /\ S = {q[e] : e \in Entries}
  OBVIOUS
<1>2. q \in [Entries -> 1 .. MaxContext] /\ b \in Nat \ {0} /\ MaxContext \in Nat
  BY <1>1, BatchType DEF InputInv
<1>3. S \subseteq 1 .. MaxContext /\ S # {}
  BY <1>1, <1>2, BatchType
<1>4. IsFiniteSet(S) /\ S \subseteq Int
  <2>1. IsFiniteSet(1 .. MaxContext)
    BY <1>2, FS_Interval
  <2>2. PICK T : T = 1 .. MaxContext
    OBVIOUS
  <2>3. S \in SUBSET T
    BY <1>3, <2>2
  <2>4. IsFiniteSet(S)
    BY <2>1, <2>2, <2>3, FS_Subset
  <2> QED
    BY <1>3, <2>4
<1>5. PICK m : m = Max(S)
  OBVIOUS
<1>6. m \in 1 .. MaxContext /\ \A e \in Entries : q[e] =< m
  BY <1>1, <1>3, <1>4, <1>5, MaxType
<1>7. PICK t : t = (m + b - 1) \div b
  OBVIOUS
<1>8. t = tiles
  BY <1>1, <1>5, <1>7 DEF tiles, max_q_len, cdiv
<1>9. t \in Nat /\ m =< t * b
  <2>1. PICK a \in Nat : a = m + b - 1
    BY <1>2, <1>6
  <2>2. t \in Nat /\ a % b \in 0 .. b - 1 /\ a = b * t + (a % b)
    BY <1>2, <1>7, <2>1, Dividing
  <2>3. b * t = t * b /\ t * b \in Nat
    BY <1>2, <2>2
  <2> QED
    BY <1>2, <1>6, <2>1, <2>2, <2>3
<1>10. ASSUME NEW e \in Entries, NEW i \in Nat, i < q[e] PROVE i \div b < t
  <2>1. i < t * b
    <3>1. q[e] =< m /\ q[e] \in Nat /\ t * b \in Nat
      BY <1>2, <1>6, <1>9
    <3> QED
      BY <1>6, <1>9, <1>10, <3>1
  <2> QED
    BY <1>2, <1>9, <2>1, QuotientBelow
<1>11. t # 0
  <2>1. t * b # 0
    BY <1>2, <1>6, <1>9
  <2>2. t = 0 => t * b = 0
    BY <1>2
  <2> QED
    BY <2>1, <2>2
<1> QED
  BY <1>1, <1>8, <1>9, <1>10, <1>11

\* Which entry, head and tile a program is.
LEMMA ProgramType ==
  ASSUME InputInv, Running
  PROVE  /\ entry_idx \in Entries /\ head_idx \in 0 .. H - 1 /\ start_m \in Nat
         /\ program \in Nat /\ program + 1 =< tiles * Cardinality(Entries) * H
         /\ program = (entry_idx * H + head_idx) * tiles + start_m
<1>1. PICK t, k, p : t = tiles /\ k = Cardinality(Entries) /\ p = program
  OBVIOUS
<1>2. t \in Nat \ {0} /\ k \in Nat \ {0} /\ H \in Nat \ {0}
  BY <1>1, TilesType, BatchType
<1>3. t * k * H = (k * H) * t /\ k * H \in Nat /\ (k * H) * t \in Nat
  BY <1>2
<1>4. p \in Nat /\ p < (k * H) * t
  BY <1>1, <1>2, <1>3 DEF Running, Programs
<1>5. PICK g, m : g = p \div t /\ m = p % t
  OBVIOUS
<1>6. g \in Nat /\ m \in Nat /\ p = t * g + m
  BY <1>2, <1>4, <1>5, Dividing
<1>7. g < k * H
  BY <1>2, <1>3, <1>4, <1>5, QuotientBelow
<1>8. PICK e, h : e = g \div H /\ h = g % H
  OBVIOUS
<1>9. e \in Nat /\ h \in 0 .. H - 1 /\ g = H * e + h
  BY <1>2, <1>6, <1>8, Dividing
<1>10. e < k
  BY <1>2, <1>6, <1>7, <1>8, QuotientBelow
<1>11. e = entry_idx /\ h = head_idx /\ m = start_m
  BY <1>1, <1>5, <1>8 DEF entry_idx, head_idx, entry_head, start_m
<1>12. e \in Entries
  BY <1>1, <1>9, <1>10, BatchType
<1>13. p = (e * H + h) * t + m
  <2>1. H * e = e * H /\ t * g = g * t
    BY <1>2, <1>6, <1>9
  <2> QED
    BY <1>6, <1>9, <2>1
<1>14. p + 1 =< t * k * H
  BY <1>3, <1>4
<1> QED
  BY <1>1, <1>4, <1>6, <1>9, <1>11, <1>12, <1>13, <1>14

LEMMA PieceType ==
  ASSUME InputInv, NEW x \in Pieces
  PROVE  /\ x[1] \in Entries /\ x[2] \in 0 .. H - 1 /\ x[3] \in Nat /\ x[3] < q_len[x[1]]
         /\ x = <<x[1], x[2], x[3]>>
  BY DEF Pieces

\* Every row is stored by one program of the grid: that of its entry, head and tile.
LEMMA StorerType ==
  ASSUME InputInv, NEW x \in Pieces
  PROVE  /\ Storer(x) \in Programs
         /\ Running => (Storer(x) = program <=>
              x[1] = entry_idx /\ x[2] = head_idx /\ x[3] \div BLOCK_M = start_m)
<1>1. PICK e, h, i, t, k : /\ e = x[1] /\ h = x[2] /\ i = x[3] /\ t = tiles
                           /\ k = Cardinality(Entries)
  OBVIOUS
<1>2. e \in Entries /\ h \in 0 .. H - 1 /\ i \in Nat /\ i < q_len[e]
  BY <1>1, PieceType
<1>3. PICK m : m = i \div BLOCK_M
  OBVIOUS
<1>4. t \in Nat \ {0} /\ k \in Nat \ {0} /\ H \in Nat \ {0} /\ m < t
  BY <1>1, <1>2, <1>3, TilesType, BatchType
<1>5. m \in 0 .. t - 1 /\ e \in Nat /\ e < k
  <2>1. m \in Nat
    BY <1>2, <1>3, BatchType, Dividing
  <2> QED
    BY <1>1, <1>2, <1>4, <2>1, BatchType
<1>6. PICK g : g = e * H + h
  OBVIOUS
<1>7. g \in Nat /\ g + 1 =< k * H /\ k * H \in Nat
  <2>1. e + 1 =< k
    BY <1>4, <1>5
  <2>2. (e + 1) * H =< k * H /\ (e + 1) * H = e * H + H /\ e * H \in Nat /\ k * H \in Nat
    BY <1>4, <1>5, <2>1
  <2> QED
    BY <1>2, <1>4, <1>6, <2>2
<1>8. PICK s : s = g * t + m
  OBVIOUS
<1>9. s \in Nat /\ s < t * k * H
  <2>1. (g + 1) * t =< (k * H) * t /\ (g + 1) * t = g * t + t /\ g * t \in Nat
    BY <1>4, <1>7
  <2>2. (k * H) * t = t * k * H /\ (k * H) * t \in Nat
    BY <1>4
  <2> QED
    BY <1>4, <1>5, <1>8, <2>1, <2>2
<1>10. s = Storer(x)
  BY <1>1, <1>3, <1>6, <1>8 DEF Storer
<1>11. Storer(x) \in Programs
  BY <1>1, <1>4, <1>9, <1>10 DEF Programs
<1>12. ASSUME Running
       PROVE  s = program <=> e = entry_idx /\ h = head_idx /\ m = start_m
  <2>1. PICK p : p = program
    OBVIOUS
  <2>2. p = (entry_idx * H + head_idx) * t + start_m
    BY <1>1, <1>12, <2>1, ProgramType
  <2>3. ASSUME s = p PROVE e = entry_idx /\ h = head_idx /\ m = start_m
    <3>1. p \div t = g /\ p % t = m
      BY <1>4, <1>5, <1>7, <1>8, <2>3, Digits
    <3>2. g \div H = e /\ g % H = h
      BY <1>2, <1>4, <1>5, <1>6, Digits
    <3> QED
      BY <1>1, <2>1, <3>1, <3>2 DEF entry_idx, head_idx, entry_head, start_m
  <2>4. ASSUME e = entry_idx, h = head_idx, m = start_m PROVE s = p
    BY <1>6, <1>8, <2>2, <2>4
  <2> QED
    BY <2>1, <2>3, <2>4
<1> QED
  BY <1>1, <1>3, <1>10, <1>11, <1>12

\* Each row has a place of its own in the output, and the rows fill it.
LEMMA CellsApart ==
  ASSUME InputInv, NEW x \in Pieces, NEW y \in Pieces, Cell(x) = Cell(y)
  PROVE  x = y
<1>1. PICK n, q : n = Cardinality(Entries) /\ q = q_len
  OBVIOUS
<1>2. n \in Nat /\ Entries = 0 .. n - 1 /\ q \in [0 .. n - 1 -> Nat]
  BY <1>1, BatchType, LengthsType
<1>3. PICK d, e, i, j : d = x[1] /\ e = y[1] /\ i = x[3] /\ j = y[3]
  OBVIOUS
<1>4. /\ d \in 0 .. n - 1 /\ e \in 0 .. n - 1 /\ i \in Nat /\ j \in Nat /\ i < q[d] /\ j < q[e]
      /\ x = <<d, x[2], i>> /\ y = <<e, y[2], j>>
  BY <1>1, <1>2, <1>3, PieceType
<1>5. x[2] = y[2] /\ Start(q, d) + i = Start(q, e) + j
  BY <1>1, <1>3 DEF Cell, q_start, Start
<1>6. d = e /\ i = j
  BY <1>2, <1>4, <1>5, PiecesApart
<1> QED
  BY <1>4, <1>5, <1>6

LEMMA CellsFill ==
  ASSUME InputInv
  PROVE  {Cell(x) : x \in Pieces} = (0 .. H - 1) \X (0 .. SumFunctionOnSet(q_len, Entries) - 1)
<1>1. PICK n, q : n = Cardinality(Entries) /\ q = q_len
  OBVIOUS
<1>2. n \in Nat /\ Entries = 0 .. n - 1 /\ q \in [0 .. n - 1 -> Nat]
  BY <1>1, BatchType, LengthsType
<1>3. SumFunctionOnSet(q_len, Entries) = Start(q, n)
  BY <1>1, <1>2 DEF Start
<1>4. ASSUME NEW x \in Pieces
      PROVE  Cell(x) \in (0 .. H - 1) \X (0 .. Start(q, n) - 1)
  <2>1. PICK e, i : e = x[1] /\ i = x[3]
    OBVIOUS
  <2>2. e \in 0 .. n - 1 /\ x[2] \in 0 .. H - 1 /\ i \in Nat /\ i < q[e]
    BY <1>1, <1>2, <2>1, PieceType
  <2>3. Start(q, e) + i \in 0 .. Start(q, n) - 1
    BY <1>2, <2>2, PiecesCover
  <2>4. Cell(x) = <<x[2], Start(q, e) + i>>
    BY <1>1, <2>1 DEF Cell, q_start, Start
  <2> QED
    BY <2>2, <2>3, <2>4
<1>5. ASSUME NEW h \in 0 .. H - 1, NEW t \in 0 .. Start(q, n) - 1
      PROVE  \E x \in Pieces : Cell(x) = <<h, t>>
  <2>1. PICK e \in 0 .. n - 1 : \E i \in Nat : i < q[e] /\ t = Start(q, e) + i
    BY <1>2, PiecesCover
  <2>2. PICK i \in Nat : i < q[e] /\ t = Start(q, e) + i
    BY <2>1
  <2>3. i \in 0 .. MaxContext - 1
    <3>1. q[e] \in 1 .. MaxContext /\ MaxContext \in Nat
      BY <1>1, <1>2, BatchType DEF InputInv
    <3> QED
      BY <2>2, <3>1
  <2>4. PICK x : x = <<e, h, i>>
    OBVIOUS
  <2>5. x \in Pieces
    BY <1>1, <1>2, <2>2, <2>3, <2>4 DEF Pieces
  <2>6. Cell(x) = <<h, t>>
    BY <1>1, <2>2, <2>4 DEF Cell, q_start, Start
  <2> QED
    BY <2>5, <2>6
<1> QED
  BY <1>3, <1>4, <1>5
-----------------------------------------------------------------------------
(* The online softmax *)

LEMMA FiniteImage ==
  ASSUME NEW S, IsFiniteSet(S), NEW f
  PROVE  IsFiniteSet({f[x] : x \in S})
<1> DEFINE T == {f[x] : x \in S}
           g == [x \in S |-> f[x]]
<1>1. g \in Surjection(S, T)
  BY DEF Surjection
<1> HIDE DEF T, g
<1>2. IsFiniteSet(T)
  BY <1>1, FS_Surjection
<1> QED
  BY <1>2 DEF T

Row(a, d, b, t, o) == [max |-> a, denom |-> d, acc |-> b, terms |-> t, nan |-> o]

Changed(row, a, d, b, t) == [row EXCEPT !.max = a, !.denom = d, !.acc = b, !.terms = t]

LEMMA RowChange ==
  ASSUME NEW a, NEW d, NEW b, NEW t, NEW o, NEW a1, NEW d1, NEW b1, NEW t1, NEW row,
         row = Row(a, d, b, t, o)
  PROVE  Changed(row, a1, d1, b1, t1) = Row(a1, d1, b1, t1, o)
<1>1. PICK r1 : r1 = [row EXCEPT !.max = a1]
  OBVIOUS
<1>2. r1 = [max |-> a1, denom |-> d, acc |-> b, terms |-> t, nan |-> o]
  BY <1>1 DEF Row
<1>3. PICK r2 : r2 = [r1 EXCEPT !.denom = d1]
  OBVIOUS
<1>4. r2 = [max |-> a1, denom |-> d1, acc |-> b, terms |-> t, nan |-> o]
  BY <1>2, <1>3
<1>5. PICK r3 : r3 = [r2 EXCEPT !.acc = b1]
  OBVIOUS
<1>6. r3 = [max |-> a1, denom |-> d1, acc |-> b1, terms |-> t, nan |-> o]
  BY <1>4, <1>5
<1>7. [r3 EXCEPT !.terms = t1] = [max |-> a1, denom |-> d1, acc |-> b1, terms |-> t1, nan |-> o]
  BY <1>6
<1>8. [[[[row EXCEPT !.max = a1] EXCEPT !.denom = d1] EXCEPT !.acc = b1] EXCEPT !.terms = t1]
      = [row EXCEPT !.max = a1, !.denom = d1, !.acc = b1, !.terms = t1]
  OBVIOUS
<1> QED
  BY <1>1, <1>3, <1>5, <1>7, <1>8 DEF Row, Changed

\* Taking in more keys brings what was summed in step with the new maximum.
LEMMA AbsorbKeys ==
  ASSUME InputInv, NEW S \in SUBSET (0 .. MaxContext - 1), NEW K \in SUBSET (0 .. MaxContext - 1),
         S \cap K = {}, S \cup K # {}
  PROVE  Absorb(OverKeys(S), K) = OverKeys(S \cup K)
<1>1. PICK f : f = score
  OBVIOUS
<1> DEFINE A(n) == address(entry_idx, head_idx, n)
           Val(T) == {f[n] : n \in T}
           Sum(T, m) == {<<A(n), f[n] - m>> : n \in T}
<1>2. \A n \in 0 .. MaxContext - 1 : f[n] \in Int
  BY <1>1, BatchType DEF InputInv
<1>3. ASSUME NEW T \in SUBSET (0 .. MaxContext - 1)
      PROVE  /\ IsFiniteSet(T) /\ Cardinality(T) \in Nat
             /\ Val(T) \subseteq Int /\ IsFiniteSet(Val(T))
             /\ T # {} => Max(Val(T)) \in Val(T) /\ \A y \in Val(T) : y =< Max(Val(T))
  <2>1. IsFiniteSet(T)
    <3>1. PICK k \in Int : k = MaxContext - 1
      BY BatchType
    <3>2. IsFiniteSet(0 .. k)
      BY FS_Interval
    <3>3. PICK R : R = 0 .. k
      OBVIOUS
    <3> QED
      BY <3>1, <3>2, <3>3, FS_Subset
  <2>2. IsFiniteSet(Val(T))
    BY <2>1, FiniteImage
  <2>3. Val(T) \subseteq Int
    BY <1>2
  <2>4. T # {} => Val(T) # {}
    OBVIOUS
  <2> HIDE DEF Val
  <2>5. T # {} => Max(Val(T)) \in Val(T) /\ \A y \in Val(T) : y =< Max(Val(T))
    BY <2>2, <2>3, <2>4, MaxType
  <2> QED
    BY <2>1, <2>2, <2>3, <2>5, FS_CardinalityType
<1>4. PICK U \in SUBSET (0 .. MaxContext - 1) : U = S \cup K /\ U # {}
  OBVIOUS
<1>5. PICK new, old : new = Max(Val(U)) /\ old = Max(Val(S))
  OBVIOUS
<1>6. /\ new \in Int /\ new \in Val(U) /\ \A y \in Val(U) : y =< new
      /\ S # {} => old \in Int /\ old \in Val(S) /\ \A y \in Val(S) : y =< old
  BY <1>3, <1>4, <1>5
<1>7. OverKeys(S) = [max |-> IF S = {} THEN {} ELSE {old}, denom |-> Sum(S, old),
                     acc |-> Sum(S, old), terms |-> Cardinality(S), nan |-> FALSE]
  BY <1>1, <1>5 DEF OverKeys
<1>8. OverKeys(U) = [max |-> {new}, denom |-> Sum(U, new), acc |-> Sum(U, new),
                     terms |-> Cardinality(U), nan |-> FALSE]
  <2>1. OverKeys(U) = [max |-> IF U = {} THEN {} ELSE {new}, denom |-> Sum(U, new),
                       acc |-> Sum(U, new), terms |-> Cardinality(U), nan |-> FALSE]
    BY <1>1, <1>5 DEF OverKeys
  <2> HIDE DEF Sum
  <2> QED
    BY <1>4, <2>1
<1>9. PICK top : top = IF S = {} THEN {} ELSE {old}
  OBVIOUS
<1>10. Max({score[n] : n \in K} \cup top) = new
  <2>1. PICK W : W = Val(K) \cup top
    OBVIOUS
  <2>2. Val(U) = Val(S) \cup Val(K) /\ Val(U) \subseteq Int
    BY <1>3, <1>4
  <2>3. W \subseteq Val(U) /\ \A y \in Val(U) : \E z \in W : y =< z
    <3>1. top \subseteq Val(S) /\ \A y \in Val(S) : \E z \in top : y =< z
      BY <1>6, <1>9
    <3>2. \A y \in Val(K) : y =< y
      BY <2>2
    <3> HIDE DEF Val
    <3> QED
      BY <2>1, <2>2, <3>1, <3>2
  <2> HIDE DEF Val
  <2>4. new \in W
    <3>1. PICK z \in W : new =< z
      BY <1>6, <2>3
    <3>2. z =< new /\ z \in Int
      BY <1>6, <2>2, <2>3
    <3>3. z = new
      BY <1>6, <3>1, <3>2
    <3> QED
      BY <3>3
  <2>5. W \subseteq Int /\ \A y \in W : y =< new
    BY <1>6, <2>2, <2>3
  <2>6. Max(W) = new
    BY <2>4, <2>5, MaxIs
  <2>7. {score[n] : n \in K} = Val(K)
    BY <1>1 DEF Val
  <2> QED
    BY <2>1, <2>6, <2>7
<1>11. Scaled(Sum(S, old), top, new) = Sum(S, new)
  <2>1. CASE S = {}
    BY <1>9, <2>1 DEF Scaled
  <2>2. CASE S # {}
    <3>1. \A n \in S : f[n] \in Int /\ (f[n] - old) + old - new = f[n] - new
      BY <1>2, <1>6, <2>2
    <3>2. Scaled(Sum(S, old), top, new) = {<<t[1], t[2] + old - new>> : t \in Sum(S, old)}
      BY <1>9, <2>2 DEF Scaled
    <3> HIDE DEF A
    <3>3. ASSUME NEW n \in S, NEW t, t = <<A(n), f[n] - old>>
          PROVE  <<t[1], t[2] + old - new>> = <<A(n), f[n] - new>>
      BY <3>1, <3>3
    <3>4. \A t \in Sum(S, old) : <<t[1], t[2] + old - new>> \in Sum(S, new)
      BY <3>3
    <3>5. \A u \in Sum(S, new) : \E t \in Sum(S, old) : u = <<t[1], t[2] + old - new>>
      BY <3>3
    <3> HIDE DEF Sum
    <3> QED
      BY <3>2, <3>4, <3>5
  <2> QED
    BY <2>1, <2>2
<1>12. Sum(U, new) = Sum(S, new) \cup Sum(K, new)
  BY <1>4
<1>13. Cardinality(U) = Cardinality(S) + Cardinality(K)
  <2>1. IsFiniteSet(S) /\ IsFiniteSet(K) /\ Cardinality(S) \in Nat /\ Cardinality(K) \in Nat
    BY <1>3
  <2>2. Cardinality(S \cup K) = Cardinality(S) + Cardinality(K) - Cardinality(S \cap K)
    BY <2>1, FS_Union
  <2>3. Cardinality(S \cap K) = 0
    BY FS_EmptySet
  <2> QED
    BY <1>4, <2>1, <2>2, <2>3
<1>14. PICK row : row = OverKeys(S)
  OBVIOUS
<1>15. /\ row.max = top /\ row.denom = Sum(S, old) /\ row.acc = Sum(S, old)
       /\ row.terms = Cardinality(S) /\ ~ (K = {} /\ row.max = NegInf)
       /\ row = [max |-> row.max, denom |-> row.denom, acc |-> row.acc,
                 terms |-> row.terms, nan |-> FALSE]
  <2> HIDE DEF Sum
  <2> QED
    BY <1>7, <1>9, <1>14 DEF NegInf
<1>16. {<<A(n), score[n] - new>> : n \in K} = Sum(K, new)
  BY <1>1
<1>17. Absorb(row, K) =
         [row EXCEPT !.max = {new}, !.denom = Scaled(row.denom, row.max, new) \cup Sum(K, new),
                     !.acc = Scaled(row.acc, row.max, new) \cup Sum(K, new),
                     !.terms = row.terms + Cardinality(K)]
  <2> DEFINE new_max == Max({score[n] : n \in K} \cup row.max)
             p == {<<A(n), score[n] - new_max>> : n \in K}
  <2>1. new_max = new
    BY <1>10, <1>15
  <2>2. p = Sum(K, new)
    BY <1>16, <2>1
  <2>3. Absorb(row, K) =
          [row EXCEPT !.max = {new_max}, !.denom = Scaled(@, row.max, new_max) \cup p,
                      !.acc = Scaled(@, row.max, new_max) \cup p,
                      !.terms = @ + Cardinality(K)]
    BY <1>15, Zenon DEF Absorb
  <2> HIDE DEF new_max, p, Sum
  <2> QED
    BY <2>1, <2>2, <2>3
<1> HIDE DEF Sum
<1>18. Absorb(row, K) = [max |-> {new}, denom |-> Sum(U, new), acc |-> Sum(U, new),
                         terms |-> Cardinality(U), nan |-> FALSE]
  <2>1. PICK a, d, b, t : a = row.max /\ d = row.denom /\ b = row.acc /\ t = row.terms
    OBVIOUS
  <2>2. row = [max |-> a, denom |-> d, acc |-> b, terms |-> t, nan |-> FALSE]
    BY <1>15, <2>1
  <2>3. PICK g, e, c : /\ g = Scaled(d, a, new) \cup Sum(K, new)
                       /\ e = Scaled(b, a, new) \cup Sum(K, new) /\ c = t + Cardinality(K)
    OBVIOUS
  <2>4. g = Sum(U, new) /\ e = Sum(U, new) /\ c = Cardinality(U)
    BY <1>11, <1>12, <1>13, <1>15, <2>1, <2>3
  <2>5. Absorb(row, K) = [row EXCEPT !.max = {new}, !.denom = g, !.acc = e, !.terms = c]
    BY <1>17, <2>1, <2>3
  <2>6. [row EXCEPT !.max = {new}, !.denom = g, !.acc = e, !.terms = c]
        = [max |-> {new}, denom |-> g, acc |-> e, terms |-> c, nan |-> FALSE]
    <3>1. PICK o : o = FALSE
      OBVIOUS
    <3>2. row = Row(a, d, b, t, o)
      BY <2>2, <3>1 DEF Row
    <3>3. PICK a1 : a1 = {new}
      OBVIOUS
    <3>4. Changed(row, a1, g, e, c) = Row(a1, g, e, c, o)
      BY <3>2, RowChange
    <3> QED
      BY <3>1, <3>3, <3>4 DEF Row, Changed
  <2> QED
    BY <2>4, <2>5, <2>6
<1> QED
  BY <1>4, <1>8, <1>14, <1>18
-----------------------------------------------------------------------------
(* What a program has seen *)

\* Row r of the program that runs, as a row of the output.
Piece(r) == <<entry_idx, head_idx, offs_m(r)>>

LEMMA RowType ==
  ASSUME InputInv, Running, NEW r \in 0 .. BLOCK_M - 1
  PROVE  /\ offs_m(r) \in Nat /\ start_m * BLOCK_M \in Nat /\ start_m * BLOCK_M =< offs_m(r)
         /\ offs_m(r) < (start_m + 1) * BLOCK_M /\ (start_m + 1) * BLOCK_M \in Nat
         /\ m_mask(r) => Piece(r) \in Pieces
<1>1. PICK m, b, q : m = start_m /\ b = BLOCK_M /\ q = q_len[entry_idx]
  OBVIOUS
<1>2. m \in Nat /\ b \in Nat \ {0} /\ r \in Nat /\ r < b
  BY <1>1, ProgramType, BatchType
<1>3. m * b \in Nat /\ (m + 1) * b = m * b + b
  BY <1>2
<1>4. offs_m(r) = m * b + r
  BY <1>1 DEF offs_m
<1>5. ASSUME m_mask(r) PROVE Piece(r) \in Pieces
  <2>1. entry_idx \in Entries /\ head_idx \in 0 .. H - 1
    BY ProgramType
  <2>2. q \in 1 .. MaxContext /\ MaxContext \in Nat
    BY <1>1, <2>1, BatchType DEF InputInv
  <2>3. PICK i : i = offs_m(r)
    OBVIOUS
  <2>4. i \in Nat /\ i < q
    BY <1>1, <1>2, <1>3, <1>4, <1>5, <2>3 DEF m_mask
  <2>5. i \in 0 .. MaxContext - 1
    BY <2>2, <2>4
  <2> QED
    BY <1>1, <2>1, <2>3, <2>4, <2>5 DEF Piece, Pieces
<1> QED
  BY <1>1, <1>2, <1>3, <1>4, <1>5

\* The rows that the program that runs stores are its own.
LEMMA OwnPieces ==
  ASSUME InputInv, Running, NEW x \in Pieces
  PROVE  Storer(x) = program <=> \E r \in 0 .. BLOCK_M - 1 : m_mask(r) /\ x = Piece(r)
<1>1. PICK b, m, i : b = BLOCK_M /\ m = start_m /\ i = x[3]
  OBVIOUS
<1>2. /\ b \in Nat \ {0} /\ m \in Nat /\ i \in Nat /\ i < q_len[x[1]] /\ x = <<x[1], x[2], i>>
  BY <1>1, BatchType, ProgramType, PieceType
<1>3. PICK s : s = i \div b
  OBVIOUS
<1>4. Storer(x) = program <=> x[1] = entry_idx /\ x[2] = head_idx /\ s = m
  BY <1>1, <1>3, StorerType
<1>5. ASSUME x[1] = entry_idx, x[2] = head_idx, s = m
      PROVE  \E r \in 0 .. b - 1 : m_mask(r) /\ x = Piece(r)
  <2>1. PICK r : r = i % b
    OBVIOUS
  <2>2. r \in 0 .. b - 1 /\ i = b * s + r
    BY <1>2, <1>3, <2>1, Dividing
  <2>3. b * s = m * b
    BY <1>2, <1>5
  <2>4. offs_m(r) = i
    BY <1>1, <2>2, <2>3 DEF offs_m
  <2> QED
    BY <1>2, <1>5, <2>2, <2>4 DEF m_mask, Piece
<1>6. ASSUME NEW r \in 0 .. b - 1, x = Piece(r)
      PROVE  x[1] = entry_idx /\ x[2] = head_idx /\ s = m
  <2>1. i = m * b + r
    BY <1>1, <1>6 DEF Piece, offs_m
  <2>2. s = m
    BY <1>2, <1>3, <2>1, Digits
  <2> QED
    BY <1>6, <2>2 DEF Piece
<1> QED
  BY <1>1, <1>4, <1>5, <1>6

\* A tile adds to the keys that a row has seen those of the tile, and the first key
\* of all is seen by every row.
LEMMA SeenGrows ==
  ASSUME InputInv, Running, start_n \in Nat, NEW r \in 0 .. BLOCK_M - 1, m_mask(r)
  PROVE  /\ Seen(r) \in SUBSET (0 .. MaxContext - 1)
         /\ Unmasked(r) \in SUBSET (0 .. MaxContext - 1)
         /\ Seen(r) \cap Unmasked(r) = {} /\ Seen(r) \cup Unmasked(r) # {}
         /\ Seen(r) \cup Unmasked(r) =
              {n \in 0 .. start_n + BLOCK_N - 1 :
                 /\ n < context_len[entry_idx]
                 /\ is_causal => query_offset[entry_idx] + offs_m(r) >= n}
<1>1. PICK s, b, c, o, i, M : /\ s = start_n /\ b = BLOCK_N /\ c = context_len[entry_idx]
                              /\ o = query_offset[entry_idx] /\ i = offs_m(r) /\ M = MaxContext
  OBVIOUS
<1>2. entry_idx \in Entries
  BY ProgramType
<1>3. /\ s \in Nat /\ b \in Nat \ {0} /\ c \in 1 .. M /\ o \in 0 .. M - 1 /\ i \in Nat
      /\ M \in Nat \ {0}
  BY <1>1, <1>2, BatchType, RowType DEF InputInv
<1>4. Seen(r) = {n \in 0 .. s - 1 : n < c /\ (is_causal => o + i >= n)}
  BY <1>1 DEF Seen
<1>5. Unmasked(r) = {n \in s .. s + b - 1 : n < c /\ (is_causal => o + i >= n)}
  BY <1>1 DEF Unmasked
<1>6. PICK A, B, C : A = Seen(r) /\ B = Unmasked(r)
        /\ C = {n \in 0 .. s + b - 1 : n < c /\ (is_causal => o + i >= n)}
  OBVIOUS
<1>7. A \subseteq 0 .. M - 1 /\ B \subseteq 0 .. M - 1
  <2>1. \A n \in A : n \in Int /\ 0 =< n /\ n < c
    BY <1>4, <1>6
  <2>2. \A n \in B : n \in Int /\ 0 =< n /\ n < c
    BY <1>3, <1>5, <1>6
  <2> QED
    BY <1>3, <2>1, <2>2
<1>8. A \cap B = {}
  BY <1>3, <1>4, <1>5, <1>6
<1>9. A \cup B = C
  <2>1. \A n : n \in 0 .. s + b - 1 <=> n \in 0 .. s - 1 \/ n \in s .. s + b - 1
    BY <1>3
  <2> QED
    BY <1>4, <1>5, <1>6, <2>1
<1>10. 0 \in C
  BY <1>3, <1>6
<1> QED
  BY <1>1, <1>6, <1>7, <1>8, <1>9, <1>10

\* When its last tile is done, a row has seen all that it may see.
LEMMA SeenAll ==
  ASSUME InputInv, Running, start_n \in Nat, start_n >= end_n,
         NEW r \in 0 .. BLOCK_M - 1, m_mask(r)
  PROVE  Seen(r) = Visible(entry_idx, q_start(entry_idx) + offs_m(r))
<1>1. PICK s, c, o, i, q, z, h : /\ s = start_n /\ c = context_len[entry_idx]
                              /\ o = query_offset[entry_idx] /\ i = offs_m(r)
                              /\ q = q_len[entry_idx] /\ z = q_start(entry_idx)
                              /\ h = (start_m + 1) * BLOCK_M
  OBVIOUS
<1>2. entry_idx \in Entries
  BY ProgramType
<1>3. /\ s \in Nat /\ c \in Nat /\ o \in Nat /\ i \in Nat /\ i < q /\ q \in Nat
      /\ is_causal => o + q =< c
  <2>1. s \in Nat /\ c \in Nat /\ o \in Nat /\ q \in Nat
    BY <1>1, <1>2, BatchType DEF InputInv
  <2>2. i \in Nat
    BY <1>1, RowType
  <2>3. i < q
    BY <1>1 DEF m_mask
  <2>4. is_causal => o + q =< c
    BY <1>1, <1>2 DEF InputInv
  <2> QED
    BY <2>1, <2>2, <2>3, <2>4
<1>4. z \in Nat
  <2>1. PICK n, w : n = Cardinality(Entries) /\ w = q_len
    OBVIOUS
  <2>2. n \in Nat /\ Entries = 0 .. n - 1 /\ w \in [0 .. n - 1 -> Nat]
    BY <2>1, BatchType, LengthsType
  <2>3. PICK e \in 0 .. n : e = entry_idx
    BY <1>2, <2>2
  <2>4. Start(w, e) \in Nat
    BY <2>2, NextStart
  <2> QED
    BY <1>1, <2>1, <2>3, <2>4 DEF q_start, Start
<1>5. Seen(r) = {n \in 0 .. s - 1 : n < c /\ (is_causal => o + i >= n)}
  BY <1>1 DEF Seen
<1>6. (z + i) - z = i
  BY <1>3, <1>4
<1>7. Visible(entry_idx, z + i) = IF is_causal THEN 0 .. o + i ELSE 0 .. c - 1
  BY <1>1, <1>6 DEF Visible
<1>8. CASE is_causal
  <2>1. h \in Nat /\ i < h
    BY <1>1, RowType
  <2>2. PICK m : m = Min({o + h, c})
    OBVIOUS
  <2>3. m \in {o + h, c}
    <3>1. \E x \in {o + h, c} : \A y \in {o + h, c} : x =< y
      BY <1>3, <2>1
    <3> QED
      BY <2>2, <3>1, Zenon DEF Min
  <2>4. m = end_n
    BY <1>1, <1>8, <2>2 DEF end_n
  <2>5. o + i < s /\ o + i < c
    BY <1>1, <1>3, <1>8, <2>1, <2>3, <2>4
  <2>6. Seen(r) = {n \in 0 .. s - 1 : n < c /\ o + i >= n}
    BY <1>5, <1>8
  <2>7. {n \in 0 .. s - 1 : n < c /\ o + i >= n} = 0 .. o + i
    BY <1>3, <2>5
  <2> QED
    BY <1>1, <1>7, <1>8, <2>6, <2>7
<1>9. CASE ~ is_causal
  <2>1. c =< s
    BY <1>1, <1>3, <1>9 DEF end_n
  <2>2. Seen(r) = {n \in 0 .. s - 1 : n < c}
    BY <1>5, <1>9
  <2>3. {n \in 0 .. s - 1 : n < c} = 0 .. c - 1
    BY <1>3, <2>1
  <2> QED
    BY <1>1, <1>7, <1>9, <2>2, <2>3
<1> QED
  BY <1>8, <1>9

\* What is stored for a row that has seen all it may see is attention over it.
LEMMA StoresAttention ==
  ASSUME NEW S, NEW token, S = Visible(entry_idx, token), NEW row, row = OverKeys(S)
  PROVE  [denom |-> row.denom, acc |-> row.acc, terms |-> row.terms, nan |-> row.nan]
         = Attention(entry_idx, head_idx, token)
<1> DEFINE top == Max({score[n] : n \in S})
           sum == {<<address(entry_idx, head_idx, n), score[n] - top>> : n \in S}
<1>1. PICK u, k, a : u = sum /\ k = Cardinality(S) /\ a = IF S = {} THEN {} ELSE {top}
  OBVIOUS
<1>2. row = [max |-> a, denom |-> u, acc |-> u, terms |-> k, nan |-> FALSE]
  BY <1>1 DEF OverKeys
<1>3. Attention(entry_idx, head_idx, token) = [denom |-> u, acc |-> u, terms |-> k, nan |-> FALSE]
  BY <1>1 DEF Attention
<1>4. row.denom = u /\ row.acc = u /\ row.terms = k /\ row.nan = FALSE
  BY <1>2
<1> QED
  BY <1>3, <1>4

\* A row that has met no key.
LEMMA FreshRow ==
  /\ OverKeys({}) = [max |-> NegInf, denom |-> {}, acc |-> {}, terms |-> 0, nan |-> FALSE]
  /\ OverKeys({})' = [max |-> NegInf, denom |-> {}, acc |-> {}, terms |-> 0, nan |-> FALSE]
<1>1. Cardinality({}) = 0
  BY FS_EmptySet
<1> QED
  BY <1>1 DEF OverKeys, NegInf
-----------------------------------------------------------------------------
(* The steps *)

LEMMA StartsRight ==
  ASSUME Init
  PROVE  KernelInv
<1>1. InputInv
  <2>1. MaxContext \in Nat \ {0}
    BY BatchType
  <2>2. /\ context_len \in [Entries -> 1 .. MaxContext]
        /\ q_len \in [Entries -> 1 .. MaxContext]
        /\ query_offset \in [Entries -> 0 .. MaxContext - 1]
        /\ score \in [0 .. MaxContext - 1 -> Scores]
        /\ is_causal \in BOOLEAN
    BY DEF Init
  <2>3. ASSUME is_causal, NEW e \in Entries
        PROVE  query_offset[e] + q_len[e] =< context_len[e]
    <3>1. query_offset[e] = context_len[e] - q_len[e] \/ query_offset[e] + q_len[e] =< context_len[e]
      BY <2>3 DEF Init
    <3>2. query_offset[e] \in Int /\ q_len[e] \in Int /\ context_len[e] \in Int
      BY <2>1, <2>2
    <3> QED
      BY <3>1, <3>2
  <2> QED
    BY <2>2, <2>3 DEF InputInv
<1>2. program = 0 /\ start_n = 0 /\ rows = FreshRows /\ output = [cell \in {} |-> {}]
  BY DEF Init
<1>3. tiles * Cardinality(Entries) * H \in Nat
  <2>1. PICK t, k : t = tiles /\ k = Cardinality(Entries)
    OBVIOUS
  <2>2. t \in Nat /\ k \in Nat /\ H \in Nat
    BY <1>1, <2>1, TilesType, BatchType
  <2>3. t * k * H \in Nat
    BY <2>2
  <2> QED
    BY <2>1, <2>3
<1>4. RowsInv
  <2>1. \A r \in 0 .. BLOCK_M - 1 : Seen(r) = {}
    BY <1>2 DEF Seen
  <2>2. \A r \in 0 .. BLOCK_M - 1 : rows[r] = OverKeys({})
    BY <1>2, FreshRow DEF FreshRows
  <2>3. DOMAIN rows = 0 .. BLOCK_M - 1
    BY <1>2 DEF FreshRows
  <2> QED
    BY <2>1, <2>2, <2>3 DEF RowsInv
<1>5. OutputInv
  <2>1. \A x \in Pieces : ~ (Storer(x) < program)
    <3>1. ASSUME NEW x \in Pieces PROVE ~ (Storer(x) < 0)
      <4>1. PICK p \in Programs : p = Storer(x)
        BY <1>1, StorerType
      <4>2. p \in Int /\ p >= 0
        BY <1>3 DEF Programs
      <4> QED
        BY <4>1, <4>2
    <3> QED
      BY <1>2, <3>1
  <2>2. DOMAIN output = {}
    BY <1>2
  <2>3. {Cell(x) : x \in {y \in Pieces : Storer(y) < program}} = {}
    BY <2>1
  <2> QED
    BY <2>2, <2>3 DEF OutputInv
<1> QED
  BY <1>1, <1>2, <1>3, <1>4, <1>5 DEF KernelInv

\* While the inputs stand, so do the pieces of the output and what belongs in them.
LEMMA InputsStand ==
  ASSUME InputInv, UNCHANGED inputs
  PROVE  /\ InputInv' /\ Pieces' = Pieces /\ tiles' = tiles /\ Programs' = Programs
         /\ \A x : Cell(x)' = Cell(x) /\ Storer(x)' = Storer(x)
         /\ \A e, h, t : Attention(e, h, t)' = Attention(e, h, t)
<1>1. /\ paged' = paged /\ is_causal' = is_causal /\ q_len' = q_len /\ context_len' = context_len
      /\ query_offset' = query_offset /\ score' = score
  BY DEF inputs
<1>2. InputInv'
  BY <1>1 DEF InputInv
<1>3. tiles' = tiles
  BY <1>1 DEF tiles, max_q_len
<1>4. Pieces' = Pieces /\ Programs' = Programs
  BY <1>1, <1>3 DEF Pieces, Programs
<1>5. \A x : Cell(x)' = Cell(x) /\ Storer(x)' = Storer(x)
  BY <1>1, <1>3 DEF Cell, Storer, q_start
<1>6. \A e, h, t : Attention(e, h, t)' = Attention(e, h, t)
  BY <1>1 DEF Attention, Visible, address, q_start
<1> QED
  BY <1>2, <1>3, <1>4, <1>5, <1>6

\* What a row that has met the keys of S holds, while the program runs.
LEMMA RowsStand ==
  ASSUME UNCHANGED <<inputs, program>>
  PROVE  /\ \A S : OverKeys(S)' = OverKeys(S)
         /\ Running' = Running
         /\ \A r : m_mask(r)' = m_mask(r)
         /\ \A r : Seen(r)' = {n \in 0 .. start_n' - 1 :
                                 /\ n < context_len[entry_idx]
                                 /\ is_causal => query_offset[entry_idx] + offs_m(r) >= n}
<1>1. /\ paged' = paged /\ is_causal' = is_causal /\ q_len' = q_len /\ context_len' = context_len
      /\ query_offset' = query_offset /\ score' = score /\ program' = program
  BY DEF inputs
<1>2. tiles' = tiles
  BY <1>1 DEF tiles, max_q_len
<1>3. entry_idx' = entry_idx /\ head_idx' = head_idx /\ start_m' = start_m
  BY <1>1, <1>2 DEF entry_idx, head_idx, entry_head, start_m
<1>4. \A S : OverKeys(S)' = OverKeys(S)
  BY <1>1, <1>3 DEF OverKeys, address
<1>5. Running' = Running
  BY <1>1, <1>2 DEF Running, Programs
<1>6. \A r : m_mask(r)' = m_mask(r)
  BY <1>1, <1>3 DEF m_mask, offs_m
<1>7. \A r : Seen(r)' = {n \in 0 .. start_n' - 1 :
                           /\ n < context_len[entry_idx]
                           /\ is_causal => query_offset[entry_idx] + offs_m(r) >= n}
  BY <1>1, <1>3 DEF Seen, offs_m
<1> QED
  BY <1>4, <1>5, <1>6, <1>7

LEMMA TileStep ==
  ASSUME KernelInv, Tile
  PROVE  KernelInv'
<1>1. /\ Running /\ rows' = [r \in DOMAIN rows |-> Absorb(rows[r], Unmasked(r))]
      /\ start_n' = start_n + BLOCK_N /\ UNCHANGED inputs /\ program' = program /\ output' = output
  BY DEF Tile
<1>2. InputInv /\ start_n \in Nat /\ DOMAIN rows = 0 .. BLOCK_M - 1
  BY DEF KernelInv, RowsInv
<1>3. start_n' \in Nat
  BY <1>1, <1>2, BatchType
<1>4. RowsInv'
  <2>1. ASSUME NEW r \in 0 .. BLOCK_M - 1, m_mask(r)'
        PROVE  \E S \in SUBSET (0 .. MaxContext - 1) : S = Seen(r)' /\ rows'[r] = OverKeys(S)'
    <3>1. m_mask(r)
      BY <1>1, <2>1, RowsStand
    <3>2. PICK S \in SUBSET (0 .. MaxContext - 1) : S = Seen(r) /\ rows[r] = OverKeys(S)
      BY <1>1, <3>1 DEF KernelInv, RowsInv
    <3>3. PICK K \in SUBSET (0 .. MaxContext - 1) : K = Unmasked(r)
      BY <1>1, <1>2, <3>1, SeenGrows
    <3>4. S \cap K = {} /\ S \cup K # {}
      BY <1>1, <1>2, <3>1, <3>2, <3>3, SeenGrows
    <3>5. S \cup K = Seen(r)'
      <4>1. Seen(r)' = {n \in 0 .. start_n + BLOCK_N - 1 :
                          /\ n < context_len[entry_idx]
                          /\ is_causal => query_offset[entry_idx] + offs_m(r) >= n}
        <5>1. Seen(r)' = {n \in 0 .. start_n' - 1 :
                            /\ n < context_len[entry_idx]
                            /\ is_causal => query_offset[entry_idx] + offs_m(r) >= n}
          BY <1>1, RowsStand
        <5>2. PICK z : z = start_n'
          OBVIOUS
        <5>3. z - 1 = start_n + BLOCK_N - 1
          BY <1>1, <1>2, <5>2, BatchType
        <5> QED
          BY <5>1, <5>2, <5>3
      <4> QED
        BY <1>1, <1>2, <3>1, <3>2, <3>3, <4>1, SeenGrows
    <3>6. rows'[r] = Absorb(OverKeys(S), K)
      BY <1>1, <1>2, <3>2, <3>3
    <3>7. Absorb(OverKeys(S), K) = OverKeys(S \cup K)
      BY <1>2, <3>4, AbsorbKeys
    <3>8. PICK U \in SUBSET (0 .. MaxContext - 1) : U = S \cup K
      OBVIOUS
    <3>9. OverKeys(U)' = OverKeys(U)
      BY <1>1, RowsStand
    <3> QED
      BY <3>5, <3>6, <3>7, <3>8, <3>9
  <2>2. DOMAIN rows' = 0 .. BLOCK_M - 1
    BY <1>1, <1>2
  <2> QED
    BY <2>1, <2>2 DEF RowsInv
<1>5. OutputInv'
  <2>1. /\ Pieces' = Pieces /\ \A x : Cell(x)' = Cell(x) /\ Storer(x)' = Storer(x)
        /\ \A e, h, t : Attention(e, h, t)' = Attention(e, h, t)
    BY <1>1, <1>2, InputsStand
  <2> QED
    BY <1>1, <2>1 DEF KernelInv, OutputInv
<1>6. InputInv' /\ tiles' = tiles
  BY <1>1, <1>2, InputsStand
<1>7. program' \in 0 .. tiles' * Cardinality(Entries) * H
  BY <1>1, <1>6 DEF KernelInv
<1> QED
  BY <1>3, <1>4, <1>5, <1>6, <1>7 DEF KernelInv

\* The program that takes over has met no key.
LEMMA NextProgramStep ==
  ASSUME KernelInv, Running, NextProgram, UNCHANGED inputs
  PROVE  /\ program' \in 0 .. tiles' * Cardinality(Entries) * H /\ start_n' \in Nat
         /\ RowsInv' /\ program' = program + 1 /\ program \in Nat
<1>1. program' = program + 1 /\ start_n' = 0 /\ rows' = FreshRows
  BY DEF NextProgram
<1>2. InputInv /\ tiles' = tiles
  BY InputsStand DEF KernelInv
<1>3. PICK p, m : p = program /\ m = tiles * Cardinality(Entries) * H
  OBVIOUS
<1>4. p \in Nat /\ p + 1 =< m
  BY <1>2, <1>3, ProgramType
<1>5. p \in 0 .. m
  BY <1>3 DEF KernelInv
<1>6. program' \in 0 .. tiles' * Cardinality(Entries) * H
  <2>1. m \in Int
    <3>1. PICK t, k : t = tiles /\ k = Cardinality(Entries)
      OBVIOUS
    <3>2. t \in Nat /\ k \in Nat /\ H \in Nat
      BY <1>2, <3>1, TilesType, BatchType
    <3> QED
      BY <1>3, <3>1, <3>2
  <2>2. p + 1 \in 0 .. m
    BY <1>4, <2>1
  <2> QED
    BY <1>1, <1>2, <1>3, <2>2
<1>7. RowsInv'
  <2>1. \A r \in 0 .. BLOCK_M - 1 : Seen(r)' = {}
    BY <1>1 DEF Seen
  <2>2. \A r \in 0 .. BLOCK_M - 1 : rows'[r] = OverKeys({})'
    BY <1>1, FreshRow DEF FreshRows
  <2>3. DOMAIN rows' = 0 .. BLOCK_M - 1
    BY <1>1 DEF FreshRows
  <2>4. \A r \in 0 .. BLOCK_M - 1 :
          \E S \in SUBSET (0 .. MaxContext - 1) : S = Seen(r)' /\ rows'[r] = OverKeys(S)'
    <3>1. {} \in SUBSET (0 .. MaxContext - 1)
      OBVIOUS
    <3> QED
      BY <2>1, <2>2, <3>1
  <2> QED
    BY <2>3, <2>4 DEF RowsInv
<1> QED
  BY <1>1, <1>3, <1>4, <1>6, <1>7

\* The rows stored so far are those of the programs that have run, whether or not
\* the last one had any.
LEMMA ReturnEarlyStep ==
  ASSUME KernelInv, ReturnEarly
  PROVE  KernelInv'
<1>1. Running /\ ~ HasRows /\ NextProgram /\ UNCHANGED inputs /\ output' = output
  BY DEF ReturnEarly
<1>2. InputInv /\ OutputInv
  BY DEF KernelInv
<1>3. /\ program' \in 0 .. tiles' * Cardinality(Entries) * H /\ start_n' \in Nat
      /\ RowsInv' /\ program' = program + 1 /\ program \in Nat
  BY <1>1, NextProgramStep
<1>4. /\ InputInv' /\ Pieces' = Pieces /\ \A x : Cell(x)' = Cell(x) /\ Storer(x)' = Storer(x)
      /\ \A e, h, t : Attention(e, h, t)' = Attention(e, h, t)
  BY <1>1, <1>2, InputsStand
<1>5. ASSUME NEW x \in Pieces PROVE Storer(x) < program' <=> Storer(x) < program
  <2>1. Storer(x) # program
    <3>1. SUFFICES ASSUME NEW r \in 0 .. BLOCK_M - 1, m_mask(r) PROVE FALSE
      BY <1>1, <1>2, OwnPieces
    <3>2. PICK e, k, q : e = start_m * BLOCK_M /\ k = offs_m(r) /\ q = q_len[entry_idx]
      OBVIOUS
    <3>3. e =< k /\ e \in Nat /\ k \in Nat
      BY <1>1, <1>2, <3>2, RowType
    <3>4. k < q /\ ~ (e < q)
      BY <1>1, <3>1, <3>2 DEF HasRows, m_mask
    <3>5. q \in Nat
      BY <1>1, <1>2, <3>2, ProgramType, BatchType DEF InputInv
    <3> QED
      BY <3>3, <3>4, <3>5
  <2>2. PICK s \in Int : s = Storer(x)
    BY <1>2, StorerType DEF Programs
  <2> QED
    BY <1>3, <2>1, <2>2
<1>6. OutputInv'
  <2>1. {y \in Pieces : Storer(y) < program'} = {y \in Pieces : Storer(y) < program}
    BY <1>5
  <2> QED
    BY <1>1, <1>2, <1>4, <2>1 DEF OutputInv
<1> QED
  BY <1>3, <1>4, <1>6 DEF KernelInv

LEMMA StoreStep ==
  ASSUME KernelInv, Store
  PROVE  KernelInv'
<1> DEFINE stored == {r \in DOMAIN rows : m_mask(r)}
           cell(r) == <<head_idx, q_start(entry_idx) + offs_m(r)>>
           RowOf(c) == CHOOSE r \in stored : cell(r) = c
           Kept(row) == [denom |-> row.denom, acc |-> row.acc, terms |-> row.terms, nan |-> row.nan]
<1>1. Running /\ start_n >= end_n /\ NextProgram /\ UNCHANGED inputs
  BY DEF Store
<1>2. output' = [c \in DOMAIN output \cup {cell(r) : r \in stored} |->
                   IF \E r \in stored : cell(r) = c THEN Kept(rows[RowOf(c)]) ELSE output[c]]
  BY DEF Store
<1>3. InputInv /\ OutputInv /\ start_n \in Nat /\ DOMAIN rows = 0 .. BLOCK_M - 1
  BY DEF KernelInv, RowsInv
<1>4. /\ program' \in 0 .. tiles' * Cardinality(Entries) * H /\ start_n' \in Nat
      /\ RowsInv' /\ program' = program + 1 /\ program \in Nat
  BY <1>1, NextProgramStep
<1>5. /\ InputInv' /\ Pieces' = Pieces /\ \A x : Cell(x)' = Cell(x) /\ Storer(x)' = Storer(x)
      /\ \A e, h, t : Attention(e, h, t)' = Attention(e, h, t)
  BY <1>1, <1>3, InputsStand
<1>6. \A r \in stored : r \in 0 .. BLOCK_M - 1 /\ m_mask(r)
  BY <1>3
<1>7. \A r \in stored : Piece(r) \in Pieces /\ cell(r) = Cell(Piece(r))
  <2>1. \A r \in stored : Piece(r) \in Pieces
    BY <1>1, <1>3, <1>6, RowType
  <2>2. \A r \in stored : cell(r) = Cell(Piece(r))
    BY DEF Piece, Cell
  <2> QED
    BY <2>1, <2>2
<1>8. ASSUME NEW x \in Pieces
      PROVE  Storer(x) < program' <=> Storer(x) < program \/ \E r \in stored : x = Piece(r)
  <2>1. Storer(x) = program <=> \E r \in stored : x = Piece(r)
    BY <1>1, <1>3, OwnPieces
  <2>2. PICK s \in Int : s = Storer(x)
    BY <1>3, StorerType DEF Programs
  <2>3. s < program' <=> s < program \/ s = program
    BY <1>4
  <2> QED
    BY <2>1, <2>2, <2>3
<1>9. \A r \in stored : Kept(rows[r]) = Attention(entry_idx, head_idx, cell(r)[2])
  <2> SUFFICES ASSUME NEW r \in stored
               PROVE  Kept(rows[r]) = Attention(entry_idx, head_idx, cell(r)[2])
    OBVIOUS
  <2>1. PICK S : S = Seen(r) /\ rows[r] = OverKeys(S)
    BY <1>1, <1>6 DEF KernelInv, RowsInv
  <2>2. PICK token : token = q_start(entry_idx) + offs_m(r)
    OBVIOUS
  <2>3. S = Visible(entry_idx, token)
    BY <1>1, <1>3, <1>6, <2>1, <2>2, SeenAll
  <2>4. PICK row : row = rows[r]
    OBVIOUS
  <2>5. Kept(row) = Attention(entry_idx, head_idx, token)
    BY <2>1, <2>3, <2>4, StoresAttention
  <2> QED
    BY <2>2, <2>4, <2>5
<1> HIDE DEF stored, cell, Kept
<1>10. DOMAIN output' = {Cell(x) : x \in {y \in Pieces : Storer(y) < program'}}
  <2>1. DOMAIN output' = DOMAIN output \cup {cell(r) : r \in stored}
    BY <1>2
  <2>2. DOMAIN output = {Cell(x) : x \in {y \in Pieces : Storer(y) < program}}
    BY <1>3 DEF OutputInv
  <2>3. \A x \in Pieces : Storer(x) < program' => Cell(x) \in DOMAIN output'
    BY <1>7, <1>8, <2>1, <2>2
  <2>4. \A c \in DOMAIN output' : \E x \in Pieces : Storer(x) < program' /\ c = Cell(x)
    BY <1>7, <1>8, <2>1, <2>2
  <2> QED
    BY <2>3, <2>4
<1>11. ASSUME NEW x \in Pieces, NEW c \in DOMAIN output', c = Cell(x)
       PROVE  output'[c] = Attention(x[1], x[2], c[2])
  <2>1. CASE \E r \in stored : cell(r) = c
    <3>1. PICK r \in stored : r = RowOf(c) /\ cell(r) = c
      BY <2>1, Zenon
    <3>2. x = Piece(r)
      BY <1>3, <1>7, <1>11, <3>1, CellsApart
    <3>3. x[1] = entry_idx /\ x[2] = head_idx
      BY <3>2 DEF Piece
    <3>4. output'[c] = Kept(rows[r])
      BY <1>2, <2>1, <3>1
    <3> QED
      BY <1>9, <3>1, <3>3, <3>4
  <2>2. CASE ~ \E r \in stored : cell(r) = c
    <3>1. c \in DOMAIN output /\ output'[c] = output[c]
      BY <1>2, <2>2
    <3> QED
      BY <1>3, <1>11, <3>1 DEF OutputInv
  <2> QED
    BY <2>1, <2>2
<1>12. OutputInv'
  BY <1>5, <1>10, <1>11 DEF OutputInv
<1> QED
  BY <1>4, <1>5, <1>12 DEF KernelInv

LEMMA KernelStep ==
  ASSUME KernelInv, [Next]_vars
  PROVE  KernelInv'
<1>1. CASE UNCHANGED vars
  <2>1. /\ UNCHANGED inputs /\ program' = program /\ start_n' = start_n
        /\ rows' = rows /\ output' = output
    BY <1>1 DEF vars
  <2>2. InputInv
    BY DEF KernelInv
  <2>3. /\ InputInv' /\ tiles' = tiles /\ Pieces' = Pieces
        /\ \A x : Cell(x)' = Cell(x) /\ Storer(x)' = Storer(x)
        /\ \A e, h, t : Attention(e, h, t)' = Attention(e, h, t)
    BY <2>1, <2>2, InputsStand
  <2>4. OutputInv'
    BY <2>1, <2>3 DEF KernelInv, OutputInv
  <2>5. RowsInv'
    <3>1. \A r : Seen(r)' = Seen(r)
      BY <2>1, RowsStand DEF Seen
    <3>2. Running' = Running /\ (\A r : m_mask(r)' = m_mask(r)) /\ \A S : OverKeys(S)' = OverKeys(S)
      BY <2>1, RowsStand
    <3> QED
      BY <2>1, <3>1, <3>2 DEF KernelInv, RowsInv
  <2> QED
    BY <2>1, <2>3, <2>4, <2>5 DEF KernelInv
<1>2. CASE Tile
  BY <1>2, TileStep
<1>3. CASE Store
  BY <1>3, StoreStep
<1>4. CASE ReturnEarly
  BY <1>4, ReturnEarlyStep
<1> QED
  BY <1>1, <1>2, <1>3, <1>4 DEF Next

LEMMA KernelAttends ==
  ASSUME KernelInv
  PROVE  AttendsCausally
<1>1. InputInv /\ OutputInv
  BY DEF KernelInv
<1>2. ASSUME NEW e \in Entries, NEW head \in 0 .. H - 1, NEW token \in Tokens(e),
             <<head, token>> \in DOMAIN output
      PROVE  output[<<head, token>>] = Attention(e, head, token)
  <2>1. PICK n, w : n = Cardinality(Entries) /\ w = q_len
    OBVIOUS
  <2>2. n \in Nat /\ Entries = 0 .. n - 1 /\ w \in [0 .. n - 1 -> Nat]
    BY <1>1, <2>1, BatchType, LengthsType
  <2>3. PICK d \in 0 .. n : d = e
    BY <2>2
  <2>4. PICK z : z = q_start(e)
    OBVIOUS
  <2>5. z \in Nat
    <3>1. Start(w, d) \in Nat
      BY <2>2, NextStart
    <3> QED
      BY <2>1, <2>3, <2>4, <3>1 DEF q_start, Start
  <2>6. w[e] \in Nat /\ w[e] \in 1 .. MaxContext /\ MaxContext \in Nat
    BY <1>1, <2>1, <2>2, BatchType DEF InputInv
  <2>7. PICK i : i = token - z
    OBVIOUS
  <2>8. i \in 0 .. MaxContext - 1 /\ i < w[e] /\ token = z + i
    <3>1. token \in z .. z + w[e] - 1
      BY <1>2, <2>1, <2>4 DEF Tokens
    <3> QED
      BY <2>5, <2>6, <2>7, <3>1
  <2>9. PICK x : x = <<e, head, i>>
    OBVIOUS
  <2>10. x \in Pieces /\ Cell(x) = <<head, token>> /\ x[1] = e /\ x[2] = head
    BY <2>1, <2>4, <2>8, <2>9 DEF Pieces, Cell
  <2>11. PICK c : c = <<head, token>>
    OBVIOUS
  <2>12. c[2] = token /\ c \in DOMAIN output /\ c = Cell(x)
    BY <1>2, <2>10, <2>11
  <2> QED
    BY <1>1, <2>10, <2>11, <2>12 DEF OutputInv
<1>3. ASSUME ~ Running
      PROVE  DOMAIN output = (0 .. H - 1) \X (0 .. SumFunctionOnSet(q_len, Entries) - 1)
  <2>1. PICK p, m : p = program /\ m = tiles * Cardinality(Entries) * H
    OBVIOUS
  <2>2. p \in 0 .. m /\ p \notin 0 .. m - 1
    BY <1>3, <2>1 DEF KernelInv, Running, Programs
  <2>3. \A s \in 0 .. m - 1 : s < p
    <3>1. PICK t, k : t = tiles /\ k = Cardinality(Entries)
      OBVIOUS
    <3>2. t \in Nat /\ k \in Nat /\ H \in Nat
      BY <1>1, <3>1, TilesType, BatchType
    <3>3. m \in Nat
      BY <2>1, <3>1, <3>2
    <3> QED
      BY <2>2, <3>3
  <2>4. \A x \in Pieces : Storer(x) < program
    BY <1>1, <2>1, <2>3, StorerType DEF Programs
  <2>5. {y \in Pieces : Storer(y) < program} = Pieces
    BY <2>4
  <2>6. DOMAIN output = {Cell(x) : x \in Pieces}
    BY <1>1, <2>5 DEF OutputInv
  <2> QED
    BY <1>1, <2>6, CellsFill
<1> QED
  BY <1>2, <1>3 DEF AttendsCausally

\* AttendsCausally (flash_attention.py): for every batch, every tile size and any
\* scores, what is stored for a token is attention over all the positions it may
\* see and no others, its sums in step with the final maximum, and a launch that
\* has returned has stored every row of every entry and head, and nothing else.
THEOREM KernelsAttendCausally == Spec => []AttendsCausally
<1>1. Init => KernelInv
  BY StartsRight
<1>2. KernelInv /\ [Next]_vars => KernelInv'
  BY KernelStep
<1>3. KernelInv => AttendsCausally
  BY KernelAttends
<1> QED
  BY <1>1, <1>2, <1>3, PTL DEF Spec
=============================================================================
