--------------------------------- MODULE Sums ---------------------------------
(***************************************************************************)
(* What SumFunction computes.  Its definition recurs over the subsets of a *)
(* set, so nothing comes out of it by expanding it: each fact is shown by  *)
(* looking at a smallest subset where it would not hold.                   *)
(***************************************************************************)
EXTENDS Integers, Functions, FiniteSetTheorems, WellFoundedInduction, TLAPS

\* A non-empty set of naturals has a least element.
LEMMA LeastElement ==
  ASSUME NEW T, T \subseteq Nat, T # {}
  PROVE  \E x \in T : \A y \in T : x =< y
<1> DEFINE R == OpToRel(<, Nat)
<1>1. IsWellFoundedOn(R, Nat)
  BY NatLessThanWellFounded
<1>2. \A x, y \in Nat : y < x => <<y, x>> \in R
  BY DEF OpToRel
<1> HIDE DEF R
<1>3. PICK x \in T : \A y \in T : ~ (<<y, x>> \in R)
  BY <1>1, WFMin
<1>4. ASSUME NEW y \in T PROVE x =< y
  <2>1. x \in Nat /\ y \in Nat
    OBVIOUS
  <2>2. ~ (y < x)
    BY <1>2, <1>3, <2>1
  <2> QED
    BY <2>1, <2>2
<1> QED
  BY <1>4

\* The value of a fold that adds weights, set by set; c picks the element taken next.
Folds(f, S, c, w) ==
  f = [T \in SUBSET S |-> IF T = {} THEN 0 ELSE w[c[T]] + f[T \ {c[T]}]]

\* ... on whichever side the weight is added.
FoldsEitherWay(g, S, c, w) ==
  /\ g = [T \in SUBSET S |-> g[T]]
  /\ g[{}] = 0
  /\ \A T \in SUBSET S : T # {} =>
       g[T] \in {w[c[T]] + g[T \ {c[T]}], g[T \ {c[T]}] + w[c[T]]}

Choice(c, S) == \A T \in SUBSET S : T # {} => c[T] \in T

\* On a finite set there is such a function, and its values are numbers.
LEMMA FoldExists ==
  ASSUME NEW S, IsFiniteSet(S), NEW c, Choice(c, S), NEW w \in [S -> Nat]
  PROVE  \E f \in [SUBSET S -> Nat] : Folds(f, S, c, w)
<1> DEFINE Small(n) == {T \in SUBSET S : Cardinality(T) =< n}
           Upto(n) == \E f \in [Small(n) -> Nat] : \A T \in Small(n) :
                        f[T] = IF T = {} THEN 0 ELSE w[c[T]] + f[T \ {c[T]}]
           Bad == {n \in Nat : ~ Upto(n)}
<1>1. \A T \in SUBSET S :
        /\ IsFiniteSet(T) /\ Cardinality(T) \in Nat
        /\ Cardinality(T) =< Cardinality(S)
  BY FS_Subset, FS_CardinalityType
<1>2. \A T \in SUBSET S : T # {} =>
        /\ c[T] \in T /\ T \ {c[T]} \in SUBSET S /\ w[c[T]] \in Nat
        /\ Cardinality(T \ {c[T]}) = Cardinality(T) - 1
  <2> SUFFICES ASSUME NEW T \in SUBSET S, T # {}
               PROVE  /\ c[T] \in T /\ T \ {c[T]} \in SUBSET S /\ w[c[T]] \in Nat
                      /\ Cardinality(T \ {c[T]}) = Cardinality(T) - 1
    OBVIOUS
  <2>1. c[T] \in T
    BY DEF Choice
  <2>2. Cardinality(T \ {c[T]}) = Cardinality(T) - 1
    BY <1>1, <2>1, FS_RemoveElement
  <2> QED
    BY <2>1, <2>2
<1>3. \A T \in SUBSET S : Cardinality(T) = 0 <=> T = {}
  BY <1>1, FS_EmptySet
<1>4. Bad = {}
  <2> SUFFICES ASSUME Bad # {} PROVE FALSE
    OBVIOUS
  <2>1. PICK m \in Bad : \A n \in Bad : m =< n
    <3>1. Bad \subseteq Nat
      OBVIOUS
    <3> HIDE DEF Bad
    <3> QED
      BY <3>1, LeastElement
  <2>2. m \in Nat /\ ~ Upto(m)
    OBVIOUS
  <2>3. CASE m = 0
    <3> DEFINE f == [T \in Small(m) |-> 0]
    <3>1. \A T \in Small(m) : T = {}
      BY <1>1, <1>3, <2>3
    <3>2. f \in [Small(m) -> Nat]
      OBVIOUS
    <3>3. \A T \in Small(m) : f[T] = IF T = {} THEN 0 ELSE w[c[T]] + f[T \ {c[T]}]
      BY <3>1
    <3> QED
      BY <2>2, <3>2, <3>3
  <2>4. CASE m # 0
    <3>1. m - 1 \in Nat /\ Upto(m - 1)
      <4>1. m - 1 \in Nat /\ ~ (m =< m - 1)
        BY <2>2, <2>4
      <4>2. m - 1 \notin Bad
        BY <2>1, <4>1
      <4> QED
        BY <4>1, <4>2
    <3>2. PICK f \in [Small(m - 1) -> Nat] : \A T \in Small(m - 1) :
            f[T] = IF T = {} THEN 0 ELSE w[c[T]] + f[T \ {c[T]}]
      BY <3>1
    <3>3. \A T \in Small(m) :
            /\ T \in SUBSET S
            /\ T # {} => T \ {c[T]} \in Small(m - 1) /\ T \ {c[T]} \in Small(m)
            /\ T = {} => T \in Small(m - 1)
      BY <1>1, <1>2, <1>3, <2>2, <3>1
    <3>4. \A T \in Small(m - 1) : T \in Small(m)
      BY <1>1, <2>2
    <3> DEFINE g == [T \in Small(m) |-> IF T \in Small(m - 1) THEN f[T]
                                        ELSE w[c[T]] + f[T \ {c[T]}]]
    <3> HIDE DEF Small
    <3>5. g \in [Small(m) -> Nat]
      <4> SUFFICES ASSUME NEW T \in Small(m)
                   PROVE (IF T \in Small(m - 1) THEN f[T] ELSE w[c[T]] + f[T \ {c[T]}]) \in Nat
        OBVIOUS
      <4>1. CASE T \in Small(m - 1)
        BY <4>1
      <4>2. CASE T \notin Small(m - 1)
        BY <1>2, <3>3, <4>2
      <4> QED
        BY <4>1, <4>2
    <3>6. \A T \in Small(m) : g[T] = IF T = {} THEN 0 ELSE w[c[T]] + g[T \ {c[T]}]
      <4> SUFFICES ASSUME NEW T \in Small(m)
                   PROVE  g[T] = IF T = {} THEN 0 ELSE w[c[T]] + g[T \ {c[T]}]
        OBVIOUS
      <4>1. CASE T = {}
        BY <3>2, <3>3, <4>1
      <4>2. CASE T # {}
        <5>1. g[T \ {c[T]}] = f[T \ {c[T]}]
          BY <3>3, <4>2
        <5>2. g[T] = w[c[T]] + f[T \ {c[T]}]
          BY <3>2, <4>2
        <5> QED
          BY <4>2, <5>1, <5>2
      <4> QED
        BY <4>1, <4>2
    <3> HIDE DEF g
    <3> QED
      BY <2>2, <3>5, <3>6
  <2> QED
    BY <2>3, <2>4
<1>5. Upto(Cardinality(S)) /\ Small(Cardinality(S)) = SUBSET S
  <2>1. Cardinality(S) \in Nat
    BY FS_CardinalityType
  <2> QED
    BY <1>1, <1>4, <2>1
<1>6. PICK f \in [SUBSET S -> Nat] : \A T \in SUBSET S :
        f[T] = IF T = {} THEN 0 ELSE w[c[T]] + f[T \ {c[T]}]
  BY <1>5
<1>7. Folds(f, S, c, w)
  BY <1>6 DEF Folds
<1> QED
  BY <1>6, <1>7

\* Among the subsets of a finite set there is a smallest one of a kind.
LEMMA SmallestSubset ==
  ASSUME NEW S, IsFiniteSet(S), NEW B \in SUBSET (SUBSET S), B # {}
  PROVE  \E T \in B : \A x \in T : T \ {x} \notin B
<1> DEFINE N == {Cardinality(T) : T \in B}
<1>1. \A T \in SUBSET S : IsFiniteSet(T) /\ Cardinality(T) \in Nat
  BY FS_Subset, FS_CardinalityType
<1>2. N \subseteq Nat /\ N # {}
  BY <1>1
<1>3. PICK n \in N : \A k \in N : n =< k
  <2> HIDE DEF N
  <2> QED
    BY <1>2, LeastElement
<1>4. PICK T \in B : n = Cardinality(T)
  OBVIOUS
<1>5. ASSUME NEW x \in T, T \ {x} \in B PROVE FALSE
  <2>1. Cardinality(T \ {x}) = Cardinality(T) - 1
    BY <1>1, FS_RemoveElement
  <2>2. Cardinality(T) =< Cardinality(T \ {x})
    BY <1>3, <1>4, <1>5
  <2> QED
    BY <1>1, <2>1, <2>2
<1> QED
  BY <1>5

\* There is only one such function, on whichever side the weight is added.
LEMMA FoldUnique ==
  ASSUME NEW S, IsFiniteSet(S), NEW c, Choice(c, S), NEW w \in [S -> Nat],
         NEW f \in [SUBSET S -> Nat], Folds(f, S, c, w),
         NEW g, FoldsEitherWay(g, S, c, w)
  PROVE  f = g
<1> DEFINE B == {T \in SUBSET S : f[T] # g[T]}
<1>1. \A T \in SUBSET S : f[T] = IF T = {} THEN 0 ELSE w[c[T]] + f[T \ {c[T]}]
  BY DEF Folds
<1>2. B = {}
  <2> SUFFICES ASSUME B # {} PROVE FALSE
    OBVIOUS
  <2>1. PICK T \in B : \A x \in T : T \ {x} \notin B
    <3>1. B \in SUBSET (SUBSET S)
      OBVIOUS
    <3> HIDE DEF B
    <3> QED
      BY <3>1, SmallestSubset
  <2>2. T \in SUBSET S /\ T # {} /\ f[T] # g[T]
    <3>1. T \in SUBSET S /\ f[T] # g[T]
      OBVIOUS
    <3>2. f[{}] = 0 /\ g[{}] = 0
      BY <1>1 DEF FoldsEitherWay
    <3> QED
      BY <3>1, <3>2
  <2>3. c[T] \in T
    BY <2>2 DEF Choice
  <2> DEFINE U == T \ {c[T]}
  <2>4. U \in SUBSET S /\ f[U] = g[U]
    BY <2>1, <2>2, <2>3
  <2>5. f[U] \in Nat /\ w[c[T]] \in Nat
    BY <2>2, <2>3, <2>4
  <2>6. f[T] = w[c[T]] + f[U] /\ g[T] \in {w[c[T]] + f[U], f[U] + w[c[T]]}
    BY <1>1, <2>2, <2>4 DEF FoldsEitherWay
  <2> HIDE DEF U
  <2>7. f[T] = g[T]
    BY <2>5, <2>6
  <2> QED
    BY <2>2, <2>7
<1> QED
  BY <1>2 DEF FoldsEitherWay

\* A function's sum is such a fold, whichever element CHOOSE takes next.
LEMMA SumIsFold ==
  ASSUME NEW S, IsFiniteSet(S), NEW w \in [S -> Nat]
  PROVE  LET c == [T \in SUBSET S |-> CHOOSE x \in T : TRUE]
         IN  /\ Choice(c, S)
             /\ \E f \in [SUBSET S -> Nat] : Folds(f, S, c, w) /\ SumFunction(w) = f[S]
<1> DEFINE c == [T \in SUBSET S |-> CHOOSE x \in T : TRUE]
           F == CHOOSE h : h = [T \in SUBSET S |-> IF T = {} THEN 0
                                                   ELSE w[CHOOSE x \in T : TRUE]
                                                        + h[T \ {CHOOSE x \in T : TRUE}]]
<1>1. Choice(c, S)
  BY DEF Choice
<1>2. PICK f \in [SUBSET S -> Nat] : Folds(f, S, c, w)
  <2> HIDE DEF c
  <2> QED
    BY <1>1, FoldExists
<1>3. f = [T \in SUBSET S |-> IF T = {} THEN 0 ELSE w[CHOOSE x \in T : TRUE]
                                                    + f[T \ {CHOOSE x \in T : TRUE}]]
  BY <1>2 DEF Folds
<1>4. F = [T \in SUBSET S |-> IF T = {} THEN 0 ELSE w[CHOOSE x \in T : TRUE]
                                                    + F[T \ {CHOOSE x \in T : TRUE}]]
  BY <1>3
<1>5. SumFunction(w) = F[S]
  <2>1. SumFunction(w) = SumFunctionOnSet(w, S)
    BY DEF SumFunction
  <2> QED
    BY <2>1 DEF SumFunctionOnSet, FoldFunctionOnSet, MapThenFoldSet
<1> HIDE DEF F
<1>6. Folds(F, S, c, w)
  BY <1>4 DEF Folds
<1>7. f = F
  <2>1. FoldsEitherWay(F, S, c, w)
    BY <1>6 DEF Folds, FoldsEitherWay
  <2> HIDE DEF c
  <2> QED
    BY <1>1, <1>2, <2>1, FoldUnique
<1> QED
  BY <1>1, <1>2, <1>5, <1>7

\* One value of a function changes by d.
ChangedBy(w, v, s, d) == v = [w EXCEPT ![s] = @ + d]

\* A sum follows every change of one of its values.
LEMMA SumChange ==
  ASSUME NEW S, IsFiniteSet(S), NEW w \in [S -> Nat], NEW v \in [S -> Nat],
         NEW s \in S, NEW d \in Int, ChangedBy(w, v, s, d)
  PROVE  SumFunction(v) = SumFunction(w) + d /\ SumFunction(w) \in Nat
<1> DEFINE c == [T \in SUBSET S |-> CHOOSE x \in T : TRUE]
<1>1. PICK f \in [SUBSET S -> Nat] : Folds(f, S, c, w) /\ SumFunction(w) = f[S]
  BY SumIsFold
<1>2. PICK g \in [SUBSET S -> Nat] : Folds(g, S, c, v) /\ SumFunction(v) = g[S]
  BY SumIsFold
<1>3. Choice(c, S)
  BY SumIsFold
<1> HIDE DEF c
<1>4. v[s] = w[s] + d /\ \A t \in S \ {s} : v[t] = w[t]
  BY DEF ChangedBy
<1> DEFINE Gap(T) == IF s \in T THEN d ELSE 0
           B == {T \in SUBSET S : g[T] # f[T] + Gap(T)}
<1>5. \A T \in SUBSET S :
        /\ f[T] = IF T = {} THEN 0 ELSE w[c[T]] + f[T \ {c[T]}]
        /\ g[T] = IF T = {} THEN 0 ELSE v[c[T]] + g[T \ {c[T]}]
  BY <1>1, <1>2 DEF Folds
<1>6. B = {}
  <2> SUFFICES ASSUME B # {} PROVE FALSE
    OBVIOUS
  <2>1. PICK T \in B : \A x \in T : T \ {x} \notin B
    <3>1. B \in SUBSET (SUBSET S)
      OBVIOUS
    <3> HIDE DEF B
    <3> QED
      BY <3>1, SmallestSubset
  <2>2. T \in SUBSET S /\ g[T] # f[T] + Gap(T)
    OBVIOUS
  <2>3. T # {}
    <3> SUFFICES ASSUME T = {} PROVE g[T] = f[T] + Gap(T)
      BY <2>2
    <3>1. f[T] = 0 /\ g[T] = 0 /\ Gap(T) = 0
      BY <1>5
    <3> HIDE DEF Gap
    <3> QED
      BY <3>1
  <2> DEFINE x == c[T]
             U == T \ {x}
  <2>4. x \in T /\ x \in S /\ U \in SUBSET S
    BY <1>3, <2>2, <2>3 DEF Choice
  <2>5. g[U] = f[U] + Gap(U)
    BY <2>1, <2>4
  <2>6. f[T] = w[x] + f[U] /\ g[T] = v[x] + g[U]
    BY <1>5, <2>2, <2>3
  <2>7. f[U] \in Nat /\ g[U] \in Nat /\ w[x] \in Nat /\ v[x] \in Nat
    BY <2>4
  <2>8. CASE x = s
    <3>1. Gap(U) = 0 /\ Gap(T) = d /\ v[x] = w[x] + d
      BY <1>4, <2>4, <2>8
    <3> HIDE DEF x, U, Gap
    <3> QED
      BY <2>2, <2>5, <2>6, <2>7, <3>1
  <2>9. CASE x # s
    <3>1. Gap(U) = Gap(T) /\ v[x] = w[x] /\ Gap(T) \in Int
      BY <1>4, <2>4, <2>9
    <3> HIDE DEF x, U, Gap
    <3> QED
      BY <2>2, <2>5, <2>6, <2>7, <3>1
  <2> QED
    BY <2>8, <2>9
<1>7. g[S] = f[S] + d
  BY <1>6
<1>8. f[S] \in Nat
  BY <1>1
<1> QED
  BY <1>1, <1>2, <1>7, <1>8

\* A sum of zeros.
LEMMA SumOfZeros ==
  ASSUME NEW S, IsFiniteSet(S)
  PROVE  SumFunction([s \in S |-> 0]) = 0
<1> DEFINE c == [T \in SUBSET S |-> CHOOSE x \in T : TRUE]
           w == [s \in S |-> 0]
           z == [T \in SUBSET S |-> 0]
<1>1. PICK f \in [SUBSET S -> Nat] : Folds(f, S, c, w) /\ SumFunction(w) = f[S]
  <2>1. w \in [S -> Nat]
    OBVIOUS
  <2> HIDE DEF w
  <2> QED
    BY <2>1, SumIsFold
<1>2. Choice(c, S)
  BY DEF Choice
<1>3. FoldsEitherWay(z, S, c, w)
  <2>1. \A T \in SUBSET S : T # {} => w[c[T]] = 0 /\ T \ {c[T]} \in SUBSET S
    BY <1>2 DEF Choice
  <2> HIDE DEF c, w
  <2> QED
    BY <2>1 DEF FoldsEitherWay
<1>4. f = z
  <2>1. w \in [S -> Nat]
    OBVIOUS
  <2> HIDE DEF c, w, z
  <2> QED
    BY <1>1, <1>2, <1>3, <2>1, FoldUnique
<1> QED
  BY <1>1, <1>4

\* w on B, and nothing elsewhere.
Cut(w, S, B) == [x \in S |-> IF x \in B THEN w[x] ELSE 0]

\* The fold of a function at a set is the sum of what the function is there.
LEMMA FoldIsCutSum ==
  ASSUME NEW S, IsFiniteSet(S), NEW c, Choice(c, S), NEW w \in [S -> Nat],
         NEW f \in [SUBSET S -> Nat], Folds(f, S, c, w), NEW A \in SUBSET S
  PROVE  f[A] = SumFunction(Cut(w, S, A))
<1> DEFINE total(T) == SumFunction(Cut(w, S, T))
           B == {T \in SUBSET S : f[T] # total(T)}
<1>1. \A T \in SUBSET S : f[T] = IF T = {} THEN 0 ELSE w[c[T]] + f[T \ {c[T]}]
  BY DEF Folds
<1>2. \A T \in SUBSET S : Cut(w, S, T) \in [S -> Nat]
  BY DEF Cut
<1>3. B = {}
  <2> SUFFICES ASSUME B # {} PROVE FALSE
    OBVIOUS
  <2>1. PICK T \in B : \A x \in T : T \ {x} \notin B
    <3>1. B \in SUBSET (SUBSET S)
      OBVIOUS
    <3> HIDE DEF B
    <3> QED
      BY <3>1, SmallestSubset
  <2>2. T \in SUBSET S /\ f[T] # total(T)
    OBVIOUS
  <2>3. T # {}
    <3> SUFFICES ASSUME T = {} PROVE f[T] = total(T)
      BY <2>2
    <3>1. Cut(w, S, T) = [x \in S |-> 0]
      BY DEF Cut
    <3>2. total(T) = 0
      BY <3>1, SumOfZeros
    <3> HIDE DEF total
    <3> QED
      BY <1>1, <3>2
  <2> DEFINE x == c[T]
             U == T \ {x}
  <2>4. x \in T /\ x \in S /\ U \in SUBSET S
    BY <2>2, <2>3 DEF Choice
  <2>5. f[U] = total(U)
    BY <2>1, <2>4
  <2>6. f[T] = w[x] + f[U] /\ f[U] \in Nat /\ w[x] \in Nat
    BY <1>1, <2>2, <2>3, <2>4
  <2>7. total(T) = total(U) + w[x]
    <3>1. Cut(w, S, U)[x] = 0 /\ \A t \in S \ {x} : Cut(w, S, U)[t] = Cut(w, S, T)[t]
      BY <2>4 DEF Cut
    <3>2. Cut(w, S, T)[x] = w[x] /\ x \notin U
      BY <2>4 DEF Cut
    <3>3. ChangedBy(Cut(w, S, U), Cut(w, S, T), x, w[x])
      <4> HIDE DEF x, U
      <4>1. 0 + w[x] = w[x]
        BY <2>6
      <4>2. Cut(w, S, T) = [t \in S |-> IF t = x THEN w[x] ELSE Cut(w, S, U)[t]]
        BY <2>4, <3>1, <3>2 DEF Cut
      <4> QED
        BY <2>4, <3>1, <4>1, <4>2, <1>2, <2>2 DEF ChangedBy
    <3> HIDE DEF x, U
    <3>4. Cut(w, S, U) \in [S -> Nat] /\ Cut(w, S, T) \in [S -> Nat]
      BY <1>2, <2>2, <2>4
    <3> QED
      BY <2>4, <2>6, <3>3, <3>4, SumChange
  <2> HIDE DEF total, x, U
  <2> QED
    BY <2>2, <2>5, <2>6, <2>7
<1> QED
  BY <1>3

\* A sum over a part of a function's domain.
LEMMA SumOverPart ==
  ASSUME NEW S, IsFiniteSet(S), NEW w \in [S -> Nat], NEW A \in SUBSET S
  PROVE  SumFunctionOnSet(w, A) = SumFunction(Cut(w, S, A))
<1> DEFINE c == [T \in SUBSET A |-> CHOOSE x \in T : TRUE]
           u == [x \in A |-> w[x]]
           F == CHOOSE h : h = [T \in SUBSET A |-> IF T = {} THEN 0
                                                   ELSE w[CHOOSE x \in T : TRUE]
                                                        + h[T \ {CHOOSE x \in T : TRUE}]]
<1>1. Choice(c, A) /\ IsFiniteSet(A) /\ u \in [A -> Nat]
  BY FS_Subset DEF Choice
<1>2. PICK f \in [SUBSET A -> Nat] : Folds(f, A, c, u)
  <2> HIDE DEF c, u
  <2> QED
    BY <1>1, FoldExists
<1>3. \A T \in SUBSET A : T # {} => c[T] = (CHOOSE x \in T : TRUE) /\ u[c[T]] = w[c[T]]
  BY <1>1 DEF Choice
<1> HIDE DEF c, u
<1>4. f = [T \in SUBSET A |-> IF T = {} THEN 0 ELSE w[CHOOSE x \in T : TRUE]
                                                    + f[T \ {CHOOSE x \in T : TRUE}]]
  <2>1. f = [T \in SUBSET A |-> IF T = {} THEN 0 ELSE u[c[T]] + f[T \ {c[T]}]]
    BY <1>2 DEF Folds
  <2>2. \A T \in SUBSET A : (IF T = {} THEN 0 ELSE u[c[T]] + f[T \ {c[T]}])
          = (IF T = {} THEN 0 ELSE w[CHOOSE x \in T : TRUE] + f[T \ {CHOOSE x \in T : TRUE}])
    BY <1>3
  <2> QED
    BY <2>1, <2>2
<1>5. F = [T \in SUBSET A |-> IF T = {} THEN 0 ELSE w[CHOOSE x \in T : TRUE]
                                                    + F[T \ {CHOOSE x \in T : TRUE}]]
  BY <1>4, ZenonT(40)
<1>6. SumFunctionOnSet(w, A) = F[A]
  BY DEF SumFunctionOnSet, FoldFunctionOnSet, MapThenFoldSet
<1> HIDE DEF F
<1>7. FoldsEitherWay(F, A, c, u)
  <2>1. F[{}] = 0
    <3>1. {} \in SUBSET A
      OBVIOUS
    <3> QED
      BY <1>5, <3>1
  <2>2. \A T \in SUBSET A : T # {} => F[T] = u[c[T]] + F[T \ {c[T]}]
    <3> SUFFICES ASSUME NEW T \in SUBSET A, T # {}
                 PROVE  F[T] = u[c[T]] + F[T \ {c[T]}]
      OBVIOUS
    <3>1. F[T] = w[CHOOSE x \in T : TRUE] + F[T \ {CHOOSE x \in T : TRUE}]
      BY <1>5
    <3> QED
      BY <1>3, <3>1
  <2>3. F = [T \in SUBSET A |-> F[T]]
    BY <1>5
  <2> QED
    BY <2>1, <2>2, <2>3, Zenon DEF FoldsEitherWay
<1>8. f = F
  <2> HIDE DEF c, u
  <2> QED
    BY <1>1, <1>2, <1>7, FoldUnique
<1>9. PICK g \in [SUBSET S -> Nat] :
        Folds(g, S, [T \in SUBSET S |-> CHOOSE x \in T : TRUE], w)
  <2>1. Choice([T \in SUBSET S |-> CHOOSE x \in T : TRUE], S)
    BY DEF Choice
  <2> QED
    BY <2>1, FoldExists
<1>10. g[A] = f[A]
  <2> DEFINE r == [T \in SUBSET A |-> g[T]]
  <2>1. FoldsEitherWay(r, A, c, u)
    <3>1. \A T \in SUBSET S : g[T] = IF T = {} THEN 0 ELSE w[CHOOSE x \in T : TRUE]
                                                         + g[T \ {CHOOSE x \in T : TRUE}]
      BY <1>9 DEF Folds
    <3>2. \A T \in SUBSET A : T \in SUBSET S /\ T \ {CHOOSE x \in T : TRUE} \in SUBSET A
      OBVIOUS
    <3>3. r[{}] = 0
      <4>1. g[{}] = 0 /\ {} \in SUBSET A
        BY <3>1
      <4> QED
        BY <4>1
    <3>4. \A T \in SUBSET A : T # {} => r[T] = u[c[T]] + r[T \ {c[T]}]
      <4> SUFFICES ASSUME NEW T \in SUBSET A, T # {}
                   PROVE  r[T] = u[c[T]] + r[T \ {c[T]}]
        OBVIOUS
      <4>1. g[T] = w[c[T]] + g[T \ {c[T]}]
        <5>1. PICK x : x = CHOOSE y \in T : TRUE
          OBVIOUS
        <5>2. g[T] = w[x] + g[T \ {x}]
          BY <3>1, <3>2, <5>1
        <5>3. c[T] = x
          BY <1>3, <5>1
        <5> QED
          BY <5>2, <5>3
      <4>2. T \ {c[T]} \in SUBSET A /\ u[c[T]] = w[c[T]]
        BY <1>3
      <4> HIDE DEF c, u
      <4> QED
        BY <4>1, <4>2
    <3>5. r = [T \in SUBSET A |-> r[T]]
      OBVIOUS
    <3> HIDE DEF r, c, u
    <3> QED
      BY <3>3, <3>4, <3>5, Zenon DEF FoldsEitherWay
  <2>2. f = r
    <3> HIDE DEF r, c, u
    <3> QED
      BY <1>1, <1>2, <2>1, FoldUnique
  <2>3. A \in SUBSET A /\ r[A] = g[A]
    OBVIOUS
  <2> HIDE DEF r
  <2> QED
    BY <2>2, <2>3
<1>11. g[A] = SumFunction(Cut(w, S, A))
  <2> DEFINE d == [T \in SUBSET S |-> CHOOSE x \in T : TRUE]
  <2>1. Choice(d, S) /\ Folds(g, S, d, w)
    BY <1>9 DEF Choice
  <2> HIDE DEF d
  <2> QED
    BY <2>1, FoldIsCutSum, SMTT(30)
<1> QED
  BY <1>6, <1>8, <1>10, <1>11

\* The sum over a set of a function that is nothing outside it is the whole sum.
LEMMA SumOverHolders ==
  ASSUME NEW S, IsFiniteSet(S), NEW w \in [S -> Nat], NEW A \in SUBSET S,
         \A x \in S \ A : w[x] = 0
  PROVE  SumFunctionOnSet(w, A) = SumFunction(w)
<1>1. SumFunctionOnSet(w, A) = SumFunction(Cut(w, S, A))
  BY SumOverPart
<1>2. Cut(w, S, A) = w
  BY DEF Cut
<1> QED
  BY <1>1, <1>2

\* A sum is a number.
LEMMA SumType ==
  ASSUME NEW S, IsFiniteSet(S), NEW w \in [S -> Nat]
  PROVE  SumFunction(w) \in Nat
<1>1. PICK f \in [SUBSET S -> Nat] : SumFunction(w) = f[S]
  BY SumIsFold
<1> QED
  BY <1>1

\* Sums are linear.
LEMMA SumLinear ==
  ASSUME NEW S, IsFiniteSet(S), NEW k \in Nat, NEW u \in [S -> Nat], NEW v \in [S -> Nat],
         NEW w \in [S -> Nat], \A s \in S : w[s] = k * u[s] + v[s]
  PROVE  SumFunction(w) = k * SumFunction(u) + SumFunction(v)
<1> DEFINE c == [T \in SUBSET S |-> CHOOSE x \in T : TRUE]
<1>1. PICK f \in [SUBSET S -> Nat] : Folds(f, S, c, u) /\ SumFunction(u) = f[S]
  BY SumIsFold
<1>2. PICK g \in [SUBSET S -> Nat] : Folds(g, S, c, v) /\ SumFunction(v) = g[S]
  BY SumIsFold
<1>3. PICK h \in [SUBSET S -> Nat] : Folds(h, S, c, w) /\ SumFunction(w) = h[S]
  BY SumIsFold
<1>4. Choice(c, S)
  BY SumIsFold
<1> HIDE DEF c
<1> DEFINE B == {T \in SUBSET S : h[T] # k * f[T] + g[T]}
<1>5. \A T \in SUBSET S :
        /\ f[T] = IF T = {} THEN 0 ELSE u[c[T]] + f[T \ {c[T]}]
        /\ g[T] = IF T = {} THEN 0 ELSE v[c[T]] + g[T \ {c[T]}]
        /\ h[T] = IF T = {} THEN 0 ELSE w[c[T]] + h[T \ {c[T]}]
  BY <1>1, <1>2, <1>3 DEF Folds
<1>6. B = {}
  <2> SUFFICES ASSUME B # {} PROVE FALSE
    OBVIOUS
  <2>1. PICK T \in B : \A x \in T : T \ {x} \notin B
    <3>1. B \in SUBSET (SUBSET S)
      OBVIOUS
    <3> HIDE DEF B
    <3> QED
      BY <3>1, SmallestSubset
  <2>2. T \in SUBSET S /\ h[T] # k * f[T] + g[T]
    OBVIOUS
  <2>3. T # {}
    <3> SUFFICES ASSUME T = {} PROVE h[T] = k * f[T] + g[T]
      BY <2>2
    <3>1. f[T] = 0 /\ g[T] = 0 /\ h[T] = 0
      BY <1>5
    <3> QED
      BY <3>1
  <2>4. PICK x, U : x = c[T] /\ U = T \ {x}
    OBVIOUS
  <2>5. x \in T /\ x \in S /\ U \in SUBSET S
    BY <1>4, <2>2, <2>3, <2>4 DEF Choice
  <2>6. h[U] = k * f[U] + g[U]
    BY <2>1, <2>4, <2>5
  <2>7. f[T] = u[x] + f[U] /\ g[T] = v[x] + g[U] /\ h[T] = w[x] + h[U]
    BY <1>5, <2>2, <2>3, <2>4
  <2>8. f[U] \in Nat /\ g[U] \in Nat /\ u[x] \in Nat /\ v[x] \in Nat /\ w[x] = k * u[x] + v[x]
    BY <2>5
  <2>9. \A a, b \in Nat : k * (a + b) = k * a + k * b /\ k * a \in Nat
    OBVIOUS
  <2>10. k * f[T] = k * u[x] + k * f[U] /\ k * u[x] \in Nat /\ k * f[U] \in Nat
    BY <2>7, <2>8, <2>9
  <2> HIDE DEF B
  <2> QED
    BY <2>2, <2>6, <2>7, <2>8, <2>10
<1>7. h[S] = k * f[S] + g[S]
  BY <1>6
<1> QED
  BY <1>1, <1>2, <1>3, <1>7

\* A sum of ones counts.
LEMMA SumCounts ==
  ASSUME NEW S, IsFiniteSet(S), NEW A \in SUBSET S
  PROVE  SumFunction([s \in S |-> IF s \in A THEN 1 ELSE 0]) = Cardinality(A)
<1> DEFINE w == [s \in S |-> IF s \in A THEN 1 ELSE 0]
<1>0. w \in [S -> Nat] /\ \A s \in S : w[s] = IF s \in A THEN 1 ELSE 0
  OBVIOUS
<1> HIDE DEF w
<1> DEFINE c == [T \in SUBSET S |-> CHOOSE x \in T : TRUE]
<1>1. PICK f \in [SUBSET S -> Nat] : Folds(f, S, c, w) /\ SumFunction(w) = f[S]
  BY <1>0, SumIsFold
<1>2. Choice(c, S)
  BY DEF Choice
<1> HIDE DEF c
<1> DEFINE B == {T \in SUBSET S : f[T] # Cardinality(T \cap A)}
<1>3. \A T \in SUBSET S : f[T] = IF T = {} THEN 0 ELSE w[c[T]] + f[T \ {c[T]}]
  BY <1>1 DEF Folds
<1>4. B = {}
  <2> SUFFICES ASSUME B # {} PROVE FALSE
    OBVIOUS
  <2>1. PICK T \in B : \A x \in T : T \ {x} \notin B
    <3>1. B \in SUBSET (SUBSET S)
      OBVIOUS
    <3> HIDE DEF B
    <3> QED
      BY <3>1, SmallestSubset
  <2>2. T \in SUBSET S /\ f[T] # Cardinality(T \cap A)
    OBVIOUS
  <2>3. T # {}
    <3>1. f[{}] = 0
      BY <1>3
    <3>2. Cardinality({}) = 0 /\ {} \cap A = {}
      BY FS_EmptySet
    <3> QED
      BY <2>2, <3>1, <3>2
  <2>4. PICK x, U : x = c[T] /\ U = T \ {x}
    OBVIOUS
  <2>5. x \in T /\ x \in S /\ U \in SUBSET S
    BY <1>2, <2>2, <2>3, <2>4 DEF Choice
  <2>6. f[U] = Cardinality(U \cap A)
    BY <2>1, <2>4, <2>5
  <2>7. f[T] = w[x] + f[U]
    BY <1>3, <2>2, <2>3, <2>4
  <2>8. U \cap A = (T \cap A) \ {x} /\ IsFiniteSet(T \cap A) /\ T \cap A \in SUBSET S
    BY <2>2, <2>4, FS_Subset
  <2>9. /\ Cardinality(T \cap A) \in Nat
        /\ Cardinality(U \cap A) =
             IF x \in T \cap A THEN Cardinality(T \cap A) - 1 ELSE Cardinality(T \cap A)
    <3>1. PICK V : V = T \cap A
      OBVIOUS
    <3>2. IsFiniteSet(V)
      BY <2>8, <3>1
    <3>3. Cardinality(V) \in Nat
      BY <3>2, FS_CardinalityType
    <3>4. Cardinality(V \ {x}) = IF x \in V THEN Cardinality(V) - 1 ELSE Cardinality(V)
      BY <3>2, FS_RemoveElement
    <3> QED
      BY <2>8, <3>1, <3>3, <3>4
  <2> HIDE DEF B
  <2>10. CASE x \in A
    BY <1>0, <2>2, <2>5, <2>6, <2>7, <2>9, <2>10
  <2>11. CASE x \notin A
    BY <1>0, <2>2, <2>5, <2>6, <2>7, <2>9, <2>11
  <2> QED
    BY <2>10, <2>11
<1>5. f[S] = Cardinality(A)
  <2>1. S \cap A = A
    OBVIOUS
  <2> QED
    BY <1>4, <2>1
<1> QED
  BY <1>1, <1>5 DEF w

\* Only zeros add up to zero.
LEMMA SumIsZero ==
  ASSUME NEW S, IsFiniteSet(S), NEW w \in [S -> Nat], SumFunction(w) = 0
  PROVE  \A s \in S : w[s] = 0
<1> SUFFICES ASSUME NEW s \in S PROVE w[s] = 0
  OBVIOUS
<1> DEFINE v == [w EXCEPT ![s] = 0]
<1>1. v \in [S -> Nat]
  OBVIOUS
<1>2. PICK d : d = 0 - w[s]
  OBVIOUS
<1>3. d \in Int /\ w[s] + d = 0 /\ w[s] \in Nat
  BY <1>2
<1>4. ChangedBy(w, v, s, d)
  BY <1>3 DEF ChangedBy
<1> HIDE DEF v
<1>5. SumFunction(v) = 0 + d /\ SumFunction(v) \in Nat
  BY <1>1, <1>3, <1>4, SumChange, SumType
<1> QED
  BY <1>3, <1>5

\* A function that is nowhere more than k on A, and 0 elsewhere, adds up to no more than
\* k times what A has elements.
LEMMA SumBound ==
  ASSUME NEW S, IsFiniteSet(S), NEW A \in SUBSET S, NEW k \in Nat, NEW w \in [S -> Nat],
         \A s \in S : w[s] =< IF s \in A THEN k ELSE 0
  PROVE  SumFunction(w) =< k * Cardinality(A)
<1> DEFINE u == [s \in S |-> IF s \in A THEN 1 ELSE 0]
           z == [s \in S |-> 0]
           v == [s \in S |-> (IF s \in A THEN k ELSE 0) - w[s]]
           b == [s \in S |-> IF s \in A THEN k ELSE 0]
<1>1. /\ u \in [S -> Nat] /\ z \in [S -> Nat] /\ b \in [S -> Nat]
      /\ \A s \in S : b[s] = k * u[s] + z[s]
  <2>1. k * 1 + 0 = k /\ k * 0 + 0 = 0
    OBVIOUS
  <2> QED
    BY <2>1
<1>2. v \in [S -> Nat] /\ \A s \in S : b[s] = 1 * w[s] + v[s]
  OBVIOUS
<1>3. SumFunction(u) = Cardinality(A) /\ SumFunction(z) = 0
  BY SumCounts, SumOfZeros
<1> HIDE DEF u, v, z, b
<1>4. SumFunction(b) = k * SumFunction(u) + SumFunction(z)
  BY <1>1, SumLinear
<1>5. SumFunction(b) = 1 * SumFunction(w) + SumFunction(v)
  BY <1>1, <1>2, SumLinear
<1>6. SumFunction(w) \in Nat /\ SumFunction(v) \in Nat /\ SumFunction(u) \in Nat
  BY <1>1, <1>2, SumType
<1>7. k * SumFunction(u) \in Nat
  BY <1>6
<1> QED
  BY <1>3, <1>4, <1>5, <1>6, <1>7
-----------------------------------------------------------------------------
(* Counting *)

\* In a finite set put in an order, r elements have fewer than r before them.
LEMMA FirstOnes ==
  ASSUME NEW S, IsFiniteSet(S), NEW Prior \in [S -> SUBSET S],
         \A s \in S : s \notin Prior[s],
         \A s, t \in S : s = t \/ s \in Prior[t] \/ t \in Prior[s],
         \A s, t \in S : t \in Prior[s] => Prior[t] \subseteq Prior[s],
         NEW r \in Nat, r =< Cardinality(S)
  PROVE  Cardinality({s \in S : Cardinality(Prior[s]) < r}) = r
<1> DEFINE rank(s) == Cardinality(Prior[s])
           X == {s \in S : rank(s) < r}
           n == Cardinality(S)
<1>1. n \in Nat /\ \A T \in SUBSET S : IsFiniteSet(T) /\ Cardinality(T) \in Nat
  BY FS_Subset, FS_CardinalityType
<1>2. \A s \in S : rank(s) \in Nat
  BY <1>1
<1>3. ASSUME NEW s \in S, NEW t \in S, t \in Prior[s] PROVE rank(t) < rank(s)
  <2>1. /\ Prior[t] \subseteq Prior[s] /\ Prior[t] # Prior[s]
        /\ IsFiniteSet(Prior[s]) /\ Prior[t] \in SUBSET Prior[s]
    BY <1>1, <1>3
  <2>2. rank(t) =< rank(s) /\ rank(t) # rank(s)
    BY <2>1, FS_Subset
  <2> QED
    BY <1>2, <2>2
<1>4. ASSUME NEW s \in S PROVE rank(s) < n
  <2>1. Prior[s] \in SUBSET S /\ Prior[s] # S
    OBVIOUS
  <2>2. rank(s) =< n /\ rank(s) # n
    BY <2>1, FS_Subset
  <2> QED
    BY <1>1, <1>2, <2>2
<1>5. \A s, t \in S : rank(s) = rank(t) => s = t
  <2> SUFFICES ASSUME NEW s \in S, NEW t \in S, rank(s) = rank(t), s # t PROVE FALSE
    OBVIOUS
  <2>1. rank(t) < rank(s) \/ rank(s) < rank(t)
    BY <1>3
  <2> QED
    BY <1>2, <2>1
<1> HIDE DEF rank, n
<1>6. ASSUME NEW Y \in SUBSET S, NEW a \in Nat, NEW b \in Nat, a =< b,
             \A s \in Y : a =< rank(s) /\ rank(s) < b
      PROVE  Cardinality(Y) =< b - a
  <2>1. IsFiniteSet(Y) /\ Cardinality(Y) \in Nat
    BY <1>1
  <2>2. IsFiniteSet(a .. b - 1) /\ Cardinality(a .. b - 1) = b - a
    <3>1. b - 1 \in Int /\ a \in Int
      OBVIOUS
    <3>2. IsFiniteSet(a .. b - 1) /\ Cardinality(a .. b - 1) = IF a > b - 1 THEN 0 ELSE (b - 1) - a + 1
      BY <3>1, FS_Interval
    <3> QED
      BY <1>6, <3>2
  <2> SUFFICES ASSUME b - a < Cardinality(Y) PROVE FALSE
    BY <2>1
  <2> DEFINE f == [s \in Y |-> rank(s)]
  <2>3. f \in [Y -> a .. b - 1]
    BY <1>2, <1>6
  <2>4. \E s, t \in Y : s # t /\ f[s] = f[t]
    <3> HIDE DEF f
    <3> QED
      BY <2>1, <2>2, <2>3, FS_PigeonHole
  <2> QED
    BY <1>5, <2>4
<1>7. X \in SUBSET S /\ S \ X \in SUBSET S
  OBVIOUS
<1>8. \A s \in X : 0 =< rank(s) /\ rank(s) < r
  BY <1>2
<1>9. \A s \in S \ X : r =< rank(s) /\ rank(s) < n
  <2> SUFFICES ASSUME NEW s \in S \ X PROVE r =< rank(s) /\ rank(s) < n
    OBVIOUS
  <2>1. rank(s) \in Nat /\ ~ (rank(s) < r) /\ rank(s) < n
    BY <1>2, <1>4
  <2> QED
    BY <2>1
<1>10. Cardinality(S \ X) = n - Cardinality(X)
  <2>1. S \cap X = X
    OBVIOUS
  <2> HIDE DEF X
  <2> QED
    BY <2>1, FS_Difference DEF n
<1> HIDE DEF X
<1>11. Cardinality(X) =< r - 0
  BY <1>6, <1>7, <1>8
<1>12. Cardinality(S \ X) =< n - r
  BY <1>1, <1>6, <1>7, <1>9 DEF n
<1>13. Cardinality(X) \in Nat
  BY <1>1, <1>7
<1>14. Cardinality(X) = r
  BY <1>1, <1>10, <1>11, <1>12, <1>13
<1> QED
  BY <1>14 DEF X, rank

\* In a finite set of integers one is the greatest.
LEMMA GreatestElement ==
  ASSUME NEW S, IsFiniteSet(S), S \subseteq Int, S # {}
  PROVE  \E x \in S : \A y \in S : x >= y
<1> DEFINE Greatest(T) == \E x \in T : \A y \in T : x >= y
           B == {T \in SUBSET S : T # {} /\ ~ Greatest(T)}
<1>1. B = {}
  <2> SUFFICES ASSUME B # {} PROVE FALSE
    OBVIOUS
  <2>1. PICK T \in B : \A x \in T : T \ {x} \notin B
    <3>1. B \in SUBSET (SUBSET S)
      OBVIOUS
    <3> HIDE DEF B
    <3> QED
      BY <3>1, SmallestSubset
  <2>2. PICK x \in T : TRUE
    OBVIOUS
  <2>3. CASE T \ {x} = {}
    <3>1. \A y \in T : y = x
      BY <2>3
    <3>2. x \in Int
      OBVIOUS
    <3> QED
      BY <3>1, <3>2
  <2>4. CASE T \ {x} # {}
    <3>1. Greatest(T \ {x})
      BY <2>1, <2>4
    <3>2. PICK z \in T \ {x} : \A y \in T \ {x} : z >= y
      BY <3>1
    <3>3. x \in Int /\ z \in Int /\ z \in T /\ \A y \in T : y \in Int
      OBVIOUS
    <3>4. CASE x >= z
      BY <3>2, <3>3, <3>4
    <3>5. CASE z >= x
      BY <3>2, <3>3, <3>5
    <3> QED
      BY <3>3, <3>4, <3>5
  <2> QED
    BY <2>3, <2>4
<1> QED
  BY <1>1

\* A sum over one element more.
LEMMA SumOneMore ==
  ASSUME NEW S, IsFiniteSet(S), NEW w \in [S -> Nat], NEW A \in SUBSET S, NEW e \in S, e \notin A
  PROVE  SumFunctionOnSet(w, A \cup {e}) = SumFunctionOnSet(w, A) + w[e]
<1>1. PICK u, v : u = Cut(w, S, A) /\ v = Cut(w, S, A \cup {e})
  OBVIOUS
<1>2. PICK d \in Nat : d = w[e]
  OBVIOUS
<1>3. u \in [S -> Nat] /\ v \in [S -> Nat] /\ u[e] = 0
  BY <1>1 DEF Cut
<1>4. \A x \in S : v[x] = IF x = e THEN u[e] + d ELSE u[x]
  BY <1>1, <1>2, <1>3 DEF Cut
<1>5. ChangedBy(u, v, e, d)
  BY <1>3, <1>4 DEF ChangedBy
<1>6. d \in Int
  OBVIOUS
<1>7. SumFunction(v) = SumFunction(u) + d
  BY <1>3, <1>5, <1>6, SumChange
<1>8. SumFunctionOnSet(w, A) = SumFunction(u) /\ SumFunctionOnSet(w, A \cup {e}) = SumFunction(v)
  BY <1>1, SumOverPart
<1> QED
  BY <1>2, <1>7, <1>8
-----------------------------------------------------------------------------
(* Pieces end to end *)

\* Where piece e starts when w gives the lengths.
Start(w, e) == SumFunctionOnSet(w, 0 .. e - 1)

LEMMA NextStart ==
  ASSUME NEW n \in Nat, NEW w \in [0 .. n - 1 -> Nat]
  PROVE  /\ Start(w, 0) = 0
         /\ \A e \in 0 .. n : Start(w, e) \in Nat
         /\ \A e \in 0 .. n - 1 : Start(w, e + 1) = Start(w, e) + w[e]
<1> DEFINE S == 0 .. n - 1
<1>1. IsFiniteSet(S)
  BY FS_Interval
<1>2. \A A \in SUBSET S : Cut(w, S, A) \in [S -> Nat]
  BY DEF Cut
<1>3. \A e \in 0 .. n : 0 .. e - 1 \in SUBSET S
  OBVIOUS
<1>4. \A A \in SUBSET S : SumFunctionOnSet(w, A) = SumFunction(Cut(w, S, A))
  <2> HIDE DEF S
  <2> QED
    BY <1>1, SumOverPart DEF S
<1>5. \A e \in 0 .. n : Start(w, e) \in Nat
  <2> SUFFICES ASSUME NEW e \in 0 .. n PROVE Start(w, e) \in Nat
    OBVIOUS
  <2>1. PICK A \in SUBSET S : A = 0 .. e - 1
    BY <1>3
  <2>2. PICK v \in [S -> Nat] : v = Cut(w, S, A)
    BY <1>2
  <2>3. SumFunction(v) \in Nat
    <3> HIDE DEF S
    <3> QED
      BY <1>1, SumType
  <2> QED
    BY <1>4, <2>1, <2>2, <2>3 DEF Start
<1>6. Start(w, 0) = 0
  <2>1. 0 .. 0 - 1 = {} /\ {} \in SUBSET S
    OBVIOUS
  <2>2. Cut(w, S, {}) = [x \in S |-> 0]
    BY DEF Cut
  <2>3. SumFunction([x \in S |-> 0]) = 0
    <3> HIDE DEF S
    <3> QED
      BY <1>1, SumOfZeros
  <2> QED
    BY <1>4, <2>1, <2>2, <2>3 DEF Start
<1>7. ASSUME NEW e \in 0 .. n - 1 PROVE Start(w, e + 1) = Start(w, e) + w[e]
  <2>1. PICK A \in SUBSET S : A = 0 .. e - 1
    BY <1>3
  <2>2. e \notin A /\ e \in S /\ w \in [S -> Nat]
    BY <2>1
  <2>3. SumFunctionOnSet(w, A \cup {e}) = SumFunctionOnSet(w, A) + w[e]
    <3>1. PICK T : T = S
      OBVIOUS
    <3>2. /\ IsFiniteSet(T) /\ w \in [T -> Nat] /\ A \in SUBSET T /\ e \in T
          /\ e \notin A
      BY <1>1, <2>1, <2>2, <3>1
    <3> HIDE DEF S
    <3>3. PICK v \in [T -> Nat], B \in SUBSET T, d \in T : v = w /\ B = A /\ d = e
      BY <3>2
    <3>4. IsFiniteSet(T) /\ d \notin B /\ v \in [T -> Nat] /\ B \in SUBSET T /\ d \in T
      BY <3>2, <3>3
    <3>5. SumFunctionOnSet(v, B \cup {d}) = SumFunctionOnSet(v, B) + v[d]
      BY <3>4, SumOneMore
    <3> QED
      BY <3>3, <3>5
  <2>4. A \cup {e} = 0 .. (e + 1) - 1
    BY <2>1
  <2> QED
    BY <2>1, <2>3, <2>4 DEF Start
<1> QED
  BY <1>5, <1>6, <1>7

\* No piece starts before those ahead of it end.
LEMMA StartsInOrder ==
  ASSUME NEW n \in Nat, NEW w \in [0 .. n - 1 -> Nat],
         NEW d \in 0 .. n, NEW e \in 0 .. n - 1, e < d
  PROVE  Start(w, e) + w[e] =< Start(w, d)
<1> DEFINE T == {k \in Nat : k =< n /\ e < k /\ ~ (Start(w, e) + w[e] =< Start(w, k))}
<1> SUFFICES ASSUME T # {} PROVE FALSE
  OBVIOUS
<1>1. PICK k \in T : \A j \in T : k =< j
  <2>1. T \subseteq Nat
    OBVIOUS
  <2> HIDE DEF T
  <2> QED
    BY <2>1, LeastElement
<1>2. PICK j : j = k - 1
  OBVIOUS
<1>3. j \in 0 .. n - 1 /\ k = j + 1 /\ e =< j /\ k \in 0 .. n
  BY <1>2
<1>4. Start(w, k) = Start(w, j) + w[j] /\ Start(w, j) \in Nat /\ Start(w, e) \in Nat
  BY <1>3, NextStart, SMTT(30)
<1>5. w[j] \in Nat /\ w[e] \in Nat
  BY <1>3
<1>6. CASE j = e
  BY <1>3, <1>4, <1>5, <1>6
<1>7. CASE e < j
  <2>1. j \notin T
    BY <1>1, <1>3
  <2>2. Start(w, e) + w[e] =< Start(w, j)
    BY <1>3, <1>7, <2>1
  <2> QED
    BY <1>4, <1>5, <2>2
<1> QED
  BY <1>3, <1>6, <1>7

\* Two places in pieces are the same only if they are the same of the same piece.
LEMMA PiecesApart ==
  ASSUME NEW n \in Nat, NEW w \in [0 .. n - 1 -> Nat],
         NEW d \in 0 .. n - 1, NEW e \in 0 .. n - 1, NEW i \in Nat, NEW j \in Nat,
         i < w[d], j < w[e], Start(w, d) + i = Start(w, e) + j
  PROVE  d = e /\ i = j
<1>1. Start(w, d) \in Nat /\ Start(w, e) \in Nat /\ w[d] \in Nat /\ w[e] \in Nat
  BY NextStart
<1>2. ASSUME d < e PROVE FALSE
  <2>1. Start(w, d) + w[d] =< Start(w, e)
    BY <1>2, StartsInOrder
  <2> QED
    BY <1>1, <2>1
<1>3. ASSUME e < d PROVE FALSE
  <2>1. Start(w, e) + w[e] =< Start(w, d)
    <3>1. PICK k \in 0 .. n : k = d
      OBVIOUS
    <3>2. Start(w, e) + w[e] =< Start(w, k)
      BY <1>3, <3>1, StartsInOrder
    <3> QED
      BY <3>1, <3>2
  <2> QED
    BY <1>1, <2>1
<1> QED
  BY <1>1, <1>2, <1>3

\* The pieces cover all up to the end of the last.
LEMMA PiecesCover ==
  ASSUME NEW n \in Nat, NEW w \in [0 .. n - 1 -> Nat]
  PROVE  /\ \A e \in 0 .. n - 1, i \in Nat : i < w[e] => Start(w, e) + i \in 0 .. Start(w, n) - 1
         /\ \A t \in 0 .. Start(w, n) - 1 :
              \E e \in 0 .. n - 1, i \in Nat : i < w[e] /\ t = Start(w, e) + i
<1>1. Start(w, n) \in Nat /\ Start(w, 0) = 0
  BY NextStart
<1>2. ASSUME NEW e \in 0 .. n - 1, NEW i \in Nat, i < w[e]
      PROVE  Start(w, e) + i \in 0 .. Start(w, n) - 1
  <2>1. n \in 0 .. n /\ e < n
    OBVIOUS
  <2>2. Start(w, e) + w[e] =< Start(w, n)
    BY <2>1, StartsInOrder
  <2>3. Start(w, e) \in Nat /\ w[e] \in Nat
    BY NextStart
  <2> QED
    BY <1>1, <1>2, <2>2, <2>3
<1>3. ASSUME NEW t \in 0 .. Start(w, n) - 1
      PROVE  \E e \in 0 .. n - 1, i \in Nat : i < w[e] /\ t = Start(w, e) + i
  <2> DEFINE T == {k \in 0 .. n : t < Start(w, k)}
  <2>1. n \in T
    BY <1>1
  <2>2. PICK k \in T : \A j \in T : k =< j
    <3>1. T \subseteq Nat /\ T # {}
      BY <2>1
    <3> HIDE DEF T
    <3> QED
      BY <3>1, LeastElement
  <2>3. k # 0
    <3>1. t < Start(w, k)
      OBVIOUS
    <3> QED
      BY <1>1, <3>1
  <2>4. PICK e : e = k - 1
    OBVIOUS
  <2>5. e \in 0 .. n - 1 /\ k = e + 1 /\ e \in 0 .. n
    BY <2>3, <2>4
  <2>6. Start(w, k) = Start(w, e) + w[e] /\ Start(w, e) \in Nat /\ w[e] \in Nat
    BY <2>5, NextStart
  <2>7. ~ (t < Start(w, e))
    BY <2>2, <2>5
  <2>8. PICK i : i = t - Start(w, e)
    OBVIOUS
  <2>9. i \in Nat /\ i < w[e] /\ t = Start(w, e) + i
    <3>1. t \in Nat /\ t < Start(w, k)
      BY <1>1
    <3> QED
      BY <2>6, <2>7, <2>8, <3>1
  <2> QED
    BY <2>5, <2>9
<1> QED
  BY <1>2, <1>3
-----------------------------------------------------------------------------
(* Division *)

\* What dividing leaves.
LEMMA Dividing ==
  ASSUME NEW a \in Nat, NEW d \in Nat \ {0}
  PROVE  /\ a \div d \in Nat /\ a % d \in 0 .. d - 1
         /\ a = d * (a \div d) + (a % d)
  OBVIOUS

\* Quotient and remainder are the only ones.
LEMMA Digits ==
  ASSUME NEW d \in Nat \ {0}, NEW q \in Nat, NEW r \in 0 .. d - 1
  PROVE  (q * d + r) \div d = q /\ (q * d + r) % d = r
<1>1. PICK a : a = q * d + r
  OBVIOUS
<1>2. q * d \in Nat /\ a \in Nat
  BY <1>1
<1>3. PICK p, m : p = a \div d /\ m = a % d
  OBVIOUS
<1>4. p \in Nat /\ m \in 0 .. d - 1 /\ a = d * p + m
  BY <1>2, <1>3, Dividing
<1>5. d * p = p * d /\ p * d \in Nat
  BY <1>4
<1>6. ~ (p < q)
  <2> SUFFICES ASSUME p + 1 =< q PROVE FALSE
    BY <1>4
  <2>1. (p + 1) * d =< q * d /\ (p + 1) * d = p * d + d
    BY <1>4
  <2> QED
    BY <1>1, <1>2, <1>4, <1>5, <2>1
<1>7. ~ (q < p)
  <2> SUFFICES ASSUME q + 1 =< p PROVE FALSE
    BY <1>4
  <2>1. (q + 1) * d =< p * d /\ (q + 1) * d = q * d + d
    BY <1>4
  <2> QED
    BY <1>1, <1>2, <1>4, <1>5, <2>1
<1>8. p = q
  BY <1>4, <1>6, <1>7
<1> QED
  BY <1>1, <1>2, <1>3, <1>4, <1>5, <1>8

LEMMA QuotientBelow ==
  ASSUME NEW a \in Nat, NEW d \in Nat \ {0}, NEW q \in Nat, a < q * d
  PROVE  a \div d < q
<1>1. PICK p, m : p = a \div d /\ m = a % d
  OBVIOUS
<1>2. p \in Nat /\ m \in 0 .. d - 1 /\ a = d * p + m
  BY <1>1, Dividing
<1> SUFFICES ASSUME q =< p PROVE FALSE
  BY <1>1, <1>2
<1>3. q * d =< p * d /\ d * p = p * d /\ p * d \in Nat /\ q * d \in Nat
  BY <1>2
<1> QED
  BY <1>2, <1>3
=============================================================================
