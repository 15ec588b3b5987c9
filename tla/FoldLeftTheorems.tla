--------------------------- MODULE FoldLeftTheorems ---------------------------
(***************************************************************************)
(* What FoldLeft of the community modules computes, by induction on the    *)
(* length of the sequence.  The folded operator is a constant of this      *)
(* module, so that a proof gets the theorems for its own by INSTANCE.      *)
(***************************************************************************)
EXTENDS Integers, Sequences, SequencesExt, FiniteSetTheorems, TLAPS

CONSTANT Op(_, _)

Fold(base, s) == FoldLeft(Op, base, s)

\* Induction over the natural numbers, for a set.
Less == {ss \in Nat \X Nat : ss[1] < ss[2]}

LEMMA SetInduction ==
    ASSUME NEW N, 0 \in N, \A n \in Nat : n \in N => n + 1 \in N
    PROVE  Nat \subseteq N
<1> SUFFICES ASSUME Nat \ N # {} PROVE FALSE
  OBVIOUS
<1>1. IsWellFoundedOn(Less, Nat)
  BY NatLessThanWellFounded DEF OpToRel, Less
<1>2. PICK m \in Nat \ N : \A k \in Nat \ N : <<k, m>> \notin Less
  BY <1>1, WFMin
<1>3. m # 0 /\ m - 1 \in Nat /\ m - 1 < m
  OBVIOUS
<1>4. m - 1 \in N
  BY <1>2, <1>3 DEF Less
<1>5. (m - 1) + 1 \in N
  BY <1>3, <1>4
<1>. QED BY <1>5

-----------------------------------------------------------------------------
\* The recursive function behind the fold, over the sets of the first n indices.
Iter(base, f, s, n) ==
    f = [T \in SUBSET (1..n) |->
           IF T = {} THEN base ELSE Op(f[T \ {Max(T)}], s[Max(T)])]

LEMMA MaxLast ==
    ASSUME NEW n \in Nat, NEW T \in SUBSET (1..(n + 1)), n + 1 \in T
    PROVE  Max(T) = n + 1
<1>1. \A x \in T : x <= n + 1
  OBVIOUS
<1>2. Max(T) \in T /\ \A y \in T : Max(T) >= y
  BY <1>1 DEF Max
<1>3. Max(T) \in 1..(n + 1) /\ Max(T) >= n + 1
  BY <1>2
<1>. QED BY <1>3

LEMMA IterExists == ASSUME NEW base, NEW s PROVE \A n \in Nat : \E f : Iter(base, f, s, n)
<1> DEFINE N == {n \in Nat : \E f : Iter(base, f, s, n)}
<1>1. 0 \in N
  <2>1. Iter(base, [T \in SUBSET (1..0) |-> base], s, 0)
    BY DEF Iter
  <2>. QED BY <2>1
<1>2. ASSUME NEW n \in Nat, n \in N PROVE n + 1 \in N
  <2>1. PICK f : Iter(base, f, s, n)
    BY <1>2
  <2> DEFINE g == [T \in SUBSET (1..(n + 1)) |->
                     IF n + 1 \in T THEN Op(f[T \ {n + 1}], s[n + 1]) ELSE f[T]]
  <2>2. ASSUME NEW T \in SUBSET (1..(n + 1))
        PROVE  g[T] = IF T = {} THEN base ELSE Op(g[T \ {Max(T)}], s[Max(T)])
    <3>1. CASE n + 1 \in T
      <4>1. Max(T) = n + 1 /\ T # {}
        BY <3>1, MaxLast
      <4>2. g[T \ {n + 1}] = f[T \ {n + 1}]
        OBVIOUS
      <4>. QED BY <3>1, <4>1, <4>2
    <3>2. CASE n + 1 \notin T
      <4>1. T \in SUBSET (1..n) /\ g[T] = f[T]
        BY <3>2
      <4>2. f[T] = IF T = {} THEN base ELSE Op(f[T \ {Max(T)}], s[Max(T)])
        BY <2>1, <4>1 DEF Iter
      <4>3. g[T \ {Max(T)}] = f[T \ {Max(T)}]
        BY <3>2
      <4>. QED BY <4>1, <4>2, <4>3
    <3>. QED BY <3>1, <3>2
  <2>3. Iter(base, g, s, n + 1)
    BY <2>2 DEF Iter
  <2>. QED BY <2>3
<1>3. Nat \subseteq N
  BY <1>1, <1>2, SetInduction
<1>. QED BY <1>3

LEMMA IterSteps ==
    ASSUME NEW base, NEW s, NEW n \in Nat, NEW f, Iter(base, f, s, n), NEW k \in 1..n
    PROVE  f[1..k] = Op(f[1..(k - 1)], s[k])
<1> DEFINE m == k - 1
<1>1. m \in Nat /\ k = m + 1 /\ 1..k \in SUBSET (1..(m + 1)) /\ m + 1 \in 1..k
  OBVIOUS
<1>2. Max(1..k) = k
  BY <1>1, MaxLast
<1>3. (1..k) \ {k} = 1..(k - 1)
  OBVIOUS
<1>4. 1..k # {} /\ 1..k \in SUBSET (1..n)
  BY <1>1
<1>. QED BY <1>2, <1>3, <1>4 DEF Iter

LEMMA IterStarts ==
    ASSUME NEW base, NEW s, NEW n \in Nat, NEW f, Iter(base, f, s, n)
    PROVE  f[1..0] = base
BY 1..0 = {} DEF Iter

\* Two sequences with a common prefix agree on what is folded of it.
LEMMA IterAgrees ==
    ASSUME NEW base, NEW s, NEW m \in Nat, NEW f, Iter(base, f, s, m),
           NEW t, NEW n \in Nat, NEW g, Iter(base, g, t, n),
           NEW l \in Nat, l <= m, l <= n, \A i \in 1..l : s[i] = t[i]
    PROVE  f[1..l] = g[1..l]
<1> DEFINE N == {k \in Nat : k <= l => f[1..k] = g[1..k]}
<1>1. 0 \in N
  BY IterStarts
<1>2. ASSUME NEW k \in Nat, k \in N PROVE k + 1 \in N
  <2> SUFFICES ASSUME k + 1 <= l PROVE f[1..(k + 1)] = g[1..(k + 1)]
    OBVIOUS
  <2> DEFINE j == k + 1
  <2>1. j \in 1..m /\ j \in 1..n /\ j \in 1..l /\ j - 1 = k /\ k <= l
    OBVIOUS
  <2>2. f[1..k] = g[1..k] /\ s[j] = t[j]
    BY <1>2, <2>1
  <2> HIDE DEF j
  <2>3. f[1..j] = Op(f[1..(j - 1)], s[j]) /\ g[1..j] = Op(g[1..(j - 1)], t[j])
    BY <2>1, IterSteps
  <2>4. f[1..j] = g[1..j]
    BY <2>1, <2>2, <2>3
  <2>. QED BY <2>4 DEF j
<1>3. l \in N
  BY <1>1, <1>2, SetInduction
<1>. QED BY <1>3

\* FoldLeft is that function on all the indices.
LEMMA FoldIsIter ==
    ASSUME NEW base, NEW s, NEW n \in Nat, DOMAIN s = 1..n
    PROVE  \E f : Iter(base, f, s, n) /\ Fold(base, s) = f[1..n]
<1>1. Fold(base, s) = (CHOOSE f : Iter(base, f, s, n))[1..n]
  BY DEF Fold, FoldLeft, MapThenFoldSet, Iter
<1>2. Iter(base, CHOOSE f : Iter(base, f, s, n), s, n)
  BY IterExists
<1>. QED BY <1>1, <1>2

-----------------------------------------------------------------------------
\* Nothing folded is the base.
THEOREM FoldEmpty == ASSUME NEW base, NEW s, DOMAIN s = 1..0 PROVE Fold(base, s) = base
<1>1. PICK f : Iter(base, f, s, 0) /\ Fold(base, s) = f[1..0]
  BY FoldIsIter
<1>2. f[1..0] = base
  BY <1>1, IterStarts
<1>. QED BY <1>1, <1>2

\* A sequence one longer folds its last element into the fold of the rest.
THEOREM FoldExtends ==
    ASSUME NEW base, NEW n \in Nat, NEW s, DOMAIN s = 1..n, NEW t, DOMAIN t = 1..(n + 1),
           \A i \in 1..n : t[i] = s[i]
    PROVE  Fold(base, t) = Op(Fold(base, s), t[n + 1])
<1>1. PICK f : Iter(base, f, s, n) /\ Fold(base, s) = f[1..n]
  BY FoldIsIter
<1>2. PICK g : Iter(base, g, t, n + 1) /\ Fold(base, t) = g[1..(n + 1)]
  <2> DEFINE m == n + 1
  <2>1. m \in Nat /\ DOMAIN t = 1..m
    OBVIOUS
  <2> HIDE DEF m
  <2>2. \E g : Iter(base, g, t, m) /\ Fold(base, t) = g[1..m]
    BY <2>1, FoldIsIter
  <2>. QED BY <2>2 DEF m
<1>3. f[1..n] = g[1..n]
  <2>1. n <= n /\ n <= n + 1 /\ n + 1 \in Nat
    OBVIOUS
  <2>. QED BY <1>1, <1>2, <2>1, IterAgrees
<1>4. g[1..(n + 1)] = Op(g[1..((n + 1) - 1)], t[n + 1])
  BY <1>2, IterSteps, n + 1 \in Nat, n + 1 \in 1..(n + 1)
<1>5. (n + 1) - 1 = n
  OBVIOUS
<1>. QED BY <1>1, <1>2, <1>3, <1>4, <1>5

\* ... and so does a sequence something is appended to.
COROLLARY FoldAppend ==
    ASSUME NEW base, NEW S, NEW s \in Seq(S), NEW x \in S
    PROVE  Fold(base, Append(s, x)) = Op(Fold(base, s), x)
<1>1. /\ Len(s) \in Nat /\ DOMAIN s = 1..Len(s)
      /\ DOMAIN Append(s, x) = 1..(Len(s) + 1)
      /\ \A i \in 1..Len(s) : Append(s, x)[i] = s[i]
      /\ Append(s, x)[Len(s) + 1] = x
  OBVIOUS
<1>2. Fold(base, Append(s, x)) = Op(Fold(base, s), Append(s, x)[Len(s) + 1])
  <2> DEFINE t == Append(s, x)
             n == Len(s)
  <2>1. /\ n \in Nat /\ DOMAIN s = 1..n /\ DOMAIN t = 1..(n + 1)
        /\ \A i \in 1..n : t[i] = s[i]
    BY <1>1
  <2> HIDE DEF t, n
  <2>2. Fold(base, t) = Op(Fold(base, s), t[n + 1])
    BY <2>1, FoldExtends
  <2>. QED BY <2>2 DEF t, n
<1>. QED BY <1>1, <1>2

-----------------------------------------------------------------------------
(***************************************************************************)
(* The same for FoldSet over a finite set.                                 *)
(***************************************************************************)
FoldOver(base, S) == FoldSet(Op, base, S)

Choice(T) == CHOOSE x \in T : TRUE

\* The recursive function behind it, over the subsets of S.
SetIter(base, f, S) ==
    f = [T \in SUBSET S |-> IF T = {} THEN base ELSE Op(Choice(T), f[T \ {Choice(T)}])]

LEMMA SetIterRestricts ==
    ASSUME NEW base, NEW S, NEW T \in SUBSET S, NEW f, SetIter(base, f, S)
    PROVE  SetIter(base, [U \in SUBSET T |-> f[U]], T)
<1> DEFINE g == [U \in SUBSET T |-> f[U]]
<1>1. ASSUME NEW U \in SUBSET T
      PROVE  g[U] = IF U = {} THEN base ELSE Op(Choice(U), g[U \ {Choice(U)}])
  <2>1. U \in SUBSET S /\ U \ {Choice(U)} \in SUBSET T
    OBVIOUS
  <2>2. f[U] = IF U = {} THEN base ELSE Op(Choice(U), f[U \ {Choice(U)}])
    BY <2>1 DEF SetIter
  <2>. QED BY <2>1, <2>2
<1>2. g = [U \in SUBSET T |-> IF U = {} THEN base ELSE Op(Choice(U), g[U \ {Choice(U)}])]
  BY <1>1
<1>. QED BY <1>2 DEF SetIter

\* Two such functions agree on a set both are defined on.
LEMMA SetItersAgree ==
    ASSUME NEW base, NEW S, IsFiniteSet(S),
           NEW X, NEW f, SetIter(base, f, X), S \subseteq X,
           NEW Y, NEW g, SetIter(base, g, Y), S \subseteq Y
    PROVE  f[S] = g[S]
<1> DEFINE N == {n \in Nat : \A T \in SUBSET S : Cardinality(T) = n => f[T] = g[T]}
<1>1. ASSUME NEW T \in SUBSET S
      PROVE  /\ IsFiniteSet(T) /\ Cardinality(T) \in Nat
             /\ Cardinality(T) = 0 <=> T = {}
             /\ f[T] = IF T = {} THEN base ELSE Op(Choice(T), f[T \ {Choice(T)}])
             /\ g[T] = IF T = {} THEN base ELSE Op(Choice(T), g[T \ {Choice(T)}])
  <2>1. T \in SUBSET X /\ T \in SUBSET Y
    OBVIOUS
  <2>2. IsFiniteSet(T)
    BY FS_Subset
  <2>. QED BY <2>1, <2>2, FS_CardinalityType, FS_EmptySet DEF SetIter
<1>2. 0 \in N
  BY <1>1
<1>3. ASSUME NEW n \in Nat, n \in N PROVE n + 1 \in N
  <2> SUFFICES ASSUME NEW T \in SUBSET S, Cardinality(T) = n + 1 PROVE f[T] = g[T]
    OBVIOUS
  <2>0. IsFiniteSet(T) /\ (Cardinality(T) = 0 <=> T = {})
    BY <1>1
  <2>1. T # {} /\ IsFiniteSet(T)
    BY <2>0
  <2>2. Choice(T) \in T
    BY <2>1 DEF Choice
  <2>3. Cardinality(T \ {Choice(T)}) = n /\ T \ {Choice(T)} \in SUBSET S
    <3>1. Cardinality(T \ {Choice(T)}) = Cardinality(T) - 1
      BY <2>1, <2>2, FS_RemoveElement
    <3>. QED BY <3>1
  <2>4. f[T \ {Choice(T)}] = g[T \ {Choice(T)}]
    BY <1>3, <2>3
  <2>. QED BY <1>1, <2>1, <2>4
<1>4. Nat \subseteq N
  BY <1>2, <1>3, SetInduction
<1>5. Cardinality(S) \in N
  BY <1>1, <1>4
<1>. QED BY <1>5

LEMMA SetIterExists ==
    ASSUME NEW base, NEW S, IsFiniteSet(S) PROVE \E f : SetIter(base, f, S)
<1> DEFINE N == {n \in Nat : \A T \in SUBSET S : Cardinality(T) = n => \E f : SetIter(base, f, T)}
<1>0. ASSUME NEW T \in SUBSET S
      PROVE  IsFiniteSet(T) /\ Cardinality(T) \in Nat /\ (Cardinality(T) = 0 <=> T = {})
  BY FS_Subset, FS_CardinalityType, FS_EmptySet
<1>1. 0 \in N
  <2>1. SetIter(base, [T \in SUBSET {} |-> base], {})
    BY DEF SetIter
  <2>. QED BY <2>1, <1>0
<1>2. ASSUME NEW n \in Nat, n \in N PROVE n + 1 \in N
  <2> SUFFICES ASSUME NEW T \in SUBSET S, Cardinality(T) = n + 1 PROVE \E f : SetIter(base, f, T)
    OBVIOUS
  \* Each proper subset has a function; they agree, so one of the whole can be read off.
  <2> DEFINE F(U) == CHOOSE f : SetIter(base, f, U)
             g == [U \in SUBSET T |->
                     IF U = {} THEN base
                     ELSE Op(Choice(U), F(U \ {Choice(U)})[U \ {Choice(U)}])]
  <2>1. ASSUME NEW U \in SUBSET T, U # {}
        PROVE  /\ Choice(U) \in U
               /\ \E f : SetIter(base, f, U \ {Choice(U)})
    <3>1. Choice(U) \in U
      BY <2>1 DEF Choice
    <3> DEFINE V == U \ {Choice(U)}
    <3>2. PICK x : x \in U /\ x = Choice(U)
      BY <3>1
    <3>3. V \in SUBSET (T \ {x}) /\ T \ {x} \in SUBSET S
      BY <3>2
    <3>4. Cardinality(T \ {x}) = n
      BY <1>0, <3>2, FS_RemoveElement
    <3>5. PICK f : SetIter(base, f, T \ {x})
      BY <1>2, <3>3, <3>4
    <3> HIDE DEF V
    <3>6. SetIter(base, [W \in SUBSET V |-> f[W]], V)
      BY <3>3, <3>5, SetIterRestricts
    <3>. QED BY <3>1, <3>6 DEF V
  <2>2. ASSUME NEW U \in SUBSET T, U # {}
        PROVE  F(U \ {Choice(U)})[U \ {Choice(U)}] = g[U \ {Choice(U)}]
    <3> DEFINE V == U \ {Choice(U)}
    <3>1. V \in SUBSET T /\ V \in SUBSET S /\ IsFiniteSet(V)
      BY <1>0
    <3>2. SetIter(base, F(V), V)
      BY <2>1, <2>2
    <3>3. CASE V = {}
      BY <3>1, <3>2, <3>3 DEF SetIter
    <3>4. CASE V # {}
      <4> DEFINE W == V \ {Choice(V)}
      <4>1. SetIter(base, F(W), W) /\ Choice(V) \in V
        BY <2>1, <3>1, <3>4
      <4>2. W \in SUBSET V /\ W \in SUBSET S /\ IsFiniteSet(W)
        BY <3>1, <1>0
      <4>3. F(V)[V] = Op(Choice(V), F(V)[W])
        BY <3>1, <3>2, <3>4 DEF SetIter
      <4>4. F(V)[W] = F(W)[W]
        <5> HIDE DEF F, W, V
        <5>. QED BY <3>2, <4>1, <4>2, SetItersAgree
      <4>5. g[V] = Op(Choice(V), F(W)[W])
        BY <3>1, <3>4
      <4>. QED BY <4>3, <4>4, <4>5
    <3>. QED BY <3>3, <3>4
  <2>3. ASSUME NEW U \in SUBSET T
        PROVE  g[U] = IF U = {} THEN base ELSE Op(Choice(U), g[U \ {Choice(U)}])
    <3>1. CASE U = {}
      BY <3>1
    <3>2. CASE U # {}
      <4>1. g[U] = Op(Choice(U), F(U \ {Choice(U)})[U \ {Choice(U)}])
        BY <3>2
      <4>2. F(U \ {Choice(U)})[U \ {Choice(U)}] = g[U \ {Choice(U)}]
        BY <2>2, <3>2
      <4> HIDE DEF F, g
      <4>. QED BY <3>2, <4>1, <4>2
    <3>. QED BY <3>1, <3>2
  <2> HIDE DEF F
  <2>4. g = [U \in SUBSET T |-> IF U = {} THEN base ELSE Op(Choice(U), g[U \ {Choice(U)}])]
    BY <2>3
  <2>5. SetIter(base, g, T)
    BY <2>4 DEF SetIter
  <2>. QED BY <2>5
<1>3. Nat \subseteq N
  BY <1>1, <1>2, SetInduction
<1>4. Cardinality(S) \in N
  BY <1>0, <1>3
<1>. QED BY <1>4

LEMMA FoldOverIsIter ==
    ASSUME NEW base, NEW S, IsFiniteSet(S)
    PROVE  \E f : SetIter(base, f, S) /\ FoldOver(base, S) = f[S]
<1>1. FoldOver(base, S) = (CHOOSE f : SetIter(base, f, S))[S]
  BY DEF FoldOver, FoldSet, MapThenFoldSet, SetIter, Choice
<1>2. SetIter(base, CHOOSE f : SetIter(base, f, S), S)
  BY SetIterExists
<1>. QED BY <1>1, <1>2

\* Nothing folded is the base.
THEOREM FoldOverEmpty == ASSUME NEW base PROVE FoldOver(base, {}) = base
<1>1. PICK f : SetIter(base, f, {}) /\ FoldOver(base, {}) = f[{}]
  BY FoldOverIsIter, FS_EmptySet
<1>. QED BY <1>1 DEF SetIter

\* A set is folded by folding one of its members into the fold of the others.
THEOREM FoldOverStep ==
    ASSUME NEW base, NEW S, IsFiniteSet(S), S # {}
    PROVE  \E x \in S : FoldOver(base, S) = Op(x, FoldOver(base, S \ {x}))
<1> DEFINE x == Choice(S)
           T == S \ {x}
<1>1. x \in S /\ IsFiniteSet(T) /\ T \subseteq T /\ T \subseteq S
  BY FS_RemoveElement DEF Choice
<1>2. PICK f : SetIter(base, f, S) /\ FoldOver(base, S) = f[S]
  BY FoldOverIsIter
<1>3. PICK g : SetIter(base, g, T) /\ FoldOver(base, T) = g[T]
  BY <1>1, FoldOverIsIter
<1>4. f[S] = Op(x, f[T])
  BY <1>2 DEF SetIter
<1> HIDE DEF T
<1>5. f[T] = g[T]
  BY <1>1, <1>2, <1>3, SetItersAgree
<1>. QED BY <1>1, <1>2, <1>3, <1>4, <1>5 DEF T
=============================================================================
