-------------------------- MODULE QueryHistoryProofs --------------------------
(***************************************************************************)
(* The query baselines, for any results, samples and number of pollers:    *)
(* Welford's update computes, sample by sample, what a pass over all of    *)
(* them computes, in whatever order the pollers fold them.                 *)
(***************************************************************************)
EXTENDS QueryHistory, WellFoundedInduction, TLAPS

Plus(x, y) == x + y

Sums == INSTANCE FoldLeftTheorems WITH Op <- Plus
Folds == INSTANCE FoldLeftTheorems WITH Op <- Fold

LEMMA SumIsFold == ASSUME NEW s PROVE SumOf(s) = Sums!Fold(0, s)
BY DEF SumOf, Sums!Fold, Plus, FoldLeft, MapThenFoldSet,
       Sums!FoldLeft, Sums!MapThenFoldSet, Sums!Max, Max

LEMMA BatchIsFold == ASSUME NEW s PROVE Batch(s) = Folds!Fold(NoBaseline, s)
BY DEF Batch, Folds!Fold, FoldLeft, MapThenFoldSet,
       Folds!FoldLeft, Folds!MapThenFoldSet, Folds!Max, Max

\* A sum of n + 1 terms.
LEMMA SumExtends ==
    ASSUME NEW n \in Nat, NEW s, DOMAIN s = 1..n, NEW t, DOMAIN t = 1..(n + 1),
           \A i \in 1..n : t[i] = s[i]
    PROVE  SumOf(t) = SumOf(s) + t[n + 1]
BY SumIsFold, Sums!FoldExtends DEF Plus

LEMMA SumOfNone == ASSUME NEW s, DOMAIN s = 1..0 PROVE SumOf(s) = 0
BY SumIsFold, Sums!FoldEmpty

LEMMA BatchExtends ==
    ASSUME NEW s \in Seq(Nat), NEW x \in Nat
    PROVE  Batch(Append(s, x)) = Fold(Batch(s), x)
BY BatchIsFold, Folds!FoldAppend

LEMMA BatchOfNone == Batch(<<>>) = NoBaseline
<1>1. DOMAIN <<>> = 1..0
  OBVIOUS
<1>. QED BY <1>1, BatchIsFold, Folds!FoldEmpty

\* Induction over the sequences of natural numbers, for a set of them.
LEMMA SeqInduction ==
    ASSUME NEW N, <<>> \in N,
           \A s \in Seq(Nat) : \A x \in Nat : s \in N => Append(s, x) \in N
    PROVE  Seq(Nat) \subseteq N
<1> DEFINE L == {n \in Nat : \A s \in Seq(Nat) : Len(s) = n => s \in N}
<1>1. 0 \in L
  <2>1. \A s \in Seq(Nat) : Len(s) = 0 => s = <<>>
    OBVIOUS
  <2>. QED BY <2>1
<1>2. ASSUME NEW n \in Nat, n \in L PROVE n + 1 \in L
  <2> SUFFICES ASSUME NEW s \in Seq(Nat), Len(s) = n + 1 PROVE s \in N
    OBVIOUS
  <2> DEFINE t == SubSeq(s, 1, n)
             x == s[n + 1]
  <2>1. t \in Seq(Nat) /\ Len(t) = n /\ x \in Nat /\ s = Append(t, x)
    OBVIOUS
  <2> HIDE DEF t, x
  <2>2. t \in N
    BY <1>2, <2>1
  <2>. QED BY <2>1, <2>2
<1>3. Nat \subseteq L
  BY <1>1, <1>2, Sums!SetInduction
<1>. QED BY <1>3

-----------------------------------------------------------------------------
(* Sums of squares.                                                        *)

Squares(s) == SumOf([i \in 1..Len(s) |-> s[i] * s[i]])

LEMMA SquaresOfNone == SumOf(<<>>) = 0 /\ Squares(<<>>) = 0
<1>1. DOMAIN <<>> = 1..0 /\ Len(<<>>) = 0
  OBVIOUS
<1>. QED BY <1>1, SumOfNone DEF Squares

LEMMA SquaresExtend ==
    ASSUME NEW s \in Seq(Nat), NEW x \in Nat
    PROVE  /\ SumOf(Append(s, x)) = SumOf(s) + x
           /\ Squares(Append(s, x)) = Squares(s) + x * x
<1> DEFINE n == Len(s)
           t == Append(s, x)
<1>1. /\ n \in Nat /\ DOMAIN s = 1..n /\ DOMAIN t = 1..(n + 1) /\ Len(t) = n + 1
      /\ \A i \in 1..n : t[i] = s[i]
      /\ t[n + 1] = x
  OBVIOUS
<1> HIDE DEF n, t
<1>2. SumOf(t) = SumOf(s) + x
  BY <1>1, SumExtends
<1> DEFINE ss == [i \in 1..n |-> s[i] * s[i]]
           tt == [i \in 1..(n + 1) |-> t[i] * t[i]]
<1>3. /\ DOMAIN ss = 1..n /\ DOMAIN tt = 1..(n + 1)
      /\ \A i \in 1..n : tt[i] = ss[i]
      /\ tt[n + 1] = x * x
  BY <1>1
<1> HIDE DEF ss, tt
<1>4. SumOf(tt) = SumOf(ss) + x * x
  BY <1>1, <1>3, SumExtends
<1>5. Squares(s) = SumOf(ss) /\ Squares(t) = SumOf(tt)
  BY <1>1 DEF Squares, ss, tt, n
<1>. QED BY <1>2, <1>4, <1>5 DEF t

LEMMA SumsAreNat == \A s \in Seq(Nat) : SumOf(s) \in Nat /\ Squares(s) \in Nat
<1> DEFINE N == {s \in Seq(Nat) : SumOf(s) \in Nat /\ Squares(s) \in Nat}
<1>1. <<>> \in N
  BY SquaresOfNone
<1>2. ASSUME NEW s \in Seq(Nat), NEW x \in Nat, s \in N PROVE Append(s, x) \in N
  <2>1. x * x \in Nat /\ Append(s, x) \in Seq(Nat)
    OBVIOUS
  <2>2. SumOf(s) \in Nat /\ Squares(s) \in Nat
    BY <1>2
  <2>3. SumOf(s) + x \in Nat /\ Squares(s) + x * x \in Nat
    BY <2>1, <2>2
  <2>. QED BY <2>1, <2>3, SquaresExtend
<1>. QED BY <1>1, <1>2, SeqInduction

\* The squares of the distances to any point.
LEMMA SquaresAround ==
    ASSUME NEW m \in Int, Unit \in Nat
    PROVE  \A s \in Seq(Nat) :
             LET away == [i \in 1..Len(s) |-> Unit * s[i] - m]
             IN  SumOf([i \in 1..Len(s) |-> away[i] * away[i]]) =
                   Unit * Unit * Squares(s) - 2 * Unit * m * SumOf(s) + m * m * Len(s)
<1> DEFINE away(s) == [i \in 1..Len(s) |-> Unit * s[i] - m]
           far(s) == [i \in 1..Len(s) |-> away(s)[i] * away(s)[i]]
           F(s) == Unit * Unit * Squares(s) - 2 * Unit * m * SumOf(s) + m * m * Len(s)
           N == {s \in Seq(Nat) : SumOf(far(s)) = F(s)}
<1>1. <<>> \in N
  <2>1. <<>> \in Seq(Nat) /\ Len(<<>>) = 0 /\ DOMAIN far(<<>>) = 1..0
    OBVIOUS
  <2>2. SumOf(far(<<>>)) = 0
    BY <2>1, SumOfNone
  <2>3. F(<<>>) = 0
    BY <2>1, SquaresOfNone
  <2>. QED BY <2>1, <2>2, <2>3
<1>2. ASSUME NEW s \in Seq(Nat), NEW x \in Nat, s \in N PROVE Append(s, x) \in N
  <2> DEFINE n == Len(s)
             t == Append(s, x)
             d == Unit * x - m
  <2>1. /\ n \in Nat /\ Len(t) = n + 1 /\ t \in Seq(Nat)
        /\ \A i \in 1..n : t[i] = s[i]
        /\ t[n + 1] = x
    OBVIOUS
  <2>2. /\ DOMAIN far(s) = 1..n /\ DOMAIN far(t) = 1..(n + 1)
        /\ \A i \in 1..n : far(t)[i] = far(s)[i]
        /\ far(t)[n + 1] = d * d
    BY <2>1
  <2> HIDE DEF far, n
  <2>3. SumOf(far(t)) = SumOf(far(s)) + d * d
    BY <2>1, <2>2, SumExtends
  <2>4. SumOf(s) \in Nat /\ Squares(s) \in Nat
    BY SumsAreNat
  <2>5. SumOf(t) = SumOf(s) + x /\ Squares(t) = Squares(s) + x * x
    BY SquaresExtend
  <2> DEFINE S == SumOf(s)
             Q == Squares(s)
  <2>6. F(s) = Unit * Unit * Q - 2 * Unit * m * S + m * m * n
    BY DEF n
  <2>7. F(t) = Unit * Unit * (Q + x * x) - 2 * Unit * m * (S + x) + m * m * (n + 1)
    BY <2>1, <2>5
  <2> HIDE DEF S, Q, F, t
  <2>8. F(t) = F(s) + d * d
    <3>1. n \in Nat /\ S \in Nat /\ Q \in Nat
      BY <2>1, <2>4 DEF S, Q
    <3>2. Unit * Unit * (Q + x * x) = Unit * Unit * Q + (Unit * x) * (Unit * x)
      BY <3>1
    <3>3. 2 * Unit * m * (S + x) = 2 * Unit * m * S + 2 * (Unit * x) * m
      BY <3>1
    <3>4. m * m * (n + 1) = m * m * n + m * m
      BY <3>1
    <3>5. d * d = (Unit * x) * (Unit * x) - 2 * (Unit * x) * m + m * m
      OBVIOUS
    <3>. QED BY <2>6, <2>7, <3>1, <3>2, <3>3, <3>4, <3>5
  <2>9. SumOf(far(s)) = F(s)
    BY <1>2
  <2>10. SumOf(far(t)) = F(t)
    BY <2>3, <2>8, <2>9
  <2>. QED BY <2>1, <2>10 DEF t
<1>3. Seq(Nat) \subseteq N
  BY <1>1, <1>2, SeqInduction
<1>. QED BY <1>3

-----------------------------------------------------------------------------
(* Welford's update.                                                       *)

\* What a baseline says of n samples of sum S and sum of squares Q.
Exact(b, n, S, Q) ==
    /\ b.count = n /\ b.mean \in Int /\ b.m2 \in Int
    /\ b.mean * n = Unit * S
    /\ b.m2 * n = Unit * (n * Q - S * S)

Divides(n) == \E k \in 1..Unit : Unit = k * (n * (n - 1))

LEMMA DivExact == ASSUME NEW n \in Nat, n > 0, NEW z \in Int PROVE (n * z) \div n = z
OBVIOUS

LEMMA Cancel ==
    ASSUME NEW n \in Nat, n > 0, NEW a \in Int, NEW b \in Int, a * n = b * n
    PROVE  a = b
OBVIOUS

Moves(b, c, S, Q, x, k) ==
    LET z == c * x - S
        f == Fold(b, x)
    IN  /\ b.mean = k * (c + 1) * S
        /\ b.m2 = k * (c + 1) * (c * Q - S * S)
        /\ Unit * x - b.mean = k * (c + 1) * z
        /\ f.count = c + 1
        /\ f.mean = b.mean + k * z
        /\ Unit * x - f.mean = k * c * z
        /\ f.m2 = b.m2 + k * (z * z)
        /\ f.last = x

\* The divisions of an update leave no remainder: with n = c + 1 samples and
\* Unit = k n c, the mean moves by k z and the sum of squares grows by k z z.
LEMMA FoldMoves ==
    ASSUME NEW b, NEW c \in Nat, c > 0, NEW S \in Int, NEW Q \in Int, NEW x \in Nat,
           Exact(b, c, S, Q), NEW k \in Nat, k > 0, Unit = k * ((c + 1) * c)
    PROVE  Moves(b, c, S, Q, x, k)
<1> DEFINE n == c + 1
           z == c * x - S
           delta == Unit * x - b.mean
           mean == b.mean + delta \div n
<1>0. n \in Nat /\ n > 0 /\ z \in Int /\ x \in Int /\ c \in Int /\ k \in Int
  OBVIOUS
<1>1. b.count = c /\ b.mean \in Int /\ b.m2 \in Int
      /\ b.mean * c = (k * (n * c)) * S
      /\ b.m2 * c = (k * (n * c)) * (c * Q - S * S)
  BY DEF Exact
<1>2. b.mean = k * n * S
  <2> DEFINE w == k * n * S
  <2>1. (k * (n * c)) * S = w * c /\ w \in Int
    BY <1>0
  <2> HIDE DEF w
  <2>2. b.mean * c = w * c
    BY <1>1, <2>1
  <2>3. b.mean = w
    BY <1>1, <2>1, <2>2, Cancel
  <2>. QED BY <2>3 DEF w
<1>3. b.m2 = k * n * (c * Q - S * S)
  <2> DEFINE y == c * Q - S * S
  <2>1. y \in Int
    OBVIOUS
  <2> HIDE DEF y
  <2>2. (k * (n * c)) * y = (k * n * y) * c /\ k * n * y \in Int
    BY <1>0, <2>1
  <2>3. b.m2 * c = (k * n * y) * c
    BY <1>1, <2>2 DEF y
  <2>4. b.m2 = k * n * y
    BY <1>1, <2>2, <2>3, Cancel
  <2>. QED BY <2>4 DEF y
<1>4. delta = n * (k * z) /\ n * (k * z) = k * n * z
  BY <1>0, <1>2
<1>5. delta \div n = k * z
  <2>1. k * z \in Int
    BY <1>0
  <2> HIDE DEF n, z, delta
  <2>. QED BY <1>0, <1>4, <2>1, DivExact
<1>6. Unit * x - mean = k * c * z
  <2>1. mean = k * n * S + k * z
    BY <1>2, <1>5
  <2>. QED BY <1>0, <2>1
<1>7. (delta * (Unit * x - mean)) \div Unit = k * (z * z)
  <2>1. (k * n * z) * (k * c * z) = (k * (n * c)) * (k * (z * z)) /\ k * (z * z) \in Int
    BY <1>0
  <2>2. k * (n * c) \in Nat /\ k * (n * c) > 0
    BY <1>0
  <2> DEFINE u == k * (n * c)
             w == k * (z * z)
  <2>3. Unit = u /\ u \in Nat /\ u > 0 /\ w \in Int
    BY <2>1, <2>2
  <2>4. delta * (Unit * x - mean) = u * w
    BY <1>4, <1>6, <2>1
  <2> HIDE DEF u, w, delta, mean
  <2>5. (delta * (Unit * x - mean)) \div Unit = w
    BY <2>3, <2>4, DivExact
  <2>. QED BY <2>5 DEF w
<1>8. /\ Fold(b, x).count = n
      /\ Fold(b, x).mean = mean
      /\ Fold(b, x).m2 = b.m2 + (delta * (Unit * x - mean)) \div Unit
      /\ Fold(b, x).last = x
  BY <1>1 DEF Fold
<1>. QED BY <1>2, <1>3, <1>4, <1>5, <1>6, <1>7, <1>8 DEF Moves

\* One sample more, if its products divide the unit.
LEMMA FoldExact ==
    ASSUME NEW b, NEW c \in Nat, NEW S \in Nat, NEW Q \in Nat, NEW x \in Nat,
           Exact(b, c, S, Q), Unit \in Nat \ {0}, c > 0 => Divides(c + 1),
           c = 0 => b = NoBaseline /\ S = 0 /\ Q = 0
    PROVE  Exact(Fold(b, x), c + 1, S + x, Q + x * x)
<1>1. CASE c = 0
  <2>1. b.count = 0 /\ b.mean = 0 /\ b.m2 = 0
    BY <1>1 DEF NoBaseline
  <2> DEFINE u == Unit * x
  <2>2. u \in Int /\ u - 0 = u /\ u \div 1 = u /\ 0 + u = u /\ u - u = 0
    OBVIOUS
  <2>3. u * 0 = 0 /\ 0 \div Unit = 0
    BY <2>2
  <2>4. Fold(b, x) = [count |-> 1, mean |-> u, m2 |-> 0, last |-> x]
    BY <2>1, <2>2, <2>3 DEF Fold
  <2>5. u * 1 = Unit * (S + x) /\ 0 * 1 = Unit * (1 * (Q + x * x) - (S + x) * (S + x))
    BY <1>1
  <2>. QED BY <1>1, <2>2, <2>4, <2>5 DEF Exact
<1>2. CASE c > 0
  <2>1. PICK k \in 1..Unit : Unit = k * ((c + 1) * c)
    BY <1>2 DEF Divides
  <2> DEFINE n == c + 1
             z == c * x - S
             f == Fold(b, x)
  <2>2. k \in Nat /\ k > 0 /\ z \in Int /\ c \in Int /\ S \in Int /\ Q \in Int
    OBVIOUS
  <2>3. /\ f.count = n
        /\ f.mean = k * n * S + k * z
        /\ f.m2 = k * n * (c * Q - S * S) + k * (z * z)
    <3>1. Moves(b, c, S, Q, x, k)
      BY <1>2, <2>1, <2>2, FoldMoves
    <3>. QED BY <3>1 DEF Moves
  <2> HIDE DEF f
  <2>4. f.mean \in Int /\ f.m2 \in Int
    BY <2>2, <2>3
  <2>5. (k * n * S + k * z) * n = (k * (n * c)) * (S + x)
    BY <2>2
  <2>6. n * (c * Q - S * S) + z * z = c * (n * (Q + x * x) - (S + x) * (S + x))
    BY <2>2
  <2>7. (k * n * (c * Q - S * S) + k * (z * z)) * n
          = (k * (n * c)) * (n * (Q + x * x) - (S + x) * (S + x))
    <3> DEFINE a == c * Q - S * S
               y == z * z
               w == n * (Q + x * x) - (S + x) * (S + x)
    <3>1. a \in Int /\ y \in Int /\ w \in Int /\ n \in Int
      BY <2>2
    <3>2. n * a + y = c * w
      BY <2>6
    <3> HIDE DEF a, y, w, n, z
    <3>3. (k * n * a + k * y) * n = (k * n) * (n * a + y)
      BY <2>2, <3>1
    <3>4. (k * n) * (c * w) = (k * (n * c)) * w
      BY <2>2, <3>1
    <3>. QED BY <3>2, <3>3, <3>4 DEF a, y, w
  <2>. QED BY <2>1, <2>3, <2>4, <2>5, <2>7 DEF Exact, f
<1>. QED BY <1>1, <1>2

\* Sample by sample as in one pass, for every sequence of samples.
LEMMA BatchIsExact ==
    ASSUME QueryHistoryAssumption
    PROVE  \A s \in Seq(Nat) : Len(s) <= MaxSamples =>
             /\ Exact(Batch(s), Len(s), SumOf(s), Squares(s))
             /\ Len(s) > 0 => Batch(s).last = Last(s)
<1> DEFINE E(s) == /\ Exact(Batch(s), Len(s), SumOf(s), Squares(s))
                   /\ Len(s) > 0 => Batch(s).last = Last(s)
           N == {s \in Seq(Nat) : Len(s) <= MaxSamples => E(s)}
<1>0. MaxSamples \in Nat /\ Unit \in Nat \ {0} /\ \A n \in 2..MaxSamples : Divides(n)
  BY DEF QueryHistoryAssumption, Divides
<1>1. <<>> \in N
  <2>1. <<>> \in Seq(Nat) /\ Len(<<>>) = 0 /\ Unit * 0 = 0
    BY <1>0
  <2>2. Exact(NoBaseline, 0, 0, 0)
    BY <1>0 DEF Exact, NoBaseline
  <2>. QED BY <2>1, <2>2, BatchOfNone, SquaresOfNone
<1>2. ASSUME NEW s \in Seq(Nat), NEW x \in Nat, s \in N PROVE Append(s, x) \in N
  <2> DEFINE t == Append(s, x)
  <2>1. t \in Seq(Nat) /\ Len(t) = Len(s) + 1 /\ Len(s) \in Nat /\ t[Len(t)] = x
    OBVIOUS
  <2> SUFFICES ASSUME Len(t) <= MaxSamples PROVE E(t)
    BY <2>1
  <2>2. Len(s) <= MaxSamples /\ (Len(s) > 0 => Len(s) + 1 \in 2..MaxSamples)
    BY <1>0, <2>1
  <2>3. Exact(Batch(s), Len(s), SumOf(s), Squares(s))
    BY <1>2, <2>2
  <2>4. SumOf(s) \in Nat /\ Squares(s) \in Nat
    BY SumsAreNat
  <2>5. Len(s) = 0 => Batch(s) = NoBaseline /\ SumOf(s) = 0 /\ Squares(s) = 0
    <3>1. Len(s) = 0 => s = <<>>
      OBVIOUS
    <3>. QED BY <3>1, BatchOfNone, SquaresOfNone
  <2>6. Exact(Fold(Batch(s), x), Len(s) + 1, SumOf(s) + x, Squares(s) + x * x)
    BY <1>0, <2>1, <2>2, <2>3, <2>4, <2>5, FoldExact
  <2>7. Batch(t) = Fold(Batch(s), x)
    BY BatchExtends
  <2>8. SumOf(t) = SumOf(s) + x /\ Squares(t) = Squares(s) + x * x
    BY SquaresExtend
  <2>9. Batch(t).last = x /\ Last(t) = x
    BY <2>1, <2>7 DEF Fold, Last
  <2> HIDE DEF t
  <2>. QED BY <2>1, <2>6, <2>7, <2>8, <2>9
<1>3. Seq(Nat) \subseteq N
  BY <1>1, <1>2, SeqInduction
<1>. QED BY <1>3

-----------------------------------------------------------------------------
(* The pollers.  Whatever they interleave, the row is the fold of the log, *)
(* and what a poller has read the fold of the log as it was then.          *)

Samples == {s \in Seq(Nat) : Len(s) <= MaxSamples}

Shape ==
    /\ pc \in [Pollers -> {"idle", "row", "read", "fold"}]
    /\ todo \in [Pollers -> Seq([dur : Nat, execs : Nat])]
    /\ \A p \in Pollers : pc[p] # "idle" => todo[p] # <<>>
    /\ log \in Samples /\ seen \in [Pollers -> Samples]

RowIsFold ==
    /\ base.row = Batch(log)
    /\ prior = [p \in Pollers |-> Batch(seen[p])]

IInv == Shape /\ RowIsFold

LEMMA NothingSampled ==
    ASSUME QueryHistoryAssumption
    PROVE  <<>> \in Samples /\ <<>> \in Seq([dur : Nat, execs : Nat])
<1>1. \A S : <<>> \in Seq(S)
  OBVIOUS
<1>2. Len(<<>>) = 0 /\ MaxSamples \in Nat
  BY DEF QueryHistoryAssumption
<1>. QED BY <1>1, <1>2 DEF Samples

LEMMA InitHolds == ASSUME QueryHistoryAssumption, Init PROVE IInv
<1>1. log \in Samples
  BY DEF Init, QueryHistoryAssumption, Samples
<1>2. Shape
  BY <1>1, NothingSampled DEF Init, Shape
<1>3. RowIsFold
  BY BatchOfNone DEF Init, RowIsFold
<1>. QED BY <1>2, <1>3 DEF IInv

LEMMA HeadAndTail ==
    ASSUME NEW S, NEW s \in Seq(S), s # <<>>
    PROVE  Head(s) \in S /\ Tail(s) \in Seq(S) /\ (Len(s) # 1 => Tail(s) # <<>>)
<1>1. Len(s) \in Nat /\ Len(s) > 0 /\ Head(s) = s[1] /\ s[1] \in S /\ Tail(s) \in Seq(S)
  OBVIOUS
<1>2. Len(s) # 1 => Len(Tail(s)) # 0
  BY <1>1
<1>3. Len(<<>>) = 0
  OBVIOUS
<1>. QED BY <1>1, <1>2, <1>3

LEMMA NextRowKeeps ==
    ASSUME Shape, NEW p \in Pollers, pc[p] # "idle", NextRow(p)
    PROVE  /\ pc' \in [Pollers -> {"idle", "row", "read", "fold"}]
           /\ todo' \in [Pollers -> Seq([dur : Nat, execs : Nat])]
           /\ \A q \in Pollers : pc'[q] # "idle" => todo'[q] # <<>>
<1> DEFINE Rows == [dur : Nat, execs : Nat]
<1>1. todo[p] \in Seq(Rows) /\ todo[p] # <<>>
  BY DEF Shape
<1> HIDE DEF Rows
<1>2. Tail(todo[p]) \in Seq(Rows) /\ (Len(todo[p]) # 1 => Tail(todo[p]) # <<>>)
  BY <1>1, HeadAndTail
<1> USE DEF Rows
<1>. QED BY <1>1, <1>2 DEF Shape, NextRow

LEMMA NextKeeps == ASSUME QueryHistoryAssumption, IInv, [Next]_vars PROVE IInv'
<1> USE DEF IInv, locals
<1>1. CASE Tick \/ UNCHANGED vars
  BY <1>1 DEF Tick, vars, Shape, RowIsFold
<1>2. CASE Prune
  <2>1. Shape'
    BY <1>2, NothingSampled DEF Prune, Shape
  <2>2. RowIsFold'
    BY <1>2, BatchOfNone DEF Prune, RowIsFold
  <2>. QED BY <2>1, <2>2
<1>3. ASSUME NEW p \in Pollers, Query(p) PROVE IInv'
  <2>1. Shape'
    BY <1>3 DEF Query, Shape, QueryHistoryAssumption
  <2>2. RowIsFold'
    BY <1>3 DEF Query, RowIsFold
  <2>. QED BY <2>1, <2>2
<1>4. ASSUME NEW p \in Pollers, InsertRow(p) \/ InsertFails(p) PROVE IInv'
  <2>1. UNCHANGED <<base, prior, seen, log>> /\ pc[p] = "row"
    BY <1>4 DEF InsertRow, InsertFails
  <2>2. NextRow(p) \/ (pc' = [pc EXCEPT ![p] = "read"] /\ todo' = todo)
    BY <1>4 DEF InsertRow, InsertFails
  <2>3. Shape'
    BY <2>1, <2>2, NextRowKeeps DEF Shape
  <2>4. RowIsFold'
    BY <2>1 DEF RowIsFold
  <2>. QED BY <2>3, <2>4
<1>5. ASSUME NEW p \in Pollers, ReadBaseline(p) PROVE IInv'
  <2>1. Shape'
    BY <1>5 DEF ReadBaseline, Shape
  <2>2. RowIsFold'
    BY <1>5 DEF ReadBaseline, RowIsFold, Shape
  <2>. QED BY <2>1, <2>2
<1>6. ASSUME NEW p \in Pollers, UpdateBaseline(p) PROVE IInv'
  <2>1. todo[p] \in Seq([dur : Nat, execs : Nat]) /\ todo[p] # <<>>
    BY <1>6 DEF UpdateBaseline, Shape
  <2>2. Head(todo[p]) \in [dur : Nat, execs : Nat]
    BY <2>1, HeadAndTail
  <2>3. Sample(p) \in Nat
    BY <2>2 DEF Sample
  <2>4. log' = Append(log, Sample(p)) /\ log \in Seq(Nat) /\ Len(log) < MaxSamples
    BY <1>6 DEF UpdateBaseline, Shape, Samples
  <2>5. log' \in Samples
    BY <2>3, <2>4 DEF QueryHistoryAssumption, Samples
  <2>6. seen' = [seen EXCEPT ![p] = <<>>] /\ prior' = [prior EXCEPT ![p] = NoBaseline]
    BY <1>6 DEF UpdateBaseline, Forget
  <2>7. Shape'
    BY <1>6, <2>5, <2>6, NothingSampled, NextRowKeeps DEF UpdateBaseline, Shape
  <2>8. base'.row = Batch(log')
    BY <1>6, <2>3, <2>4, BatchExtends DEF UpdateBaseline, RowIsFold
  <2>9. prior' = [q \in Pollers |-> Batch(seen'[q])]
    BY <2>6, BatchOfNone DEF RowIsFold, Shape
  <2>. QED BY <2>7, <2>8, <2>9 DEF RowIsFold
<1>7. ASSUME NEW p \in Pollers, Crash(p) PROVE IInv'
  <2>1. Shape'
    BY <1>7, NothingSampled DEF Crash, Forget, Shape
  <2>2. RowIsFold'
    BY <1>7, BatchOfNone DEF Crash, Forget, RowIsFold, Shape
  <2>. QED BY <2>1, <2>2
<1>. QED BY <1>1, <1>2, <1>3, <1>4, <1>5, <1>6, <1>7 DEF Next, Poll

LEMMA Invariance == ASSUME QueryHistoryAssumption PROVE Spec => []IInv
<1>1. Init => IInv
  BY InitHolds
<1>2. IInv /\ [Next]_vars => IInv'
  BY NextKeeps
<1>. QED BY <1>1, <1>2, PTL DEF Spec

\* In whatever order pollers of a server fold their samples, between whatever
\* crashes and prunes, the row says what a pass over the samples would.
THEOREM RowIsBatch == ASSUME QueryHistoryAssumption PROVE Spec => []BaselineIsBatch
<1>1. IInv => BaselineIsBatch
  <2> SUFFICES ASSUME IInv PROVE BaselineIsBatch
    OBVIOUS
  <2>1. log \in Seq(Nat) /\ Len(log) <= MaxSamples
    BY DEF IInv, Shape, Samples
  <2>2. /\ Exact(base.row, Len(log), SumOf(log), Squares(log))
        /\ Len(log) > 0 => base.row.last = Last(log)
    BY <2>1, BatchIsExact DEF IInv, RowIsFold
  <2>. QED BY <2>2 DEF BaselineIsBatch, Exact, Squares
<1>. QED BY <1>1, Invariance, PTL

-----------------------------------------------------------------------------
(* The two detectors.                                                      *)

\* The series the report would read: the samples and the one to judge.
Series(s, x) ==
    LET t == Append(s, x)
    IN  [i \in 1..(Len(s) + 1) |-> [dur |-> t[i], execs |-> 2]]

LEMMA SeriesParts ==
    ASSUME NEW s \in Seq(Nat), NEW x \in Nat
    PROVE  LET points == Series(s, x)
           IN  /\ Len(points) = Len(s) + 1 /\ DOMAIN points = 1..(Len(s) + 1)
               /\ Len(Front(points)) = Len(s)
               /\ [i \in 1..Len(s) |-> Front(points)[i].dur] = s
               /\ Last(points).dur = x
               /\ \A i \in 1..(Len(s) + 1) : points[i].execs = 2
<1> DEFINE n == Len(s)
           t == Append(s, x)
           Rows == [dur : Nat, execs : Nat]
           points == [i \in 1..(n + 1) |-> [dur |-> t[i], execs |-> 2]]
<1>1. /\ n \in Nat /\ n + 1 \in Nat /\ DOMAIN s = 1..n /\ t[n + 1] = x
      /\ \A i \in 1..n : t[i] = s[i] /\ t[i] \in Nat
      /\ s = [i \in 1..n |-> s[i]]
  OBVIOUS
<1>2. \A i \in 1..(n + 1) : t[i] \in Nat
  BY <1>1
<1>3. /\ DOMAIN points = 1..(n + 1)
      /\ \A i \in 1..(n + 1) : points[i] = [dur |-> t[i], execs |-> 2]
  OBVIOUS
<1> HIDE DEF t, n
<1>4. points \in Seq(Rows)
  <2>1. points \in [1..(n + 1) -> Rows]
    BY <1>2
  <2>2. \A S : \A m \in Nat : \A f \in [1..m -> S] : f \in Seq(S)
    OBVIOUS
  <2> HIDE DEF points, Rows
  <2>. QED BY <1>1, <2>1, <2>2
<1> HIDE DEF points
<1>5. Len(points) = n + 1
  BY <1>1, <1>3, <1>4
<1>6. (n + 1) - 1 = n /\ n + 1 \in 1..(n + 1) /\ (\A i \in 1..n : i \in 1..(n + 1))
  BY <1>1
<1>7. Front(points) = SubSeq(points, 1, n) /\ Last(points) = points[n + 1]
  BY <1>5, <1>6 DEF Front, Last
<1>8. Len(SubSeq(points, 1, n)) = n /\ \A i \in 1..n : SubSeq(points, 1, n)[i] = points[i]
  BY <1>1, <1>4, <1>5
<1>9. \A i \in 1..n : Front(points)[i].dur = s[i]
  <2> SUFFICES ASSUME NEW i \in 1..n PROVE Front(points)[i].dur = s[i]
    OBVIOUS
  <2>1. Front(points)[i] = points[i] /\ points[i].dur = t[i] /\ t[i] = s[i]
    BY <1>1, <1>3, <1>6, <1>7, <1>8
  <2>. QED BY <2>1
<1>10. [i \in 1..n |-> Front(points)[i].dur] = s
  BY <1>1, <1>9
<1>11. Last(points).dur = x /\ \A i \in 1..(n + 1) : points[i].execs = 2
  BY <1>1, <1>3, <1>6, <1>7
<1>12. Series(s, x) = points
  BY DEF Series, points, t, n
<1>. QED BY <1>3, <1>5, <1>7, <1>8, <1>10, <1>11, <1>12 DEF n

\* The sum of n times the same.
LEMMA SumOfTwos ==
    \A n \in Nat : \A s : (DOMAIN s = 1..n /\ \A i \in 1..n : s[i] = 2) => SumOf(s) = 2 * n
<1> DEFINE N == {n \in Nat : \A s : (DOMAIN s = 1..n /\ \A i \in 1..n : s[i] = 2)
                                       => SumOf(s) = 2 * n}
<1>1. 0 \in N
  BY SumOfNone
<1>2. ASSUME NEW n \in Nat, n \in N PROVE n + 1 \in N
  <2> SUFFICES ASSUME NEW s, DOMAIN s = 1..(n + 1), \A i \in 1..(n + 1) : s[i] = 2
               PROVE  SumOf(s) = 2 * (n + 1)
    OBVIOUS
  <2> DEFINE t == [i \in 1..n |-> s[i]]
  <2>1. DOMAIN t = 1..n /\ (\A i \in 1..n : t[i] = 2 /\ s[i] = t[i]) /\ s[n + 1] = 2
    OBVIOUS
  <2> HIDE DEF t
  <2>2. SumOf(t) = 2 * n
    BY <1>2, <2>1
  <2>3. SumOf(s) = SumOf(t) + s[n + 1]
    BY <2>1, SumExtends
  <2>. QED BY <2>1, <2>2, <2>3
<1>3. Nat \subseteq N
  BY <1>1, <1>2, Sums!SetInduction
<1>. QED BY <1>3

\* What a pass over the samples makes of the squares of their distances.
LEMMA Spread ==
    ASSUME NEW n \in Nat, n > 0, NEW S \in Int, NEW Q \in Int, NEW m \in Int, NEW v \in Int,
           NEW u \in Int, m * n = u * S, v * n = u * (n * Q - S * S)
    PROVE  u * u * Q - 2 * u * m * S + m * m * n = u * v
<1> DEFINE a == u * u * Q - 2 * u * m * S + m * m * n
           w == u * v
<1>1. a \in Int /\ w \in Int
  OBVIOUS
<1>2. a * n = u * u * Q * n - 2 * u * S * (m * n) + (m * n) * (m * n)
  OBVIOUS
<1>3. w * n = u * (v * n)
  OBVIOUS
<1>4. u * u * Q * n - 2 * u * S * (u * S) + (u * S) * (u * S) = u * (u * (n * Q - S * S))
  OBVIOUS
<1> HIDE DEF a, w
<1>5. a * n = w * n
  BY <1>2, <1>3, <1>4
<1>6. a = w
  BY <1>1, <1>5, Cancel
<1>. QED BY <1>6 DEF a, w

\* Over six samples or more the report flags what the poller flags.
LEMMA Reported ==
    ASSUME QueryHistoryAssumption, NEW s \in Seq(Nat), Len(s) <= MaxSamples, Len(s) >= 6,
           NEW x \in Nat
    PROVE  DetectRegression(Series(s, x)) <=> DetectRegressionDurable(Batch(s), x)
<1> DEFINE n == Len(s)
           points == Series(s, x)
           past == Front(points)
           b == Batch(s)
           mean == (Unit * SumOf([i \in 1..n |-> past[i].dur])) \div n
           away == [i \in 1..n |-> Unit * past[i].dur - mean]
           m2 == SumOf([i \in 1..n |-> away[i] * away[i]]) \div Unit
<1>1. /\ n \in Nat /\ n > 0 /\ Unit \in Nat /\ Unit > 0 /\ Unit \in Int
      /\ SumOf(s) \in Nat /\ Squares(s) \in Nat
  BY SumsAreNat DEF QueryHistoryAssumption
<1>2. /\ b.count = n /\ b.mean \in Int /\ b.m2 \in Int
      /\ b.mean * n = Unit * SumOf(s)
      /\ b.m2 * n = Unit * (n * Squares(s) - SumOf(s) * SumOf(s))
  BY BatchIsExact DEF Exact
<1>3. /\ Len(points) = n + 1 /\ DOMAIN points = 1..(n + 1) /\ Len(past) = n
      /\ [i \in 1..n |-> past[i].dur] = s
      /\ Last(points).dur = x
      /\ \A i \in 1..(n + 1) : points[i].execs = 2
  BY SeriesParts
<1> HIDE DEF b, points, past, n
<1>4. mean = b.mean
  <2>1. mean = (Unit * SumOf(s)) \div n
    BY <1>3
  <2>2. Unit * SumOf(s) = n * b.mean
    BY <1>1, <1>2
  <2>3. (n * b.mean) \div n = b.mean
    BY <1>1, <1>2, DivExact
  <2>. QED BY <2>1, <2>2, <2>3
<1> HIDE DEF mean
<1>5. m2 = b.m2
  <2>1. \A i \in 1..n : past[i].dur = s[i]
    <3>1. \A i \in 1..n : [j \in 1..n |-> past[j].dur][i] = past[i].dur
      OBVIOUS
    <3>. QED BY <1>3, <3>1
  <2>2. away = [i \in 1..n |-> Unit * s[i] - b.mean]
    BY <1>4, <2>1
  <2> HIDE DEF away
  <2>3. SumOf([i \in 1..n |-> away[i] * away[i]])
          = Unit * Unit * Squares(s) - 2 * Unit * b.mean * SumOf(s) + b.mean * b.mean * n
    BY <1>1, <1>2, <2>2, SquaresAround DEF n
  <2>4. @ = Unit * b.m2
    <3> DEFINE S == SumOf(s)
               Q == Squares(s)
               m == b.mean
               v == b.m2
    <3>1. /\ S \in Int /\ Q \in Int /\ m \in Int /\ v \in Int
          /\ m * n = Unit * S /\ v * n = Unit * (n * Q - S * S)
      BY <1>1, <1>2
    <3> HIDE DEF S, Q, m, v
    <3>2. Unit * Unit * Q - 2 * Unit * m * S + m * m * n = Unit * v
      BY <1>1, <3>1, Spread
    <3>. QED BY <3>2 DEF S, Q, m, v
  <2>5. (Unit * b.m2) \div Unit = b.m2
    BY <1>1, <1>2, DivExact
  <2>. QED BY <2>3, <2>4, <2>5
<1> HIDE DEF m2
<1>6. SumOf([i \in DOMAIN points |-> points[i].execs]) = 2 * (n + 1)
  <2> DEFINE e == [i \in DOMAIN points |-> points[i].execs]
  <2>1. DOMAIN e = 1..(n + 1) /\ \A i \in 1..(n + 1) : e[i] = 2
    BY <1>3
  <2> HIDE DEF e
  <2>2. SumOf(e) = 2 * (n + 1)
    BY <1>1, <2>1, SumOfTwos, n + 1 \in Nat
  <2>. QED BY <2>2 DEF e
<1>7. n >= 6
  BY DEF n
<1> DEFINE d == Unit * x - b.mean
<1>8. DetectRegression(points)
        <=> /\ Len(points) >= MinSamples
            /\ SumOf([i \in DOMAIN points |-> points[i].execs]) >= MinExecutions
            /\ m2 > 0
            /\ Unit * x - mean >= 0 /\ ZAtLeast(Unit * x - mean, m2, n, ZScoreK, 1)
            /\ Unit * x - mean >= Unit * MinAbsDelta
  BY <1>3 DEF DetectRegression, m2, mean, past
<1>9. Len(points) >= MinSamples /\ 2 * (n + 1) >= MinExecutions
  BY <1>1, <1>3, <1>7 DEF MinSamples, MinExecutions
<1>10. DetectRegressionDurable(b, x)
         <=> /\ b.m2 > 0
             /\ d >= 0 /\ ZAtLeast(d, b.m2, n, ZScoreK, 1)
             /\ d >= Unit * MinAbsDelta
  BY <1>1, <1>2, <1>7 DEF DetectRegressionDurable, BaselineMinCount
<1>. QED BY <1>4, <1>5, <1>6, <1>8, <1>9, <1>10 DEF b, points

\* The pollers agree with the report, whatever was folded or pruned since they
\* read the baseline.
THEOREM PollersAgree == ASSUME QueryHistoryAssumption PROVE Spec => []DetectorsAgree
<1>1. IInv => DetectorsAgree
  <2> SUFFICES ASSUME IInv, NEW p \in Pollers, pc[p] = "fold"
               PROVE  LET samples == seen[p] \o <<Sample(p)>>
                          points  == [i \in DOMAIN samples |-> [dur |-> samples[i], execs |-> 2]]
                      IN  Verdict(p)
                            <=> Len(samples) > BaselineMinCount /\ DetectRegression(points)
    BY DEF DetectorsAgree
  <2> DEFINE s == seen[p]
             x == Sample(p)
             samples == s \o <<x>>
             points == [i \in DOMAIN samples |-> [dur |-> samples[i], execs |-> 2]]
  <2>1. s \in Seq(Nat) /\ Len(s) <= MaxSamples /\ Len(s) \in Nat
    BY DEF IInv, Shape, Samples
  <2>2. x \in Nat
    <3>1. todo[p] \in Seq([dur : Nat, execs : Nat]) /\ todo[p] # <<>>
      BY DEF IInv, Shape
    <3>2. Head(todo[p]) \in [dur : Nat, execs : Nat]
      BY <3>1, HeadAndTail
    <3>. QED BY <3>2 DEF Sample
  <2>3. Verdict(p) <=> DetectRegressionDurable(Batch(s), x)
    BY DEF IInv, RowIsFold, Verdict
  <2> HIDE DEF s, x
  <2>4. samples = Append(s, x) /\ DOMAIN samples = 1..(Len(s) + 1) /\ Len(samples) = Len(s) + 1
    BY <2>1, <2>2
  <2> HIDE DEF samples
  <2>5. points = Series(s, x)
    BY <2>4 DEF Series
  <2>6. CASE Len(s) >= 6
    <3>1. Len(samples) > BaselineMinCount
      BY <2>1, <2>4, <2>6 DEF BaselineMinCount
    <3>. QED BY <2>1, <2>2, <2>3, <2>5, <2>6, <3>1, Reported DEF s, x, samples
  <2>7. CASE ~(Len(s) >= 6)
    <3>1. ~(Len(samples) > BaselineMinCount)
      BY <2>1, <2>4, <2>7 DEF BaselineMinCount
    <3>2. Batch(s).count = Len(s)
      BY <2>1, BatchIsExact DEF Exact
    <3>3. ~DetectRegressionDurable(Batch(s), x)
      BY <2>1, <2>7, <3>2 DEF DetectRegressionDurable, BaselineMinCount
    <3>. QED BY <2>3, <3>1, <3>3 DEF s, x, samples
  <2>. QED BY <2>6, <2>7
<1>. QED BY <1>1, Invariance, PTL

-----------------------------------------------------------------------------
(* What a spike leaves of itself.                                          *)

\* With c samples before it, a jump d of which z = d / (k (c + 1)), over variance v:
\* three standard deviations before the fold are more than one and a half after.
LEMMA SpikeRemains ==
    ASSUME NEW c \in Nat, c >= 6, NEW k \in Nat, NEW z \in Int, NEW v \in Int,
           (k * (c + 1) * z) * (k * (c + 1) * z) * (c - 1) >= 9 * v * (k * ((c + 1) * c))
    PROVE  (k * c * z) * (k * c * z) * c * 4 >= 9 * (v + k * (z * z)) * (k * ((c + 1) * c))
<1> DEFINE y == (k * z) * (k * z)
           n == c + 1
           w == v * (k * (n * c))
<1>1. y \in Nat /\ n \in Int /\ w \in Int
  <2>1. \A a \in Int : a * a \in Nat
    OBVIOUS
  <2>. QED BY <2>1
<1>2. (k * n * z) * (k * n * z) * (c - 1) = n * n * (c - 1) * y /\ 9 * v * (k * (n * c)) = 9 * w
  OBVIOUS
<1>3. (k * c * z) * (k * c * z) * c * 4 = (4 * (c * c * c)) * y
  OBVIOUS
<1>4. 9 * (v + k * (z * z)) * (k * (n * c)) = 9 * w + (9 * n * c) * y
  OBVIOUS
<1>5. 4 * (c * c * c) >= n * n * (c - 1) + 9 * n * c
  OBVIOUS
<1> DEFINE A == 4 * (c * c * c)
           B == n * n * (c - 1)
           C == 9 * n * c
<1>6. A \in Int /\ B \in Int /\ C \in Int
  BY <1>1
<1>7. B * y >= 9 * w
  BY <1>2
<1> HIDE DEF y, n, w, A, B, C
<1>8. A * y >= (B + C) * y
  <2>1. A >= B + C
    BY <1>5 DEF A, B, C
  <2>. QED BY <1>1, <1>6, <2>1
<1>9. (B + C) * y = B * y + C * y /\ A * y \in Int /\ B * y \in Int /\ C * y \in Int
  BY <1>1, <1>6
<1>10. A * y >= 9 * w + C * y
  BY <1>1, <1>7, <1>8, <1>9
<1>. QED BY <1>3, <1>4, <1>10 DEF A, C, n

LEMMA ShowsAfter ==
    ASSUME NEW b, NEW c \in Nat, c >= 6, NEW S \in Int, NEW Q \in Int, NEW x \in Nat,
           Exact(b, c, S, Q), Unit \in Nat \ {0}, Divides(c + 1),
           DetectRegressionDurable(b, x)
    PROVE  Band(Fold(b, x)) \in {"elevated", "regressed"}
<1>1. PICK k \in 1..Unit : Unit = k * ((c + 1) * c)
  BY DEF Divides
<1> DEFINE z == c * x - S
           f == Fold(b, x)
           d == Unit * f.last - f.mean
<1>2. k \in Nat /\ k > 0 /\ c > 0 /\ z \in Int /\ b.m2 \in Int
  BY DEF Exact
<1>3. Moves(b, c, S, Q, x, k)
  BY <1>1, <1>2, FoldMoves
<1>4. /\ Unit * x - b.mean = k * (c + 1) * z
      /\ f.count = c + 1 /\ f.last = x
      /\ d = k * c * z
      /\ f.m2 = b.m2 + k * (z * z)
  BY <1>3 DEF Moves
<1>5. /\ b.m2 > 0 /\ k * (c + 1) * z >= 0
      /\ (k * (c + 1) * z) * (k * (c + 1) * z) * (c - 1) * 1 * 1 >= 3 * 3 * b.m2 * Unit
  <2>1. b.count = c
    BY DEF Exact
  <2>. QED BY <1>4, <2>1 DEF DetectRegressionDurable, ZAtLeast, ZScoreK
<1> HIDE DEF z, f, d
<1>6. z >= 0
  <2> SUFFICES ASSUME z <= -1 PROVE FALSE
    BY <1>2
  <2> DEFINE e == k * (c + 1)
  <2>1. e \in Nat /\ e > 0 /\ e * z >= 0
    BY <1>2, <1>5
  <2> HIDE DEF e
  <2>2. e * z < 0
    BY <1>2, <2>1
  <2>3. e * z \in Int
    BY <1>2, <2>1
  <2>. QED BY <2>1, <2>2, <2>3
<1>7. d >= 0 /\ f.m2 > 0 /\ f.m2 \in Int
  <2>1. k * c \in Nat /\ k * (z * z) >= 0 /\ k * (z * z) \in Int
    BY <1>2, <1>6
  <2>2. (k * c) * z >= 0
    BY <1>6, <2>1, <1>2
  <2>. QED BY <1>2, <1>4, <1>5, <2>1, <2>2
<1>8. d * d * ((c + 1) - 1) * 2 * 2 >= 3 * 3 * f.m2 * Unit
  <2> DEFINE v == b.m2
             left == (k * c * z) * (k * c * z) * c * 4
             right == 9 * (v + k * (z * z)) * (k * ((c + 1) * c))
  <2>1. v \in Int /\ Unit \in Int
    BY <1>2
  <2> HIDE DEF v
  <2>2. (k * (c + 1) * z) * (k * (c + 1) * z) * (c - 1) >= 9 * v * (k * ((c + 1) * c))
    BY <1>1, <1>2, <1>5, <2>1 DEF v
  <2>3. left >= right
    BY <1>2, <2>1, <2>2, SpikeRemains
  <2>4. d * d * ((c + 1) - 1) * 2 * 2 = left
    BY <1>2, <1>4
  <2>5. 3 * 3 * f.m2 * Unit = right
    BY <1>1, <1>2, <1>4, <2>1 DEF v
  <2>. QED BY <2>3, <2>4, <2>5
<1>9. ZAtLeast(d, f.m2, f.count, ZScoreK, 2)
  BY <1>4, <1>8 DEF ZAtLeast, ZScoreK
<1>10. ~(f.count < BaselineMinCount)
  BY <1>4 DEF BaselineMinCount
<1>. QED BY <1>7, <1>9, <1>10 DEF Band, d, f

\* A spike the poller flags is on the health badge once it is folded in, unless
\* another poller folded or housekeeping pruned in between.
THEOREM SpikesShow == ASSUME QueryHistoryAssumption PROVE Spec => SpikeShows
<1>1. IInv /\ [Next]_vars =>
        [\A p \in Pollers :
           (UpdateBaseline(p) /\ seen[p] = log /\ Verdict(p))
              => Band(base'.row) \in {"elevated", "regressed"}]_vars
  <2> SUFFICES ASSUME IInv, NEW p \in Pollers, UpdateBaseline(p), seen[p] = log, Verdict(p)
               PROVE  Band(base'.row) \in {"elevated", "regressed"}
    OBVIOUS
  <2> DEFINE c == Len(log)
             b == base.row
             x == Sample(p)
  <2>1. /\ log \in Seq(Nat) /\ c <= MaxSamples /\ c \in Nat /\ c < MaxSamples
        /\ MaxSamples \in Nat /\ Unit \in Nat \ {0}
        /\ \A n \in 2..MaxSamples : Divides(n)
    BY DEF IInv, Shape, Samples, UpdateBaseline, QueryHistoryAssumption, Divides
  <2>2. b = Batch(log) /\ prior[p] = b /\ base'.row = Fold(b, x)
    BY DEF IInv, RowIsFold, UpdateBaseline
  <2>3. x \in Nat
    <3>1. todo[p] \in Seq([dur : Nat, execs : Nat]) /\ todo[p] # <<>>
      BY DEF IInv, Shape, UpdateBaseline
    <3>2. Head(todo[p]) \in [dur : Nat, execs : Nat]
      BY <3>1, HeadAndTail
    <3>. QED BY <3>2 DEF Sample
  <2>4. DetectRegressionDurable(b, x)
    BY <2>2 DEF Verdict
  <2> HIDE DEF b, x
  <2>5. Exact(b, c, SumOf(log), Squares(log))
    BY <2>1, <2>2, BatchIsExact
  <2>6. SumOf(log) \in Int /\ Squares(log) \in Int
    BY <2>1, SumsAreNat
  <2>7. c >= 6
    BY <2>4, <2>5 DEF DetectRegressionDurable, Exact, BaselineMinCount
  <2>8. Divides(c + 1)
    BY <2>1, <2>7
  <2> HIDE DEF c
  <2>9. Band(Fold(b, x)) \in {"elevated", "regressed"}
    BY <2>1, <2>3, <2>4, <2>5, <2>6, <2>7, <2>8, ShowsAfter
  <2>. QED BY <2>2, <2>9
<1>. QED BY <1>1, Invariance, PTL DEF Spec, SpikeShows
=============================================================================
