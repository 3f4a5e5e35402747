----------------------------- MODULE FoldLemmas -----------------------------
(***************************************************************************)
(* Induction over the naturals and the folds built on it.                  *)
(*                                                                         *)
(* The induction principle is stated for sets in place of predicates: to   *)
(* prove P(n) for all n, cite it for {n \in Nat : P(n)}.  It follows from  *)
(* the well-foundedness of < in WellFoundedInduction.                      *)
(*                                                                         *)
(* FoldLeft of SequencesExt is the value at DOMAIN s of a function that is *)
(* defined by recursion on the subsets of DOMAIN s, of which it takes the  *)
(* largest element off.  FoldRecursion shows that there is one; it takes   *)
(* the fold's operator as functions step[i] of the accumulator, one for    *)
(* each position.                                                          *)
(***************************************************************************)
EXTENDS Naturals, SequencesExt, SequenceTheorems, WellFoundedInduction, TLAPS

\* A set of naturals that is not empty has a smallest element.
LEMMA LeastNat ==
    ASSUME NEW T, T \subseteq Nat, T # {}
    PROVE  \E x \in T : \A y \in T : x <= y
<1> DEFINE R == {ss \in Nat \X Nat : ss[1] < ss[2]}
<1>1. IsWellFoundedOn(R, Nat)
  BY NatLessThanWellFounded, Zenon DEF OpToRel
<1>2. \A x, y \in Nat : y < x => <<y, x>> \in R
  OBVIOUS
<1> HIDE DEF R
<1>3. PICK x \in T : \A y \in T : ~ (<<y, x>> \in R)
  BY <1>1, WFMin
<1>4. ASSUME NEW y \in T PROVE x <= y
  <2>1. x \in Nat /\ y \in Nat
    OBVIOUS
  <2>2. ~(y < x)
    BY <1>2, <1>3, <2>1, Zenon
  <2>3. QED
    BY <2>1, <2>2
<1>5. QED
  BY <1>4

\* Min, where it exists.
LEMMA MinOfNats ==
    ASSUME NEW T \in SUBSET Nat, T # {}
    PROVE  Min(T) \in T /\ \A y \in T : Min(T) <= y
<1>1. \E x \in T : \A y \in T : x <= y
  BY LeastNat
<1>2. QED
  BY <1>1 DEF Min

\* Induction over the naturals, for a set.
LEMMA NatInduct ==
    ASSUME NEW S, 0 \in S, \A n \in Nat : n \in S => n + 1 \in S
    PROVE  Nat \subseteq S
<1> DEFINE T == {n \in Nat : n \notin S}
<1> SUFFICES ASSUME T # {} PROVE FALSE
  OBVIOUS
<1>1. PICK x \in T : \A y \in T : x <= y
  BY LeastNat
<1>2. x # 0 /\ x - 1 \in Nat
  OBVIOUS
<1>3. x - 1 \notin T
  BY <1>1, <1>2
<1>4. QED
  BY <1>1, <1>2, <1>3

\* Induction up to a bound.
LEMMA UpTo ==
    ASSUME NEW n \in Nat, NEW S, 0 \in S, \A i \in 0..n : i < n /\ i \in S => i + 1 \in S
    PROVE  0..n \subseteq S
<1> DEFINE T == {i \in Nat : i <= n => i \in S}
<1>1. 0 \in T
  OBVIOUS
<1>2. \A i \in Nat : i \in T => i + 1 \in T
  OBVIOUS
<1>3. Nat \subseteq T
  <2> HIDE DEF T
  <2> QED BY <1>1, <1>2, NatInduct
<1>4. QED
  BY <1>3

-----------------------------------------------------------------------------
\* Max of a set of positions.
LEMMA MaxPosition ==
    ASSUME NEW n \in Nat, NEW x \in SUBSET (1..n), x # {}
    PROVE  Max(x) \in x /\ \A y \in x : y <= Max(x)
<1> DEFINE T == {k \in Nat : \E y \in x : y + k = n}
<1>1. PICK y \in x : TRUE
  OBVIOUS
<1>2. n - y \in T
  OBVIOUS
<1>3. PICK t \in T : \A u \in T : t <= u
  <2>1. T \subseteq Nat
    OBVIOUS
  <2> HIDE DEF T
  <2> QED BY <1>2, <2>1, LeastNat
<1>4. PICK m \in x : m + t = n
  OBVIOUS
<1>5. \A z \in x : m >= z
  <2> SUFFICES ASSUME NEW z \in x PROVE m >= z
    OBVIOUS
  <2>1. n - z \in T
    OBVIOUS
  <2>2. t <= n - z
    BY <1>3, <2>1
  <2>3. QED
    BY <1>4, <2>2
<1>6. Max(x) \in x /\ \A z \in x : Max(x) >= z
  BY <1>5 DEF Max
<1>7. QED
  BY <1>6

\* The largest element of a subset of 1..(m + 1) that has m + 1.
LEMMA MaxLast ==
    ASSUME NEW m \in Nat, NEW x \in SUBSET (1..(m + 1)), m + 1 \in x
    PROVE  Max(x) = m + 1
<1>1. Max(x) \in x /\ \A y \in x : y <= Max(x)
  BY m + 1 \in Nat, x # {}, MaxPosition
<1>2. Max(x) \in 1..(m + 1) /\ m + 1 <= Max(x)
  BY <1>1
<1>3. QED
  BY <1>2

\* The recursion by which FoldLeft is defined, over subsets of 1..n.
Solves(it, n, a, step) ==
    \A x \in SUBSET (1..n) :
        it[x] = IF x = {} THEN a ELSE step[Max(x)][it[x \ {Max(x)}]]

\* A solution of the recursion up to m extends to m + 1.
LEMMA SolvesMore ==
    ASSUME NEW A, NEW a \in A, NEW m \in Nat, NEW step, step[m + 1] \in [A -> A],
           NEW it \in [SUBSET (1..m) -> A], Solves(it, m, a, step)
    PROVE  \E more \in [SUBSET (1..(m + 1)) -> A] : Solves(more, m + 1, a, step)
<1> DEFINE more == [x \in SUBSET (1..(m + 1)) |->
                      IF m + 1 \in x THEN step[m + 1][it[x \ {m + 1}]] ELSE it[x]]
<1>1. ASSUME NEW x \in SUBSET (1..(m + 1)) PROVE x \ {m + 1} \in SUBSET (1..m)
  OBVIOUS
<1>2. ASSUME NEW x \in SUBSET (1..(m + 1)), m + 1 \notin x PROVE x \in SUBSET (1..m)
  BY <1>2
<1>3. ASSUME NEW x \in SUBSET (1..(m + 1)) PROVE more[x] \in A
  BY <1>1, <1>2
<1>4. more \in [SUBSET (1..(m + 1)) -> A]
  BY <1>3
<1>5. ASSUME NEW x \in SUBSET (1..m)
      PROVE  x \in SUBSET (1..(m + 1)) /\ m + 1 \notin x /\ more[x] = it[x]
  <2>1. x \in SUBSET (1..(m + 1)) /\ m + 1 \notin x
    OBVIOUS
  <2>2. QED
    BY <2>1
<1>6. ASSUME NEW x \in SUBSET (1..(m + 1)), m + 1 \in x
      PROVE  more[x] = step[Max(x)][more[x \ {Max(x)}]]
  <2>1. Max(x) = m + 1
    BY <1>6, MaxLast
  <2>2. more[x \ {m + 1}] = it[x \ {m + 1}]
    BY <1>1, <1>5
  <2>3. more[x] = step[m + 1][it[x \ {m + 1}]]
    BY <1>6
  <2>4. QED
    BY <2>1, <2>2, <2>3
<1>7. ASSUME NEW x \in SUBSET (1..m), x # {}
      PROVE  more[x] = step[Max(x)][more[x \ {Max(x)}]]
  <2>1. x \ {Max(x)} \in SUBSET (1..m)
    OBVIOUS
  <2>2. more[x] = it[x] /\ more[x \ {Max(x)}] = it[x \ {Max(x)}]
    BY <1>5, <2>1
  <2>3. it[x] = step[Max(x)][it[x \ {Max(x)}]]
    BY <1>7 DEF Solves
  <2>4. QED
    BY <2>2, <2>3
<1>8. more[{}] = a
  <2>1. {} \in SUBSET (1..m)
    OBVIOUS
  <2>2. it[{}] = a
    BY <2>1 DEF Solves
  <2>3. QED
    BY <1>5, <2>1, <2>2
<1> HIDE DEF more
<1>9. Solves(more, m + 1, a, step)
  BY <1>2, <1>6, <1>7, <1>8 DEF Solves
<1>10. QED
  BY <1>4, <1>9

\* The recursion has a solution.
LEMMA FoldRecursion ==
    ASSUME NEW A, NEW a \in A, NEW n \in Nat, NEW step \in [1..n -> [A -> A]]
    PROVE  \E it \in [SUBSET (1..n) -> A] : Solves(it, n, a, step)
<1> DEFINE S == {m \in 0..n : \E it \in [SUBSET (1..m) -> A] : Solves(it, m, a, step)}
<1>1. 0 \in S
  <2> DEFINE it == [x \in SUBSET (1..0) |-> a]
  <2>1. it \in [SUBSET (1..0) -> A]
    OBVIOUS
  <2>2. 1..0 = {}
    OBVIOUS
  <2>3. Solves(it, 0, a, step)
    BY <2>2 DEF Solves
  <2> HIDE DEF it
  <2>4. \E i \in [SUBSET (1..0) -> A] : Solves(i, 0, a, step)
    BY <2>1, <2>3
  <2>5. QED
    BY <2>4, 0 \in 0..n
<1>2. ASSUME NEW m \in 0..n, m < n, m \in S PROVE m + 1 \in S
  <2>1. PICK it \in [SUBSET (1..m) -> A] : Solves(it, m, a, step)
    BY <1>2
  <2>2. m \in Nat /\ m + 1 \in 0..n /\ m + 1 \in 1..n
    BY <1>2
  <2>3. step[m + 1] \in [A -> A]
    BY <2>2
  <2>4. \E more \in [SUBSET (1..(m + 1)) -> A] : Solves(more, m + 1, a, step)
    BY <2>1, <2>2, <2>3, SolvesMore
  <2>5. QED
    BY <2>2, <2>4
<1>3. n \in S
  <2> HIDE DEF S
  <2>1. 0..n \subseteq S
    BY <1>1, <1>2, UpTo
  <2>2. n \in 0..n
    OBVIOUS
  <2>3. QED
    BY <2>1, <2>2
<1>4. QED
  BY <1>3

\* The sets at which the recursion arrives from 1..n.
LEMMA FirstPositions ==
    ASSUME NEW n \in Nat, NEW i \in 1..n
    PROVE  /\ 1..i \in SUBSET (1..n)
           /\ 1..i # {}
           /\ (1..i) \ {i} = 1..(i - 1)
           /\ Max(1..i) = i
<1>1. i - 1 \in Nat /\ (i - 1) + 1 = i
  OBVIOUS
<1>2. 1..i \in SUBSET (1..n) /\ i \in 1..i
  OBVIOUS
<1>3. Max(1..i) = i
  BY <1>1, <1>2, MaxLast
<1>4. 1..i # {}
  BY <1>2
<1>5. (1..i) \ {i} = 1..(i - 1)
  OBVIOUS
<1>6. QED
  BY <1>2, <1>3, <1>4, <1>5

\* Two iterations that begin alike and go on alike are alike.
LEMMA IterationsAgree ==
    ASSUME NEW n \in Nat, NEW f, NEW g, f[0] = g[0],
           \A i \in 1..n : f[i - 1] = g[i - 1] => f[i] = g[i]
    PROVE  f[n] = g[n]
<1> DEFINE S == {i \in 0..n : f[i] = g[i]}
<1>1. 0 \in S
  OBVIOUS
<1>2. ASSUME NEW i \in 0..n, i < n, i \in S PROVE i + 1 \in S
  <2>1. i + 1 \in 1..n /\ (i + 1) - 1 = i
    BY <1>2
  <2> QED BY <1>2, <2>1
<1>3. 0..n \subseteq S
  <2> HIDE DEF S
  <2> QED BY <1>1, <1>2, UpTo
<1>4. QED
  BY <1>3, n \in 0..n

-----------------------------------------------------------------------------
\* Induction over sequences, which are built by Append.
LEMMA SeqInduct ==
    ASSUME NEW B, NEW S, <<>> \in S,
           \A s \in Seq(B), e \in B : s \in S => Append(s, e) \in S
    PROVE  Seq(B) \subseteq S
<1> DEFINE T == {n \in Nat : \A s \in Seq(B) : Len(s) = n => s \in S}
<1>1. 0 \in T
  BY EmptySeq
<1>2. ASSUME NEW n \in Nat, n \in T PROVE n + 1 \in T
  <2> SUFFICES ASSUME NEW s \in Seq(B), Len(s) = n + 1 PROVE s \in S
    OBVIOUS
  <2>1. PICK t \in Seq(B), e \in B : s = Append(t, e)
    BY SequenceEmptyOrAppend
  <2>2. Len(t) = n
    BY <2>1
  <2>3. t \in S
    BY <1>2, <2>2
  <2>4. QED
    BY <2>1, <2>3
<1>3. Nat \subseteq T
  <2> HIDE DEF T
  <2> QED BY <1>1, <1>2, NatInduct
<1>4. QED
  BY <1>3
=============================================================================
