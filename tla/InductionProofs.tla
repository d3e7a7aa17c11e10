-------------------------- MODULE InductionProofs --------------------------
(***************************************************************************)
(* What the other proofs share: induction without a predicate.  What is to *)
(* be shown is a set, of numbers or of subsets, and what it has at 0, or   *)
(* for the empty set, and passes on from each to the next it has for all   *)
(* (StepByStep, SubsetBySubset).  With these, the functions exist that the *)
(* folds of the community modules choose, and are what their definitions   *)
(* say.                                                                    *)
(***************************************************************************)
EXTENDS Integers, SequencesExt, SequenceTheorems, FiniteSetTheorems,
        WellFoundedInduction, TLAPS

-----------------------------------------------------------------------------
(* Numbers and subsets.                                                    *)

\* A set of numbers has a least one.
LEMMA LeastOf ==
    ASSUME NEW T, T \subseteq Nat, T # {}
    PROVE  \E m \in T : \A n \in T : m <= n
  <1> DEFINE R == OpToRel(<, Nat)
  <1>1. IsWellFoundedOn(R, Nat)
    BY NatLessThanWellFounded
  <1>2. \A x, y \in Nat : x < y => <<x, y>> \in R
    BY DEF OpToRel
  <1> HIDE DEF R
  <1>3. PICK x \in T : \A y \in T : ~ (<<y, x>> \in R)
    BY <1>1, WFMin
  <1>4. ASSUME NEW y \in T PROVE x <= y
    <2>1. ~(y < x)
      BY <1>2, <1>3
    <2> QED BY <2>1
  <1> QED BY <1>4

\* Induction up to N, over a set: what is not in it would have a least element.
LEMMA StepByStep ==
    ASSUME NEW N \in Nat, NEW T, 0 \in T,
           \A n \in 1..N : n - 1 \in T => n \in T
    PROVE  \A n \in 0..N : n \in T
  <1> DEFINE M == {n \in 0..N : n \notin T}
  <1>1. SUFFICES ASSUME M # {} PROVE FALSE
    OBVIOUS
  <1>2. M \subseteq Nat
    OBVIOUS
  <1> HIDE DEF M
  <1>3. PICK m \in M : \A n \in M : m <= n
    BY <1>1, <1>2, LeastOf
  <1>4. m # 0 /\ m \in 1..N /\ m \notin T
    BY <1>3 DEF M
  <1>5. m - 1 \in 0..N /\ m - 1 \notin M
    BY <1>3, <1>4
  <1> QED BY <1>4, <1>5 DEF M

\* Induction over the subsets of a finite set: a family that has the empty set,
\* and each set of which it has all that lack an element, has them all.
LEMMA SubsetBySubset ==
    ASSUME NEW U, IsFiniteSet(U), NEW G, {} \in G,
           \A T \in SUBSET U : T # {} /\ (\A x \in T : T \ {x} \in G) => T \in G
    PROVE  \A T \in SUBSET U : T \in G
  <1> DEFINE N == {n \in 0..Cardinality(U) :
                     \A T \in SUBSET U : Cardinality(T) = n => T \in G}
  <1>1. Cardinality(U) \in Nat
    BY FS_CardinalityType
  <1>2. \A T \in SUBSET U : IsFiniteSet(T) /\ Cardinality(T) \in 0..Cardinality(U)
    <2> TAKE T \in SUBSET U
    <2>1. IsFiniteSet(T) /\ Cardinality(T) <= Cardinality(U)
      BY FS_Subset
    <2>2. Cardinality(T) \in Nat
      BY <2>1, FS_CardinalityType
    <2> QED BY <1>1, <2>1, <2>2
  <1>3. 0 \in N
    <2>1. \A T \in SUBSET U : Cardinality(T) = 0 => T = {}
      BY <1>2, FS_EmptySet
    <2> QED BY <1>1, <2>1
  <1>4. ASSUME NEW n \in 1..Cardinality(U), n - 1 \in N PROVE n \in N
    <2>1. ASSUME NEW T \in SUBSET U, Cardinality(T) = n PROVE T \in G
      <3>1. T # {}
        BY <1>1, <2>1, FS_EmptySet
      <3>2. ASSUME NEW x \in T PROVE T \ {x} \in G
        <4>1. Cardinality(T \ {x}) = n - 1
          BY <1>2, <2>1, FS_RemoveElement
        <4>2. T \ {x} \in SUBSET U
          OBVIOUS
        <4> QED BY <1>4, <4>1, <4>2
      <3> QED BY <3>1, <3>2
    <2> QED BY <1>1, <2>1
  <1> HIDE DEF N
  <1>5. \A n \in 0..Cardinality(U) : n \in N
    BY <1>1, <1>3, <1>4, StepByStep
  <1> QED BY <1>2, <1>5 DEF N

-----------------------------------------------------------------------------
(* Functions that are defined by recursion.                                *)

\* h is such a function for the subsets up to a size.
FoldsUpTo(h, U, base, F, c, n) ==
    \A T \in SUBSET U :
        Cardinality(T) <= n => h[T] = IF T = {} THEN base ELSE F[<<c[T], h[T \ {c[T]}]>>]

\* h is such a function for all of them.
Folds(h, U, base, F, c) ==
    \A T \in SUBSET U : h[T] = IF T = {} THEN base ELSE F[<<c[T], h[T \ {c[T]}]>>]

\* A function of the subsets of a finite set may be defined by what it is at the
\* subset without the element that choose picks: F makes its value from both.
LEMMA FoldExists ==
    ASSUME NEW U, IsFiniteSet(U), NEW V, NEW base \in V, NEW F \in [U \X V -> V],
           NEW c, \A T \in SUBSET U : T # {} => c[T] \in T
    PROVE  \E h \in [SUBSET U -> V] : Folds(h, U, base, F, c)
  <1> DEFINE N == {n \in 0..Cardinality(U) :
                     \E h \in [SUBSET U -> V] : FoldsUpTo(h, U, base, F, c, n)}
  <1>1. Cardinality(U) \in Nat
    BY FS_CardinalityType
  <1>2. \A T \in SUBSET U : IsFiniteSet(T) /\ Cardinality(T) \in 0..Cardinality(U)
    <2> TAKE T \in SUBSET U
    <2>1. IsFiniteSet(T) /\ Cardinality(T) <= Cardinality(U)
      BY FS_Subset
    <2>2. Cardinality(T) \in Nat
      BY <2>1, FS_CardinalityType
    <2> QED BY <1>1, <2>1, <2>2
  <1>3. 0 \in N
    <2> DEFINE h == [T \in SUBSET U |-> base]
    <2>1. h \in [SUBSET U -> V]
      OBVIOUS
    <2>2. \A T \in SUBSET U : Cardinality(T) <= 0 => T = {}
      BY <1>2, FS_EmptySet
    <2>3. FoldsUpTo(h, U, base, F, c, 0)
      BY <2>2 DEF FoldsUpTo
    <2> HIDE DEF h
    <2>4. 0 \in 0..Cardinality(U)
      BY <1>1
    <2> QED BY <2>1, <2>3, <2>4
  <1>4. ASSUME NEW n \in 1..Cardinality(U), n - 1 \in N PROVE n \in N
    <2>1. PICK h \in [SUBSET U -> V] : FoldsUpTo(h, U, base, F, c, n - 1)
      BY <1>4
    <2> DEFINE g == [T \in SUBSET U |->
                        IF T = {} THEN base ELSE F[<<c[T], h[T \ {c[T]}]>>]]
    <2>2. ASSUME NEW T \in SUBSET U, T # {}
          PROVE  /\ c[T] \in U /\ T \ {c[T]} \in SUBSET U
                 /\ h[T \ {c[T]}] \in V
                 /\ Cardinality(T) <= n => Cardinality(T \ {c[T]}) <= n - 1
      <3>1. c[T] \in T
        BY <2>2
      <3>2. Cardinality(T \ {c[T]}) = Cardinality(T) - 1
        BY <1>2, <3>1, FS_RemoveElement
      <3>3. Cardinality(T) \in Nat
        BY <1>2
      <3> QED BY <3>1, <3>2, <3>3
    <2>3. g \in [SUBSET U -> V]
      <3>1. ASSUME NEW T \in SUBSET U, T # {} PROVE F[<<c[T], h[T \ {c[T]}]>>] \in V
        BY <2>2, <3>1
      <3> QED BY <3>1
    <2>4. ASSUME NEW S \in SUBSET U, Cardinality(S) <= n - 1 PROVE g[S] = h[S]
      BY <2>1, <2>4 DEF FoldsUpTo
    <2>5. ASSUME NEW T \in SUBSET U, Cardinality(T) <= n
          PROVE  g[T] = IF T = {} THEN base ELSE F[<<c[T], g[T \ {c[T]}]>>]
      <3>1. CASE T = {}
        BY <3>1
      <3>2. CASE T # {}
        <4>1. g[T \ {c[T]}] = h[T \ {c[T]}]
          <5> HIDE DEF g
          <5> QED BY <2>2, <2>4, <2>5, <3>2
        <4> QED BY <3>2, <4>1
      <3> QED BY <3>1, <3>2
    <2>6. FoldsUpTo(g, U, base, F, c, n)
      <3> HIDE DEF g
      <3> QED BY <2>5 DEF FoldsUpTo
    <2> HIDE DEF g
    <2> QED BY <2>3, <2>6
  <1> HIDE DEF N
  <1>5. \A n \in 0..Cardinality(U) : n \in N
    BY <1>1, <1>3, <1>4, StepByStep
  <1>6. PICK h \in [SUBSET U -> V] : FoldsUpTo(h, U, base, F, c, Cardinality(U))
    <2>1. Cardinality(U) \in 0..Cardinality(U)
      BY <1>1
    <2>2. Cardinality(U) \in N
      BY <1>5, <2>1
    <2> QED BY <2>2 DEF N
  <1>7. Folds(h, U, base, F, c)
    <2>1. \A T \in SUBSET U : Cardinality(T) <= Cardinality(U)
      BY <1>1, <1>2
    <2> QED BY <1>6, <2>1 DEF FoldsUpTo, Folds
  <1> QED BY <1>7

Iterates(h, base, F, N) == h[0] = base /\ \A k \in 1..N : h[k] = F[h[k - 1]]

\* Each value of a sequence may be made from the one before.
LEMMA IterExists ==
    ASSUME NEW V, NEW base \in V, NEW F \in [V -> V], NEW N \in Nat
    PROVE  \E h \in [0..N -> V] : Iterates(h, base, F, N)
  <1> DEFINE T == {n \in 0..N : \E h \in [0..n -> V] : Iterates(h, base, F, n)}
  <1>1. 0 \in T
    <2> DEFINE h == [k \in 0..0 |-> base]
    <2>1. h \in [0..0 -> V] /\ h[0] = base /\ 1..0 = {}
      OBVIOUS
    <2> HIDE DEF h
    <2>2. Iterates(h, base, F, 0)
      BY <2>1 DEF Iterates
    <2> QED BY <2>1, <2>2
  <1>2. ASSUME NEW n \in 1..N, n - 1 \in T PROVE n \in T
    <2>1. PICK g \in [0..n - 1 -> V] : Iterates(g, base, F, n - 1)
      BY <1>2
    <2> DEFINE h == [k \in 0..n |-> IF k = n THEN F[g[n - 1]] ELSE g[k]]
    <2>2. n \in Nat /\ n \in 0..n /\ n - 1 \in 0..n - 1 /\ 0 \in 0..n - 1
          /\ \A k \in 0..n - 1 : k \in 0..n /\ k # n
      OBVIOUS
    <2>3. F[g[n - 1]] \in V
      BY <2>1, <2>2
    <2>4. h \in [0..n -> V]
      BY <2>1, <2>3
    <2>5. h[n] = F[g[n - 1]] /\ \A k \in 0..n - 1 : h[k] = g[k]
      BY <2>2
    <2> HIDE DEF h
    <2>6. ASSUME NEW k \in 1..n PROVE h[k] = F[h[k - 1]]
      <3>1. CASE k = n
        BY <2>2, <2>5, <3>1
      <3>2. CASE k # n
        <4>1. k \in 1..n - 1 /\ k \in 0..n - 1 /\ k - 1 \in 0..n - 1
          BY <2>2, <3>2
        <4> QED BY <2>1, <2>5, <4>1 DEF Iterates
      <3> QED BY <3>1, <3>2
    <2>7. h[0] = base
      BY <2>1, <2>2, <2>5 DEF Iterates
    <2>8. Iterates(h, base, F, n)
      BY <2>6, <2>7 DEF Iterates
    <2> QED BY <2>4, <2>8
  <1> HIDE DEF T
  <1>3. \A n \in 0..N : n \in T
    BY <1>1, <1>2, StepByStep
  <1>4. N \in T
    <2>1. N \in 0..N
      OBVIOUS
    <2> QED BY <1>3, <2>1
  <1> QED BY <1>4 DEF T

-----------------------------------------------------------------------------
(* FlattenSeq, step by step.                                               *)

\* g[i] is what the first i sequences of q come to.
Flattens(g, q, n) == g[0] = <<>> /\ \A i \in 1..n : g[i] = g[i - 1] \o q[i]

LEMMA FlattenExists ==
    ASSUME NEW S, NEW q \in Seq(Seq(S))
    PROVE  \E g \in [0..Len(q) -> Seq(S)] : Flattens(g, q, Len(q))
  <1> DEFINE T == {n \in 0..Len(q) : \E g \in [0..n -> Seq(S)] : Flattens(g, q, n)}
  <1>0. Len(q) \in Nat
    OBVIOUS
  <1>1. 0 \in T
    <2> DEFINE g == [i \in 0..0 |-> <<>>]
    <2>1. g \in [0..0 -> Seq(S)] /\ g[0] = <<>> /\ 1..0 = {}
      OBVIOUS
    <2> HIDE DEF g
    <2>2. Flattens(g, q, 0)
      BY <2>1 DEF Flattens
    <2> QED BY <1>0, <2>1, <2>2
  <1>2. ASSUME NEW n \in 1..Len(q), n - 1 \in T PROVE n \in T
    <2>1. PICK g \in [0..n - 1 -> Seq(S)] : Flattens(g, q, n - 1)
      BY <1>2
    <2> DEFINE h == [i \in 0..n |-> IF i = n THEN g[n - 1] \o q[n] ELSE g[i]]
    <2>2. q[n] \in Seq(S) /\ g[n - 1] \in Seq(S)
      BY <2>1
    <2>3. g[n - 1] \o q[n] \in Seq(S)
      BY <2>2
    <2>4. h \in [0..n -> Seq(S)]
      BY <2>1, <2>3
    <2>n. n \in Nat /\ n \in 0..n /\ n - 1 \in 0..n - 1 /\ \A i \in 0..n - 1 : i \in 0..n /\ i # n
      BY <1>0
    <2>5. h[n] = g[n - 1] \o q[n] /\ \A i \in 0..n - 1 : h[i] = g[i]
      BY <2>n
    <2> HIDE DEF h
    <2>6. ASSUME NEW i \in 1..n PROVE h[i] = h[i - 1] \o q[i]
      <3>1. CASE i = n
        BY <2>n, <2>5, <3>1
      <3>2. CASE i # n
        <4>1. i \in 1..n - 1 /\ i \in 0..n - 1 /\ i - 1 \in 0..n - 1
          BY <2>n, <3>2
        <4> QED BY <2>1, <2>5, <4>1 DEF Flattens
      <3> QED BY <3>1, <3>2
    <2>7. h[0] = <<>>
      <3>1. g[0] = <<>> /\ 0 \in 0..n - 1
        BY <2>n, <2>1 DEF Flattens
      <3> QED BY <2>5, <3>1
    <2>8. Flattens(h, q, n)
      BY <2>6, <2>7 DEF Flattens
    <2> QED BY <2>4, <2>8
  <1> HIDE DEF T
  <1>3. Len(q) \in T
    <2>1. \A n \in 0..Len(q) : n \in T
      BY <1>0, <1>1, <1>2, StepByStep
    <2> QED BY <1>0, <2>1
  <1> QED BY <1>3 DEF T

LEMMA FlattenSteps ==
    ASSUME NEW S, NEW q \in Seq(Seq(S))
    PROVE  \E g \in [0..Len(q) -> Seq(S)] :
              Flattens(g, q, Len(q)) /\ FlattenSeq(q) = g[Len(q)]
  <1>0. Len(q) \in Nat
    OBVIOUS
  <1>1. PICK g \in [0..Len(q) -> Seq(S)] : Flattens(g, q, Len(q))
    BY FlattenExists
  <1>2. CASE Len(q) = 0
    BY <1>1, <1>2 DEF FlattenSeq, Flattens
  <1>3. CASE Len(q) > 0
    <2> DEFINE Is(f) == f = [i \in 1..Len(q) |-> IF i = 1 THEN q[i] ELSE f[i - 1] \o q[i]]
               flat == CHOOSE f : Is(f)
               f0 == [i \in 1..Len(q) |-> g[i]]
    <2>0. g[0] = <<>> /\ \A i \in 1..Len(q) : g[i] = g[i - 1] \o q[i] /\ q[i] \in Seq(S)
      BY <1>1 DEF Flattens
    <2>1. Is(f0)
      <3>1. ASSUME NEW i \in 1..Len(q)
            PROVE  f0[i] = IF i = 1 THEN q[i] ELSE f0[i - 1] \o q[i]
        <4>1. CASE i = 1
          <5>1. g[1] = g[0] \o q[1] /\ q[1] \in Seq(S)
            BY <2>0, <4>1, 1 - 1 = 0
          <5>2. g[1] = q[1]
            BY <2>0, <5>1
          <5> QED BY <4>1, <5>2
        <4>2. CASE i # 1
          <5>1. i - 1 \in 1..Len(q) /\ f0[i] = g[i] /\ f0[i - 1] = g[i - 1]
            BY <4>2
          <5> QED BY <2>0, <4>2, <5>1
        <4> QED BY <4>1, <4>2
      <3> QED BY <3>1
    <2>2. Is(flat)
      <3> HIDE DEF Is, f0
      <3> QED BY <2>1
    <2>3. FlattenSeq(q) = flat[Len(q)]
      BY <1>3 DEF FlattenSeq
    <2> HIDE DEF flat
    <2>4. ASSUME NEW i \in 1..Len(q)
          PROVE  flat[i] = IF i = 1 THEN q[i] ELSE flat[i - 1] \o q[i]
      BY <2>2
    <2> HIDE DEF Is, f0
    <2> DEFINE T == {i \in 0..Len(q) : i > 0 => flat[i] = g[i]}
    <2>5. 0 \in T
      OBVIOUS
    <2>6. ASSUME NEW n \in 1..Len(q), n - 1 \in T PROVE n \in T
      <3>1. CASE n = 1
        <4>1. flat[1] = q[1] /\ g[1] = <<>> \o q[1] /\ q[1] \in Seq(S)
          BY <2>0, <2>4, <3>1
        <4> QED BY <3>1, <4>1
      <3>2. CASE n # 1
        <4>1. n - 1 > 0
          BY <1>0, <3>2
        <4>2. flat[n - 1] = g[n - 1]
          BY <2>6, <4>1
        <4>3. flat[n] = flat[n - 1] \o q[n] /\ g[n] = g[n - 1] \o q[n]
          BY <2>0, <2>4, <3>2
        <4>4. flat[n] = g[n] /\ n \in 0..Len(q)
          BY <1>0, <4>2, <4>3
        <4> QED BY <4>4
      <3> QED BY <3>1, <3>2
    <2> HIDE DEF T
    <2>7. \A n \in 0..Len(q) : n \in T
      BY <1>0, <2>5, <2>6, StepByStep
    <2>8. Len(q) \in T
      BY <2>7
    <2> QED BY <1>1, <1>3, <2>3, <2>8 DEF T
  <1> QED BY <1>2, <1>3

\* One sequence more is joined at the end.
LEMMA FlattenAppended ==
    ASSUME NEW S, NEW p \in Seq(Seq(S)), NEW x \in Seq(S)
    PROVE  FlattenSeq(p) \in Seq(S) /\ FlattenSeq(Append(p, x)) = FlattenSeq(p) \o x
  <1> DEFINE P == Append(p, x)
             n == Len(p)
  <1>1. n \in Nat /\ P \in Seq(Seq(S)) /\ Len(P) = n + 1 /\ P[n + 1] = x /\ \A i \in 1..n : P[i] = p[i]
    OBVIOUS
  <1> HIDE DEF P, n
  <1>2. PICK g \in [0..n -> Seq(S)] : Flattens(g, p, n) /\ FlattenSeq(p) = g[n]
    BY FlattenSteps DEF n
  <1>3. PICK h \in [0..n + 1 -> Seq(S)] : Flattens(h, P, n + 1) /\ FlattenSeq(P) = h[n + 1]
    BY <1>1, FlattenSteps
  <1> DEFINE T == {i \in 0..n : g[i] = h[i]}
  <1>4. 0 \in T
    BY <1>1, <1>2, <1>3 DEF Flattens
  <1>5. ASSUME NEW i \in 1..n, i - 1 \in T PROVE i \in T
    <2>1. i \in 1..n + 1 /\ i \in 0..n
      BY <1>1
    <2>2. g[i] = g[i - 1] \o p[i] /\ h[i] = h[i - 1] \o P[i]
      BY <1>2, <1>3, <2>1 DEF Flattens
    <2> QED BY <1>1, <1>5, <2>1, <2>2
  <1> HIDE DEF T
  <1>6. \A i \in 0..n : i \in T
    BY <1>1, <1>4, <1>5, StepByStep
  <1>7. g[n] = h[n] /\ g[n] \in Seq(S)
    BY <1>1, <1>2, <1>6 DEF T
  <1>8. h[n + 1] = h[n] \o P[n + 1]
    <2>1. n + 1 \in 1..n + 1 /\ (n + 1) - 1 = n
      BY <1>1
    <2>2. h[n + 1] = h[(n + 1) - 1] \o P[n + 1]
      BY <1>3, <2>1 DEF Flattens
    <2> QED BY <2>1, <2>2
  <1> QED BY <1>1, <1>2, <1>3, <1>7, <1>8 DEF P

LEMMA NothingFlattened == FlattenSeq(<<>>) = <<>>
  <1>1. \A f : Len(f) = 0 => FlattenSeq(f) = f
    BY DEF FlattenSeq
  <1> QED BY <1>1
=============================================================================
