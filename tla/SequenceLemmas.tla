--------------------------- MODULE SequenceLemmas ---------------------------
(***************************************************************************)
(* What the proofs of this project need to know of the operators of the    *)
(* community modules that are defined by recursion.  The induction schemes *)
(* of the library have a predicate as a parameter; the ones here are about *)
(* sets, and follow from the order of finite sets being well founded.      *)
(***************************************************************************)
EXTENDS Integers, Sequences, FiniteSets, SequencesExt, FiniteSetTheorems, SequenceTheorems, TLAPS

\* A set of subsets of a finite set has a smallest member.
LEMMA Smallest ==
  ASSUME NEW S, IsFiniteSet(S), NEW F \in SUBSET SUBSET S, F # {}
  PROVE  \E T \in F : \A U \in F : U \subseteq T => U = T
<1> DEFINE R == StrictSubsetOrdering(S)
<1>1. IsWellFoundedOn(R, FiniteSubsetsOf(S)) /\ FiniteSubsetsOf(S) = SUBSET S
  BY FS_StrictSubsetOrderingWellFounded, FS_FiniteSubsetsOfFinite
<1>2. \A U, T \in SUBSET S : U \subseteq T /\ U # T => <<U, T>> \in R
  BY DEF StrictSubsetOrdering
<1> HIDE DEF R
<1>3. \E T \in F : \A U \in F : <<U, T>> \notin R
  BY <1>1, WFMin
<1> QED
  BY <1>2, <1>3

\* So has a set of numbers.
LEMMA Least ==
  ASSUME NEW A \in SUBSET Nat, A # {}
  PROVE  \E m \in A : \A n \in A : m <= n
<1> DEFINE T == {1..n : n \in A}
           R == StrictSubsetOrdering(Nat)
<1>1. IsWellFoundedOn(R, FiniteSubsetsOf(Nat))
  BY FS_StrictSubsetOrderingWellFounded
<1>2. T \subseteq FiniteSubsetsOf(Nat) /\ T # {}
  <2>1. \A n \in Nat : 1..n \in FiniteSubsetsOf(Nat)
    BY FS_Interval DEF FiniteSubsetsOf
  <2> QED
    BY <2>1
<1>3. \E x \in T : \A y \in T : <<y, x>> \notin R
  <2> HIDE DEF T, R
  <2> QED
    BY <1>1, <1>2, WFMin
<1>4. PICK m \in A : \A n \in A : <<1..n, 1..m>> \notin R
  BY <1>3
<1>5. ASSUME NEW n \in A, n < m PROVE FALSE
  <2>1. 1..n \subseteq 1..m /\ m \in 1..m /\ m \notin 1..n
    BY <1>5
  <2>2. <<1..n, 1..m>> \in R
    BY <2>1 DEF StrictSubsetOrdering
  <2> QED
    BY <1>4, <1>5, <2>2
<1> QED
  BY <1>4, <1>5

\* Ordinary induction, over a set in place of a predicate.
LEMMA Induction ==
  ASSUME NEW A, 0 \in A, \A n \in Nat : n \in A => n + 1 \in A
  PROVE  Nat \subseteq A
<1> SUFFICES ASSUME Nat \ A # {} PROVE FALSE
  OBVIOUS
<1>1. PICK m \in Nat \ A : \A n \in Nat \ A : m <= n
  BY Least
<1>2. m - 1 \in Nat /\ m - 1 \notin Nat \ A
  BY <1>1
<1> QED
  BY <1>1, <1>2

\* A step takes an element of X and a value to a value.
IsStep(step, X, V) == step \in [X \X V -> V]

\* g[i] is the value after i steps.
Iterates(g, n, V, base, step) ==
  /\ g \in [0..n -> V] /\ g[0] = base
  /\ \A i \in 1..n : g[i] = step[<<i, g[i - 1]>>]

\* A function may be defined by recursion on the numbers up to n.
LEMMA NatRecursion ==
  ASSUME NEW n \in Nat, NEW V, NEW base \in V, NEW step, IsStep(step, 1..n, V)
  PROVE  \E g : Iterates(g, n, V, base, step)
<1> USE DEF IsStep, Iterates
<1> DEFINE Good(m, g) == /\ g \in [0..m -> V] /\ g[0] = base
                         /\ \A i \in 1..m : g[i] = step[<<i, g[i - 1]>>]
           A == {m \in Nat : m <= n => \E g : Good(m, g)}
<1>1. 0 \in A
  <2>1. Good(0, [i \in 0..0 |-> base])
    OBVIOUS
  <2> QED
    BY <2>1
<1>2. ASSUME NEW m \in A PROVE m + 1 \in A
  <2> SUFFICES ASSUME m + 1 <= n PROVE \E g : Good(m + 1, g)
    OBVIOUS
  <2>1. PICK g : Good(m, g)
    OBVIOUS
  <2> DEFINE h == [i \in 0..m + 1 |-> IF i = m + 1 THEN step[<<m + 1, g[m]>>] ELSE g[i]]
  <2>2. step[<<m + 1, g[m]>>] \in V
    BY <2>1
  <2>3. /\ h \in [0..m + 1 -> V] /\ h[m + 1] = step[<<m + 1, g[m]>>]
        /\ \A i \in 0..m : h[i] = g[i]
    BY <2>1, <2>2
  <2> HIDE DEF h
  <2>4. ASSUME NEW i \in 1..m + 1 PROVE h[i] = step[<<i, h[i - 1]>>]
    <3>1. CASE i = m + 1
      <4>1. h[m] = g[m] /\ i - 1 = m
        BY <2>3, <3>1
      <4> QED
        BY <2>3, <3>1, <4>1
    <3>2. CASE i \in 1..m
      BY <2>1, <2>3, <3>2
    <3> QED
      BY <3>1, <3>2
  <2>5. Good(m + 1, h)
    BY <2>1, <2>3, <2>4
  <2> QED
    BY <2>5
<1>3. n \in A
  <2> HIDE DEF A
  <2> QED
    BY <1>1, <1>2, Induction
<1> QED
  BY <1>3

-----------------------------------------------------------------------------
\* g is what a fold computes on the subsets of T.
Folds(g, T, base, step, choice) ==
  \A U \in SUBSET T : g[U] = IF U = {} THEN base ELSE step[<<choice[U], g[U \ {choice[U]}]>>]

\* Folds agree where they meet.
LEMMA FoldsAgree ==
  ASSUME NEW S, IsFiniteSet(S), NEW base, NEW step, NEW choice,
         \A U \in SUBSET S : U # {} => choice[U] \in U,
         NEW g, NEW h, NEW T \in SUBSET S,
         Folds(g, T, base, step, choice), Folds(h, T, base, step, choice)
  PROVE  g[T] = h[T]
<1> DEFINE F == {U \in SUBSET T : g[U] # h[U]}
<1> SUFFICES ASSUME F # {} PROVE FALSE
  OBVIOUS
<1>1. PICK U \in F : \A W \in F : W \subseteq U => W = U
  <2>1. F \in SUBSET SUBSET S
    OBVIOUS
  <2> HIDE DEF F
  <2> QED
    BY <2>1, Smallest
<1>2. U # {} /\ choice[U] \in U /\ U \ {choice[U]} \in SUBSET T
  BY <1>1 DEF Folds
<1>3. g[U \ {choice[U]}] = h[U \ {choice[U]}]
  BY <1>1, <1>2
<1> QED
  BY <1>1, <1>2, <1>3 DEF Folds

\* A fold over a finite set is defined.
LEMMA SetRecursion ==
  ASSUME NEW S, IsFiniteSet(S), NEW V, NEW base \in V, NEW step, IsStep(step, S, V), NEW choice,
         \A U \in SUBSET S : U # {} => choice[U] \in U
  PROVE  \E g : g \in [SUBSET S -> V] /\ Folds(g, S, base, step, choice)
<1> USE DEF IsStep
<1> DEFINE Good(g, T) == g \in [SUBSET T -> V] /\ Folds(g, T, base, step, choice)
           F == {T \in SUBSET S : ~ \E g : Good(g, T)}
<1> SUFFICES ASSUME F # {} PROVE FALSE
  OBVIOUS
<1>1. PICK T \in F : \A W \in F : W \subseteq T => W = T
  <2>1. F \in SUBSET SUBSET S
    OBVIOUS
  <2> HIDE DEF F
  <2> QED
    BY <2>1, Smallest
<1> DEFINE sub(W) == CHOOSE g : Good(g, W)
           less(U) == U \ {choice[U]}
           h == [U \in SUBSET T |-> IF U = {} THEN base ELSE step[<<choice[U], sub(less(U))[less(U)]>>]]
<1>2. ASSUME NEW W \in SUBSET T, W # T PROVE Good(sub(W), W)
  <2>1. W \notin F
    BY <1>1, <1>2
  <2>2. PICK g : Good(g, W)
    BY <2>1
  <2> HIDE DEF Good
  <2> QED
    BY <2>2
<1>3. \A U \in SUBSET T : U # {} => less(U) \in SUBSET T /\ less(U) # T /\ choice[U] \in S
  OBVIOUS
<1> HIDE DEF sub
<1>4. h \in [SUBSET T -> V]
  <2>1. ASSUME NEW U \in SUBSET T, U # {} PROVE step[<<choice[U], sub(less(U))[less(U)]>>] \in V
    <3>1. Good(sub(less(U)), less(U)) /\ choice[U] \in S
      BY <1>2, <1>3, <2>1
    <3>2. sub(less(U))[less(U)] \in V
      BY <3>1
    <3> QED
      BY <3>1, <3>2
  <2> QED
    BY <2>1
<1>5. ASSUME NEW U \in SUBSET T, U # {} PROVE h[less(U)] = sub(less(U))[less(U)]
  <2> DEFINE W == less(U)
  <2>1. Good(sub(W), W) /\ W \in SUBSET T
    BY <1>2, <1>3, <1>5
  <2>2. CASE W = {}
    BY <2>1, <2>2 DEF Folds
  <2>3. CASE W # {}
    <3>1. Good(sub(less(W)), less(W)) /\ less(W) \in SUBSET S /\ less(W) \in SUBSET W
      BY <1>2, <1>3, <2>1, <2>3
    <3>2. Folds(sub(W), less(W), base, step, choice)
      BY <2>1, <3>1 DEF Folds
    <3>3. sub(W)[less(W)] = sub(less(W))[less(W)]
      <4> HIDE DEF less
      <4> QED
        BY <3>1, <3>2, FoldsAgree
    <3>4. sub(W)[W] = step[<<choice[W], sub(W)[less(W)]>>]
      BY <2>1, <2>3 DEF Folds
    <3>5. h[W] = step[<<choice[W], sub(less(W))[less(W)]>>]
      BY <2>1, <2>3
    <3> QED
      BY <3>3, <3>4, <3>5
  <2> QED
    BY <2>2, <2>3
<1>6. Folds(h, T, base, step, choice)
  BY <1>5 DEF Folds
<1> QED
  BY <1>1, <1>4, <1>6
-----------------------------------------------------------------------------
\* g[i] is the first i of these sequences, one after another.
Flattens(g, seqs) ==
  g = [i \in 1..Len(seqs) |-> IF i = 1 THEN seqs[i] ELSE g[i - 1] \o seqs[i]]

\* Nothing flattens to nothing.
LEMMA FlattenEmpty == FlattenSeq(<<>>) = <<>>
BY DEF FlattenSeq

\* FlattenSeq is what the recursion comes to at its last index.
LEMMA FlattenBy ==
  ASSUME NEW S, NEW seqs \in Seq(Seq(S)), seqs # <<>>
  PROVE  \E g : Flattens(g, seqs) /\ FlattenSeq(seqs) = g[Len(seqs)]
<1> DEFINE n    == Len(seqs)
           step == [x \in (1..n) \X Seq(S) |-> x[2] \o seqs[x[1]]]
<1>1. n \in Nat \ {0} /\ \A i \in 1..n : seqs[i] \in Seq(S)
  BY EmptySeq, ElementOfSeq
<1>2. step \in [(1..n) \X Seq(S) -> Seq(S)] /\ <<>> \in Seq(S)
  BY <1>1, ConcatProperties
<1>3. \A i \in 1..n, v \in Seq(S) : step[<<i, v>>] = v \o seqs[i]
  OBVIOUS
<1> HIDE DEF step
<1>4. PICK f \in [0..n -> Seq(S)] :
        f[0] = <<>> /\ \A i \in 1..n : f[i] = step[<<i, f[i - 1]>>]
  <2>1. n \in Nat /\ <<>> \in Seq(S) /\ IsStep(step, 1..n, Seq(S))
    BY <1>1, <1>2 DEF IsStep
  <2>2. \E f : Iterates(f, n, Seq(S), <<>>, step)
    BY <2>1, NatRecursion
  <2> QED
    BY <2>2 DEF Iterates
<1> DEFINE g == [i \in 1..n |-> f[i]]
<1>5. ASSUME NEW i \in 1..n PROVE g[i] = IF i = 1 THEN seqs[i] ELSE g[i - 1] \o seqs[i]
  <2>1. i - 1 \in 0..n
    BY <1>1
  <2>2. f[i] = f[i - 1] \o seqs[i]
    BY <1>3, <1>4, <2>1
  <2>3. CASE i = 1
    <3>1. f[i - 1] = <<>> /\ <<>> \o seqs[i] = seqs[i]
      BY <1>1, <1>4, <2>3, ConcatEmptySeq
    <3> QED
      BY <2>2, <2>3, <3>1
  <2>4. CASE i # 1
    <3>1. i - 1 \in 1..n
      BY <1>1, <2>4
    <3> QED
      BY <2>2, <2>4, <3>1
  <2> QED
    BY <2>3, <2>4
<1>6. Flattens(g, seqs)
  <2>1. g = [i \in 1..n |-> g[i]]
    OBVIOUS
  <2> HIDE DEF g
  <2> QED
    BY <1>5, <2>1 DEF Flattens
<1> HIDE DEF g
<1>7. FlattenSeq(seqs) = (CHOOSE h : Flattens(h, seqs))[Len(seqs)]
  BY <1>1 DEF FlattenSeq, Flattens
<1>8. Flattens(CHOOSE h : Flattens(h, seqs), seqs)
  BY <1>6
<1> QED
  BY <1>7, <1>8

\* Sequences that agree so far flatten to the same so far.
LEMMA FlattenAgree ==
  ASSUME NEW s, NEW t, Len(s) \in Nat, Len(t) \in Nat, Len(s) <= Len(t),
         \A i \in 1..Len(s) : s[i] = t[i],
         NEW g, NEW h, Flattens(g, s), Flattens(h, t)
  PROVE  \A i \in 1..Len(s) : g[i] = h[i]
<1> DEFINE A == {n \in Nat : n \in 1..Len(s) => g[n] = h[n]}
<1>1. /\ \A i \in 1..Len(s) : g[i] = IF i = 1 THEN s[i] ELSE g[i - 1] \o s[i]
      /\ \A i \in 1..Len(t) : h[i] = IF i = 1 THEN t[i] ELSE h[i - 1] \o t[i]
  BY DEF Flattens
<1>2. 0 \in A
  OBVIOUS
<1>3. ASSUME NEW n \in Nat, n \in A PROVE n + 1 \in A
  <2> SUFFICES ASSUME n + 1 \in 1..Len(s) PROVE g[n + 1] = h[n + 1]
    OBVIOUS
  <2>1. n + 1 \in 1..Len(t) /\ s[n + 1] = t[n + 1] /\ (n + 1) - 1 = n
    OBVIOUS
  <2>2. CASE n = 0
    BY <1>1, <2>1, <2>2
  <2>3. CASE n # 0
    <3>1. g[n] = h[n]
      BY <1>3, <2>3
    <3> QED
      BY <1>1, <2>1, <2>3, <3>1
  <2> QED
    BY <2>2, <2>3
<1>4. Nat \subseteq A
  <2> HIDE DEF A
  <2> QED
    BY <1>2, <1>3, Induction
<1> QED
  BY <1>4

\* The last sequence is flattened last.
LEMMA FlattenAppend ==
  ASSUME NEW S, NEW seqs \in Seq(Seq(S)), NEW last \in Seq(S)
  PROVE  FlattenSeq(Append(seqs, last)) = FlattenSeq(seqs) \o last
<1> DEFINE t == Append(seqs, last)
           n == Len(seqs)
<1>1. /\ t \in Seq(Seq(S)) /\ t # <<>> /\ Len(t) = n + 1 /\ n \in Nat
      /\ \A i \in 1..n : t[i] = seqs[i]
      /\ t[n + 1] = last
  BY AppendProperties, LenProperties
<1> HIDE DEF t
<1>2. PICK h : Flattens(h, t) /\ FlattenSeq(t) = h[n + 1]
  BY <1>1, FlattenBy
<1>3. h[n + 1] = IF n + 1 = 1 THEN t[n + 1] ELSE h[n + 1 - 1] \o t[n + 1]
  <2>1. \A i \in 1..Len(t) : h[i] = IF i = 1 THEN t[i] ELSE h[i - 1] \o t[i]
    BY <1>2 DEF Flattens
  <2>2. n + 1 \in 1..Len(t) /\ n \in Nat
    BY <1>1
  <2> HIDE DEF n
  <2> QED
    BY <2>1, <2>2
<1>4. CASE seqs = <<>>
  BY <1>1, <1>2, <1>3, <1>4, FlattenEmpty, ConcatEmptySeq, EmptySeq DEF t
<1>5. CASE seqs # <<>>
  <2>1. PICK g : Flattens(g, seqs) /\ FlattenSeq(seqs) = g[n]
    BY <1>5, FlattenBy
  <2>2. n # 0 /\ n \in 1..n
    BY <1>5, <1>1, EmptySeq
  <2>3. g[n] = h[n]
    <3>1. /\ Len(seqs) \in Nat /\ Len(t) \in Nat /\ Len(seqs) <= Len(t)
          /\ \A i \in 1..Len(seqs) : seqs[i] = t[i]
          /\ Flattens(g, seqs) /\ Flattens(h, t)
      BY <1>1, <1>2, <2>1
    <3>2. \A i \in 1..Len(seqs) : g[i] = h[i]
      <4> HIDE DEF n
      <4> QED
        BY <3>1, FlattenAgree
    <3> QED
      BY <2>2, <3>2
  <2>4. n + 1 # 1 /\ n + 1 - 1 = n
    BY <1>1, <2>2
  <2> QED
    BY <1>1, <1>2, <1>3, <2>1, <2>3, <2>4 DEF t
<1> QED
  BY <1>4, <1>5

\* Flattening makes a sequence over the same set.
LEMMA FlattenType ==
  ASSUME NEW S, NEW seqs \in Seq(Seq(S))
  PROVE  FlattenSeq(seqs) \in Seq(S)
<1>1. CASE seqs = <<>>
  BY <1>1, FlattenEmpty, EmptySeq
<1>2. CASE seqs # <<>>
  <2> DEFINE n == Len(seqs)
  <2>1. PICK g : Flattens(g, seqs) /\ FlattenSeq(seqs) = g[n]
    BY <1>2, FlattenBy
  <2>2. n \in Nat \ {0} /\ \A i \in 1..n : seqs[i] \in Seq(S)
    BY <1>2, EmptySeq, ElementOfSeq
  <2>3. \A i \in 1..n : (i = 1 => g[i] = seqs[i]) /\ (i # 1 => g[i] = g[i - 1] \o seqs[i])
    BY <2>1 DEF Flattens
  <2> HIDE DEF n
  <2> DEFINE A == {m \in Nat : m \in 1..n => g[m] \in Seq(S)}
  <2>4. 0 \in A
    OBVIOUS
  <2>5. ASSUME NEW m \in Nat, m \in A PROVE m + 1 \in A
    <3> SUFFICES ASSUME NEW k \in 1..n, k = m + 1 PROVE g[k] \in Seq(S)
      OBVIOUS
    <3>1. seqs[k] \in Seq(S)
      BY <2>2
    <3>2. CASE k = 1
      BY <2>3, <3>1, <3>2
    <3>3. CASE k # 1
      <4>1. k - 1 = m /\ m \in 1..n
        BY <2>2, <3>3
      <4>2. g[k] = g[k - 1] \o seqs[k]
        BY <2>3, <3>3
      <4>3. g[k - 1] \in Seq(S)
        BY <2>5, <4>1
      <4> QED
        BY <3>1, <4>2, <4>3, ConcatProperties
    <3> QED
      BY <3>2, <3>3
  <2>6. Nat \subseteq A
    <3> HIDE DEF A
    <3> QED
      BY <2>4, <2>5, Induction
  <2> QED
    BY <2>1, <2>2, <2>6
<1> QED
  BY <1>1, <1>2
=============================================================================
