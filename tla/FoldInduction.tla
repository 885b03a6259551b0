--------------------------- MODULE FoldInduction ----------------------------
(***************************************************************************)
(* Induction over a fold of a sequence.  The step and the property are     *)
(* constants, because a theorem with an operator as a parameter cannot be  *)
(* applied: an instance of this module for each fold can.                  *)
(***************************************************************************)
EXTENDS Integers, Folds, WellFoundedInduction, TLAPS

CONSTANTS
    Step(_, _, _),  \* what the fold makes of a state and a member, and of what all its steps are given
    Good(_, _, _)   \* what holds after a number of steps

Largest(s) == CHOOSE x \in s : \A y \in s : x >= y

\* FoldLeft of SequencesExt, by its definition: an instance of this module has a
\* copy of each module that it extends.
Fold(a, r, seq) ==
    MapThenFoldSet(LAMBDA x, s : Step(a, s, x), r, LAMBDA i : seq[i], LAMBDA s : Largest(s), DOMAIN seq)

-----------------------------------------------------------------------------
\* A set of numbers that has 0, and with a number below n the next one, has
\* those up to n.
LEMMA NumbersUpTo ==
    ASSUME NEW n \in Nat, NEW T, 0 \in T, \A m \in 0..(n - 1) : m \in T => m + 1 \in T
    PROVE  n \in T
<1> DEFINE Bad == {m \in 0..n : m \notin T}
<1> SUFFICES ASSUME Bad # {} PROVE FALSE
  OBVIOUS
<1>1. PICK m \in Bad : \A k \in Bad : ~(<<k, m>> \in OpToRel(<, Nat))
  <2>1. Bad \in SUBSET Nat
    OBVIOUS
  <2> HIDE DEF Bad
  <2> QED
    BY <2>1, NatLessThanWellFounded, WFMin
<1>2. m \in 0..n /\ m # 0 /\ m \notin T
  BY <1>1
<1>3. m - 1 \in 0..(n - 1) /\ m - 1 < m /\ (m - 1) + 1 = m /\ m \in Nat /\ m - 1 \in Nat /\ m - 1 \in 0..n
  BY <1>2
<1>4. m - 1 \notin Bad
  BY <1>1, <1>3 DEF OpToRel
<1>5. m - 1 \in T
  BY <1>3, <1>4
<1> QED
  BY <1>2, <1>3, <1>5

\* The largest member of a set that has m + 1 and otherwise members of 1..m.
LEMMA LargestIs ==
    ASSUME NEW m \in Nat, NEW s \in SUBSET (1..(m + 1)), m + 1 \in s
    PROVE  Largest(s) = m + 1 /\ s \ {m + 1} \in SUBSET (1..m)
<1>1. \A y \in s : m + 1 >= y
  OBVIOUS
<1>2. \A x \in s : (\A y \in s : x >= y) => x = m + 1
  OBVIOUS
<1>3. Largest(s) \in s /\ \A y \in s : Largest(s) >= y
  BY <1>1 DEF Largest
<1>4. s \ {m + 1} \in SUBSET (1..m)
  OBVIOUS
<1> QED
  BY <1>2, <1>3, <1>4

\* What a fold makes of r by the members of the sequence at the indices s, in
\* order: the function that the definition of a fold chooses exists.
Partial(f, a, r, seq, m) ==
    \A s \in SUBSET (1..m) : f[s] = IF s = {} THEN r ELSE Step(a, f[s \ {Largest(s)}], seq[Largest(s)])

IsFold(f, a, r, seq, n) ==
    f = [s \in SUBSET (1..n) |-> IF s = {} THEN r ELSE Step(a, f[s \ {Largest(s)}], seq[Largest(s)])]

LEMMA FoldExists ==
    ASSUME NEW a, NEW r, NEW seq, NEW n \in Nat
    PROVE  \E f : IsFold(f, a, r, seq, n)
<1> DEFINE T == {m \in 0..n : \E f : Partial(f, a, r, seq, m)}
<1>1. 0 \in T
  <2> DEFINE f == [s \in SUBSET (1..0) |-> r]
  <2>1. 1..0 = {}
    OBVIOUS
  <2>2. Partial(f, a, r, seq, 0)
    BY <2>1 DEF Partial
  <2> QED
    BY <2>2
<1>2. ASSUME NEW m \in 0..(n - 1), m \in T PROVE m + 1 \in T
  <2>1. PICK f : Partial(f, a, r, seq, m)
    BY <1>2
  <2> DEFINE g == [s \in SUBSET (1..(m + 1)) |-> IF m + 1 \in s THEN Step(a, f[s \ {m + 1}], seq[m + 1]) ELSE f[s]]
  <2>2. ASSUME NEW s \in SUBSET (1..(m + 1)), m + 1 \notin s PROVE s \in SUBSET (1..m)
    BY <2>2
  <2>3. m + 1 \in 0..n /\ m \in Nat
    OBVIOUS
  <2>4. Partial(g, a, r, seq, m + 1)
    <3> SUFFICES ASSUME NEW s \in SUBSET (1..(m + 1))
                 PROVE  g[s] = IF s = {} THEN r ELSE Step(a, g[s \ {Largest(s)}], seq[Largest(s)])
      BY DEF Partial
    <3>1. CASE m + 1 \in s
      <4>1. Largest(s) = m + 1 /\ s \ {m + 1} \in SUBSET (1..m) /\ s # {}
        BY <2>3, <3>1, LargestIs
      <4>2. m + 1 \notin s \ {m + 1} /\ s \ {m + 1} \in SUBSET (1..(m + 1))
        OBVIOUS
      <4>3. g[s \ {m + 1}] = f[s \ {m + 1}]
        BY <4>2
      <4>4. g[s] = Step(a, f[s \ {m + 1}], seq[m + 1])
        BY <3>1
      <4> HIDE DEF g
      <4> QED
        BY <4>1, <4>3, <4>4
    <3>2. CASE m + 1 \notin s
      <4>1. s \in SUBSET (1..m) /\ g[s] = f[s]
        BY <2>2, <3>2
      <4>2. s \ {Largest(s)} \in SUBSET (1..(m + 1)) /\ m + 1 \notin s \ {Largest(s)}
        BY <3>2
      <4>3. g[s \ {Largest(s)}] = f[s \ {Largest(s)}]
        BY <4>2
      <4> HIDE DEF g
      <4> QED
        BY <2>1, <4>1, <4>3 DEF Partial
    <3> QED
      BY <3>1, <3>2
  <2> HIDE DEF g
  <2> QED
    BY <2>3, <2>4
<1>3. n \in T
  <2> HIDE DEF T
  <2> QED
    BY <1>1, <1>2, NumbersUpTo
<1>4. PICK f : Partial(f, a, r, seq, n)
  BY <1>3
<1> DEFINE g == [s \in SUBSET (1..n) |-> f[s]]
<1>5. g = [s \in SUBSET (1..n) |-> IF s = {} THEN r ELSE Step(a, g[s \ {Largest(s)}], seq[Largest(s)])]
  <2>1. ASSUME NEW s \in SUBSET (1..n)
        PROVE  g[s] = IF s = {} THEN r ELSE Step(a, g[s \ {Largest(s)}], seq[Largest(s)])
    <3>1. s \ {Largest(s)} \in SUBSET (1..n)
      OBVIOUS
    <3>2. g[s \ {Largest(s)}] = f[s \ {Largest(s)}] /\ g[s] = f[s]
      BY <3>1
    <3> HIDE DEF g
    <3> QED
      BY <1>4, <3>2 DEF Partial
  <2> QED
    BY <2>1
<1> HIDE DEF g
<1> QED
  BY <1>5 DEF IsFold

\* A fold is the last of a series, of which the first is r, and each one is a
\* step from the one before.
THEOREM FoldSteps ==
    ASSUME NEW a, NEW r, NEW seq, NEW n \in Nat, DOMAIN seq = 1..n
    PROVE  \E f : /\ f[0] = r /\ f[n] = Fold(a, r, seq)
                  /\ \A k \in 0..(n - 1) : f[k + 1] = Step(a, f[k], seq[k + 1])
<1> DEFINE iter == CHOOSE f : IsFold(f, a, r, seq, n)
           f    == [k \in 0..n |-> iter[1..k]]
<1>1. IsFold(iter, a, r, seq, n)
  BY FoldExists
<1>2. Fold(a, r, seq) = iter[1..n]
  BY DEF IsFold, Fold, MapThenFoldSet
<1> HIDE DEF iter
<1>3. f[0] = r
  <2>1. 1..0 = {} /\ 1..0 \in SUBSET (1..n)
    OBVIOUS
  <2>2. iter[1..0] = r
    BY <1>1, <2>1 DEF IsFold
  <2> QED
    BY <2>2
<1>4. ASSUME NEW m \in 0..(n - 1) PROVE f[m + 1] = Step(a, f[m], seq[m + 1])
  <2>1. m \in Nat /\ m + 1 \in Nat /\ m + 1 <= n
    OBVIOUS
  <2>2. /\ m \in Nat /\ m + 1 \in 1..(m + 1) /\ 1..(m + 1) \in SUBSET (1..n)
        /\ (1..(m + 1)) \ {m + 1} = 1..m
        /\ m + 1 \in 0..n /\ 1..(m + 1) # {}
    <3>1. (1..(m + 1)) \ {m + 1} = 1..m
      BY <2>1
    <3>2. 1..(m + 1) \in SUBSET (1..n)
      BY <2>1
    <3> QED
      BY <2>1, <3>1, <3>2
  <2>3. Largest(1..(m + 1)) = m + 1
    BY <2>2, LargestIs
  <2>4. iter[1..(m + 1)] = Step(a, iter[1..m], seq[m + 1])
    BY <1>1, <2>2, <2>3 DEF IsFold
  <2> QED
    BY <2>2, <2>4
<1>5. f[n] = Fold(a, r, seq)
  BY <1>2
<1> HIDE DEF f
<1> QED
  BY <1>3, <1>4, <1>5

\* What holds at first, and after a step if before it, holds after a fold.
THEOREM FoldKeeps ==
    ASSUME NEW a, NEW r, NEW seq, NEW n \in Nat, DOMAIN seq = 1..n, Good(a, 0, r),
           \A k \in 0..(n - 1) : \A s : Good(a, k, s) => Good(a, k + 1, Step(a, s, seq[k + 1]))
    PROVE  Good(a, n, Fold(a, r, seq))
<1>1. PICK f : /\ f[0] = r /\ f[n] = Fold(a, r, seq)
               /\ \A k \in 0..(n - 1) : f[k + 1] = Step(a, f[k], seq[k + 1])
  BY FoldSteps
<1> DEFINE T == {m \in 0..n : Good(a, m, f[m])}
<1>2. 0 \in T
  BY <1>1
<1>3. ASSUME NEW m \in 0..(n - 1), m \in T PROVE m + 1 \in T
  <2>1. m + 1 \in 0..n /\ f[m + 1] = Step(a, f[m], seq[m + 1])
    BY <1>1
  <2> QED
    BY <1>3, <2>1
<1>4. n \in T
  <2> HIDE DEF T
  <2> QED
    BY <1>2, <1>3, NumbersUpTo
<1> QED
  BY <1>1, <1>4
=============================================================================
