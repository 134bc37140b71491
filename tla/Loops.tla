------------------------------- MODULE Loops -------------------------------
(***************************************************************************)
(* What a loop over a sequence computes.  The loops of the code are        *)
(* FoldLeft here; the module is about the fold of any loop body Step,      *)
(* which may look at a context c beside the value and the next element,    *)
(* and is instantiated with the body of each loop that is reasoned about.  *)
(***************************************************************************)
EXTENDS Integers, FiniteSets, WellFoundedInduction, TLAPS

Seqs == INSTANCE SequencesExt

CONSTANT Step(_, _, _)

Loop(c, b, seq) == Seqs!FoldLeft(LAMBDA v, d : Step(c, v, d), b, seq)

-----------------------------------------------------------------------------
\* Induction over the natural numbers, for the set of the numbers that have a
\* property in place of the property.
LEMMA Induction ==
    ASSUME NEW T, 0 \in T, \A n \in Nat : n \in T => n + 1 \in T
    PROVE  \A n \in Nat : n \in T
<1> SUFFICES ASSUME Nat \ T # {} PROVE FALSE
  OBVIOUS
<1> DEFINE R == OpToRel(<, Nat)
<1>1. PICK x \in Nat \ T : \A y \in Nat \ T : ~(<<y, x>> \in R)
  <2> HIDE DEF R
  <2>1. IsWellFoundedOn(R, Nat)
    BY NatLessThanWellFounded DEF R
  <2> QED
    BY <2>1, WFMin
<1>2. x - 1 \in Nat /\ x - 1 < x
  OBVIOUS
<1>3. <<x - 1, x>> \in R
  BY <1>2 DEF OpToRel
<1>4. x - 1 \in T
  BY <1>1, <1>2, <1>3
<1> QED
  BY <1>2, <1>4

LEMMA MaxOfBounded ==
   ASSUME NEW n \in Nat, NEW s \in SUBSET (1..n), s # {}
   PROVE  /\ Seqs!Max(s) \in s
          /\ \A y \in s : Seqs!Max(s) >= y
<1> DEFINE HasMax(S) == \E x \in S : \A y \in S : x >= y
           T == {m \in Nat : \A S \in SUBSET (1..m) : S # {} => HasMax(S)}
<1>1. 0 \in T
  <2>1. \A S \in SUBSET (1..0) : S = {}
    OBVIOUS
  <2> QED
    BY <2>1
<1>2. ASSUME NEW m \in Nat, m \in T PROVE m + 1 \in T
  <2> SUFFICES ASSUME NEW S \in SUBSET (1..(m + 1)), S # {} PROVE HasMax(S)
    OBVIOUS
  <2>1. CASE m + 1 \in S
    BY <2>1
  <2>2. CASE m + 1 \notin S
    <3>1. S \in SUBSET (1..m)
      BY <2>2
    <3> QED
      BY <3>1, <1>2
  <2> QED
    BY <2>1, <2>2
<1> HIDE DEF T
<1>3. n \in T
  BY <1>1, <1>2, Induction
<1>4. HasMax(s)
  BY <1>3 DEF T
<1> QED
  BY <1>4 DEF Seqs!Max

-----------------------------------------------------------------------------
\* The recursive function by which FoldLeft is defined: the last element of the set
\* s of positions is taken last.
Folded(c, b, seq, g, s) ==
    IF s = {} THEN b ELSE Step(c, g[s \ {Seqs!Max(s)}], seq[Seqs!Max(s)])

IsFold(c, b, seq, n, g) == g = [s \in SUBSET (1..n) |-> Folded(c, b, seq, g, s)]

\* It exists.
LEMMA FoldExists ==
    ASSUME NEW c, NEW b, NEW seq, NEW n \in Nat
    PROVE  \E g : IsFold(c, b, seq, n, g)
<1> DEFINE T == {m \in Nat : \E g : IsFold(c, b, seq, m, g)}
<1>1. \E g : IsFold(c, b, seq, 0, g)
  <2> DEFINE g == [s \in SUBSET (1..0) |-> b]
  <2>1. \A s \in SUBSET (1..0) : s = {}
    OBVIOUS
  <2>2. IsFold(c, b, seq, 0, g)
    BY <2>1 DEF IsFold, Folded
  <2> QED
    BY <2>2
<1>2. ASSUME NEW m \in Nat, NEW g, IsFold(c, b, seq, m, g)
      PROVE  \E h : IsFold(c, b, seq, m + 1, h)
  <2> DEFINE h == [s \in SUBSET (1..(m + 1)) |->
                      IF m + 1 \in s THEN Step(c, g[s \ {m + 1}], seq[m + 1]) ELSE g[s]]
  <2>1. ASSUME NEW s \in SUBSET (1..(m + 1)) PROVE h[s] = Folded(c, b, seq, h, s)
    <3>1. CASE m + 1 \in s
      <4>1. Seqs!Max(s) = m + 1
        <5> HIDE DEF h
        <5>1. Seqs!Max(s) \in s /\ \A y \in s : Seqs!Max(s) >= y
          <6>1. m + 1 \in Nat /\ s # {}
            BY <3>1
          <6> QED
            BY <6>1, MaxOfBounded
        <5>2. Seqs!Max(s) \in 1..(m + 1) /\ Seqs!Max(s) >= m + 1
          BY <3>1, <5>1
        <5> QED
          BY <5>2
      <4>2. s \ {m + 1} \in SUBSET (1..(m + 1)) /\ m + 1 \notin s \ {m + 1}
        OBVIOUS
      <4>3. h[s \ {m + 1}] = g[s \ {m + 1}]
        BY <4>2
      <4>4. h[s] = Step(c, g[s \ {m + 1}], seq[m + 1])
        BY <3>1
      <4> HIDE DEF h
      <4> QED
        BY <3>1, <4>1, <4>3, <4>4 DEF Folded
    <3>2. CASE m + 1 \notin s
      <4>1. s \in SUBSET (1..m) /\ h[s] = g[s]
        BY <3>2
      <4>2. g[s] = Folded(c, b, seq, g, s)
        BY <1>2, <4>1 DEF IsFold
      <4>3. \A r \in SUBSET (1..(m + 1)) : m + 1 \notin r => h[r] = g[r]
        OBVIOUS
      <4> HIDE DEF h
      <4>4. \A x : s \ {x} \in SUBSET (1..(m + 1)) /\ m + 1 \notin s \ {x}
        BY <3>2, Zenon
      <4>5. h[s \ {Seqs!Max(s)}] = g[s \ {Seqs!Max(s)}]
        BY <4>3, <4>4
      <4> QED
        BY <4>1, <4>2, <4>5 DEF Folded
    <3> QED
      BY <3>1, <3>2
  <2>2. h = [s \in SUBSET (1..(m + 1)) |-> h[s]]
    OBVIOUS
  <2>3. IsFold(c, b, seq, m + 1, h)
    <3> HIDE DEF h
    <3> QED
      BY <2>1, <2>2 DEF IsFold
  <2> HIDE DEF h
  <2> QED
    BY <2>3
<1>3. 0 \in T /\ \A m \in Nat : m \in T => m + 1 \in T
  BY <1>1, <1>2
<1>4. n \in T
  <2> HIDE DEF T
  <2> QED
    BY <1>3, Induction
<1> QED
  BY <1>4

\* The values t a loop goes through, from its first to its result.
IsTrace(c, b, seq, n, t) ==
    /\ t[0] = b
    /\ \A i \in 1..n : t[i] = Step(c, t[i - 1], seq[i])
    /\ Loop(c, b, seq) = t[n]

\* Every loop has them.
THEOREM LoopTrace ==
    ASSUME NEW c, NEW b, NEW n \in Nat, NEW seq, DOMAIN seq = 1..n
    PROVE  \E t : IsTrace(c, b, seq, n, t)
<1> DEFINE f == CHOOSE g : IsFold(c, b, seq, n, g)
           t == [i \in 0..n |-> f[1..i]]
<1>1. IsFold(c, b, seq, n, f)
  BY FoldExists
<1>2. Loop(c, b, seq) = f[1..n]
  <2>1. Loop(c, b, seq) =
     (CHOOSE g : g = [s \in SUBSET DOMAIN seq |-> IF s = {} THEN b
                       ELSE Step(c, g[s \ {Seqs!Max(s)}], seq[Seqs!Max(s)])])[DOMAIN seq]
    BY DEF Loop, Seqs!FoldLeft, Seqs!MapThenFoldSet
  <2> QED
    BY <2>1, Zenon DEF IsFold, Folded
<1> HIDE DEF f
<1>3. t[0] = b
  <2>1. 1..0 = {} /\ 0 \in 0..n /\ {} \in SUBSET (1..n)
    OBVIOUS
  <2>2. f[{}] = b
    BY <1>1, <2>1 DEF IsFold, Folded
  <2> QED
    BY <2>1, <2>2
<1>4. ASSUME NEW i \in 1..n PROVE t[i] = Step(c, t[i - 1], seq[i])
  <2>1. 1..i \in SUBSET (1..n) /\ 1..i # {}
    <3>1. i \in 1..i
      OBVIOUS
    <3> QED
      BY <3>1
  <2> HIDE DEF t
  <2>2. Seqs!Max(1..i) = i
    <3>1. Seqs!Max(1..i) \in 1..i /\ \A y \in 1..i : Seqs!Max(1..i) >= y
      BY <2>1, MaxOfBounded, Zenon
    <3> QED
      BY <3>1
  <2>3. f[1..i] = Step(c, f[1..(i - 1)], seq[i])
    <3>1. (1..i) \ {i} = 1..(i - 1)
      OBVIOUS
    <3> QED
      BY <1>1, <2>1, <2>2, <3>1 DEF IsFold, Folded
  <2>4. i \in 0..n /\ i - 1 \in 0..n
    OBVIOUS
  <2> QED
    BY <2>3, <2>4 DEF t
<1>5. t[n] = f[1..n]
  OBVIOUS
<1> HIDE DEF t
<1> QED
  BY <1>2, <1>3, <1>4, <1>5 DEF IsTrace

\* The rule for a loop's invariant: J[i] are the values that are allowed once i of
\* its elements have been taken.
THEOREM LoopInvariant ==
    ASSUME NEW c, NEW b, NEW n \in Nat, NEW seq, DOMAIN seq = 1..n, NEW J,
           b \in J[0],
           \A i \in 1..n : \A v \in J[i - 1] : Step(c, v, seq[i]) \in J[i]
    PROVE  Loop(c, b, seq) \in J[n]
<1>1. PICK t : IsTrace(c, b, seq, n, t)
  BY LoopTrace
<1> DEFINE T == {i \in Nat : i <= n => t[i] \in J[i]}
<1>2. 0 \in T
  BY <1>1 DEF IsTrace
<1>3. ASSUME NEW i \in Nat, i \in T PROVE i + 1 \in T
  <2> SUFFICES ASSUME i + 1 <= n PROVE t[i + 1] \in J[i + 1]
    OBVIOUS
  <2>1. i + 1 \in 1..n /\ (i + 1) - 1 = i /\ t[i] \in J[i]
    BY <1>3
  <2>2. t[i + 1] = Step(c, t[i], seq[i + 1])
    BY <1>1, <2>1 DEF IsTrace
  <2>3. Step(c, t[i], seq[i + 1]) \in J[i + 1]
    BY <2>1
  <2> QED
    BY <2>2, <2>3
<1> HIDE DEF T
<1>4. n \in T
  BY <1>2, <1>3, Induction
<1> QED
  BY <1>1, <1>4 DEF T, IsTrace

\* What every step of the loop keeps, the loop keeps.
THEOREM LoopKeeps ==
    ASSUME NEW c, NEW V, NEW b \in V, NEW n \in Nat, NEW seq, DOMAIN seq = 1..n,
           \A v \in V : \A i \in 1..n : Step(c, v, seq[i]) \in V
    PROVE  Loop(c, b, seq) \in V
<1> DEFINE J == [i \in 0..n |-> V]
<1>1. b \in J[0]
  OBVIOUS
<1>2. ASSUME NEW i \in 1..n, NEW v \in J[i - 1] PROVE Step(c, v, seq[i]) \in J[i]
  BY <1>2
<1>3. J[n] = V
  OBVIOUS
<1> HIDE DEF J
<1> QED
  BY <1>1, <1>2, <1>3, LoopInvariant
=============================================================================
