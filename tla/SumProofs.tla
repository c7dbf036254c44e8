----------------------------- MODULE SumProofs ------------------------------
(***************************************************************************)
(* What the sums of the specifications do when a row is added, for finite  *)
(* sets of any size. SumFunctionOnSet of the community modules is a fold,  *)
(* which is a recursive function, which is a CHOOSE: the equation of that  *)
(* function comes first. Induction is that a set of natural numbers has a  *)
(* least member (WFMin).                                                   *)
(***************************************************************************)
EXTENDS FiniteSetsExt, FiniteSetTheorems, TLAPS

\* A set of natural numbers has a least member.
LEMMA LeastNumber ==
  ASSUME NEW M, M \subseteq Nat, M # {}
  PROVE  \E m \in M : \A k \in M : m <= k
<1>1. PICK m \in M : \A k \in M : <<k, m>> \notin OpToRel(<, Nat)
  BY WFMin, NatLessThanWellFounded, Zenon
<1>2. \A k \in M : ~(k < m)
  BY <1>1, Zenon DEF OpToRel
<1> QED BY <1>2

\* Among finite sets there is one that has no fewer members than another.
LEMMA SmallestSet ==
  ASSUME NEW B, B # {}, \A s \in B : IsFiniteSet(s)
  PROVE  \E s \in B : \A t \in B : Cardinality(s) <= Cardinality(t)
<1> DEFINE M == {Cardinality(s) : s \in B}
<1>1. M \subseteq Nat /\ M # {}
  BY FS_CardinalityType
<1> HIDE DEF M
<1>2. PICK m \in M : \A k \in M : m <= k
  BY <1>1, LeastNumber
<1> QED BY <1>2 DEF M
-----------------------------------------------------------------------------
(* The fold has the equation it is written with.                           *)

Picked(s) == CHOOSE x \in s : TRUE

SumStep(f, g, s) == IF s = {} THEN 0 ELSE f[Picked(s)] + g[s \ {Picked(s)}]

Solves(g, f, S) == g = [s \in SUBSET S |-> SumStep(f, g, s)]

Iteration(f, S) == CHOOSE g : g = [s \in SUBSET S |-> SumStep(f, g, s)]

LEMMA SumIsIteration ==
  ASSUME NEW f, NEW S
  PROVE  SumFunctionOnSet(f, S) = Iteration(f, S)[S]
BY DEF SumFunctionOnSet, FoldFunctionOnSet, MapThenFoldSet, Iteration, SumStep, Picked

LEMMA PickedSmaller ==
  ASSUME NEW s, IsFiniteSet(s), s # {}
  PROVE  /\ Picked(s) \in s
         /\ IsFiniteSet(s \ {Picked(s)})
         /\ Cardinality(s \ {Picked(s)}) < Cardinality(s)
<1>1. Picked(s) \in s
  BY DEF Picked
<1>2. Cardinality(s) \in Nat
  BY FS_CardinalityType
<1>3. IsFiniteSet(s \ {Picked(s)}) /\ Cardinality(s \ {Picked(s)}) = Cardinality(s) - 1
  BY <1>1, FS_RemoveElement
<1> QED BY <1>1, <1>2, <1>3

\* Two solutions agree where both are defined.
LEMMA SolutionsAgree ==
  ASSUME NEW f, NEW S, NEW T, NEW g, NEW h, IsFiniteSet(S),
         Solves(g, f, S), Solves(h, f, T)
  PROVE  \A s \in SUBSET (S \cap T) : g[s] = h[s]
<1> DEFINE B == {s \in SUBSET (S \cap T) : g[s] # h[s]}
<1> SUFFICES ASSUME B # {} PROVE FALSE
  OBVIOUS
<1>1. \A s \in B : IsFiniteSet(s)
  BY FS_Subset
<1>2. PICK s \in B : \A t \in B : Cardinality(s) <= Cardinality(t)
  BY <1>1, SmallestSet
<1>3. g[s] = SumStep(f, g, s) /\ h[s] = SumStep(f, h, s)
  BY DEF Solves
<1>4. CASE s = {}
  BY <1>3, <1>4 DEF SumStep
<1>5. CASE s # {}
  <2> DEFINE r == s \ {Picked(s)}
  <2>1. IsFiniteSet(s)
    BY <1>1
  <2>2. Cardinality(r) < Cardinality(s) /\ Cardinality(r) \in Nat /\ Cardinality(s) \in Nat
    BY <1>5, <2>1, PickedSmaller, FS_CardinalityType
  <2>3. r \in SUBSET (S \cap T) /\ r \notin B
    BY <1>2, <2>2
  <2> QED BY <1>3, <1>5, <2>3 DEF SumStep
<1> QED BY <1>4, <1>5

LEMMA SolutionExists ==
  ASSUME NEW f, NEW S, IsFiniteSet(S)
  PROVE  \E g : Solves(g, f, S)
<1> DEFINE B == {s \in SUBSET S : ~ \E g : Solves(g, f, s)}
<1> SUFFICES ASSUME B # {} PROVE FALSE
  OBVIOUS
<1>1. \A s \in SUBSET S : IsFiniteSet(s) /\ Cardinality(s) \in Nat
  BY FS_Subset, FS_CardinalityType
<1>2. PICK u \in B : \A t \in B : Cardinality(u) <= Cardinality(t)
  BY <1>1, SmallestSet
<1> DEFINE G(s) == CHOOSE g : Solves(g, f, s)
           Last(s) == IF s = {} THEN 0 ELSE f[Picked(s)] + G(s \ {Picked(s)})[s \ {Picked(s)}]
           g == [s \in SUBSET u |-> IF s = u THEN Last(u) ELSE G(s)[s]]
<1>3. ASSUME NEW s \in SUBSET u, s # u PROVE Solves(G(s), f, s)
  <2>1. Cardinality(s) < Cardinality(u)
    <3>1. Cardinality(s) <= Cardinality(u) /\ (Cardinality(u) = Cardinality(s) => u = s)
      BY <1>1, FS_Subset
    <3> QED BY <1>1, <1>3, <3>1
  <2>2. s \notin B
    BY <1>1, <1>2, <2>1
  <2> QED BY <2>2 DEF Solves
<1> HIDE DEF G
<1>4. ASSUME NEW s \in SUBSET u PROVE g[s] = SumStep(f, g, s)
  <2>1. CASE s = {}
    <3>1. u # {} => Solves(G({}), f, {})
      BY <1>3
    <3>2. u # {} => G({})[{}] = SumStep(f, G({}), {})
      BY <3>1 DEF Solves
    <3> QED BY <2>1, <3>2 DEF SumStep
  <2>2. CASE s # {}
    <3> DEFINE r == s \ {Picked(s)}
    <3>1. Picked(s) \in s /\ r \in SUBSET u /\ r # u /\ r # s
      BY <2>2 DEF Picked
    <3>2. g[r] = G(r)[r]
      BY <3>1
    <3>3. s # u => G(s)[s] = f[Picked(s)] + G(s)[r]
      <4> SUFFICES ASSUME s # u PROVE G(s)[s] = f[Picked(s)] + G(s)[r]
        OBVIOUS
      <4>1. Solves(G(s), f, s)
        BY <1>3
      <4>2. G(s)[s] = SumStep(f, G(s), s)
        BY <4>1 DEF Solves
      <4> QED BY <2>2, <4>2 DEF SumStep
    <3>4. s # u => G(s)[r] = G(r)[r]
      <4> SUFFICES ASSUME s # u PROVE G(s)[r] = G(r)[r]
        OBVIOUS
      <4>1. Solves(G(s), f, s) /\ Solves(G(r), f, r) /\ IsFiniteSet(s)
        BY <1>1, <1>3, <3>1
      <4>2. \A t \in SUBSET (s \cap r) : G(s)[t] = G(r)[t]
        BY <4>1, SolutionsAgree
      <4>3. r \in SUBSET (s \cap r)
        OBVIOUS
      <4> QED BY <4>2, <4>3
    <3>5. g[s] = f[Picked(s)] + G(r)[r]
      BY <2>2, <3>3, <3>4
    <3> QED BY <2>2, <3>2, <3>5 DEF SumStep
  <2> QED BY <2>1, <2>2
<1>5. Solves(g, f, u)
  BY <1>4 DEF Solves
<1> QED BY <1>2, <1>5

LEMMA IterationSolves ==
  ASSUME NEW f, NEW S, IsFiniteSet(S)
  PROVE  Solves(Iteration(f, S), f, S)
BY SolutionExists DEF Solves, Iteration

\* The sum of no rows, and the sum of some by the row the fold picks.
LEMMA SumUnfolds ==
  ASSUME NEW f, NEW S, IsFiniteSet(S)
  PROVE  SumFunctionOnSet(f, S) =
           IF S = {} THEN 0
           ELSE f[Picked(S)] + SumFunctionOnSet(f, S \ {Picked(S)})
<1>1. Solves(Iteration(f, S), f, S)
  BY IterationSolves
<1>2. Iteration(f, S)[S] = SumStep(f, Iteration(f, S), S)
  BY <1>1 DEF Solves
<1>3. CASE S = {}
  BY <1>2, <1>3, SumIsIteration DEF SumStep
<1>4. CASE S # {}
  <2> DEFINE r == S \ {Picked(S)}
  <2>1. IsFiniteSet(r)
    BY <1>4, PickedSmaller
  <2>2. Solves(Iteration(f, r), f, r)
    BY <2>1, IterationSolves
  <2>3. \A s \in SUBSET (S \cap r) : Iteration(f, S)[s] = Iteration(f, r)[s]
    BY <1>1, <2>2, SolutionsAgree
  <2>4. Iteration(f, S)[r] = Iteration(f, r)[r]
    BY <2>3
  <2> QED BY <1>2, <1>4, <2>4, SumIsIteration DEF SumStep
<1> QED BY <1>3, <1>4
-----------------------------------------------------------------------------
(* What the other proofs use.                                              *)

\* Nothing adds up to nothing.
LEMMA SumOfNone == ASSUME NEW f PROVE SumFunctionOnSet(f, {}) = 0
BY SumUnfolds, FS_EmptySet

\* A sum of integers is one, and taking any row out takes its amount off.
LEMMA SumWithout ==
  ASSUME NEW f, NEW S, IsFiniteSet(S), \A x \in S : f[x] \in Int
  PROVE  /\ SumFunctionOnSet(f, S) \in Int
         /\ \A x \in S : SumFunctionOnSet(f, S) = f[x] + SumFunctionOnSet(f, S \ {x})
<1> DEFINE Sum(s) == SumFunctionOnSet(f, s)
           Good(s) == Sum(s) \in Int /\ \A x \in s : Sum(s) = f[x] + Sum(s \ {x})
           B == {s \in SUBSET S : ~Good(s)}
<1> SUFFICES ASSUME B # {} PROVE FALSE
  OBVIOUS
<1>1. \A s \in SUBSET S : IsFiniteSet(s) /\ Cardinality(s) \in Nat
  BY FS_Subset, FS_CardinalityType
<1>2. PICK s \in B : \A t \in B : Cardinality(s) <= Cardinality(t)
  BY <1>1, SmallestSet
<1>3. IsFiniteSet(s) /\ s \subseteq S
  BY <1>1
<1>4. \A x \in s : Good(s \ {x})
  <2> SUFFICES ASSUME NEW x \in s PROVE s \ {x} \notin B
    OBVIOUS
  <2>1. Cardinality(s \ {x}) = Cardinality(s) - 1
    BY <1>3, FS_RemoveElement
  <2>2. ~(Cardinality(s) <= Cardinality(s \ {x}))
    BY <1>1, <2>1
  <2> HIDE DEF B
  <2> QED BY <1>2, <2>2
<1>5. Sum(s) = IF s = {} THEN 0 ELSE f[Picked(s)] + Sum(s \ {Picked(s)})
  BY <1>3, SumUnfolds
<1> HIDE DEF Sum
<1>6. CASE s = {}
  BY <1>5, <1>6
<1>7. CASE s # {}
  <2> DEFINE c == Picked(s)
  <2>1. c \in s
    BY <1>7 DEF Picked
  <2>2. Sum(s) = f[c] + Sum(s \ {c}) /\ Sum(s \ {c}) \in Int /\ f[c] \in Int
    BY <1>3, <1>4, <1>5, <1>7, <2>1
  <2>3. ASSUME NEW x \in s, x # c PROVE Sum(s) = f[x] + Sum(s \ {x})
    <3>1. Sum(s \ {c}) = f[x] + Sum((s \ {c}) \ {x})
      BY <1>4, <2>1, <2>3
    <3>2. Sum(s \ {x}) = f[c] + Sum((s \ {x}) \ {c})
      BY <1>4, <2>1, <2>3
    <3>3. (s \ {c}) \ {x} = (s \ {x}) \ {c}
      OBVIOUS
    <3>4. f[x] \in Int /\ Sum((s \ {c}) \ {x}) \in Int
      <4>1. Sum(s \ {x}) \in Int
        BY <1>4
      <4>2. Cardinality((s \ {c}) \ {x}) < Cardinality(s)
        <5>1. IsFiniteSet(s \ {c}) /\ Cardinality(s \ {c}) = Cardinality(s) - 1
          BY <1>3, <2>1, FS_RemoveElement
        <5>2. x \in s \ {c}
          BY <2>3
        <5>3. Cardinality((s \ {c}) \ {x}) = Cardinality(s \ {c}) - 1
          BY <5>1, <5>2, FS_RemoveElement
        <5> QED BY <1>1, <1>3, <5>1, <5>3
      <4>3. ~(Cardinality(s) <= Cardinality((s \ {c}) \ {x}))
        BY <1>1, <4>2
      <4>4. (s \ {c}) \ {x} \notin B
        <5> HIDE DEF B
        <5> QED BY <1>2, <4>3
      <4> QED BY <1>3, <4>4
    <3> DEFINE v == (s \ {c}) \ {x}
    <3>5. Sum(s) = f[c] + (f[x] + Sum(v)) /\ Sum(s \ {x}) = f[c] + Sum(v)
      BY <2>2, <3>1, <3>2, <3>3
    <3>6. Sum(v) \in Int /\ f[x] \in Int /\ f[c] \in Int
      BY <2>2, <3>4
    <3> HIDE DEF v
    <3> QED BY <3>5, <3>6
  <2>4. Good(s)
    BY <2>1, <2>2, <2>3
  <2> QED BY <2>4
<1> QED BY <1>6, <1>7

\* A new row adds its amount.
LEMMA SumWith ==
  ASSUME NEW f, NEW S, NEW x, x \notin S, IsFiniteSet(S), \A y \in S \cup {x} : f[y] \in Int
  PROVE  /\ SumFunctionOnSet(f, S) \in Int
         /\ SumFunctionOnSet(f, S \cup {x}) = SumFunctionOnSet(f, S) + f[x]
<1>1. IsFiniteSet(S \cup {x}) /\ (S \cup {x}) \ {x} = S
  BY FS_AddElement
<1>2. SumFunctionOnSet(f, S \cup {x}) = f[x] + SumFunctionOnSet(f, S)
  BY <1>1, SumWithout
<1>3. SumFunctionOnSet(f, S) \in Int
  BY SumWithout
<1> QED BY <1>2, <1>3

\* The sum looks at the rows it adds up and at no others.
LEMMA SumLooksAt ==
  ASSUME NEW f, NEW g, NEW S, IsFiniteSet(S), \A x \in S : f[x] = g[x]
  PROVE  SumFunctionOnSet(f, S) = SumFunctionOnSet(g, S)
<1> DEFINE B == {s \in SUBSET S : SumFunctionOnSet(f, s) # SumFunctionOnSet(g, s)}
<1> SUFFICES ASSUME B # {} PROVE FALSE
  OBVIOUS
<1>1. \A s \in SUBSET S : IsFiniteSet(s) /\ Cardinality(s) \in Nat
  BY FS_Subset, FS_CardinalityType
<1>2. PICK s \in B : \A t \in B : Cardinality(s) <= Cardinality(t)
  BY <1>1, SmallestSet
<1>3. IsFiniteSet(s)
  BY <1>1
<1>4. CASE s = {}
  BY <1>4, SumOfNone
<1>5. CASE s # {}
  <2> DEFINE r == s \ {Picked(s)}
  <2>1. Picked(s) \in s /\ Cardinality(r) < Cardinality(s)
    BY <1>3, <1>5, PickedSmaller
  <2>2. r \notin B
    BY <1>1, <1>2, <2>1
  <2> QED BY <1>3, <1>5, <2>1, <2>2, SumUnfolds
<1> QED BY <1>4, <1>5

\* Whatever solves the equation of the sum is the sum: how a fold over some
\* column of the rows is recognised as one.
LEMMA SolutionIsSum ==
  ASSUME NEW f, NEW S, NEW h, IsFiniteSet(S), Solves(h, f, S)
  PROVE  h[S] = SumFunctionOnSet(f, S)
<1>1. Solves(Iteration(f, S), f, S)
  BY IterationSolves
<1>2. \A s \in SUBSET (S \cap S) : h[s] = Iteration(f, S)[s]
  BY <1>1, SolutionsAgree
<1> QED BY <1>2, SumIsIteration

\* A sum of natural numbers is one.
LEMMA SumIsNatural ==
  ASSUME NEW f, NEW S, IsFiniteSet(S), \A x \in S : f[x] \in Nat
  PROVE  SumFunctionOnSet(f, S) \in Nat
<1> DEFINE B == {s \in SUBSET S : SumFunctionOnSet(f, s) \notin Nat}
<1> SUFFICES ASSUME B # {} PROVE FALSE
  OBVIOUS
<1>1. \A s \in SUBSET S : IsFiniteSet(s) /\ Cardinality(s) \in Nat
  BY FS_Subset, FS_CardinalityType
<1>2. PICK s \in B : \A t \in B : Cardinality(s) <= Cardinality(t)
  BY <1>1, SmallestSet
<1>3. s # {}
  BY <1>2, SumOfNone
<1>4. PICK x \in s : TRUE
  BY <1>3
<1>5. \A y \in s : f[y] \in Int
  BY <1>2
<1>6. SumFunctionOnSet(f, s) = f[x] + SumFunctionOnSet(f, s \ {x})
  BY <1>1, <1>2, <1>4, <1>5, SumWithout
<1>7. IsFiniteSet(s \ {x}) /\ Cardinality(s \ {x}) = Cardinality(s) - 1
  BY <1>1, <1>2, <1>4, FS_RemoveElement
<1>8. s \ {x} \in SUBSET S /\ s \ {x} \notin B
  BY <1>1, <1>2, <1>7
<1>9. SumFunctionOnSet(f, s \ {x}) \in Nat /\ f[x] \in Nat
  BY <1>4, <1>8
<1> QED BY <1>2, <1>6, <1>9
-----------------------------------------------------------------------------
(* The sum of the amounts of some rows.                                    *)

AmountsOf(T) == MapThenSumSet(LAMBDA t : t.amount, T)

\* The sum of a column of the rows as the sum of a function on them.
LEMMA AmountsAdded ==
  ASSUME NEW T, IsFiniteSet(T)
  PROVE  AmountsOf(T) = SumFunctionOnSet([t \in T |-> t.amount], T)
<1> DEFINE f == [t \in T |-> t.amount]
           Step(g, s) == IF s = {} THEN 0 ELSE Picked(s).amount + g[s \ {Picked(s)}]
           h == CHOOSE g : g = [s \in SUBSET T |-> Step(g, s)]
<1>1. AmountsOf(T) = h[T]
  BY DEF AmountsOf, MapThenSumSet, MapThenFoldSet, Picked
<1>2. \A g : \A s \in SUBSET T : Step(g, s) = SumStep(f, g, s)
  BY DEF SumStep, Picked
<1> HIDE DEF Step, f
<1>3. Solves(h, f, T)
  BY <1>2, SolutionExists DEF Solves
<1> QED BY <1>1, <1>3, SolutionIsSum DEF f

\* A new row adds its amount to the sum.
LEMMA AmountsWith ==
  ASSUME NEW T, NEW x, x \notin T, IsFiniteSet(T), \A t \in T \cup {x} : t.amount \in Int
  PROVE  /\ AmountsOf(T \cup {x}) = AmountsOf(T) + x.amount
         /\ AmountsOf(T) \in Int
<1> DEFINE f == [t \in T \cup {x} |-> t.amount]
           g == [t \in T |-> t.amount]
<1>1. IsFiniteSet(T \cup {x})
  BY FS_AddElement
<1>2. AmountsOf(T \cup {x}) = SumFunctionOnSet(f, T \cup {x}) /\ AmountsOf(T) = SumFunctionOnSet(g, T)
  BY <1>1, AmountsAdded
<1>3. /\ \A t \in T : f[t] = g[t]
      /\ \A t \in T \cup {x} : f[t] \in Int
      /\ f[x] = x.amount
  OBVIOUS
<1> HIDE DEF f, g
<1>4. SumFunctionOnSet(f, T) = SumFunctionOnSet(g, T)
  BY <1>3, SumLooksAt
<1>5. /\ SumFunctionOnSet(f, T \cup {x}) = SumFunctionOnSet(f, T) + f[x]
      /\ SumFunctionOnSet(f, T) \in Int
  BY <1>3, SumWith
<1> QED BY <1>2, <1>3, <1>4, <1>5

\* The sum of amounts is a number.
LEMMA AmountsNumber ==
  ASSUME NEW T, IsFiniteSet(T), \A t \in T : t.amount \in Int
  PROVE  AmountsOf(T) \in Int
<1> DEFINE f == [t \in T |-> t.amount]
<1>1. \A t \in T : f[t] \in Int
  OBVIOUS
<1>2. AmountsOf(T) = SumFunctionOnSet(f, T)
  BY AmountsAdded
<1> HIDE DEF f
<1> QED BY <1>1, <1>2, SumWithout
=============================================================================
