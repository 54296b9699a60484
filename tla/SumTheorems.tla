---------------------------- MODULE SumTheorems ----------------------------
(***************************************************************************)
(* Facts about SumFunctionOnSet and SumFunction of Functions, by which the *)
(* byte counters of the storages and the storage promised to databases are *)
(* defined: the sum over a finite set does not depend on the order in      *)
(* which the fold takes the elements, so one element, or a subset, can be  *)
(* taken out of it.  Sizes are kept by difference and in a machine word:   *)
(* the remainder of a sum is that of the remainders.                       *)
(*                                                                         *)
(* Induction is over sets and not over predicates: a set of subsets that   *)
(* is not empty has a minimal member, so there is no smallest              *)
(* counterexample.                                                         *)
(***************************************************************************)
EXTENDS Functions, FiniteSetTheorems, TLAPS

USE ZenonT(60)

(* A set of natural numbers that is not empty has a least one.             *)
LEMMA LeastNumber ==
    ASSUME NEW C, C \subseteq Nat, C # {}
    PROVE  \E m \in C : \A y \in C : m <= y
<1>1. \E m \in C : \A y \in C : ~(<<y, m>> \in OpToRel(<, Nat))
  BY WFMin, NatLessThanWellFounded
<1>2. PICK m \in C : \A y \in C : ~(<<y, m>> \in OpToRel(<, Nat)) BY <1>1
<1>3. ASSUME NEW y \in C PROVE m <= y
  <2>1. y \in Nat /\ m \in Nat OBVIOUS
  <2>2. ~(<<y, m>> \in OpToRel(<, Nat)) BY <1>2
  <2> QED BY SMTT(60), <2>1, <2>2 DEF OpToRel
<1> QED BY <1>3

(* ... and one that is bounded has a greatest one.                         *)
LEMMA GreatestNumber ==
    ASSUME NEW C, NEW n \in Nat, C \subseteq 0..n, C # {}
    PROVE  \E m \in C : \A y \in C : m >= y
<1> DEFINE D == {k \in Nat : n - k \in C}
<1>1. D \subseteq Nat OBVIOUS
<1>2. D # {}
  <2>1. PICK x \in C : TRUE OBVIOUS
  <2>2. n - x \in Nat /\ n - (n - x) = x BY SMTT(60), <2>1
  <2>3. n - x \in D BY <2>1, <2>2
  <2> QED BY <2>3
<1>3. \A y \in C : n - y \in D
  <2> TAKE y \in C
  <2>1. n - y \in Nat /\ n - (n - y) = y BY SMTT(60)
  <2> QED BY <2>1
<1> HIDE DEF D
<1>4. PICK k \in D : \A y \in D : k <= y BY <1>1, <1>2, LeastNumber
<1>5. n - k \in C /\ k \in Nat BY <1>1 DEF D
<1>6. ASSUME NEW y \in C PROVE n - k >= y
  <2>1. k <= n - y BY <1>3, <1>4
  <2>2. y \in 0..n OBVIOUS
  <2> QED BY SMTT(60), <1>5, <2>1, <2>2
<1> QED BY <1>5, <1>6

(* A set of natural numbers closed under successor has every number. *)
LEMMA NatSetInduction ==
    ASSUME NEW T \in SUBSET Nat, 0 \in T, \A n \in T : n + 1 \in T
    PROVE  T = Nat
<1> DEFINE C == Nat \ T
<1>1. ASSUME C # {} PROVE FALSE
  <2>1. C \subseteq Nat OBVIOUS
  <2> HIDE DEF C
  <2>2. PICK m \in C : \A y \in C : m <= y BY <1>1, <2>1, LeastNumber
  <2>3. m \in Nat /\ m # 0 BY <2>1 DEF C
  <2>4. m - 1 \in T BY SMTT(60), <2>2, <2>3 DEF C
  <2>5. m \in T BY SMTT(60), <2>3, <2>4
  <2> QED BY <2>5 DEF C
<1> QED BY <1>1

(* A set C of subsets of a finite set, if it is not empty, has a member    *)
(* none of whose proper subsets is a member.                               *)
Minimal(m, C) == m \in C /\ \A y \in C : y \subseteq m => y = m

LEMMA MinimalSubset ==
    ASSUME NEW S, IsFiniteSet(S), NEW C, C \subseteq SUBSET S, C # {}
    PROVE  \E m : Minimal(m, C)
<1>1. IsWellFoundedOn(StrictSubsetOrdering(S), SUBSET S)
  BY FS_StrictSubsetOrderingWellFounded, FS_FiniteSubsetsOfFinite
<1>3. \E m \in C : \A y \in C : ~(<<y, m>> \in StrictSubsetOrdering(S))
  BY <1>1, WFMin
<1>4. PICK m \in C : \A y \in C : ~(<<y, m>> \in StrictSubsetOrdering(S)) BY <1>3
<1>5. ASSUME NEW y \in C, y \subseteq m PROVE y = m
  <2>1. <<y, m>> \in (SUBSET S) \X (SUBSET S) OBVIOUS
  <2> QED BY <1>4, <1>5, <2>1 DEF StrictSubsetOrdering
<1> QED BY <1>5 DEF Minimal

-----------------------------------------------------------------------------
IntOn(f, S) == \A x \in S : f[x] \in Int
SameOn(f, g, S) == \A x \in S : f[x] = g[x]

(* The function that the fold over S defines by recursion *)
Pick(s) == CHOOSE x \in s : TRUE
Folded(f, g, s) == IF s = {} THEN 0 ELSE f[Pick(s)] + g[s \ {Pick(s)}]
IsFold(f, S, g) == g = [s \in SUBSET S |-> Folded(f, g, s)]
SumIter(f, S) == CHOOSE g : IsFold(f, S, g)

LEMMA PickIn == ASSUME NEW s, s # {} PROVE Pick(s) \in s
BY DEF Pick

LEMMA SumUnfold == ASSUME NEW f, NEW S PROVE SumFunctionOnSet(f, S) = SumIter(f, S)[S]
BY DEF SumFunctionOnSet, FoldFunctionOnSet, MapThenFoldSet, SumIter, IsFold, Folded, Pick

(* There is such a function: for the subsets of n elements it is extended  *)
(* to those of n + 1.                                                      *)
LEMMA SumIterExists ==
    ASSUME NEW f, NEW S, IsFiniteSet(S)
    PROVE  IsFold(f, S, SumIter(f, S))
<1> DEFINE Small(n) == {s \in SUBSET S : Cardinality(s) <= n}
           T == {n \in Nat : \E g : g = [s \in Small(n) |-> Folded(f, g, s)]}
<1>1. \A s \in SUBSET S : IsFiniteSet(s) /\ Cardinality(s) \in Nat
  BY FS_Subset, FS_CardinalityType
<1>2. \A s \in SUBSET S : s # {} =>
         s \ {Pick(s)} \in SUBSET S /\ Cardinality(s \ {Pick(s)}) = Cardinality(s) - 1
  BY <1>1, PickIn, FS_RemoveElement
<1>3. 0 \in T
  <2> DEFINE g == [s \in Small(0) |-> 0]
  <2>1. \A s \in Small(0) : s = {} BY SMTT(60), <1>1, FS_EmptySet
  <2>2. g = [s \in Small(0) |-> Folded(f, g, s)] BY <2>1 DEF Folded
  <2>3. \E x : x = [s \in Small(0) |-> Folded(f, x, s)] BY <2>2
  <2> QED BY <2>3
<1>4. ASSUME NEW n \in T PROVE n + 1 \in T
  <2>1. PICK g : g = [s \in Small(n) |-> Folded(f, g, s)] BY <1>4
  <2> DEFINE h == [s \in Small(n + 1) |-> Folded(f, g, s)]
  <2>2. ASSUME NEW s \in Small(n + 1) PROVE Folded(f, g, s) = Folded(f, h, s)
    <3>1. CASE s = {} BY <3>1 DEF Folded
    <3>2. CASE s # {}
      <4> DEFINE r == s \ {Pick(s)}
      <4>1. r \in Small(n) /\ r \in Small(n + 1) BY SMTT(60), <1>1, <1>2, <3>2
      <4>2. g[r] = Folded(f, g, r) BY <2>1, <4>1
      <4>3. h[r] = Folded(f, g, r) BY <4>1
      <4> QED BY <3>2, <4>2, <4>3 DEF Folded
    <3> QED BY <3>1, <3>2
  <2>3. h = [s \in Small(n + 1) |-> Folded(f, h, s)] BY <2>2
  <2>4. \E x : x = [s \in Small(n + 1) |-> Folded(f, x, s)] BY <2>3
  <2>5. n + 1 \in Nat BY SMTT(60)
  <2> QED BY <2>4, <2>5
<1>5. T = Nat
  <2>1. T \in SUBSET Nat OBVIOUS
  <2> HIDE DEF T
  <2> QED BY <1>3, <1>4, <2>1, NatSetInduction
<1>6. Cardinality(S) \in T BY <1>1, <1>5
<1>7. Small(Cardinality(S)) = SUBSET S BY FS_Subset
<1>8. \E g : IsFold(f, S, g) BY <1>6, <1>7 DEF IsFold
<1> QED BY <1>8 DEF SumIter

LEMMA SumIterValue ==
    ASSUME NEW f, NEW S, IsFiniteSet(S), NEW s \in SUBSET S
    PROVE  SumIter(f, S)[s] = Folded(f, SumIter(f, S), s)
<1> DEFINE F == SumIter(f, S)
<1>1. IsFold(f, S, F) BY SumIterExists
<1> HIDE DEF F
<1>2. F[s] = Folded(f, F, s) BY <1>1 DEF IsFold
<1> QED BY <1>2 DEF F

(* Its values depend only on the values of f that are summed.              *)
LEMMA SumIterSame ==
    ASSUME NEW f, NEW g, NEW S, NEW R, IsFiniteSet(S), IsFiniteSet(R),
           NEW K, K \subseteq S, K \subseteq R, SameOn(f, g, K)
    PROVE  SumIter(f, S)[K] = SumIter(g, R)[K]
<1> DEFINE F == SumIter(f, S)
           G == SumIter(g, R)
           C == {s \in SUBSET K : F[s] # G[s]}
<1>1. /\ \A s \in SUBSET S : F[s] = Folded(f, F, s)
      /\ \A s \in SUBSET R : G[s] = Folded(g, G, s)
  BY SumIterValue
<1> HIDE DEF F, G
<1>2. ASSUME C # {} PROVE FALSE
  <2>1. C \subseteq SUBSET K /\ IsFiniteSet(K) BY FS_Subset
  <2> HIDE DEF C
  <2>2. PICK m : Minimal(m, C) BY <1>2, <2>1, MinimalSubset
  <2>3. m \subseteq K /\ F[m] # G[m] BY <2>2 DEF C, Minimal
  <2>4. F[m] = Folded(f, F, m) /\ G[m] = Folded(g, G, m) BY <1>1, <2>3
  <2>5. CASE m = {} BY <2>3, <2>4, <2>5 DEF Folded
  <2>6. CASE m # {}
    <3>1. Pick(m) \in m BY <2>6, PickIn
    <3>2. m \ {Pick(m)} \notin C BY <2>2, <3>1 DEF Minimal
    <3>3. F[m \ {Pick(m)}] = G[m \ {Pick(m)}] BY <2>3, <3>2 DEF C
    <3>4. f[Pick(m)] = g[Pick(m)] BY <2>3, <3>1 DEF SameOn
    <3> QED BY <2>3, <2>4, <2>6, <3>3, <3>4 DEF Folded
  <2> QED BY <2>5, <2>6
<1>3. K \notin C BY <1>2
<1> QED BY <1>3 DEF F, G

(* Its values are integers, and any element may be the one taken first.    *)
LEMMA SumIterInt ==
    ASSUME NEW f, NEW S, IsFiniteSet(S), IntOn(f, S), NEW K \in SUBSET S
    PROVE  SumIter(f, S)[K] \in Int
<1> DEFINE F == SumIter(f, S)
           C == {s \in SUBSET S : F[s] \notin Int}
<1>1. \A s \in SUBSET S : F[s] = Folded(f, F, s) BY SumIterValue
<1> HIDE DEF F
<1>2. ASSUME C # {} PROVE FALSE
  <2>1. C \subseteq SUBSET S OBVIOUS
  <2> HIDE DEF C
  <2>2. PICK m : Minimal(m, C) BY <1>2, <2>1, MinimalSubset
  <2>3. m \in SUBSET S /\ F[m] \notin Int BY <2>2 DEF C, Minimal
  <2>4. F[m] = Folded(f, F, m) BY <1>1, <2>3
  <2>5. CASE m = {} BY SMTT(60), <2>3, <2>4, <2>5 DEF Folded
  <2>6. CASE m # {}
    <3>1. Pick(m) \in m BY <2>6, PickIn
    <3>2. m \ {Pick(m)} \notin C BY <2>2, <3>1 DEF Minimal
    <3>3. F[m \ {Pick(m)}] \in Int BY <2>3, <3>2 DEF C
    <3>4. f[Pick(m)] \in Int BY <2>3, <3>1 DEF IntOn
    <3> QED BY SMTT(60), <2>3, <2>4, <2>6, <3>3, <3>4 DEF Folded
  <2> QED BY <2>5, <2>6
<1>3. K \notin C BY <1>2
<1> QED BY <1>3 DEF F

LEMMA SumIterAny ==
    ASSUME NEW f, NEW S, IsFiniteSet(S), IntOn(f, S), NEW z \in S
    PROVE  SumIter(f, S)[S] = f[z] + SumIter(f, S)[S \ {z}]
<1> DEFINE F == SumIter(f, S)
           Bad(s) == \E x \in s : F[s] # f[x] + F[s \ {x}]
           C == {s \in SUBSET S : Bad(s)}
<1>1. \A s \in SUBSET S : F[s] = Folded(f, F, s) BY SumIterValue
<1>2. \A s \in SUBSET S : F[s] \in Int BY SumIterInt
<1> HIDE DEF F
<1>3. ASSUME C # {} PROVE FALSE
  <2>1. C \subseteq SUBSET S OBVIOUS
  <2> HIDE DEF C, Bad
  <2>2. PICK m : Minimal(m, C) BY <1>3, <2>1, MinimalSubset
  <2>3. PICK x \in m : F[m] # f[x] + F[m \ {x}] BY <2>2 DEF C, Bad, Minimal
  <2> DEFINE c == Pick(m)
  <2>4. m \in SUBSET S /\ c \in m BY <2>2, <2>3, PickIn DEF C, Minimal
  <2>5. F[m] = f[c] + F[m \ {c}] BY <1>1, <2>4 DEF Folded
  <2> HIDE DEF c
  <2>6. c # x BY <2>3, <2>5
  <2>7. m \ {c} \notin C /\ m \ {x} \notin C BY <2>2, <2>3, <2>4 DEF Minimal
  <2> DEFINE mc == m \ {c}
             mx == m \ {x}
             q == F[mc \ {x}]
  <2>8. F[mc] = f[x] + q
    <3>1. mc \in SUBSET S /\ x \in mc BY <2>3, <2>4, <2>6
    <3>2. ~Bad(mc) BY <2>7, <3>1 DEF C
    <3> QED BY <3>1, <3>2 DEF Bad
  <2>9. F[mx] = f[c] + q
    <3>1. mx \in SUBSET S /\ c \in mx BY <2>4, <2>6
    <3>2. ~Bad(mx) BY <2>7, <3>1 DEF C
    <3>3. mx \ {c} = mc \ {x} OBVIOUS
    <3>4. F[mx] = f[c] + F[mx \ {c}] BY <3>1, <3>2 DEF Bad
    <3> QED BY <3>3, <3>4
  <2>10. q \in Int /\ f[c] \in Int /\ f[x] \in Int
    <3>1. mc \ {x} \in SUBSET S /\ c \in S /\ x \in S BY <2>3, <2>4
    <3> QED BY <1>2, <3>1 DEF IntOn
  <2>11. F[m] = f[c] + F[mc] /\ F[m] # f[x] + F[mx] BY <2>3, <2>5
  <2> HIDE DEF mc, mx, q
  <2> QED BY SMTT(60), <2>8, <2>9, <2>10, <2>11
<1>4. S \notin C BY <1>3
<1> QED BY <1>4 DEF F

-----------------------------------------------------------------------------
(* The facts that are used: the sum over no element, ...                   *)
LEMMA SumEmpty == ASSUME NEW f PROVE SumFunctionOnSet(f, {}) = 0
<1> DEFINE F == SumIter(f, {})
<1>1. IsFiniteSet({}) /\ {} \in SUBSET {} BY FS_EmptySet
<1>2. F[{}] = Folded(f, F, {}) BY <1>1, SumIterValue
<1>3. SumFunctionOnSet(f, {}) = F[{}] BY SumUnfold
<1> HIDE DEF F
<1> QED BY <1>2, <1>3 DEF Folded

(* ... of functions with the same values, ...                              *)
LEMMA SumSame ==
    ASSUME NEW f, NEW g, NEW S, IsFiniteSet(S), SameOn(f, g, S)
    PROVE  SumFunctionOnSet(f, S) = SumFunctionOnSet(g, S)
<1>0. S \subseteq S OBVIOUS
<1>1. SumIter(f, S)[S] = SumIter(g, S)[S] BY SMTT(60), <1>0, SumIterSame
<1> QED BY <1>1, SumUnfold

(* ... without one element, ...                                            *)
LEMMA SumRemove ==
    ASSUME NEW f, NEW S, IsFiniteSet(S), IntOn(f, S), NEW z \in S
    PROVE  SumFunctionOnSet(f, S) = f[z] + SumFunctionOnSet(f, S \ {z})
<1> DEFINE R == S \ {z}
<1>1. IsFiniteSet(R) /\ R \subseteq S /\ R \subseteq R BY FS_Subset
<1>2. SumIter(f, S)[S] = f[z] + SumIter(f, S)[R] BY SMTT(60), SumIterAny
<1> HIDE DEF R
<1>3. SumIter(f, S)[R] = SumIter(f, R)[R]
  <2>1. SameOn(f, f, R) BY DEF SameOn
  <2> QED BY SMTT(60), <1>1, <2>1, SumIterSame
<1> QED BY <1>2, <1>3, SumUnfold DEF R

LEMMA SumType ==
    ASSUME NEW f, NEW S, IsFiniteSet(S), IntOn(f, S)
    PROVE  SumFunctionOnSet(f, S) \in Int
<1>1. SumIter(f, S)[S] \in Int BY SumIterInt
<1> QED BY <1>1, SumUnfold

(* ... without a subset, ...                                               *)
LEMMA SumDifference ==
    ASSUME NEW f, NEW S, IsFiniteSet(S), IntOn(f, S), NEW K \in SUBSET S
    PROVE  SumFunctionOnSet(f, S) = SumFunctionOnSet(f, K) + SumFunctionOnSet(f, S \ K)
<1> DEFINE Sum(A) == SumFunctionOnSet(f, A)
           C == {s \in SUBSET S : Sum(S) # Sum(s) + Sum(S \ s)}
<1>1. ASSUME NEW s \in SUBSET S PROVE IsFiniteSet(s) /\ Sum(s) \in Int
  <2>1. IsFiniteSet(s) /\ IntOn(f, s) BY FS_Subset DEF IntOn
  <2> QED BY <2>1, SumType
<1>2. ASSUME NEW s \in SUBSET S, NEW x \in s PROVE Sum(s) = f[x] + Sum(s \ {x})
  <2>1. IsFiniteSet(s) /\ IntOn(f, s) BY <1>1 DEF IntOn
  <2> QED BY SMTT(60), <2>1, SumRemove
<1>3. Sum({}) = 0 BY SumEmpty
<1> HIDE DEF Sum
<1>4. ASSUME C # {} PROVE FALSE
  <2>1. C \subseteq SUBSET S OBVIOUS
  <2> HIDE DEF C
  <2>2. PICK m : Minimal(m, C) BY <1>4, <2>1, MinimalSubset
  <2>3. m \in SUBSET S /\ Sum(S) # Sum(m) + Sum(S \ m) BY <2>2 DEF C, Minimal
  <2>4. ASSUME m = {} PROVE FALSE
    <3>1. S \ m = S /\ S \in SUBSET S BY <2>4
    <3>2. Sum(S) \in Int /\ Sum(S) # 0 + Sum(S) BY <1>1, <1>3, <2>3, <2>4, <3>1
    <3> QED BY SMTT(60), <3>2
  <2>5. PICK x \in m : TRUE BY <2>4
  <2>6. m \ {x} \notin C BY <2>2, <2>5 DEF Minimal
  <2>7. Sum(S) = Sum(m \ {x}) + Sum(S \ (m \ {x})) BY <2>3, <2>6 DEF C
  <2>8. Sum(m) = f[x] + Sum(m \ {x}) BY <1>2, <2>3
  <2>9. Sum(S \ (m \ {x})) = f[x] + Sum(S \ m)
    <3>1. S \ (m \ {x}) \in SUBSET S /\ x \in S \ (m \ {x}) BY <2>3
    <3>2. (S \ (m \ {x})) \ {x} = S \ m OBVIOUS
    <3> QED BY SMTT(60), <1>2, <3>1, <3>2
  <2>10. Sum(m \ {x}) \in Int /\ Sum(S \ m) \in Int /\ f[x] \in Int BY <1>1, <2>3, <2>5 DEF IntOn
  <2> QED BY SMTT(60), <2>3, <2>7, <2>8, <2>9, <2>10
<1>5. K \notin C BY <1>4
<1> QED BY <1>5 DEF Sum

(* ... and of natural numbers.                                             *)
LEMMA SumNat ==
    ASSUME NEW f, NEW S, IsFiniteSet(S), \A x \in S : f[x] \in Nat
    PROVE  SumFunctionOnSet(f, S) \in Nat
<1> DEFINE Sum(A) == SumFunctionOnSet(f, A)
           C == {s \in SUBSET S : Sum(s) \notin Nat}
<1>1. \A s \in SUBSET S : IsFiniteSet(s) BY FS_Subset
<1>2. ASSUME NEW s \in SUBSET S, NEW x \in s PROVE Sum(s) = f[x] + Sum(s \ {x})
  <2>1. IsFiniteSet(s) /\ IntOn(f, s) BY SMTT(60), <1>1 DEF IntOn
  <2> QED BY SMTT(60), <2>1, SumRemove
<1>3. Sum({}) = 0 BY SumEmpty
<1> HIDE DEF Sum
<1>4. ASSUME C # {} PROVE FALSE
  <2>1. C \subseteq SUBSET S OBVIOUS
  <2> HIDE DEF C
  <2>2. PICK m : Minimal(m, C) BY <1>4, <2>1, MinimalSubset
  <2>3. m \in SUBSET S /\ Sum(m) \notin Nat BY <2>2 DEF C, Minimal
  <2>4. m # {} BY SMTT(60), <1>3, <2>3
  <2>5. PICK x \in m : TRUE BY <2>4
  <2>6. m \ {x} \notin C BY <2>2, <2>5 DEF Minimal
  <2>7. Sum(m \ {x}) \in Nat BY <2>3, <2>6 DEF C
  <2> QED BY SMTT(60), <1>2, <2>3, <2>7
<1>5. S \notin C BY <1>4
<1> QED BY <1>5 DEF Sum

(* The sum of sizes that are each c larger.                                *)
LEMMA SumShifted ==
    ASSUME NEW f, NEW g, NEW S, IsFiniteSet(S), IntOn(f, S), NEW c \in Int,
           \A x \in S : g[x] = c + f[x]
    PROVE  SumFunctionOnSet(g, S) = c * Cardinality(S) + SumFunctionOnSet(f, S)
<1> DEFINE F(A) == SumFunctionOnSet(f, A)
           G(A) == SumFunctionOnSet(g, A)
           C == {s \in SUBSET S : G(s) # c * Cardinality(s) + F(s)}
<1>1. ASSUME NEW s \in SUBSET S
      PROVE  IsFiniteSet(s) /\ Cardinality(s) \in Nat /\ IntOn(f, s) /\ IntOn(g, s) /\ F(s) \in Int
  <2>1. IsFiniteSet(s) /\ IntOn(f, s) /\ IntOn(g, s) BY SMTT(60), FS_Subset DEF IntOn
  <2> QED BY <2>1, SumType, FS_CardinalityType
<1>2. ASSUME NEW s \in SUBSET S, NEW x \in s
      PROVE  /\ F(s) = f[x] + F(s \ {x}) /\ G(s) = g[x] + G(s \ {x})
             /\ Cardinality(s \ {x}) = Cardinality(s) - 1
  <2>1. IsFiniteSet(s) /\ IntOn(f, s) /\ IntOn(g, s) BY <1>1
  <2>2. F(s) = f[x] + F(s \ {x}) BY SMTT(60), <2>1, SumRemove
  <2>3. G(s) = g[x] + G(s \ {x}) BY SMTT(60), <2>1, SumRemove
  <2>4. Cardinality(s \ {x}) = IF x \in s THEN Cardinality(s) - 1 ELSE Cardinality(s)
    BY <2>1, FS_RemoveElement
  <2> QED BY <2>2, <2>3, <2>4
<1>3. F({}) = 0 /\ G({}) = 0 /\ Cardinality({}) = 0 BY SumEmpty, FS_EmptySet
<1> HIDE DEF F, G
<1>4. ASSUME C # {} PROVE FALSE
  <2>1. C \subseteq SUBSET S OBVIOUS
  <2> HIDE DEF C
  <2>2. PICK m : Minimal(m, C) BY <1>4, <2>1, MinimalSubset
  <2>3. m \in SUBSET S /\ G(m) # c * Cardinality(m) + F(m) BY <2>2 DEF C, Minimal
  <2>4. m # {} BY SMTT(60), <1>3, <2>3
  <2>5. PICK x \in m : TRUE BY <2>4
  <2> DEFINE r == m \ {x}
  <2>6. r \in SUBSET S /\ r \notin C BY <2>2, <2>3, <2>5 DEF Minimal
  <2>7. G(r) = c * Cardinality(r) + F(r) BY <2>6 DEF C
  <2>8. F(m) = f[x] + F(r) /\ G(m) = g[x] + G(r) /\ Cardinality(r) = Cardinality(m) - 1
    BY <1>2, <2>3, <2>5
  <2>9. F(r) \in Int /\ f[x] \in Int /\ g[x] = c + f[x] /\ Cardinality(m) \in Nat
    BY <1>1, <2>3, <2>5, <2>6 DEF IntOn
  <2>10. c * (Cardinality(m) - 1) = c * Cardinality(m) - c BY SMTT(60), <2>9
  <2>11. c * Cardinality(m) \in Int BY SMTT(60), <2>9
  <2> HIDE DEF r
  <2> QED BY SMTT(60), <2>3, <2>7, <2>8, <2>9, <2>10, <2>11
<1>5. S \notin C BY <1>4
<1> QED BY <1>5 DEF F, G

-----------------------------------------------------------------------------
(* Remainders, as the uint32_t sizes of rocksdb_storage are.  A number is  *)
(* a multiple of W plus a remainder, ...                                   *)
LEMMA RemainderUnique ==
    ASSUME NEW W \in Nat \ {0}, NEW k \in Int, NEW r \in 0..(W - 1)
    PROVE  (W * k + r) % W = r
  BY SMTT(60)

LEMMA RemainderExists ==
    ASSUME NEW W \in Nat \ {0}, NEW a \in Int
    PROVE  \E k \in Int, r \in 0..(W - 1) : a = W * k + r
<1> DEFINE Divides(n) == \E k \in Int, r \in 0..(W - 1) : n = W * k + r
           T == {n \in Nat : Divides(n)}
<1>1. 0 \in T
  <2>1. 0 \in Int /\ 0 \in 0..(W - 1) /\ 0 = W * 0 + 0 /\ 0 \in Nat BY SMTT(60)
  <2> QED BY <2>1
<1>2. ASSUME NEW n \in T PROVE n + 1 \in T
  <2>1. PICK k \in Int, r \in 0..(W - 1) : n = W * k + r OBVIOUS
  <2>2. n \in Nat /\ n + 1 \in Nat BY SMTT(60)
  <2>3. CASE r = W - 1
    <3>1. k + 1 \in Int /\ 0 \in 0..(W - 1) /\ n + 1 = W * (k + 1) + 0 BY SMTT(60), <2>1, <2>3
    <3> QED BY <2>2, <3>1
  <2>4. CASE r # W - 1
    <3>1. r + 1 \in 0..(W - 1) /\ n + 1 = W * k + (r + 1) BY SMTT(60), <2>1, <2>4
    <3> QED BY <2>2, <3>1
  <2> QED BY <2>3, <2>4
<1>3. T = Nat
  <2> HIDE DEF T
  <2>1. T \in SUBSET Nat BY DEF T
  <2> QED BY <1>1, <1>2, <2>1, NatSetInduction
<1>4. CASE a \in Nat BY <1>3, <1>4
<1>5. CASE a \notin Nat
  <2>1. -a \in Nat BY SMTT(60), <1>5
  <2>2. PICK k \in Int, r \in 0..(W - 1) : -a = W * k + r BY <1>3, <2>1
  <2>3. CASE r = 0
    <3>1. -k \in Int /\ 0 \in 0..(W - 1) /\ a = W * (-k) + 0 BY SMTT(60), <2>2, <2>3
    <3> QED BY <3>1
  <2>4. CASE r # 0
    <3>1. -k - 1 \in Int /\ W - r \in 0..(W - 1) /\ a = W * (-k - 1) + (W - r)
      BY SMTT(60), <2>2, <2>4
    <3> QED BY <3>1
  <2> QED BY <2>3, <2>4
<1> QED BY <1>4, <1>5

(* ... so that a size may be reduced before or after another is added.     *)
LEMMA RemainderAdd ==
    ASSUME NEW W \in Nat \ {0}, NEW a \in Int, NEW s \in Int, NEW g, g = a % W
    PROVE  (g + s) % W = (a + s) % W
<1>1. PICK k \in Int, r \in 0..(W - 1) : a = W * k + r BY RemainderExists
<1>2. g = r BY <1>1, RemainderUnique
<1>3. r + s \in Int BY SMTT(60)
<1>4. PICK h \in Int, t \in 0..(W - 1) : r + s = W * h + t BY <1>3, RemainderExists
<1>5. (r + s) % W = t BY <1>4, RemainderUnique
<1>6. k + h \in Int /\ a + s = W * (k + h) + t BY SMTT(60), <1>1, <1>4
<1>7. (a + s) % W = t BY <1>6, RemainderUnique
<1> QED BY <1>2, <1>5, <1>7
=============================================================================
