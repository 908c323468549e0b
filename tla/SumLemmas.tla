----------------------------- MODULE SumLemmas -----------------------------
(***************************************************************************)
(* The sum of the values of a function over a finite set, as Billing takes *)
(* it: what it is of the empty set, and how it changes with the set and    *)
(* with the function.                                                      *)
(*                                                                         *)
(* Instead of induction the proofs look at a smallest set that has no such *)
(* sum: strict inclusion is well founded on the subsets of a finite set.   *)
(***************************************************************************)
EXTENDS Integers, FiniteSets, FiniteSetsExt, Functions, FiniteSetTheorems, TLAPS

Sum(f, C) == MapThenSumSet(LAMBDA c : f[c], C)

\* The element that is added first.
Picked(s) == CHOOSE x \in s : TRUE

\* g holds the sum of f over every subset of C.
IsTable(g, f, C) ==
    g = [s \in SUBSET C |-> IF s = {} THEN 0 ELSE f[Picked(s)] + g[s \ {Picked(s)}]]

\* Every set of subsets of a finite set that is not empty has a member that
\* contains no other one.
LEMMA SmallestSubset ==
    ASSUME NEW C, IsFiniteSet(C), NEW T \in SUBSET SUBSET C, T # {}
    PROVE  \E s \in T : \A r \in T : r \subseteq s => r = s
<1>1. IsWellFoundedOn(StrictSubsetOrdering(C), FiniteSubsetsOf(C))
  BY FS_StrictSubsetOrderingWellFounded
<1>2. T \subseteq FiniteSubsetsOf(C)
  BY FS_FiniteSubsetsOfFinite
<1>3. \E s \in T : \A r \in T : ~ (<<r, s>> \in StrictSubsetOrdering(C))
  BY <1>1, <1>2, WFMin
<1>4. QED
  BY <1>3 DEF StrictSubsetOrdering

\* The element that is added first is one of the set.
LEMMA PickedIn ==
    ASSUME NEW s, s # {}
    PROVE  Picked(s) \in s
  BY DEF Picked

\* The folds of the community modules compute such a table.
LEMMA SumOfTable ==
    ASSUME NEW f, NEW C
    PROVE  Sum(f, C) = (CHOOSE g : IsTable(g, f, C))[C]
  BY DEF Sum, MapThenSumSet, MapThenFoldSet, IsTable, Picked

\* What a table holds for a subset.
LEMMA TableAt ==
    ASSUME NEW f, NEW C, NEW g, IsTable(g, f, C), NEW s \in SUBSET C
    PROVE  g[s] = IF s = {} THEN 0 ELSE f[Picked(s)] + g[s \ {Picked(s)}]
  BY DEF IsTable

\* Two tables have the same sums.
LEMMA TablesAgree ==
    ASSUME NEW f, NEW C, IsFiniteSet(C), NEW D, NEW g, NEW h,
           IsTable(g, f, C), IsTable(h, f, D), NEW U \in SUBSET C, U \subseteq D
    PROVE  g[U] = h[U]
<1> DEFINE T == {s \in SUBSET C : s \subseteq D /\ g[s] # h[s]}
<1>1. SUFFICES ASSUME T # {} PROVE FALSE
  OBVIOUS
<1>2. PICK s \in T : \A r \in T : r \subseteq s => r = s
  <2>1. T \in SUBSET SUBSET C
    OBVIOUS
  <2> HIDE DEF T
  <2>2. QED
    BY <1>1, <2>1, SmallestSubset
<1>3. CASE s = {}
  BY <1>3, <1>2, TableAt
<1>4. CASE s # {}
  <2>1. Picked(s) \in s
    BY <1>4, PickedIn
  <2> DEFINE r == s \ {Picked(s)}
  <2>2. r \in SUBSET C /\ r \subseteq D /\ r # s
    BY <2>1, <1>2
  <2>3. g[r] = h[r]
    BY <2>2, <1>2
  <2>4. s \in SUBSET C /\ s \in SUBSET D
    BY <1>2
  <2>5. /\ g[s] = f[Picked(s)] + g[r]
        /\ h[s] = f[Picked(s)] + h[r]
    <3> HIDE DEF T, r
    <3>1. g[s] = IF s = {} THEN 0 ELSE f[Picked(s)] + g[s \ {Picked(s)}]
      BY <2>4, TableAt
    <3>2. h[s] = IF s = {} THEN 0 ELSE f[Picked(s)] + h[s \ {Picked(s)}]
      BY <2>4, TableAt
    <3>3. QED
      BY <1>4, <3>1, <3>2 DEF r
  <2>6. QED
    BY <2>3, <2>5, <1>2
<1>5. QED
  BY <1>3, <1>4

\* Every function has a table over every finite set.
LEMMA TableExists ==
    ASSUME NEW f, NEW C, IsFiniteSet(C)
    PROVE  \E g : IsTable(g, f, C)
<1> DEFINE T == {s \in SUBSET C : ~ \E g : IsTable(g, f, s)}
<1>1. SUFFICES ASSUME T # {} PROVE FALSE
  <2>1. C \in SUBSET C
    OBVIOUS
  <2>2. QED BY <2>1
<1>2. PICK s \in T : \A r \in T : r \subseteq s => r = s
  <2>1. T \in SUBSET SUBSET C
    OBVIOUS
  <2> HIDE DEF T
  <2>2. QED
    BY <1>1, <2>1, SmallestSubset
<1> DEFINE At(r) == (CHOOSE g : IsTable(g, f, r))[r]
           h == [r \in SUBSET s |-> IF r = {} THEN 0 ELSE f[Picked(r)] + At(r \ {Picked(r)})]
<1>3. ASSUME NEW r \in SUBSET s, r # s
      PROVE  IsTable(CHOOSE g : IsTable(g, f, r), f, r)
  <2>1. r \in SUBSET C /\ r \notin T
    BY <1>2, <1>3
  <2>2. \E g : IsTable(g, f, r)
    BY <2>1
  <2>3. QED
    BY <2>2
<1>4. ASSUME NEW r \in SUBSET s, r # s
      PROVE  h[r] = At(r)
  <2>1. CASE r = {}
    <3>1. At(r) = 0
      BY <1>3, <1>4, <2>1, TableAt
    <3>2. QED
      BY <3>1, <2>1
  <2>2. CASE r # {}
    <3> DEFINE q == r \ {Picked(r)}
               g1 == CHOOSE g : IsTable(g, f, r)
               g2 == CHOOSE g : IsTable(g, f, q)
    <3>1. Picked(r) \in r
      BY <2>2, PickedIn
    <3>2. q \in SUBSET s /\ q # s /\ q \in SUBSET r
      BY <3>1
    <3>3. IsTable(g1, f, r) /\ IsTable(g2, f, q)
      BY <1>3, <1>4, <3>2
    <3>4. g1[r] = f[Picked(r)] + g1[q]
      BY <3>3, <2>2, TableAt
    <3>5. IsFiniteSet(r)
      BY <1>2, <1>4, FS_Subset
    <3>6. g1[q] = g2[q]
      <4>1. q \in SUBSET r /\ q \subseteq q
        BY <3>2
      <4> HIDE DEF g1, g2, q, T
      <4>2. QED
        BY <4>1, <3>3, <3>5, TablesAgree
    <3>7. h[r] = f[Picked(r)] + g2[q]
      BY <2>2
    <3>8. QED
      BY <3>4, <3>6, <3>7
  <2>3. QED
    BY <2>1, <2>2
<1>5. IsTable(h, f, s)
  <2>1. ASSUME NEW r \in SUBSET s, r # {}
        PROVE  h[r \ {Picked(r)}] = At(r \ {Picked(r)})
    <3>1. Picked(r) \in r
      BY <2>1, PickedIn
    <3>2. r \ {Picked(r)} \in SUBSET s /\ r \ {Picked(r)} # s
      BY <3>1
    <3> HIDE DEF h, At
    <3>3. QED
      BY <3>2, <1>4
  <2>2. h = [r \in SUBSET s |-> IF r = {} THEN 0 ELSE f[Picked(r)] + h[r \ {Picked(r)}]]
    <3> HIDE DEF At
    <3>1. \A r \in SUBSET s : (IF r = {} THEN 0 ELSE f[Picked(r)] + At(r \ {Picked(r)}))
             = IF r = {} THEN 0 ELSE f[Picked(r)] + h[r \ {Picked(r)}]
      <4> HIDE DEF h
      <4> QED BY <2>1
    <3>2. QED
      BY <3>1
  <2>3. QED
    BY <2>2 DEF IsTable
<1>6. QED
  <2> HIDE DEF h
  <2> QED BY <1>2, <1>5

\* Nothing sums up to 0.
LEMMA SumEmpty ==
    ASSUME NEW f
    PROVE  Sum(f, {}) = 0
<1>1. IsTable(CHOOSE g : IsTable(g, f, {}), f, {})
  BY TableExists, FS_EmptySet
<1>2. QED
  BY <1>1, SumOfTable, TableAt

\* A sum is the first value and the sum of the others.
LEMMA SumPicked ==
    ASSUME NEW f, NEW C, IsFiniteSet(C), C # {}
    PROVE  Sum(f, C) = f[Picked(C)] + Sum(f, C \ {Picked(C)})
<1> DEFINE D == C \ {Picked(C)}
           g == CHOOSE g : IsTable(g, f, C)
           h == CHOOSE h : IsTable(h, f, D)
<1>1. IsFiniteSet(D) /\ D \in SUBSET C
  BY FS_RemoveElement
<1>2. IsTable(g, f, C) /\ IsTable(h, f, D)
  BY <1>1, TableExists
<1>3. g[C] = f[Picked(C)] + g[D]
  BY <1>2, TableAt
<1>4. g[D] = h[D]
  <2> HIDE DEF g, h
  <2> QED BY <1>1, <1>2, TablesAgree
<1>5. QED
  BY <1>3, <1>4, SumOfTable

-----------------------------------------------------------------------------
\* A sum of natural numbers is one.
LEMMA SumNat ==
    ASSUME NEW f, NEW C, IsFiniteSet(C), \A x \in C : f[x] \in Nat
    PROVE  Sum(f, C) \in Nat
<1> DEFINE T == {s \in SUBSET C : Sum(f, s) \notin Nat}
<1>1. SUFFICES ASSUME T # {} PROVE FALSE
  OBVIOUS
<1>2. PICK s \in T : \A r \in T : r \subseteq s => r = s
  <2>1. T \in SUBSET SUBSET C
    OBVIOUS
  <2> HIDE DEF T
  <2>2. QED
    BY <1>1, <2>1, SmallestSubset
<1>3. s # {}
  <2>1. Sum(f, {}) \in Nat
    BY SumEmpty
  <2>2. Sum(f, s) \notin Nat
    BY <1>2
  <2>3. QED
    BY <2>1, <2>2
<1>4. Picked(s) \in s /\ IsFiniteSet(s)
  BY <1>2, <1>3, PickedIn, FS_Subset
<1>5. Sum(f, s \ {Picked(s)}) \in Nat
  BY <1>2, <1>4
<1>6. Sum(f, s) = f[Picked(s)] + Sum(f, s \ {Picked(s)})
  BY <1>3, <1>4, SumPicked
<1>7. f[Picked(s)] \in Nat
  BY <1>2, <1>4
<1>8. QED
  BY <1>2, <1>5, <1>6, <1>7

\* Functions that are the same on a set have the same sum.
LEMMA SumSame ==
    ASSUME NEW f, NEW g, NEW C, IsFiniteSet(C), \A x \in C : f[x] = g[x]
    PROVE  Sum(f, C) = Sum(g, C)
<1> DEFINE T == {s \in SUBSET C : Sum(f, s) # Sum(g, s)}
<1>1. SUFFICES ASSUME T # {} PROVE FALSE
  OBVIOUS
<1>2. PICK s \in T : \A r \in T : r \subseteq s => r = s
  <2>1. T \in SUBSET SUBSET C
    OBVIOUS
  <2> HIDE DEF T
  <2>2. QED
    BY <1>1, <2>1, SmallestSubset
<1>3. s # {}
  BY <1>2, SumEmpty
<1>4. Picked(s) \in s /\ IsFiniteSet(s)
  BY <1>2, <1>3, PickedIn, FS_Subset
<1>5. Sum(f, s \ {Picked(s)}) = Sum(g, s \ {Picked(s)})
  BY <1>2, <1>4
<1>6. /\ Sum(f, s) = f[Picked(s)] + Sum(f, s \ {Picked(s)})
      /\ Sum(g, s) = g[Picked(s)] + Sum(g, s \ {Picked(s)})
  BY <1>3, <1>4, SumPicked
<1>7. f[Picked(s)] = g[Picked(s)]
  BY <1>2, <1>4
<1>8. QED
  BY <1>2, <1>5, <1>6, <1>7

\* The order does not matter: any element may be the first.
LEMMA SumSplit ==
    ASSUME NEW f, NEW C, IsFiniteSet(C), \A x \in C : f[x] \in Nat
    PROVE  \A c \in C : Sum(f, C) = f[c] + Sum(f, C \ {c})
<1> DEFINE Splits(s, c) == Sum(f, s) = f[c] + Sum(f, s \ {c})
           T == {s \in SUBSET C : \E c \in s : ~ Splits(s, c)}
<1>1. SUFFICES ASSUME T # {} PROVE FALSE
  <2> HIDE DEF Splits
  <2>1. C \notin T
    BY <1>1
  <2>2. \A c \in C : Splits(C, c)
    BY <2>1
  <2>3. QED
    BY <2>2 DEF Splits
<1>2. PICK s \in T : \A r \in T : r \subseteq s => r = s
  <2>1. T \in SUBSET SUBSET C
    OBVIOUS
  <2> HIDE DEF T
  <2>2. QED
    BY <1>1, <2>1, SmallestSubset
<1>3. PICK c \in s : ~ Splits(s, c)
  BY <1>2
<1>4. ASSUME NEW r \in SUBSET s, r # s
      PROVE  \A x \in r : Splits(r, x)
  <2>1. r \in SUBSET C /\ r \notin T
    BY <1>2, <1>4
  <2> HIDE DEF Splits
  <2>2. QED
    BY <2>1
<1> DEFINE p == Picked(s)
<1>5. p \in s /\ IsFiniteSet(s) /\ s \in SUBSET C
  BY <1>2, <1>3, PickedIn, FS_Subset
<1>6. Sum(f, s) = f[p] + Sum(f, s \ {p})
  BY <1>3, <1>5, SumPicked
<1>7. p # c
  BY <1>3, <1>6
<1> DEFINE rest == (s \ {p}) \ {c}
<1>8. Sum(f, s \ {p}) = f[c] + Sum(f, rest)
  <2>1. s \ {p} \in SUBSET s /\ s \ {p} # s /\ c \in s \ {p}
    BY <1>3, <1>5, <1>7
  <2> HIDE DEF T, p
  <2>2. Splits(s \ {p}, c)
    BY <2>1, <1>4
  <2>3. QED
    BY <2>2
<1>9. Sum(f, s \ {c}) = f[p] + Sum(f, rest)
  <2>1. s \ {c} \in SUBSET s /\ s \ {c} # s /\ p \in s \ {c}
    BY <1>3, <1>5, <1>7
  <2>2. rest = (s \ {c}) \ {p}
    OBVIOUS
  <2> HIDE DEF T, p, rest
  <2>3. Splits(s \ {c}, p)
    BY <2>1, <1>4
  <2>4. QED
    BY <2>2, <2>3
<1>10. f[p] \in Nat /\ f[c] \in Nat /\ Sum(f, rest) \in Nat
  <2>1. p \in C /\ c \in C /\ rest \in SUBSET C
    BY <1>3, <1>5
  <2>2. IsFiniteSet(rest)
    BY <2>1, FS_Subset
  <2>3. QED
    BY <2>1, <2>2, SumNat
<1>11. Splits(s, c)
  <2> HIDE DEF T, p, rest
  <2>1. QED
    BY <1>6, <1>8, <1>9, <1>10
<1>12. QED
  BY <1>3, <1>11

\* A new element adds its value.
LEMMA SumAdd ==
    ASSUME NEW f, NEW C, IsFiniteSet(C), NEW c, c \notin C, f[c] \in Nat,
           \A x \in C : f[x] \in Nat
    PROVE  Sum(f, C \union {c}) = f[c] + Sum(f, C)
<1>1. IsFiniteSet(C \union {c}) /\ (C \union {c}) \ {c} = C
  BY FS_AddElement
<1>2. QED
  BY <1>1, SumSplit

\* Another value of one element changes the sum by the difference.
LEMMA SumChange ==
    ASSUME NEW f, NEW g, NEW C, IsFiniteSet(C), NEW c \in C,
           \A x \in C : f[x] \in Nat /\ g[x] \in Nat,
           \A x \in C \ {c} : f[x] = g[x]
    PROVE  Sum(g, C) = Sum(f, C) - f[c] + g[c]
<1>1. IsFiniteSet(C \ {c})
  BY FS_RemoveElement
<1>2. Sum(f, C) = f[c] + Sum(f, C \ {c}) /\ Sum(g, C) = g[c] + Sum(g, C \ {c})
  BY SumSplit
<1>3. Sum(f, C \ {c}) = Sum(g, C \ {c})
  BY <1>1, SumSame
<1>4. Sum(f, C \ {c}) \in Nat
  BY <1>1, SumNat
<1>5. f[c] \in Nat /\ g[c] \in Nat
  OBVIOUS
<1>6. QED
  BY <1>2, <1>3, <1>4, <1>5

\* An element of value 0 may be added or left out.
LEMMA SumZero ==
    ASSUME NEW f, NEW C, IsFiniteSet(C), NEW c, f[c] = 0,
           \A x \in C : f[x] \in Nat
    PROVE  Sum(f, C \union {c}) = Sum(f, C)
<1>1. CASE c \in C
  <2>1. C \union {c} = C
    BY <1>1
  <2>2. QED
    BY <2>1
<1>2. CASE c \notin C
  <2>1. Sum(f, C \union {c}) = f[c] + Sum(f, C)
    BY <1>2, SumAdd
  <2>2. QED
    BY <2>1, SumNat
<1>3. QED
  BY <1>1, <1>2

-----------------------------------------------------------------------------
\* The sum over a set is that over a part of it and that over the rest.
LEMMA SumUnion ==
    ASSUME NEW f, NEW C, IsFiniteSet(C), NEW A \in SUBSET C, \A x \in C : f[x] \in Nat
    PROVE  Sum(f, C) = Sum(f, A) + Sum(f, C \ A)
<1> DEFINE Splits(s) == Sum(f, C) = Sum(f, s) + Sum(f, C \ s)
           T == {s \in SUBSET C : ~ Splits(s)}
<1>1. SUFFICES ASSUME T # {} PROVE FALSE
  OBVIOUS
<1>2. PICK s \in T : \A r \in T : r \subseteq s => r = s
  <2>1. T \in SUBSET SUBSET C
    OBVIOUS
  <2> HIDE DEF T
  <2>2. QED
    BY <1>1, <2>1, SmallestSubset
<1>3. s # {}
  <2>1. C \ {} = C
    OBVIOUS
  <2>2. Splits({})
    BY <2>1, SumEmpty, SumNat
  <2>3. QED
    BY <1>2, <2>2
<1> DEFINE p == Picked(s)
           r == s \ {p}
<1>4. p \in s /\ IsFiniteSet(s) /\ s \in SUBSET C
  BY <1>2, <1>3, PickedIn, FS_Subset
<1>5. Splits(r)
  <2>1. r \in SUBSET C /\ r # s /\ r \subseteq s
    BY <1>4
  <2> HIDE DEF p, r, Splits
  <2>2. QED
    BY <1>2, <2>1
<1>6. Sum(f, s) = f[p] + Sum(f, r)
  BY <1>3, <1>4, SumPicked
<1> HIDE DEF p
<1>7. C \ r = (C \ s) \union {p}
  BY <1>4
<1>8. IsFiniteSet(C \ s) /\ IsFiniteSet(r) /\ f[p] \in Nat
  BY <1>4, FS_Subset
<1>9. Sum(f, C \ r) = f[p] + Sum(f, C \ s)
  BY <1>4, <1>7, <1>8, SumAdd
<1>10. Sum(f, C \ s) \in Nat /\ Sum(f, r) \in Nat
  BY <1>4, <1>8, SumNat
<1> HIDE DEF r, T
<1>11. Splits(s)
  BY <1>5, <1>6, <1>8, <1>9, <1>10
<1>12. QED
  BY <1>2, <1>11 DEF T

\* A part has no larger sum.
LEMMA SumSubset ==
    ASSUME NEW f, NEW C, IsFiniteSet(C), NEW A \in SUBSET C, \A x \in C : f[x] \in Nat
    PROVE  Sum(f, A) \in Nat /\ Sum(f, A) <= Sum(f, C)
<1>1. IsFiniteSet(A) /\ IsFiniteSet(C \ A)
  BY FS_Subset
<1>2. Sum(f, A) \in Nat /\ Sum(f, C \ A) \in Nat
  BY <1>1, SumNat
<1>3. QED
  BY <1>2, SumUnion

\* Smaller values have no larger sum.
LEMMA SumLess ==
    ASSUME NEW f, NEW g, NEW C, IsFiniteSet(C),
           \A x \in C : f[x] \in Nat /\ g[x] \in Nat /\ f[x] <= g[x]
    PROVE  Sum(f, C) <= Sum(g, C)
<1> DEFINE T == {s \in SUBSET C : ~ (Sum(f, s) <= Sum(g, s))}
<1>1. SUFFICES ASSUME T # {} PROVE FALSE
  OBVIOUS
<1>2. PICK s \in T : \A r \in T : r \subseteq s => r = s
  <2>1. T \in SUBSET SUBSET C
    OBVIOUS
  <2> HIDE DEF T
  <2>2. QED
    BY <1>1, <2>1, SmallestSubset
<1>3. s # {}
  <2>1. Sum(f, {}) = 0 /\ Sum(g, {}) = 0
    BY SumEmpty
  <2>2. Sum(f, {}) <= Sum(g, {})
    BY <2>1
  <2>3. QED
    BY <1>2, <2>2
<1> DEFINE p == Picked(s)
           r == s \ {p}
<1>4. p \in s /\ IsFiniteSet(s) /\ IsFiniteSet(r) /\ s \in SUBSET C /\ r \in SUBSET C
  BY <1>2, <1>3, PickedIn, FS_Subset
<1>5. Sum(f, s) = f[p] + Sum(f, r) /\ Sum(g, s) = g[p] + Sum(g, r)
  BY <1>3, <1>4, SumPicked
<1>6. Sum(f, r) <= Sum(g, r)
  BY <1>2, <1>4
<1>7. Sum(f, r) \in Nat /\ Sum(g, r) \in Nat /\ f[p] \in Nat /\ g[p] \in Nat /\ f[p] <= g[p]
  BY <1>4, SumNat
<1>8. ~ (Sum(f, s) <= Sum(g, s))
  BY <1>2
<1> HIDE DEF p, r
<1>9. QED
  BY <1>5, <1>6, <1>7, <1>8

\* Values that are 0 sum up to 0, and may be left out.
LEMMA SumZeros ==
    ASSUME NEW f, NEW C, IsFiniteSet(C), NEW A \in SUBSET C,
           \A x \in C : f[x] \in Nat, \A x \in C \ A : f[x] = 0
    PROVE  Sum(f, C) = Sum(f, A)
<1> DEFINE D == C \ A
           T == {s \in SUBSET D : Sum(f, s) # 0}
<1>1. Sum(f, D) = 0
  <2>1. SUFFICES ASSUME T # {} PROVE FALSE
    OBVIOUS
  <2>2. IsFiniteSet(D)
    BY FS_Subset
  <2>3. PICK s \in T : \A r \in T : r \subseteq s => r = s
    <3>1. T \in SUBSET SUBSET D
      OBVIOUS
    <3> HIDE DEF T, D
    <3>2. QED
      BY <2>1, <2>2, <3>1, SmallestSubset
  <2>4. s # {}
    BY <2>3, SumEmpty
  <2>5. Picked(s) \in s /\ IsFiniteSet(s)
    BY <2>2, <2>3, <2>4, PickedIn, FS_Subset
  <2>6. Sum(f, s) = f[Picked(s)] + Sum(f, s \ {Picked(s)})
    BY <2>4, <2>5, SumPicked
  <2>7. f[Picked(s)] = 0 /\ Sum(f, s \ {Picked(s)}) = 0
    BY <2>3, <2>5
  <2>8. QED
    BY <2>3, <2>6, <2>7
<1>2. Sum(f, A) \in Nat
  BY SumSubset
<1>3. QED
  BY <1>1, <1>2, SumUnion

\* One more of one element is one more of the sum.
LEMMA SumOneMore ==
    ASSUME NEW f, NEW g, NEW C, IsFiniteSet(C), NEW c \in C,
           \A x \in C : f[x] \in Nat /\ g[x] \in Nat,
           g[c] = f[c] + 1, \A x \in C \ {c} : f[x] = g[x]
    PROVE  Sum(g, C) = Sum(f, C) + 1
<1>1. Sum(g, C) = Sum(f, C) - f[c] + g[c]
  BY SumChange
<1>2. Sum(f, C) \in Nat /\ f[c] \in Nat
  BY SumNat
<1>3. QED
  BY <1>1, <1>2

-----------------------------------------------------------------------------
(* Sums over pairs.                                                        *)

Row(o, K) == {<<o, k>> : k \in K}

LEMMA RowFinite ==
    ASSUME NEW o, NEW K, IsFiniteSet(K)
    PROVE  IsFiniteSet(Row(o, K))
  BY FS_Product, FS_Singleton, FS_Subset, {o} \X K = Row(o, K) DEF Row

\* The sum over a row of pairs.
LEMMA SumRow ==
    ASSUME NEW f, NEW g, NEW o, NEW K, IsFiniteSet(K),
           \A k \in K : g[k] \in Nat /\ f[<<o, k>>] = g[k]
    PROVE  Sum(f, Row(o, K)) = Sum(g, K)
<1> DEFINE T == {s \in SUBSET K : Sum(f, Row(o, s)) # Sum(g, s)}
<1>1. SUFFICES ASSUME T # {} PROVE FALSE
  OBVIOUS
<1>2. PICK s \in T : \A r \in T : r \subseteq s => r = s
  <2>1. T \in SUBSET SUBSET K
    OBVIOUS
  <2> HIDE DEF T
  <2>2. QED
    BY <1>1, <2>1, SmallestSubset
<1>3. s # {}
  <2>1. Row(o, {}) = {}
    BY DEF Row
  <2>2. Sum(f, Row(o, {})) = Sum(g, {})
    BY <2>1, SumEmpty
  <2>3. QED
    BY <1>2, <2>2
<1> DEFINE p == Picked(s)
           r == s \ {p}
<1>4. p \in s /\ IsFiniteSet(s) /\ IsFiniteSet(r) /\ s \in SUBSET K /\ r \in SUBSET K
  BY <1>2, <1>3, PickedIn, FS_Subset
<1>5. Sum(g, s) = g[p] + Sum(g, r)
  BY <1>3, <1>4, SumPicked
<1>6. Sum(f, Row(o, r)) = Sum(g, r)
  BY <1>2, <1>4
<1> HIDE DEF p
<1>7. Row(o, s) = Row(o, r) \union {<<o, p>>} /\ <<o, p>> \notin Row(o, r)
  BY <1>4 DEF Row
<1>8. IsFiniteSet(Row(o, r))
  BY <1>4, RowFinite
<1>9. f[<<o, p>>] \in Nat /\ f[<<o, p>>] = g[p] /\ \A x \in Row(o, r) : f[x] \in Nat
  BY <1>4 DEF Row
<1>10. Sum(f, Row(o, s)) = f[<<o, p>>] + Sum(f, Row(o, r))
  BY <1>7, <1>8, <1>9, SumAdd
<1>11. QED
  BY <1>2, <1>5, <1>6, <1>9, <1>10

\* The sum over some pairs is bounded by one of bounds of the rows.
LEMMA SumPairs ==
    ASSUME NEW f, NEW g, NEW B, NEW K, IsFiniteSet(B), IsFiniteSet(K), NEW R \in SUBSET (B \X K),
           \A x \in B \X K : f[x] \in Nat,
           \A o \in B : g[o] \in Nat /\ Sum(f, Row(o, K)) <= g[o]
    PROVE  Sum(f, R) <= Sum(g, B)
<1> DEFINE T == {s \in SUBSET B : ~ (Sum(f, s \X K) <= Sum(g, s))}
<1>0. IsFiniteSet(B \X K)
  BY FS_Product
<1>1. Sum(f, B \X K) <= Sum(g, B)
  <2>1. SUFFICES ASSUME T # {} PROVE FALSE
    OBVIOUS
  <2>2. PICK s \in T : \A r \in T : r \subseteq s => r = s
    <3>1. T \in SUBSET SUBSET B
      OBVIOUS
    <3> HIDE DEF T
    <3>2. QED
      BY <2>1, <3>1, SmallestSubset
  <2>3. s # {}
    <3>1. {} \X K = {}
      OBVIOUS
    <3>2. Sum(f, {} \X K) = 0 /\ Sum(g, {}) = 0
      BY <3>1, SumEmpty
    <3>3. Sum(f, {} \X K) <= Sum(g, {})
      BY <3>2
    <3>4. QED
      BY <2>2, <3>3
  <2> DEFINE p == Picked(s)
             r == s \ {p}
  <2>4. p \in s /\ IsFiniteSet(s) /\ IsFiniteSet(r) /\ s \in SUBSET B /\ r \in SUBSET B
    BY <2>2, <2>3, PickedIn, FS_Subset
  <2>5. Sum(g, s) = g[p] + Sum(g, r)
    BY <2>3, <2>4, SumPicked
  <2>6. Sum(f, r \X K) <= Sum(g, r)
    BY <2>2, <2>4
  <2>7. ~ (Sum(f, s \X K) <= Sum(g, s))
    BY <2>2
  <2> HIDE DEF p, T
  <2>8. Row(p, K) \in SUBSET (s \X K) /\ (s \X K) \ Row(p, K) = r \X K
    BY <2>4 DEF Row
  <2>9. IsFiniteSet(s \X K) /\ \A x \in s \X K : f[x] \in Nat
    BY <2>4, FS_Product
  <2>10. Sum(f, s \X K) = Sum(f, Row(p, K)) + Sum(f, r \X K)
    BY <2>8, <2>9, SumUnion
  <2>11. Sum(f, Row(p, K)) \in Nat /\ Sum(f, r \X K) \in Nat
    <3>1. r \X K \in SUBSET (s \X K)
      OBVIOUS
    <3>2. QED
      BY <2>8, <2>9, <3>1, SumSubset
  <2>12. Sum(g, r) \in Nat /\ g[p] \in Nat /\ Sum(f, Row(p, K)) <= g[p]
    BY <2>4, SumNat
  <2>13. QED
    BY <2>5, <2>6, <2>7, <2>10, <2>11, <2>12
<1>2. Sum(f, R) \in Nat /\ Sum(f, R) <= Sum(f, B \X K)
  BY <1>0, SumSubset
<1>3. Sum(f, B \X K) \in Nat /\ Sum(g, B) \in Nat
  BY <1>0, SumNat
<1>4. QED
  BY <1>1, <1>2, <1>3

-----------------------------------------------------------------------------
(* Sums over a set that is divided, or counted in another order.           *)

\* What holds for no elements, and for one more whenever it holds for some,
\* holds for all: P is the set of the subsets it holds for.
LEMMA SetInduction ==
    ASSUME NEW C, IsFiniteSet(C), NEW P, {} \in P,
           \A s \in SUBSET C : \A x \in C \ s : s \in P => s \union {x} \in P
    PROVE  C \in P
<1> DEFINE T == {s \in SUBSET C : s \notin P}
<1>1. SUFFICES ASSUME T # {} PROVE FALSE
  OBVIOUS
<1>2. PICK s \in T : \A r \in T : r \subseteq s => r = s
  <2>1. T \in SUBSET SUBSET C
    OBVIOUS
  <2> HIDE DEF T
  <2>2. QED
    BY <1>1, <2>1, SmallestSubset
<1>3. PICK x \in s : TRUE
  BY <1>2
<1>4. s \ {x} \in SUBSET C /\ x \in C \ (s \ {x}) /\ (s \ {x}) \union {x} = s
  BY <1>2
<1>5. s \ {x} \in P
  BY <1>2, <1>3, <1>4
<1>6. QED
  BY <1>2, <1>4, <1>5

\* The sum of a function of the community modules.
LEMMA SumOfFunction ==
    ASSUME NEW f
    PROVE  SumFunction(f) = Sum(f, DOMAIN f)
  BY DEF SumFunction, SumFunctionOnSet, FoldFunctionOnSet, Sum, MapThenSumSet

\* The sum of two functions.
LEMMA SumPlus ==
    ASSUME NEW f, NEW g, NEW h, NEW C, IsFiniteSet(C),
           \A x \in C : f[x] \in Nat /\ g[x] \in Nat /\ h[x] = f[x] + g[x]
    PROVE  Sum(h, C) = Sum(f, C) + Sum(g, C)
<1> DEFINE P == {s \in SUBSET C : Sum(h, s) = Sum(f, s) + Sum(g, s)}
<1>1. {} \in P
  BY SumEmpty
<1>2. ASSUME NEW s \in SUBSET C, NEW x \in C \ s, s \in P
      PROVE  s \union {x} \in P
  <2>1. IsFiniteSet(s) /\ s \union {x} \in SUBSET C
    BY FS_Subset
  <2>2. Sum(f, s \union {x}) = f[x] + Sum(f, s) /\ Sum(g, s \union {x}) = g[x] + Sum(g, s)
    BY <2>1, SumAdd
  <2>3. Sum(h, s \union {x}) = h[x] + Sum(h, s)
    <3>1. h[x] \in Nat /\ \A y \in s : h[y] \in Nat
      OBVIOUS
    <3>2. QED
      BY <2>1, <3>1, SumAdd
  <2>4. Sum(f, s) \in Nat /\ Sum(g, s) \in Nat
    BY <2>1, SumNat
  <2>5. f[x] \in Nat /\ g[x] \in Nat /\ h[x] = f[x] + g[x] /\ Sum(h, s) = Sum(f, s) + Sum(g, s)
    BY <1>2
  <2>6. Sum(h, s \union {x}) = Sum(f, s \union {x}) + Sum(g, s \union {x})
    BY <2>2, <2>3, <2>4, <2>5
  <2>7. QED
    BY <2>1, <2>6
<1>3. C \in P
  <2> HIDE DEF P
  <2> QED BY <1>1, <1>2, SetInduction
<1>4. QED
  BY <1>3

\* The sum over two sets without a common element.
LEMMA SumDisjoint ==
    ASSUME NEW f, NEW A, NEW B, IsFiniteSet(A), IsFiniteSet(B), A \intersect B = {},
           \A x \in A \union B : f[x] \in Nat
    PROVE  Sum(f, A \union B) = Sum(f, A) + Sum(f, B)
<1>1. IsFiniteSet(A \union B) /\ A \in SUBSET (A \union B) /\ (A \union B) \ A = B
  BY FS_Union
<1>2. QED
  BY <1>1, SumUnion

\* The number of elements is a sum of ones.
LEMMA SumOnes ==
    ASSUME NEW f, NEW C, IsFiniteSet(C), \A x \in C : f[x] = 1
    PROVE  Sum(f, C) = Cardinality(C)
<1> DEFINE P == {s \in SUBSET C : Sum(f, s) = Cardinality(s)}
<1>1. {} \in P
  BY SumEmpty, FS_EmptySet
<1>2. ASSUME NEW s \in SUBSET C, NEW x \in C \ s, s \in P
      PROVE  s \union {x} \in P
  <2>1. IsFiniteSet(s) /\ s \union {x} \in SUBSET C
    BY FS_Subset
  <2>2. Sum(f, s \union {x}) = f[x] + Sum(f, s)
    BY <2>1, SumAdd
  <2>3. Cardinality(s \union {x}) = Cardinality(s) + 1 /\ Cardinality(s) \in Nat
    BY <2>1, FS_AddElement, FS_CardinalityType
  <2>4. QED
    BY <1>2, <2>1, <2>2, <2>3
<1>3. C \in P
  <2> HIDE DEF P
  <2> QED BY <1>1, <1>2, SetInduction
<1>4. QED
  BY <1>3

\* The sum of one value.
LEMMA SumConstant ==
    ASSUME NEW f, NEW C, IsFiniteSet(C), NEW v \in Nat, \A x \in C : f[x] = v
    PROVE  Sum(f, C) = Cardinality(C) * v
<1> DEFINE P == {s \in SUBSET C : Sum(f, s) = Cardinality(s) * v}
<1>1. {} \in P
  BY SumEmpty, FS_EmptySet
<1>2. ASSUME NEW s \in SUBSET C, NEW x \in C \ s, s \in P
      PROVE  s \union {x} \in P
  <2> DEFINE k == Cardinality(s)
  <2>1. IsFiniteSet(s) /\ s \union {x} \in SUBSET C
    BY FS_Subset
  <2>2. Sum(f, s \union {x}) = f[x] + Sum(f, s)
    BY <2>1, SumAdd
  <2>3. Cardinality(s \union {x}) = k + 1 /\ k \in Nat
    BY <2>1, FS_AddElement, FS_CardinalityType
  <2>4. Sum(f, s) = k * v /\ f[x] = v
    BY <1>2
  <2> HIDE DEF k
  <2>5. v + k * v = (k + 1) * v
    BY <2>3
  <2>6. Sum(f, s \union {x}) = Cardinality(s \union {x}) * v
    BY <2>2, <2>3, <2>4, <2>5
  <2>7. QED
    BY <2>1, <2>6
<1>3. C \in P
  <2> HIDE DEF P
  <2> QED BY <1>1, <1>2, SetInduction
<1>4. QED
  BY <1>3

\* b maps C to D one to one.
OneToOne(b, C, D) ==
    /\ \A x \in C : b[x] \in D
    /\ \A y \in D : \E x \in C : b[x] = y
    /\ \A x, y \in C : b[x] = b[y] => x = y

\* The sum does not depend on the names of the elements.
LEMMA SumRenamed ==
    ASSUME NEW f, NEW g, NEW b, NEW C, NEW D, IsFiniteSet(C), OneToOne(b, C, D),
           \A x \in C : g[x] \in Nat /\ f[b[x]] = g[x]
    PROVE  IsFiniteSet(D) /\ Cardinality(D) = Cardinality(C) /\ Sum(f, D) = Sum(g, C)
<1> DEFINE I(s) == {b[x] : x \in s}
           P == {s \in SUBSET C : /\ IsFiniteSet(I(s)) /\ Cardinality(I(s)) = Cardinality(s)
                                  /\ Sum(f, I(s)) = Sum(g, s)}
<1>1. {} \in P
  <2>1. I({}) = {}
    OBVIOUS
  <2>2. QED
    BY <2>1, SumEmpty, FS_EmptySet
<1>2. ASSUME NEW s \in SUBSET C, NEW x \in C \ s, s \in P
      PROVE  s \union {x} \in P
  <2>1. IsFiniteSet(s) /\ s \union {x} \in SUBSET C
    BY FS_Subset
  <2>2. I(s \union {x}) = I(s) \union {b[x]} /\ b[x] \notin I(s)
    BY DEF OneToOne
  <2>3. Sum(g, s \union {x}) = g[x] + Sum(g, s)
    BY <2>1, SumAdd
  <2>4. f[b[x]] = g[x] /\ g[x] \in Nat /\ \A y \in I(s) : f[y] \in Nat
    OBVIOUS
  <2>5. IsFiniteSet(I(s)) /\ Cardinality(I(s)) = Cardinality(s) /\ Sum(f, I(s)) = Sum(g, s)
    BY <1>2
  <2>6. Sum(f, I(s) \union {b[x]}) = f[b[x]] + Sum(f, I(s))
    <3> HIDE DEF I
    <3> QED BY <2>2, <2>4, <2>5, SumAdd
  <2>7. /\ IsFiniteSet(I(s) \union {b[x]})
        /\ Cardinality(I(s) \union {b[x]}) = Cardinality(s \union {x})
    <3>1. x \notin s /\ Cardinality(s \union {x}) = Cardinality(s) + 1
      BY <2>1, FS_AddElement
    <3> DEFINE J == I(s)
               y == b[x]
    <3>2. y \notin J /\ IsFiniteSet(J) /\ Cardinality(J) = Cardinality(s)
      BY <2>2, <2>5
    <3>3. IsFiniteSet(J \union {y}) /\ Cardinality(J \union {y}) = Cardinality(J) + 1
      <4> HIDE DEF J, y, P
      <4> QED BY <3>2, FS_AddElement
    <3>4. Cardinality(J \union {y}) = Cardinality(s \union {x})
      <4> HIDE DEF J, y, P
      <4> QED BY <3>1, <3>2, <3>3
    <3>5. QED
      BY <3>3, <3>4
  <2>8. QED
    <3> HIDE DEF I
    <3> QED BY <2>1, <2>2, <2>3, <2>4, <2>5, <2>6, <2>7
<1>3. C \in P
  <2> HIDE DEF P
  <2> QED BY <1>1, <1>2, SetInduction
<1>4. I(C) = D
  BY DEF OneToOne
<1>5. QED
  BY <1>3, <1>4

\* What the parts of the elements of C make together.
Whole(part, C) == UNION {part[c] : c \in C}

\* A set in parts: the sum over the whole is the sum of those over the parts.
LEMMA SumParts ==
    ASSUME NEW f, NEW g, NEW part, NEW C, IsFiniteSet(C),
           \A c \in C : IsFiniteSet(part[c]) /\ g[c] = Sum(f, part[c]),
           \A c \in C : \A x \in part[c] : f[x] \in Nat,
           \A c, d \in C : c # d => part[c] \intersect part[d] = {}
    PROVE  IsFiniteSet(Whole(part, C)) /\ Sum(f, Whole(part, C)) = Sum(g, C)
<1> DEFINE U(s) == UNION {part[c] : c \in s}
           P == {s \in SUBSET C : IsFiniteSet(U(s)) /\ Sum(f, U(s)) = Sum(g, s)}
<1>1. {} \in P
  <2>1. U({}) = {}
    OBVIOUS
  <2>2. QED
    BY <2>1, SumEmpty, FS_EmptySet
<1>2. ASSUME NEW s \in SUBSET C, NEW c \in C \ s, s \in P
      PROVE  s \union {c} \in P
  <2>1. IsFiniteSet(s) /\ s \union {c} \in SUBSET C
    BY FS_Subset
  <2>2. U(s \union {c}) = U(s) \union part[c]
    OBVIOUS
  <2>3. U(s) \intersect part[c] = {}
    OBVIOUS
  <2>4. IsFiniteSet(part[c]) /\ IsFiniteSet(U(s)) /\ Sum(f, U(s)) = Sum(g, s)
    BY <1>2
  <2>5. \A x \in U(s) \union part[c] : f[x] \in Nat
    OBVIOUS
  <2>6. IsFiniteSet(U(s) \union part[c])
    <3> HIDE DEF U
    <3> QED BY <2>4, FS_Union
  <2>7. Sum(f, U(s) \union part[c]) = Sum(f, U(s)) + Sum(f, part[c])
    <3> HIDE DEF U
    <3> QED BY <2>3, <2>4, <2>5, SumDisjoint
  <2>8. \A d \in C : g[d] \in Nat
    <3>1. SUFFICES ASSUME NEW d \in C PROVE g[d] \in Nat
      OBVIOUS
    <3>2. IsFiniteSet(part[d]) /\ g[d] = Sum(f, part[d]) /\ \A x \in part[d] : f[x] \in Nat
      OBVIOUS
    <3>3. QED
      BY <3>2, SumNat
  <2>9. Sum(g, s \union {c}) = g[c] + Sum(g, s) /\ Sum(g, s) \in Nat
    BY <2>1, <2>8, SumAdd, SumNat
  <2>10. g[c] = Sum(f, part[c]) /\ g[c] \in Nat
    BY <2>8
  <2>11. Sum(f, U(s \union {c})) = Sum(g, s \union {c})
    <3>1. /\ Sum(f, U(s \union {c})) = Sum(f, U(s)) + Sum(f, part[c])
          /\ Sum(f, U(s)) = Sum(g, s)
      BY <2>2, <2>4, <2>7
    <3> HIDE DEF U, P
    <3> QED BY <3>1, <2>9, <2>10
  <2>12. QED
    BY <2>1, <2>2, <2>6, <2>11
<1>3. C \in P
  <2> HIDE DEF P
  <2> QED BY <1>1, <1>2, SetInduction
<1>4. QED
  BY <1>3 DEF Whole

\* The size of a set in parts.
LEMMA CardParts ==
    ASSUME NEW g, NEW part, NEW C, IsFiniteSet(C),
           \A c \in C : IsFiniteSet(part[c]) /\ g[c] = Cardinality(part[c]),
           \A c, d \in C : c # d => part[c] \intersect part[d] = {}
    PROVE  IsFiniteSet(Whole(part, C)) /\ Cardinality(Whole(part, C)) = Sum(g, C)
<1> DEFINE W == UNION {part[c] : c \in C}
           f == [x \in W |-> 1]
<1>1. \A c \in C : IsFiniteSet(part[c]) /\ g[c] = Sum(f, part[c])
  <2>1. SUFFICES ASSUME NEW c \in C PROVE IsFiniteSet(part[c]) /\ g[c] = Sum(f, part[c])
    OBVIOUS
  <2>2. IsFiniteSet(part[c]) /\ g[c] = Cardinality(part[c]) /\ \A x \in part[c] : f[x] = 1
    OBVIOUS
  <2> HIDE DEF f
  <2>3. QED
    BY <2>2, SumOnes
<1>2. \A c \in C : \A x \in part[c] : f[x] \in Nat
  OBVIOUS
<1>3. IsFiniteSet(W) /\ Sum(f, W) = Sum(g, C)
  <2> HIDE DEF f
  <2>1. \A c \in C : \A x \in part[c] : f[x] \in Nat
    BY <1>2
  <2>2. IsFiniteSet(Whole(part, C)) /\ Sum(f, Whole(part, C)) = Sum(g, C)
    BY <1>1, <2>1, SumParts
  <2>3. QED
    BY <2>2 DEF Whole
<1>4. \A x \in W : f[x] = 1
  OBVIOUS
<1>5. Sum(f, W) = Cardinality(W)
  <2> HIDE DEF f, W
  <2> QED BY <1>3, <1>4, SumOnes
<1>6. QED
  BY <1>3, <1>5 DEF Whole

\* The sums of the rows of a table of numbers, and the table with its columns
\* for rows.
RowSums(row, h, A, B) == \A a \in A : row[a] = Sum(h[a], B)

Turned(v, h, A, B) == \A a \in A : \A b \in B : h[a][b] \in Nat /\ v[b][a] = h[a][b]

\* The rows of a table have the same sum as its columns.
LEMMA SumSwap ==
    ASSUME NEW h, NEW v, NEW row, NEW column, NEW A, NEW B, IsFiniteSet(A), IsFiniteSet(B),
           Turned(v, h, A, B), RowSums(row, h, A, B), RowSums(column, v, B, A)
    PROVE  Sum(row, A) = Sum(column, B)
<1> USE DEF Turned, RowSums
<1> DEFINE k(s) == [b \in B |-> Sum(v[b], s)]
           P == {s \in SUBSET A : Sum(row, s) = Sum(k(s), B)}
<1>0. \A a \in A : row[a] \in Nat
  BY SumNat
<1>1. {} \in P
  <2>1. \A b \in B : k({})[b] = 0
    BY SumEmpty
  <2>2. Sum(k({}), B) = Sum(k({}), {})
    <3> HIDE DEF k
    <3>1. {} \in SUBSET B
      OBVIOUS
    <3> QED BY <2>1, <3>1, SumZeros
  <2>3. QED
    BY <2>2, SumEmpty
<1>2. ASSUME NEW s \in SUBSET A, NEW a \in A \ s, s \in P
      PROVE  s \union {a} \in P
  <2>1. IsFiniteSet(s) /\ s \union {a} \in SUBSET A
    BY FS_Subset
  <2>2. ASSUME NEW b \in B
        PROVE  k(s)[b] \in Nat /\ h[a][b] \in Nat /\ k(s \union {a})[b] = k(s)[b] + h[a][b]
    <3> DEFINE c == v[b]
    <3>1. \A x \in A : c[x] \in Nat
      OBVIOUS
    <3>2. k(s)[b] = Sum(c, s) /\ k(s \union {a})[b] = Sum(c, s \union {a}) /\ h[a][b] = c[a]
      OBVIOUS
    <3> HIDE DEF c, k
    <3>3. Sum(c, s) \in Nat /\ Sum(c, s \union {a}) = c[a] + Sum(c, s)
      BY <2>1, <3>1, SumNat, SumAdd
    <3>4. QED
      BY <3>1, <3>2, <3>3
  <2>3. Sum(k(s \union {a}), B) = Sum(k(s), B) + Sum(h[a], B)
    <3>1. \A b \in B : k(s)[b] \in Nat /\ h[a][b] \in Nat
                        /\ k(s \union {a})[b] = k(s)[b] + h[a][b]
      BY <2>2
    <3> DEFINE old == k(s)
               new == k(s \union {a})
               one == h[a]
    <3>2. \A b \in B : old[b] \in Nat /\ one[b] \in Nat /\ new[b] = old[b] + one[b]
      BY <3>1
    <3>3. Sum(new, B) = Sum(old, B) + Sum(one, B)
      <4> HIDE DEF old, new, one, P, k
      <4> QED BY <3>2, SumPlus
    <3>4. QED
      BY <3>3
  <2>4. Sum(row, s \union {a}) = row[a] + Sum(row, s) /\ Sum(row, s) \in Nat
    BY <1>0, <2>1, SumAdd, SumNat
  <2>5. Sum(row, s) = Sum(k(s), B) /\ row[a] = Sum(h[a], B) /\ row[a] \in Nat
    BY <1>0, <1>2
  <2>6. Sum(row, s \union {a}) = Sum(k(s \union {a}), B)
    <3> HIDE DEF k
    <3> QED BY <2>3, <2>4, <2>5
  <2>7. QED
    BY <2>1, <2>6
<1>3. A \in P
  <2> HIDE DEF P
  <2> QED BY <1>1, <1>2, SetInduction
<1>4. Sum(k(A), B) = Sum(column, B)
  <2>1. \A b \in B : k(A)[b] = column[b]
    OBVIOUS
  <2> HIDE DEF k
  <2> QED BY <2>1, SumSame
<1>5. QED
  BY <1>3, <1>4

-----------------------------------------------------------------------------
(* Sets divided by a key, and put in an order.                             *)

\* A finite set has finitely many keys, and not more than elements.
LEMMA KeysFinite ==
    ASSUME NEW key, NEW C, IsFiniteSet(C)
    PROVE  /\ IsFiniteSet({key[x] : x \in C})
           /\ Cardinality({key[x] : x \in C}) <= Cardinality(C)
<1> DEFINE K == {key[x] : x \in C}
           f == [x \in C |-> key[x]]
<1>1. f \in Surjection(C, K)
  BY DEF Surjection
<1>2. QED
  <2> HIDE DEF K, f
  <2>1. IsFiniteSet(K) /\ Cardinality(K) <= Cardinality(C)
    BY <1>1, FS_Surjection
  <2>2. QED
    BY <2>1 DEF K

\* The elements of C that have the key k.
Having(C, key, k) == {x \in C : key[x] = k}

\* The groups of the elements by their keys make the set.
LEMMA SumByKey ==
    ASSUME NEW f, NEW g, NEW key, NEW C, NEW K, IsFiniteSet(C), IsFiniteSet(K),
           \A x \in C : f[x] \in Nat /\ key[x] \in K,
           \A k \in K : g[k] = Sum(f, Having(C, key, k))
    PROVE  Sum(g, K) = Sum(f, C)
<1> DEFINE part == [k \in K |-> Having(C, key, k)]
<1>1. \A k \in K : IsFiniteSet(part[k]) /\ g[k] = Sum(f, part[k])
  <2>1. SUFFICES ASSUME NEW k \in K PROVE IsFiniteSet(Having(C, key, k))
    OBVIOUS
  <2>2. Having(C, key, k) \in SUBSET C
    BY DEF Having
  <2>3. QED
    BY <2>2, FS_Subset
<1>2. \A k \in K : \A x \in part[k] : f[x] \in Nat
  BY DEF Having
<1>3. \A k, l \in K : k # l => part[k] \intersect part[l] = {}
  BY DEF Having
<1>4. Whole(part, K) = C
  BY DEF Whole, Having
<1>5. QED
  <2> HIDE DEF part
  <2> QED BY <1>1, <1>2, <1>3, <1>4, SumParts

\* So do their sizes.
LEMMA CardByKey ==
    ASSUME NEW g, NEW key, NEW C, NEW K, IsFiniteSet(C), IsFiniteSet(K),
           \A x \in C : key[x] \in K,
           \A k \in K : g[k] = Cardinality(Having(C, key, k))
    PROVE  Sum(g, K) = Cardinality(C)
<1> DEFINE f == [x \in C |-> 1]
<1>1. \A x \in C : f[x] = 1 /\ f[x] \in Nat /\ key[x] \in K
  OBVIOUS
<1>2. \A k \in K : g[k] = Sum(f, Having(C, key, k))
  <2>1. SUFFICES ASSUME NEW k \in K PROVE Sum(f, Having(C, key, k)) = Cardinality(Having(C, key, k))
    OBVIOUS
  <2>2. Having(C, key, k) \in SUBSET C
    BY DEF Having
  <2> HIDE DEF f
  <2>3. IsFiniteSet(Having(C, key, k)) /\ \A x \in Having(C, key, k) : f[x] = 1
    BY <1>1, <2>2, FS_Subset
  <2>4. QED
    BY <2>3, SumOnes
<1> HIDE DEF f
<1>3. Sum(g, K) = Sum(f, C)
  <2>1. \A x \in C : f[x] \in Nat /\ key[x] \in K
    BY <1>1
  <2>2. QED
    BY <1>2, <2>1, SumByKey
<1>4. \A x \in C : f[x] = 1
  BY <1>1
<1>5. Sum(f, C) = Cardinality(C)
  BY <1>4, SumOnes
<1>6. QED
  BY <1>3, <1>5

\* Of finitely many elements one is of the highest rank.
LEMMA HighestExists ==
    ASSUME NEW rank, NEW C, IsFiniteSet(C), C # {}, \A x \in C : rank[x] \in Int
    PROVE  \E h \in C : \A x \in C : rank[x] <= rank[h]
<1> DEFINE P == {s \in SUBSET C : s # {} => \E h \in s : \A x \in s : rank[x] <= rank[h]}
<1>1. {} \in P
  OBVIOUS
<1>2. ASSUME NEW s \in SUBSET C, NEW x \in C \ s, s \in P
      PROVE  s \union {x} \in P
  <2>1. CASE s = {}
    <3>1. \A y \in s \union {x} : rank[y] <= rank[x]
      BY <2>1
    <3>2. QED
      BY <3>1
  <2>2. CASE s # {}
    <3>1. PICK h \in s : \A y \in s : rank[y] <= rank[h]
      BY <1>2, <2>2
    <3>2. CASE rank[x] <= rank[h]
      <4>1. h \in s \union {x} /\ \A y \in s \union {x} : rank[y] <= rank[h]
        BY <3>1, <3>2
      <4>2. QED
        BY <4>1
    <3>3. CASE ~ (rank[x] <= rank[h])
      <4>1. \A y \in s \union {x} : rank[y] <= rank[x]
        BY <3>1, <3>3
      <4>2. QED
        BY <4>1
    <3>4. QED
      BY <3>2, <3>3
  <2>3. QED
    BY <2>1, <2>2
<1>3. C \in P
  <2> HIDE DEF P
  <2> QED BY <1>1, <1>2, SetInduction
<1>4. QED
  BY <1>3

\* s holds every element of S once, those of a lower rank first.
IsRanking(s, S, rank) ==
    LET D == 1 .. Cardinality(S) IN
    /\ s \in [D -> S]
    /\ \A i, j \in D : i # j => s[i] # s[j]
    /\ \A i, j \in D : i < j => rank[s[i]] <= rank[s[j]]

\* Finitely many elements can be ranked.
LEMMA RankingExists ==
    ASSUME NEW rank, NEW C, IsFiniteSet(C), \A x \in C : rank[x] \in Int
    PROVE  \E s : IsRanking(s, C, rank)
<1> DEFINE T == {A \in SUBSET C : ~ \E s : IsRanking(s, A, rank)}
<1>1. SUFFICES ASSUME T # {} PROVE FALSE
  OBVIOUS
<1>2. PICK A \in T : \A B \in T : B \subseteq A => B = A
  <2>1. T \in SUBSET SUBSET C
    OBVIOUS
  <2> HIDE DEF T
  <2>2. QED
    BY <1>1, <2>1, SmallestSubset
<1>3. A \in SUBSET C /\ IsFiniteSet(A) /\ ~ \E s : IsRanking(s, A, rank)
  BY <1>2, FS_Subset
<1>4. A # {}
  <2>1. Cardinality({}) = 0 /\ 1 .. 0 = {}
    BY FS_EmptySet
  <2>2. IsRanking([i \in 1 .. 0 |-> 0], {}, rank)
    BY <2>1 DEF IsRanking
  <2>3. QED
    BY <1>3, <2>2
<1>5. PICK h \in A : \A x \in A : rank[x] <= rank[h]
  BY <1>3, <1>4, HighestExists
<1> DEFINE B == A \ {h}
<1>6. B \in SUBSET C /\ B # A /\ B \subseteq A
  BY <1>3, <1>5
<1>7. PICK r : IsRanking(r, B, rank)
  BY <1>2, <1>6
<1> DEFINE n == Cardinality(B)
           s == [i \in 1 .. n + 1 |-> IF i = n + 1 THEN h ELSE r[i]]
<1>8. n \in Nat /\ Cardinality(A) = n + 1
  <2>1. IsFiniteSet(B) /\ n = Cardinality(A) - 1
    BY <1>3, <1>5, FS_RemoveElement
  <2>2. n \in Nat /\ Cardinality(A) \in Nat
    <3> HIDE DEF B
    <3> QED BY <1>3, <2>1, FS_CardinalityType
  <2>3. QED
    BY <2>1, <2>2
<1>9. r \in [1 .. n -> B] /\ (\A i, j \in 1 .. n : i # j => r[i] # r[j])
      /\ (\A i, j \in 1 .. n : i < j => rank[r[i]] <= rank[r[j]])
  BY <1>7 DEF IsRanking
<1>10. \A i \in 1 .. n + 1 : i # n + 1 => i \in 1 .. n
  BY <1>8
<1> HIDE DEF n
<1>11. s \in [1 .. n + 1 -> A]
  BY <1>5, <1>9, <1>10
<1>12. ASSUME NEW i \in 1 .. n + 1, NEW j \in 1 .. n + 1
       PROVE  /\ i # j => s[i] # s[j]
              /\ i < j => rank[s[i]] <= rank[s[j]]
  <2>1. i # n + 1 => s[i] = r[i] /\ r[i] \in B /\ i \in 1 .. n
    BY <1>9, <1>10
  <2>2. j # n + 1 => s[j] = r[j] /\ r[j] \in B /\ j \in 1 .. n
    BY <1>9, <1>10
  <2>3. (i = n + 1 => s[i] = h) /\ (j = n + 1 => s[j] = h) /\ h \notin B
    OBVIOUS
  <2>4. i < j => i # n + 1
    BY <1>8
  <2>5. CASE i = n + 1 \/ j = n + 1
    <3>1. i # j => s[i] # s[j]
      <4> HIDE DEF s
      <4> QED BY <2>1, <2>2, <2>3, <2>5
    <3>2. i < j => rank[s[i]] <= rank[s[j]]
      <4>1. i < j => s[j] = h /\ s[i] \in A
        <5> HIDE DEF s
        <5> QED BY <2>1, <2>3, <2>4, <2>5
      <4> HIDE DEF s
      <4>2. QED
        BY <1>5, <4>1
    <3>3. QED
      BY <3>1, <3>2
  <2>6. CASE i # n + 1 /\ j # n + 1
    <3> HIDE DEF s
    <3> QED BY <1>9, <2>1, <2>2, <2>6
  <2>7. QED
    BY <2>5, <2>6
<1>13. IsRanking(s, A, rank)
  <2> HIDE DEF s
  <2> QED BY <1>8, <1>11, <1>12 DEF IsRanking
<1>14. QED
  BY <1>3, <1>13

\* A ranking leaves no element out.
LEMMA RankingOnto ==
    ASSUME NEW rank, NEW S, IsFiniteSet(S), NEW s, IsRanking(s, S, rank)
    PROVE  OneToOne(s, 1 .. Cardinality(S), S)
<1> DEFINE D == 1 .. Cardinality(S)
<1>1. Cardinality(S) \in Nat /\ IsFiniteSet(D) /\ Cardinality(D) = Cardinality(S)
  BY FS_CardinalityType, FS_Interval
<1>2. s \in Injection(D, S)
  BY DEF IsRanking, Injection, IsInjective
<1>3. s \in Surjection(D, S)
  <2> HIDE DEF D
  <2> QED BY <1>1, <1>2, FS_Injection
<1>4. QED
  BY <1>2, <1>3 DEF IsRanking, OneToOne, Surjection

=============================================================================
