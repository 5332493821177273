-------------------------------- MODULE Sums ---------------------------------
(***************************************************************************)
(* Facts about SumFunctionOnSet of the community modules, the sum the      *)
(* billing modules add money and days with: what it is on the empty set,   *)
(* what one element more, one element less and one other value do to it.   *)
(* Each is an induction over the size of the set, carried by UpTo: a set   *)
(* that holds 0, and n + 1 with every n, holds every natural number.       *)
(***************************************************************************)
EXTENDS Integers, FiniteSets, Functions, FiniteSetTheorems, WellFoundedInduction, TLAPS

\* Induction: a set with 0 and every successor has every natural number.
LEMMA UpTo ==
    ASSUME NEW T, 0 \in T, \A n \in Nat : n \in T => n + 1 \in T
    PROVE  Nat \subseteq T
<1> SUFFICES ASSUME Nat \ T # {} PROVE FALSE
  OBVIOUS
<1> DEFINE R == OpToRel(<, Nat)
<1>1. IsWellFoundedOn(R, Nat)
  BY NatLessThanWellFounded, Zenon
<1>2. \A a, b \in Nat : a < b => <<a, b>> \in R
  BY DEF OpToRel
<1> HIDE DEF R
<1>3. PICK x \in Nat \ T : \A y \in Nat \ T : ~(<<y, x>> \in R)
  BY <1>1, WFMin
<1>4. x \in Nat /\ x # 0
  OBVIOUS
<1>5. x - 1 \in Nat /\ x - 1 < x /\ (x - 1) + 1 = x
  BY <1>4
<1>6. x - 1 \in T
  BY <1>2, <1>3, <1>4, <1>5
<1> QED BY <1>5, <1>6

IsSum(g, f, S) ==
    g = [s \in SUBSET S |-> IF s = {} THEN 0 ELSE LET x == CHOOSE x \in s : TRUE IN f[x] + g[s \ {x}]]

\* The sum of the community modules is the recursive function IsSum describes.
LEMMA SumIsSum ==
    ASSUME NEW f, NEW S, \E g : IsSum(g, f, S)
    PROVE  \E g : IsSum(g, f, S) /\ SumFunctionOnSet(f, S) = g[S]
<1> DEFINE h == CHOOSE g : IsSum(g, f, S)
<1>1. IsSum(h, f, S)
  OBVIOUS
<1>2. SumFunctionOnSet(f, S) = h[S]
  BY DEF SumFunctionOnSet, FoldFunctionOnSet, MapThenFoldSet, IsSum
<1> QED BY <1>1, <1>2

\* One element of a set, the one the sum takes first.
Pick1(s) == CHOOSE x \in s : TRUE
\* A set that is not empty has the element that is picked.
LEMMA Picked == ASSUME NEW s, s # {} PROVE Pick1(s) \in s
  BY DEF Pick1

SumStep(g, f, s) == g[s] = IF s = {} THEN 0 ELSE f[Pick1(s)] + g[s \ {Pick1(s)}]

\* One step of that recursion.
LEMMA IsSumStep == ASSUME NEW g, NEW f, NEW S, NEW s \in SUBSET S, IsSum(g, f, S) PROVE SumStep(g, f, s)
  BY DEF IsSum, SumStep, Pick1

\* A set without one of its elements.
LEMMA Smaller ==
    ASSUME NEW s, IsFiniteSet(s), s # {}, NEW x \in s
    PROVE  /\ IsFiniteSet(s \ {x}) /\ Cardinality(s) \in Nat \ {0}
           /\ Cardinality(s \ {x}) \in Nat /\ Cardinality(s \ {x}) = Cardinality(s) - 1
<1>1. IsFiniteSet(s \ {x}) /\ Cardinality(s \ {x}) = Cardinality(s) - 1
  BY FS_RemoveElement
<1>2. Cardinality(s) \in Nat /\ Cardinality(s) # 0
  BY FS_CardinalityType, FS_EmptySet
<1> QED BY <1>1, <1>2

\* The sum exists on every finite set.
LEMMA SumExists == ASSUME NEW f, NEW S, IsFiniteSet(S) PROVE \E g : IsSum(g, f, S)
<1> DEFINE Small(n) == {s \in SUBSET S : Cardinality(s) <= n}
           Upto(g, n) == g = [s \in Small(n) |-> IF s = {} THEN 0 ELSE f[Pick1(s)] + g[s \ {Pick1(s)}]]
           T == {n \in Nat : \E g : Upto(g, n)}
<1>0. \A s \in SUBSET S : IsFiniteSet(s) /\ Cardinality(s) \in Nat
  BY FS_Subset, FS_CardinalityType
<1>1. 0 \in T
  <2>1. \A s \in Small(0) : s = {}
    BY <1>0, FS_EmptySet
  <2>2. Upto([s \in Small(0) |-> 0], 0)
    BY <2>1
  <2> QED BY <2>2
<1>2. ASSUME NEW n \in Nat, n \in T PROVE n + 1 \in T
  <2>1. PICK g : Upto(g, n)
    BY <1>2
  <2> DEFINE h == [s \in Small(n + 1) |-> IF s = {} THEN 0 ELSE f[Pick1(s)] + g[s \ {Pick1(s)}]]
  <2>2. \A s \in Small(n) : s \in Small(n + 1) /\ h[s] = g[s]
    <3>1. \A s \in Small(n) : s \in Small(n + 1)
      BY <1>0
    <3> QED BY <2>1, <3>1
  <2>3. \A s \in Small(n + 1) : s # {} => s \ {Pick1(s)} \in Small(n)
    <3> SUFFICES ASSUME NEW s \in Small(n + 1), s # {} PROVE s \ {Pick1(s)} \in Small(n)
      OBVIOUS
    <3>1. IsFiniteSet(s) /\ Cardinality(s) \in Nat /\ Cardinality(s) <= n + 1
      BY <1>0
    <3>2. Cardinality(s \ {Pick1(s)}) = Cardinality(s) - 1
      BY <3>1, Picked, Smaller
    <3> QED BY <3>1, <3>2
  <2>4. Upto(h, n + 1)
    <3>1. \A s \in Small(n + 1) : h[s] = IF s = {} THEN 0 ELSE f[Pick1(s)] + h[s \ {Pick1(s)}]
      BY <2>2, <2>3
    <3> QED BY <3>1
  <2>5. \E q : Upto(q, n + 1)
    <3> HIDE DEF h, Upto
    <3> QED BY <2>4
  <2>6. n + 1 \in Nat
    OBVIOUS
  <2> HIDE DEF Upto, h
  <2> QED BY <2>5, <2>6
<1>3. Nat \subseteq T
  <2> HIDE DEF T
  <2> QED BY <1>1, <1>2, UpTo
<1>4. Cardinality(S) \in T
  BY <1>0, <1>3
<1>5. PICK g : Upto(g, Cardinality(S))
  BY <1>4
<1>6. Small(Cardinality(S)) = SUBSET S
  <2>1. \A s \in SUBSET S : Cardinality(s) <= Cardinality(S)
    BY FS_Subset
  <2> QED BY <2>1
<1>7. IsSum(g, f, S)
  BY <1>5, <1>6 DEF IsSum, Pick1
<1> QED BY <1>7

\* Two sums agree where their functions do.
LEMMA SumUnique ==
    ASSUME NEW f, NEW S, NEW g, IsSum(g, f, S), NEW e, NEW T, NEW h, IsSum(h, e, T),
           NEW s \in SUBSET S, s \in SUBSET T, IsFiniteSet(s), \A x \in s : f[x] = e[x]
    PROVE  g[s] = h[s]
<1> DEFINE N == {n \in Nat : \A t \in SUBSET s : Cardinality(t) = n => g[t] = h[t]}
<1>0. \A t \in SUBSET s : IsFiniteSet(t) /\ Cardinality(t) \in Nat
  BY FS_Subset, FS_CardinalityType
<1>1. 0 \in N
  <2> SUFFICES ASSUME NEW t \in SUBSET s, Cardinality(t) = 0 PROVE g[t] = h[t]
    OBVIOUS
  <2>1. t = {}
    BY <1>0, FS_EmptySet
  <2> QED BY <2>1, IsSumStep DEF SumStep
<1>2. ASSUME NEW n \in Nat, n \in N PROVE n + 1 \in N
  <2> SUFFICES ASSUME NEW t \in SUBSET s, Cardinality(t) = n + 1 PROVE g[t] = h[t]
    OBVIOUS
  <2>1. t # {}
    BY FS_EmptySet
  <2>2. Pick1(t) \in t
    BY <2>1, Picked
  <2>3. t \ {Pick1(t)} \in SUBSET s /\ Cardinality(t \ {Pick1(t)}) = n
    BY <1>0, <2>1, <2>2, Smaller
  <2>4. g[t \ {Pick1(t)}] = h[t \ {Pick1(t)}]
    BY <1>2, <2>3
  <2>5. SumStep(g, f, t) /\ SumStep(h, e, t)
    BY IsSumStep
  <2> QED BY <2>1, <2>2, <2>4, <2>5 DEF SumStep
<1>3. Nat \subseteq N
  <2> HIDE DEF N
  <2> QED BY <1>1, <1>2, UpTo
<1> QED BY <1>0, <1>3

\* The sum over no element.
LEMMA SumEmpty == ASSUME NEW f PROVE SumFunctionOnSet(f, {}) = 0
<1>1. PICK g : IsSum(g, f, {}) /\ SumFunctionOnSet(f, {}) = g[{}]
  BY FS_EmptySet, SumExists, SumIsSum
<1> QED BY <1>1, IsSumStep DEF SumStep

\* The sum depends on the values on the set alone.
LEMMA SumSame ==
    ASSUME NEW f, NEW e, NEW S, IsFiniteSet(S), \A x \in S : f[x] = e[x]
    PROVE  SumFunctionOnSet(f, S) = SumFunctionOnSet(e, S)
<1>1. PICK g : IsSum(g, f, S) /\ SumFunctionOnSet(f, S) = g[S]
  BY SumExists, SumIsSum
<1>2. PICK h : IsSum(h, e, S) /\ SumFunctionOnSet(e, S) = h[S]
  BY SumExists, SumIsSum
<1> QED BY <1>1, <1>2, SumUnique

\* The element that is picked, and the rest.
LEMMA SumFirst ==
    ASSUME NEW f, NEW S, IsFiniteSet(S), S # {}
    PROVE  SumFunctionOnSet(f, S) = f[Pick1(S)] + SumFunctionOnSet(f, S \ {Pick1(S)})
<1>1. PICK g : IsSum(g, f, S) /\ SumFunctionOnSet(f, S) = g[S]
  BY SumExists, SumIsSum
<1>2. IsFiniteSet(S \ {Pick1(S)})
  BY FS_Subset
<1>3. PICK h : IsSum(h, f, S \ {Pick1(S)}) /\ SumFunctionOnSet(f, S \ {Pick1(S)}) = h[S \ {Pick1(S)}]
  BY <1>2, SumExists, SumIsSum
<1>4. g[S \ {Pick1(S)}] = h[S \ {Pick1(S)}]
  BY <1>1, <1>2, <1>3, SumUnique
<1>5. SumStep(g, f, S)
  BY <1>1, IsSumStep
<1> QED BY <1>1, <1>3, <1>4, <1>5 DEF SumStep

\* A sum of integers is an integer.
LEMMA SumType ==
    ASSUME NEW f, NEW S, IsFiniteSet(S), \A x \in S : f[x] \in Int
    PROVE  SumFunctionOnSet(f, S) \in Int
<1> DEFINE N == {n \in Nat : \A t \in SUBSET S : Cardinality(t) = n => SumFunctionOnSet(f, t) \in Int}
<1>0. \A t \in SUBSET S : IsFiniteSet(t) /\ Cardinality(t) \in Nat
  BY FS_Subset, FS_CardinalityType
<1>1. 0 \in N
  BY <1>0, FS_EmptySet, SumEmpty
<1>2. ASSUME NEW n \in Nat, n \in N PROVE n + 1 \in N
  <2> SUFFICES ASSUME NEW t \in SUBSET S, Cardinality(t) = n + 1 PROVE SumFunctionOnSet(f, t) \in Int
    OBVIOUS
  <2>1. t # {}
    BY FS_EmptySet
  <2>2. Pick1(t) \in t
    BY <2>1, Picked
  <2>3. t \ {Pick1(t)} \in SUBSET S /\ Cardinality(t \ {Pick1(t)}) = n
    BY <1>0, <2>1, <2>2, Smaller
  <2>4. SumFunctionOnSet(f, t \ {Pick1(t)}) \in Int
    BY <1>2, <2>3
  <2>5. SumFunctionOnSet(f, t) = f[Pick1(t)] + SumFunctionOnSet(f, t \ {Pick1(t)})
    BY <1>0, <2>1, SumFirst
  <2> QED BY <2>2, <2>4, <2>5
<1>3. Nat \subseteq N
  <2> HIDE DEF N
  <2> QED BY <1>1, <1>2, UpTo
<1> QED BY <1>0, <1>3

\* The order in which a sum takes the elements does not matter.
LEMMA SumRemove ==
    ASSUME NEW f, NEW S, IsFiniteSet(S), \A x \in S : f[x] \in Int, NEW x \in S
    PROVE  SumFunctionOnSet(f, S) = f[x] + SumFunctionOnSet(f, S \ {x})
<1> DEFINE Sum(t) == SumFunctionOnSet(f, t)
           N == {n \in Nat : \A t \in SUBSET S : Cardinality(t) = n => \A y \in t : Sum(t) = f[y] + Sum(t \ {y})}
<1>0. \A t \in SUBSET S : IsFiniteSet(t) /\ Cardinality(t) \in Nat /\ Sum(t) \in Int
  BY FS_Subset, FS_CardinalityType, SumType
<1>1. 0 \in N
  BY <1>0, FS_EmptySet
<1>2. ASSUME NEW n \in Nat, n \in N PROVE n + 1 \in N
  <2> SUFFICES ASSUME NEW t \in SUBSET S, Cardinality(t) = n + 1, NEW y \in t
               PROVE  Sum(t) = f[y] + Sum(t \ {y})
    OBVIOUS
  <2>1. t # {}
    OBVIOUS
  <2>2. PICK c \in t : c = Pick1(t) /\ Sum(t) = f[c] + Sum(t \ {c})
    BY <1>0, <2>1, Picked, SumFirst
  <2>3. CASE c = y
    BY <2>2, <2>3
  <2>4. CASE c # y
    <3>1. /\ t \ {c} \in SUBSET S /\ Cardinality(t \ {c}) = n /\ y \in t \ {c}
          /\ t \ {y} \in SUBSET S /\ Cardinality(t \ {y}) = n /\ c \in t \ {y}
      BY <1>0, <2>1, <2>4, Smaller
    <3>2. Sum(t \ {c}) = f[y] + Sum((t \ {c}) \ {y})
      BY <1>2, <3>1
    <3>3. Sum(t \ {y}) = f[c] + Sum((t \ {y}) \ {c})
      BY <1>2, <3>1
    <3>4. (t \ {c}) \ {y} = (t \ {y}) \ {c} /\ (t \ {y}) \ {c} \in SUBSET S
      OBVIOUS
    <3>5. Sum((t \ {y}) \ {c}) \in Int /\ f[y] \in Int /\ f[c] \in Int
      BY <1>0, <3>4
    <3>6. PICK a, b, d, k, z : /\ a = Sum((t \ {y}) \ {c}) /\ b = Sum(t \ {c}) /\ d = Sum(t \ {y}) /\ k = f[y] /\ z = f[c]
      OBVIOUS
    <3>7. b = k + a /\ d = z + a /\ Sum(t) = z + b /\ a \in Int /\ k \in Int /\ z \in Int
      BY <2>2, <3>2, <3>3, <3>4, <3>5, <3>6
    <3>8. Sum(t) = k + d
      BY <3>7
    <3> QED BY <3>6, <3>8
  <2> QED BY <2>3, <2>4
<1>3. Nat \subseteq N
  <2> HIDE DEF N
  <2> QED BY <1>1, <1>2, UpTo
<1> QED BY <1>0, <1>3

\* A sum after one more element, and after the change of one.
LEMMA SumAdd ==
    ASSUME NEW f, NEW S, IsFiniteSet(S), NEW x, x \notin S, \A y \in S \union {x} : f[y] \in Int
    PROVE  SumFunctionOnSet(f, S \union {x}) = SumFunctionOnSet(f, S) + f[x]
<1>1. IsFiniteSet(S \union {x}) /\ x \in S \union {x} /\ (S \union {x}) \ {x} = S
  BY FS_AddElement
<1>2. SumFunctionOnSet(f, S \union {x}) = f[x] + SumFunctionOnSet(f, S)
  BY <1>1, SumRemove
<1>3. f[x] \in Int /\ SumFunctionOnSet(f, S) \in Int
  BY SumType
<1> QED BY <1>2, <1>3

\* One value changes.
LEMMA SumChange ==
    ASSUME NEW f, NEW e, NEW S, IsFiniteSet(S), NEW x \in S, \A y \in S : f[y] \in Int,
           e[x] \in Int, \A y \in S : y # x => e[y] = f[y]
    PROVE  SumFunctionOnSet(e, S) = (SumFunctionOnSet(f, S) - f[x]) + e[x]
<1>1. IsFiniteSet(S \ {x})
  BY FS_Subset
<1>2. SumFunctionOnSet(f, S \ {x}) = SumFunctionOnSet(e, S \ {x})
  BY <1>1, SumSame
<1>3. SumFunctionOnSet(f, S) = f[x] + SumFunctionOnSet(f, S \ {x})
  BY SumRemove
<1>4. SumFunctionOnSet(e, S) = e[x] + SumFunctionOnSet(e, S \ {x})
  BY SumRemove
<1>5. SumFunctionOnSet(f, S \ {x}) \in Int /\ f[x] \in Int
  BY <1>1, SumType
<1> QED BY <1>2, <1>3, <1>4, <1>5

\* A sum of natural numbers is one.
LEMMA SumNat ==
    ASSUME NEW f, NEW S, IsFiniteSet(S), \A x \in S : f[x] \in Nat
    PROVE  SumFunctionOnSet(f, S) \in Nat
<1> DEFINE N == {n \in Nat : \A t \in SUBSET S : Cardinality(t) = n => SumFunctionOnSet(f, t) \in Nat}
<1>0. \A t \in SUBSET S : IsFiniteSet(t) /\ Cardinality(t) \in Nat
  BY FS_Subset, FS_CardinalityType
<1>1. 0 \in N
  BY <1>0, FS_EmptySet, SumEmpty
<1>2. ASSUME NEW n \in Nat, n \in N PROVE n + 1 \in N
  <2> SUFFICES ASSUME NEW t \in SUBSET S, Cardinality(t) = n + 1 PROVE SumFunctionOnSet(f, t) \in Nat
    OBVIOUS
  <2>1. t # {}
    BY FS_EmptySet
  <2>2. Pick1(t) \in t
    BY <2>1, Picked
  <2>3. t \ {Pick1(t)} \in SUBSET S /\ Cardinality(t \ {Pick1(t)}) = n
    BY <1>0, <2>1, <2>2, Smaller
  <2>4. SumFunctionOnSet(f, t \ {Pick1(t)}) \in Nat
    BY <1>2, <2>3
  <2>5. SumFunctionOnSet(f, t) = f[Pick1(t)] + SumFunctionOnSet(f, t \ {Pick1(t)})
    BY <1>0, <2>1, SumFirst
  <2> QED BY <2>2, <2>4, <2>5
<1>3. Nat \subseteq N
  <2> HIDE DEF N
  <2> QED BY <1>1, <1>2, UpTo
<1> QED BY <1>0, <1>3

\* A sum of nothing but zeros.
LEMMA SumZeros ==
    ASSUME NEW f, NEW F, IsFiniteSet(F), \A x \in F : f[x] = 0 PROVE SumFunctionOnSet(f, F) = 0
<1> DEFINE S == {n \in Nat : \A t \in SUBSET F : IsFiniteSet(t) /\ Cardinality(t) = n => SumFunctionOnSet(f, t) = 0}
<1>2. 0 \in S
  <2>1. ASSUME NEW t \in SUBSET F, IsFiniteSet(t), Cardinality(t) = 0 PROVE SumFunctionOnSet(f, t) = 0
    <3>1. t = {}
      BY <2>1, FS_EmptySet
    <3> QED BY <3>1, SumEmpty
  <2> QED BY <2>1
<1>3. ASSUME NEW n \in Nat, n \in S PROVE n + 1 \in S
  <2>1. ASSUME NEW t \in SUBSET F, IsFiniteSet(t), Cardinality(t) = n + 1 PROVE SumFunctionOnSet(f, t) = 0
    <3>1. t # {}
      BY <2>1, FS_EmptySet
    <3>2. PICK x \in t : TRUE
      BY <3>1
    <3>3. IsFiniteSet(t \ {x}) /\ Cardinality(t \ {x}) = n
      BY <2>1, <3>1, Smaller
    <3>4. PICK u \in SUBSET F : u = t \ {x}
      OBVIOUS
    <3>5. SumFunctionOnSet(f, u) = 0
      BY <1>3, <3>3, <3>4
    <3>6. \A y \in t : f[y] \in Int
      OBVIOUS
    <3>7. SumFunctionOnSet(f, t) = f[x] + SumFunctionOnSet(f, t \ {x})
      BY <2>1, <3>6, SumRemove
    <3>8. f[x] = 0
      OBVIOUS
    <3> QED BY <3>4, <3>5, <3>7, <3>8
  <2> QED BY <2>1
<1> HIDE DEF S
<1>4. Nat \subseteq S
  BY <1>2, <1>3, UpTo
<1>5. Cardinality(F) \in S /\ IsFiniteSet(F)
  BY <1>4, FS_CardinalityType
<1> QED BY <1>5 DEF S

\* The provers miss that zero has no sign.
LEMMA MinusZero == \A a \in Int : a <= 0 /\ a >= 0 => -a = 0
  OBVIOUS

=============================================================================
