-------------------------------- MODULE Sums --------------------------------
(* Facts about SumFunction of the community module Functions, which folds a  *)
(* function's values in an order that CHOOSE picks: the sum of a function    *)
(* with a finite domain is an integer, does not depend on that order, and    *)
(* changes with one value as sums do.  They are proved from the definition   *)
(* by two first-order principles of induction, over minimal counterexamples. *)
EXTENDS Integers, FiniteSets, Functions, FiniteSetTheorems, WellFoundedInduction, TLAPS

-----------------------------------------------------------------------------
(* Induction, with a set in place of the predicate                          *)

LEMMA SetOfNat ==
  ASSUME NEW C, C \subseteq Nat, 0 \in C, \A n \in C : n + 1 \in C
  PROVE  C = Nat
<1> SUFFICES ASSUME Nat \ C # {} PROVE FALSE
  OBVIOUS
<1> DEFINE R == OpToRel(<, Nat)
<1>1. IsWellFoundedOn(R, Nat)
  BY NatLessThanWellFounded
<1>2. PICK x \in Nat \ C : \A y \in Nat \ C : <<y, x>> \notin R
  <2> HIDE DEF R
  <2> QED
    BY <1>1, WFMin
<1>3. x - 1 \in Nat \ C
  <2>1. x \in Nat /\ x \notin C /\ x # 0
    BY <1>2
  <2>2. x - 1 \in Nat /\ (x - 1) + 1 = x
    BY <2>1
  <2>3. x - 1 \in C => (x - 1) + 1 \in C
    OBVIOUS
  <2> QED
    BY <2>1, <2>2, <2>3
<1>4. <<x - 1, x>> \in R
  BY <1>3 DEF OpToRel
<1> QED
  BY <1>2, <1>3, <1>4

\* A set of finite sets that has each set whose smaller subsets it has.
LEMMA SetOfSubsets ==
  ASSUME NEW D, IsFiniteSet(D), NEW C, C \subseteq SUBSET D,
         \A s \in SUBSET D : (\A t \in SUBSET s : t # s => t \in C) => s \in C
  PROVE  C = SUBSET D
<1> SUFFICES ASSUME (SUBSET D) \ C # {} PROVE FALSE
  OBVIOUS
<1>1. IsWellFoundedOn(StrictSubsetOrdering(D), SUBSET D)
  BY FS_StrictSubsetOrderingWellFounded, FS_FiniteSubsetsOfFinite
<1>2. PICK s \in (SUBSET D) \ C : \A t \in (SUBSET D) \ C : <<t, s>> \notin StrictSubsetOrdering(D)
  <2> DEFINE E == (SUBSET D) \ C
  <2>1. E \subseteq SUBSET D /\ E # {}
    OBVIOUS
  <2> HIDE DEF E
  <2>2. \E s \in E : \A t \in E : ~ (<<t, s>> \in StrictSubsetOrdering(D))
    BY <1>1, <2>1, WFMin
  <2> QED
    BY <2>2 DEF E
<1>3. \A t \in SUBSET s : t # s => t \in C
  <2> SUFFICES ASSUME NEW t \in SUBSET s, t # s, t \notin C PROVE FALSE
    OBVIOUS
  <2>1. <<t, s>> \in StrictSubsetOrdering(D)
    BY DEF StrictSubsetOrdering
  <2> QED
    BY <1>2, <2>1
<1> QED
  BY <1>2, <1>3

-----------------------------------------------------------------------------
(* Extremes                                                                  *)

\* A finite set of integers has a least and a greatest element.
LEMMA Extremes ==
  ASSUME NEW S, IsFiniteSet(S), S # {}, S \subseteq Int
  PROVE  /\ \E x \in S : \A y \in S : x <= y
         /\ \E x \in S : \A y \in S : x >= y
<1> DEFINE C == {s \in SUBSET S : s # {} => /\ \E x \in s : \A y \in s : x <= y
                                            /\ \E x \in s : \A y \in s : x >= y}
<1>1. ASSUME NEW t \in SUBSET S, \A u \in SUBSET t : u # t => u \in C
      PROVE  t \in C
  <2>1. CASE \E z \in t : t \ {z} = {}
    BY <2>1
  <2>2. CASE t # {} /\ ~ \E z \in t : t \ {z} = {}
    <3>1. PICK z \in t : TRUE
      BY <2>2
    <3>2. t \ {z} \in C /\ t \ {z} # {}
      BY <1>1, <2>2
    <3>3. PICK a \in t \ {z} : \A y \in t \ {z} : a <= y
      BY <3>2
    <3>4. PICK b \in t \ {z} : \A y \in t \ {z} : b >= y
      BY <3>2
    <3>5. \E x \in t : \A y \in t : x <= y
      <4>1. CASE a <= z
        BY <3>3, <4>1
      <4>2. CASE z <= a
        BY <3>1, <3>3, <4>2
      <4> QED
        BY <3>1, <3>3, <4>1, <4>2
    <3>6. \E x \in t : \A y \in t : x >= y
      <4>1. CASE b >= z
        BY <3>4, <4>1
      <4>2. CASE z >= b
        BY <3>1, <3>4, <4>2
      <4> QED
        BY <3>1, <3>4, <4>1, <4>2
    <3> QED
      BY <3>5, <3>6
  <2> QED
    BY <2>1, <2>2
<1>2. C = SUBSET S
  <2> HIDE DEF C
  <2>1. C \subseteq SUBSET S
    BY DEF C
  <2> QED
    BY <1>1, <2>1, SetOfSubsets
<1> QED
  BY <1>2

-----------------------------------------------------------------------------
(* The fold                                                                  *)

Pick(s) == CHOOSE x \in s : TRUE

\* The values of the fold on the subsets of f's domain, as Functions defines them.
Partial(f) ==
  CHOOSE g : g = [s \in SUBSET DOMAIN f |->
    IF s = {} THEN 0 ELSE f[CHOOSE x \in s : TRUE] + g[s \ {CHOOSE x \in s : TRUE}]]

LEMMA SumIsPartial == \A f : SumFunction(f) = Partial(f)[DOMAIN f]
  BY Zenon DEF SumFunction, SumFunctionOnSet, FoldFunctionOnSet, MapThenFoldSet, Partial

\* The fold is defined on the finite sets of n elements at most, whatever n is.
Reaches(f, n, g) ==
  g = [s \in {s \in SUBSET DOMAIN f : Cardinality(s) <= n} |->
         IF s = {} THEN 0 ELSE f[Pick(s)] + g[s \ {Pick(s)}]]

LEMMA PickRemoved ==
  ASSUME NEW D, IsFiniteSet(D), NEW s \in SUBSET D, s # {}
  PROVE  /\ Pick(s) \in s /\ s \ {Pick(s)} \in SUBSET D
         /\ Cardinality(s) \in Nat /\ Cardinality(s \ {Pick(s)}) = Cardinality(s) - 1
<1>1. Pick(s) \in s
  BY DEF Pick
<1>2. IsFiniteSet(s)
  BY FS_Subset
<1> QED
  BY <1>1, <1>2, FS_RemoveElement, FS_CardinalityType

LEMMA PartialDefined ==
  ASSUME NEW f, IsFiniteSet(DOMAIN f)
  PROVE  Partial(f) = [s \in SUBSET DOMAIN f |->
           IF s = {} THEN 0 ELSE f[Pick(s)] + Partial(f)[s \ {Pick(s)}]]
<1> DEFINE D == DOMAIN f
           C == {n \in Nat : \E g : Reaches(f, n, g)}
<1>1. 0 \in C
  <2> DEFINE g == [s \in {s \in SUBSET D : Cardinality(s) <= 0} |-> 0]
  <2>1. \A s \in SUBSET D : Cardinality(s) <= 0 => s = {}
    BY FS_Subset, FS_EmptySet, FS_CardinalityType
  <2>2. Reaches(f, 0, g)
    BY <2>1 DEF Reaches
  <2> QED
    BY <2>2
<1>2. ASSUME NEW n \in C PROVE n + 1 \in C
  <2>1. PICK g : Reaches(f, n, g)
    OBVIOUS
  <2> DEFINE h == [s \in {s \in SUBSET D : Cardinality(s) <= n + 1} |->
                     IF s = {} THEN 0 ELSE f[Pick(s)] + g[s \ {Pick(s)}]]
  <2>2. ASSUME NEW s \in SUBSET D, Cardinality(s) <= n + 1, s # {}
        PROVE  h[s \ {Pick(s)}] = g[s \ {Pick(s)}]
    <3>1. s \ {Pick(s)} \in SUBSET D /\ Cardinality(s \ {Pick(s)}) <= n /\ n \in Nat
      BY <2>2, PickRemoved
    <3>2. PICK t \in SUBSET D : t = s \ {Pick(s)} /\ Cardinality(t) <= n
      BY <3>1
    <3>3. h[t] = IF t = {} THEN 0 ELSE f[Pick(t)] + g[t \ {Pick(t)}]
      BY <3>1, <3>2, FS_Subset, FS_CardinalityType
    <3>4. g[t] = IF t = {} THEN 0 ELSE f[Pick(t)] + g[t \ {Pick(t)}]
      BY <2>1, <3>2 DEF Reaches
    <3> QED
      BY <3>2, <3>3, <3>4
  <2>3. Reaches(f, n + 1, h)
    BY <2>2 DEF Reaches
  <2> QED
    BY <2>3
<1>3. C = Nat
  <2> HIDE DEF C
  <2>1. C \subseteq Nat
    BY DEF C
  <2> QED
    BY <1>1, <1>2, <2>1, SetOfNat
<1>4. PICK g : Reaches(f, Cardinality(D), g)
  BY <1>3, FS_CardinalityType
<1>5. {s \in SUBSET D : Cardinality(s) <= Cardinality(D)} = SUBSET D
  BY FS_Subset
<1>6. g = [s \in SUBSET D |-> IF s = {} THEN 0 ELSE f[Pick(s)] + g[s \ {Pick(s)}]]
  BY <1>4, <1>5 DEF Reaches
<1> QED
  BY <1>6, Zenon DEF Partial, Pick

LEMMA PartialStep ==
  ASSUME NEW D, IsFiniteSet(D), NEW f \in [D -> Int], NEW s \in SUBSET D
  PROVE  Partial(f)[s] = IF s = {} THEN 0 ELSE f[Pick(s)] + Partial(f)[s \ {Pick(s)}]
<1>1. DOMAIN f = D
  OBVIOUS
<1> QED
  BY <1>1, PartialDefined

LEMMA PartialInt ==
  ASSUME NEW D, IsFiniteSet(D), NEW f \in [D -> Int], NEW s \in SUBSET D
  PROVE  Partial(f)[s] \in Int
<1> DEFINE C == {t \in SUBSET D : Partial(f)[t] \in Int}
<1>1. ASSUME NEW t \in SUBSET D, \A u \in SUBSET t : u # t => u \in C
      PROVE  t \in C
  <2>1. CASE t = {}
    BY <2>1, PartialStep
  <2>2. CASE t # {}
    <3>1. Pick(t) \in t /\ t \ {Pick(t)} \in SUBSET t /\ t \ {Pick(t)} # t
      BY <2>2, PickRemoved
    <3>2. Partial(f)[t \ {Pick(t)}] \in Int
      BY <1>1, <3>1
    <3>3. f[Pick(t)] \in Int
      BY <3>1
    <3> QED
      BY <2>2, <3>2, <3>3, PartialStep
  <2> QED
    BY <2>1, <2>2
<1>2. C = SUBSET D
  <2> HIDE DEF C
  <2>1. C \subseteq SUBSET D
    BY DEF C
  <2> QED
    BY <1>1, <2>1, SetOfSubsets
<1> QED
  BY <1>2

\* The order in which the elements are picked does not matter.
LEMMA PartialRemove ==
  ASSUME NEW D, IsFiniteSet(D), NEW f \in [D -> Int], NEW s \in SUBSET D, NEW x \in s
  PROVE  Partial(f)[s] = f[x] + Partial(f)[s \ {x}]
<1> DEFINE C == {t \in SUBSET D : \A y \in t : Partial(f)[t] = f[y] + Partial(f)[t \ {y}]}
<1>1. ASSUME NEW t \in SUBSET D, \A u \in SUBSET t : u # t => u \in C
      PROVE  t \in C
  <2> SUFFICES ASSUME NEW y \in t PROVE Partial(f)[t] = f[y] + Partial(f)[t \ {y}]
    OBVIOUS
  <2>1. PICK z \in t : z = Pick(t)
    BY PickRemoved
  <2>2. Partial(f)[t] = f[z] + Partial(f)[t \ {z}]
    BY <2>1, PartialStep
  <2>3. CASE y # z
    <3>1. t \ {z} \in C /\ t \ {y} \in C
      BY <1>1
    <3>2. Partial(f)[t \ {z}] = f[y] + Partial(f)[(t \ {z}) \ {y}]
      BY <2>3, <3>1
    <3>3. Partial(f)[t \ {y}] = f[z] + Partial(f)[(t \ {y}) \ {z}]
      BY <2>3, <3>1
    <3>4. (t \ {z}) \ {y} = (t \ {y}) \ {z}
      OBVIOUS
    <3>5. PICK r \in Int : r = Partial(f)[(t \ {z}) \ {y}]
      BY PartialInt
    <3>6. PICK v \in Int, w \in Int : v = f[y] /\ w = f[z]
      OBVIOUS
    <3>7. Partial(f)[t] = w + (v + r)
      BY <2>2, <3>2, <3>5, <3>6
    <3>8. f[y] + Partial(f)[t \ {y}] = v + (w + r)
      BY <3>3, <3>4, <3>5, <3>6
    <3> QED
      BY <3>5, <3>6, <3>7, <3>8
  <2> QED
    BY <2>2, <2>3
<1>2. C = SUBSET D
  <2> HIDE DEF C
  <2>1. C \subseteq SUBSET D
    BY DEF C
  <2> QED
    BY <1>1, <2>1, SetOfSubsets
<1> QED
  BY <1>2

\* Only the values on the set matter.
LEMMA PartialSame ==
  ASSUME NEW D, IsFiniteSet(D), NEW f \in [D -> Int],
         NEW E, IsFiniteSet(E), NEW g \in [E -> Int],
         NEW s, s \subseteq D, s \subseteq E, \A x \in s : f[x] = g[x]
  PROVE  Partial(f)[s] = Partial(g)[s]
<1> DEFINE C == {t \in SUBSET s : Partial(f)[t] = Partial(g)[t]}
<1>0. IsFiniteSet(s)
  BY FS_Subset
<1>1. ASSUME NEW t \in SUBSET s, \A u \in SUBSET t : u # t => u \in C
      PROVE  t \in C
  <2> HIDE DEF C
  <2>1. t \in SUBSET D /\ t \in SUBSET E
    OBVIOUS
  <2>2. CASE t = {}
    <3>1. Partial(f)[t] = 0
      BY <2>1, <2>2, PartialStep
    <3>2. Partial(g)[t] = 0
      BY <2>1, <2>2, PartialStep
    <3> QED
      BY <3>1, <3>2 DEF C
  <2>3. CASE t # {}
    <3>1. Pick(t) \in t /\ t \ {Pick(t)} \in SUBSET t /\ t \ {Pick(t)} # t
      BY <2>1, <2>3, PickRemoved
    <3>2. Partial(f)[t \ {Pick(t)}] = Partial(g)[t \ {Pick(t)}] /\ f[Pick(t)] = g[Pick(t)]
      BY <1>1, <3>1 DEF C
    <3>3. Partial(f)[t] = f[Pick(t)] + Partial(f)[t \ {Pick(t)}]
      BY <2>1, <2>3, PartialStep
    <3>4. Partial(g)[t] = g[Pick(t)] + Partial(g)[t \ {Pick(t)}]
      <4>1. DOMAIN g = E
        OBVIOUS
      <4>2. Partial(g) = [u \in SUBSET DOMAIN g |->
              IF u = {} THEN 0 ELSE g[Pick(u)] + Partial(g)[u \ {Pick(u)}]]
        BY <4>1, PartialDefined
      <4> QED
        BY <2>1, <2>3, <4>1, <4>2
    <3> QED
      BY <3>2, <3>3, <3>4 DEF C
  <2> QED
    BY <2>2, <2>3
<1>2. C = SUBSET s
  <2> HIDE DEF C
  <2>1. C \subseteq SUBSET s
    BY DEF C
  <2> QED
    BY <1>0, <1>1, <2>1, SetOfSubsets
<1> QED
  BY <1>2

-----------------------------------------------------------------------------
(* The sum                                                                   *)

LEMMA SumInt ==
  ASSUME NEW D, IsFiniteSet(D), NEW f \in [D -> Int]
  PROVE  SumFunction(f) \in Int
<1>1. DOMAIN f = D /\ D \in SUBSET D
  OBVIOUS
<1> QED
  BY <1>1, SumIsPartial, PartialInt

LEMMA SumEmpty == ASSUME NEW f \in [{} -> Int] PROVE SumFunction(f) = 0
<1>1. DOMAIN f = {}
  OBVIOUS
<1> QED
  BY <1>1, SumIsPartial, PartialStep, FS_EmptySet

\* A function with one place more, x.
LEMMA SumExtended ==
  ASSUME NEW D, IsFiniteSet(D), NEW g \in [D -> Int], NEW x \in D,
         NEW E, E = D \ {x}, NEW f \in [E -> Int], \A y \in E : g[y] = f[y]
  PROVE  SumFunction(g) = SumFunction(f) + g[x]
<1>1. D \in SUBSET D /\ DOMAIN f = D \ {x} /\ DOMAIN g = D
  OBVIOUS
<1>2. Partial(g)[D] = g[x] + Partial(g)[D \ {x}]
  BY PartialRemove, D \in SUBSET D
<1>3. Partial(g)[D \ {x}] = Partial(f)[D \ {x}]
  <2>1. IsFiniteSet(D \ {x})
    BY FS_Subset
  <2> QED
    BY <1>1, <2>1, PartialSame
<1>4. PICK p \in Int, v \in Int : p = Partial(g)[D \ {x}] /\ v = g[x]
  BY PartialInt
<1>5. SumFunction(g) = v + p /\ SumFunction(f) = p
  BY <1>1, <1>2, <1>3, <1>4, SumIsPartial
<1> QED
  BY <1>4, <1>5

\* A function with one value changed.
LEMMA SumChanged ==
  ASSUME NEW D, IsFiniteSet(D), NEW f \in [D -> Int], NEW g \in [D -> Int],
         NEW x \in D, \A y \in D \ {x} : g[y] = f[y]
  PROVE  SumFunction(g) = SumFunction(f) - f[x] + g[x]
<1>1. D \in SUBSET D /\ DOMAIN f = D /\ DOMAIN g = D /\ D \ {x} \subseteq D
  OBVIOUS
<1>2. Partial(g)[D] = g[x] + Partial(g)[D \ {x}]
  BY PartialRemove, D \in SUBSET D
<1>6. Partial(f)[D] = f[x] + Partial(f)[D \ {x}]
  BY PartialRemove, D \in SUBSET D
<1>3. Partial(g)[D \ {x}] = Partial(f)[D \ {x}]
  BY <1>1, PartialSame
<1>4. PICK r \in Int : r = Partial(f)[D \ {x}]
  BY PartialInt
<1>5. f[x] \in Int /\ g[x] \in Int
  OBVIOUS
<1> QED
  BY <1>1, <1>2, <1>3, <1>4, <1>5, <1>6, SumIsPartial

\* A sum of greater values is greater.
LEMMA SumMonotone ==
  ASSUME NEW D, IsFiniteSet(D), NEW f \in [D -> Int], NEW g \in [D -> Int],
         \A x \in D : f[x] <= g[x]
  PROVE  SumFunction(f) <= SumFunction(g)
<1> DEFINE C == {s \in SUBSET D : Partial(f)[s] <= Partial(g)[s]}
<1>1. ASSUME NEW t \in SUBSET D, \A u \in SUBSET t : u # t => u \in C
      PROVE  t \in C
  <2>1. CASE t = {}
    <3>1. Partial(f)[t] = 0 /\ Partial(g)[t] = 0
      BY <2>1, PartialStep
    <3> QED
      BY <3>1
  <2>2. CASE t # {}
    <3>1. Pick(t) \in t /\ t \ {Pick(t)} \in SUBSET t /\ t \ {Pick(t)} # t
      BY <2>2, PickRemoved
    <3>2. PICK p \in Int, q \in Int :
            p = Partial(f)[t \ {Pick(t)}] /\ q = Partial(g)[t \ {Pick(t)}]
      BY PartialInt
    <3>3. PICK v \in Int, w \in Int : v = f[Pick(t)] /\ w = g[Pick(t)] /\ v <= w
      BY <3>1
    <3>4. p <= q
      BY <1>1, <3>1, <3>2
    <3>5. Partial(f)[t] = v + p /\ Partial(g)[t] = w + q
      BY <2>2, <3>2, <3>3, PartialStep
    <3>6. v + p <= w + q
      BY <3>3, <3>4
    <3> QED
      BY <3>5, <3>6
  <2> QED
    BY <2>1, <2>2
<1>2. C = SUBSET D
  <2> HIDE DEF C
  <2>1. C \subseteq SUBSET D
    BY DEF C
  <2> QED
    BY <1>1, <2>1, SetOfSubsets
<1>3. D \in C /\ DOMAIN f = D /\ DOMAIN g = D
  BY <1>2
<1> QED
  BY <1>3, SumIsPartial

\* With the same sum, none of the values is greater.
LEMMA SumEqual ==
  ASSUME NEW D, IsFiniteSet(D), NEW f \in [D -> Int], NEW g \in [D -> Int],
         \A x \in D : f[x] <= g[x], SumFunction(g) <= SumFunction(f), NEW x \in D
  PROVE  f[x] = g[x]
<1>1. PICK h \in [D -> Int] : h = [f EXCEPT ![x] = g[x]]
  OBVIOUS
<1>2. (\A y \in D : h[y] <= g[y]) /\ h[x] = g[x] /\ \A y \in D \ {x} : h[y] = f[y]
  BY <1>1
<1>3. SumFunction(h) <= SumFunction(g)
  BY <1>2, SumMonotone
<1>4. SumFunction(h) = SumFunction(f) - f[x] + h[x]
  BY <1>2, SumChanged
<1>5. PICK a \in Int, b \in Int, c \in Int :
        a = SumFunction(f) /\ b = SumFunction(g) /\ c = SumFunction(h)
  BY SumInt
<1>6. PICK v \in Int, w \in Int : v = f[x] /\ w = g[x] /\ v <= w
  OBVIOUS
<1>7. c <= b /\ c = a - v + w /\ b <= a
  BY <1>2, <1>3, <1>4, <1>5, <1>6
<1> QED
  BY <1>6, <1>7

LEMMA SumConstant ==
  ASSUME NEW D, IsFiniteSet(D), NEW c \in Int
  PROVE  /\ Cardinality(D) \in Nat
         /\ SumFunction([x \in D |-> c]) = Cardinality(D) * c
<1>0. PICK f \in [D -> Int] : f = [x \in D |-> c]
  OBVIOUS
<1> DEFINE C == {s \in SUBSET D : Partial(f)[s] = Cardinality(s) * c}
<1>1. ASSUME NEW t \in SUBSET D, \A u \in SUBSET t : u # t => u \in C
      PROVE  t \in C
  <2>1. CASE t = {}
    <3>1. Partial(f)[t] = 0 /\ Cardinality(t) = 0
      BY <2>1, PartialStep, FS_EmptySet
    <3> QED
      BY <3>1
  <2>2. CASE t # {}
    <3>1. /\ Pick(t) \in t /\ t \ {Pick(t)} \in SUBSET t /\ t \ {Pick(t)} # t
          /\ Cardinality(t) \in Nat /\ Cardinality(t \ {Pick(t)}) = Cardinality(t) - 1
      BY <2>2, PickRemoved
    <3>2. PICK n \in Nat : n = Cardinality(t)
      BY <3>1
    <3>3. Partial(f)[t \ {Pick(t)}] = (n - 1) * c
      BY <1>1, <3>1, <3>2
    <3>4. f[Pick(t)] = c
      BY <1>0, <3>1
    <3>5. Partial(f)[t] = c + (n - 1) * c
      BY <2>2, <3>3, <3>4, PartialStep
    <3>6. (n - 1) * c = n * c - c
      BY <3>2
    <3>7. c + (n * c - c) = n * c
      BY <3>2
    <3> QED
      BY <3>2, <3>5, <3>6, <3>7
  <2> QED
    BY <2>1, <2>2
<1>2. C = SUBSET D
  <2> HIDE DEF C
  <2>1. C \subseteq SUBSET D
    BY DEF C
  <2> QED
    BY <1>1, <2>1, SetOfSubsets
<1>3. D \in C /\ DOMAIN f = D
  BY <1>2
<1> QED
  BY <1>0, <1>3, SumIsPartial, FS_CardinalityType

\* Between what it would be with all values the least and with all the greatest.
LEMMA SumBounded ==
  ASSUME NEW D, IsFiniteSet(D), NEW f \in [D -> Int], NEW lo \in Int, NEW hi \in Int,
         \A x \in D : lo <= f[x] /\ f[x] <= hi
  PROVE  /\ SumFunction(f) \in Int /\ Cardinality(D) \in Nat
         /\ Cardinality(D) * lo <= SumFunction(f)
         /\ SumFunction(f) <= Cardinality(D) * hi
<1>1. PICK g \in [D -> Int], h \in [D -> Int] : g = [x \in D |-> lo] /\ h = [x \in D |-> hi]
  OBVIOUS
<1>2. SumFunction(g) <= SumFunction(f) /\ SumFunction(f) <= SumFunction(h)
  BY <1>1, SumMonotone
<1>3. SumFunction(g) = Cardinality(D) * lo /\ SumFunction(h) = Cardinality(D) * hi
  BY <1>1, SumConstant
<1> QED
  BY <1>2, <1>3, SumInt, FS_CardinalityType

\* A sum of naturals is at least each of them.
LEMMA SumAtLeast ==
  ASSUME NEW D, IsFiniteSet(D), NEW f \in [D -> Nat], NEW x \in D
  PROVE  SumFunction(f) \in Nat /\ f[x] <= SumFunction(f)
<1>a. PICK zero \in Int : zero = 0
  OBVIOUS
<1>0. PICK g \in [D -> Int] : g = [y \in D |-> zero]
  OBVIOUS
<1>1. PICK h \in [D -> Int] : h = [g EXCEPT ![x] = f[x]]
  <2>1. f[x] \in Int
    OBVIOUS
  <2> QED
    BY <2>1
<1>2. (\A y \in D : h[y] <= f[y]) /\ h[x] = f[x] /\ g[x] = 0 /\ \A y \in D \ {x} : h[y] = g[y]
  BY <1>a, <1>0, <1>1
<1>3. f \in [D -> Int] /\ \A y \in D : g[y] <= f[y]
  BY <1>a, <1>0
<1>4. SumFunction(h) <= SumFunction(f) /\ SumFunction(g) <= SumFunction(f)
  BY <1>2, <1>3, SumMonotone
<1>5. SumFunction(h) = SumFunction(g) - g[x] + h[x]
  BY <1>2, SumChanged
<1>6. SumFunction(g) = 0
  <2>1. SumFunction([y \in D |-> zero]) = Cardinality(D) * zero /\ Cardinality(D) \in Nat
    BY SumConstant
  <2> QED
    BY <1>a, <1>0, <2>1
<1>7. SumFunction(f) \in Int /\ SumFunction(h) = f[x]
  BY <1>2, <1>3, <1>5, <1>6, SumInt
<1> QED
  BY <1>4, <1>6, <1>7

=============================================================================
