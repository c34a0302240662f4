------------------------------ MODULE DataFacts ------------------------------
(***************************************************************************)
(* Facts about lists and finite sets that several of the proofs need: what *)
(* the list of a traversal contains when a visit is taken from the front,  *)
(* when the visits of the children are put in front of the others, and     *)
(* when a result is added at the end; least and greatest numbers; the      *)
(* places of the elements of an ordered set; and the sums of a list.       *)
(***************************************************************************)
EXTENDS Integers, Sequences, FiniteSets, FiniteSetTheorems, WellFoundedInduction, TLAPS

-----------------------------------------------------------------------------
(* Lists.                                                                  *)

(* The head of a list, and the list without it.                           *)
LEMMA TailFacts ==
    ASSUME NEW S, NEW s \in Seq(S), s # <<>>
    PROVE  /\ Tail(s) \in Seq(S)
           /\ Head(s) = s[1] /\ Head(s) \in S
           /\ 1 \in DOMAIN s
           /\ DOMAIN Tail(s) = 1..(Len(s) - 1)
           /\ \A k \in DOMAIN Tail(s) : k + 1 \in DOMAIN s /\ k + 1 # 1 /\ Tail(s)[k] = s[k + 1]
           /\ \A k \in DOMAIN s : k = 1 \/ (k - 1 \in DOMAIN Tail(s) /\ Tail(s)[k - 1] = s[k])
  OBVIOUS

(* A list with one more element.                                           *)
LEMMA AppendFacts ==
    ASSUME NEW S, NEW s \in Seq(S), NEW e \in S
    PROVE  /\ Append(s, e) \in Seq(S)
           /\ Len(Append(s, e)) = Len(s) + 1
           /\ DOMAIN s = 1..Len(s)
           /\ DOMAIN Append(s, e) = 1..(Len(s) + 1)
           /\ \A k \in DOMAIN s : k \in DOMAIN Append(s, e) /\ Append(s, e)[k] = s[k] /\ k # Len(s) + 1
           /\ Append(s, e)[Len(s) + 1] = e
           /\ \A k \in DOMAIN Append(s, e) : k \in DOMAIN s \/ k = Len(s) + 1
  OBVIOUS

(* What is appended to which list can be read off the result.              *)
LEMMA AppendInjective ==
    ASSUME NEW S, NEW s \in Seq(S), NEW t \in Seq(S), NEW d \in S, NEW e \in S
    PROVE  /\ Append(s, d) # <<>> /\ Append(s, d) \in Seq(S)
           /\ Append(s, d) = Append(t, e) => s = t /\ d = e
<1>1. SUFFICES ASSUME Append(s, d) = Append(t, e)  PROVE s = t /\ d = e
  BY AppendFacts
<1>2. Len(s) + 1 = Len(t) + 1
  BY <1>1, AppendFacts
<1>3. Len(s) \in Nat /\ Len(t) \in Nat
  OBVIOUS
<1>4. Len(s) = Len(t)
  BY <1>2, <1>3
<1>5. DOMAIN s = 1..Len(s) /\ DOMAIN t = 1..Len(t)
  OBVIOUS
<1>6. \A k \in DOMAIN s : s[k] = t[k]
  BY <1>1, <1>4, <1>5, AppendFacts
<1>7. d = e
  BY <1>1, <1>4, AppendFacts
<1>. QED  BY <1>4, <1>5, <1>6, <1>7

(* The first element and the rest of a list that grows at its end.         *)
LEMMA GrownListFacts ==
    ASSUME NEW S, NEW s \in Seq(S), s # <<>>, NEW x \in S
    PROVE  Append(s, x)[1] = s[1] /\ Tail(Append(s, x)) = Append(Tail(s), x) /\ Tail(<<x>>) = <<>>
<1>1. Append(s, x) \in Seq(S) /\ Tail(s) \in Seq(S) /\ Append(Tail(s), x) \in Seq(S)
  OBVIOUS
<1>2. Append(s, x)[1] = s[1] /\ Tail(<<x>>) = <<>>
  OBVIOUS
<1>3. Len(Tail(Append(s, x))) = Len(s) /\ Len(Append(Tail(s), x)) = Len(s) /\ Len(s) \in Nat
  OBVIOUS
<1>4. ASSUME NEW k \in 1..Len(s)  PROVE Tail(Append(s, x))[k] = Append(Tail(s), x)[k]
  <2>1. Tail(Append(s, x))[k] = Append(s, x)[k + 1]
    OBVIOUS
  <2>2. CASE k = Len(s)
    BY <2>1, <2>2
  <2>3. CASE k < Len(s)
    BY <2>1, <2>3
  <2>. QED  BY <2>2, <2>3
<1>. DEFINE l == Tail(Append(s, x))
            r == Append(Tail(s), x)
<1>5. l \in Seq(S) /\ r \in Seq(S)
  BY <1>1
<1>. HIDE DEF l, r
<1>6. Len(l) = Len(s) /\ Len(r) = Len(s) /\ \A k \in 1..Len(s) : l[k] = r[k]
  BY <1>3, <1>4 DEF l, r
<1>7. l = r
  BY <1>5, <1>6
<1>. QED  BY <1>2, <1>7 DEF l, r

(* One list after another.                                                 *)
LEMMA ConcatFacts ==
    ASSUME NEW S, NEW s \in Seq(S), NEW t \in Seq(S)
    PROVE  /\ s \o t \in Seq(S)
           /\ DOMAIN s = 1..Len(s)
           /\ DOMAIN t = 1..Len(t)
           /\ DOMAIN (s \o t) = 1..(Len(s) + Len(t))
           /\ \A k \in DOMAIN s : k \in DOMAIN (s \o t) /\ (s \o t)[k] = s[k]
           /\ \A k \in DOMAIN t : k + Len(s) \in DOMAIN (s \o t) /\ (s \o t)[k + Len(s)] = t[k]
           /\ \A k \in DOMAIN (s \o t) :
                \/ k \in DOMAIN s /\ (s \o t)[k] = s[k]
                \/ k - Len(s) \in DOMAIN t /\ (s \o t)[k] = t[k - Len(s)] /\ k \notin DOMAIN s
  OBVIOUS

-----------------------------------------------------------------------------
(* Numbers and finite sets.                                                *)

(* A set of natural numbers that is not empty has a least element.         *)
LEMMA LeastNatural ==
    ASSUME NEW T, T \subseteq Nat, T # {}
    PROVE  \E m \in T : \A k \in T : m <= k
<1>1. PICK m \in T : \A k \in T : ~(<<k, m>> \in OpToRel(<, Nat))
  BY WFMin, NatLessThanWellFounded, Zenon
<1>2. ASSUME NEW k \in T  PROVE m <= k
  <2>1. ~(k < m)
    BY <1>1, Zenon DEF OpToRel
  <2>. QED  BY <2>1
<1>. QED  BY <1>2

(* A part of a finite set that leaves something out is smaller.            *)
LEMMA ProperPartIsSmaller ==
    ASSUME NEW S, IsFiniteSet(S), NEW T, T \subseteq S, NEW x \in S, x \notin T
    PROVE  Cardinality(T) \in Nat /\ Cardinality(S) \in Nat /\ Cardinality(T) < Cardinality(S)
<1>1. IsFiniteSet(T) /\ Cardinality(T) <= Cardinality(S)
  BY FS_Subset
<1>2. Cardinality(S) # Cardinality(T)
  BY FS_Subset
<1>. QED  BY <1>1, <1>2, FS_CardinalityType

(* Values that are all different are as many as what they are values of.   *)
LEMMA ImageSize ==
    ASSUME NEW S, IsFiniteSet(S), NEW T, NEW f, \A x \in S : f[x] \in T,
           \A t \in T : \E x \in S : t = f[x], \A x, y \in S : f[x] = f[y] => x = y
    PROVE  IsFiniteSet(T) /\ Cardinality(T) = Cardinality(S) /\ Cardinality(S) \in Nat
<1>. DEFINE g == [x \in S |-> f[x]]
<1>1. g \in [S -> T] /\ \A x, y \in S : g[x] = g[y] => x = y
  OBVIOUS
<1>2. \A t \in T : \E x \in S : g[x] = t
  OBVIOUS
<1>. HIDE DEF g
<1>3. g \in Bijection(S, T)
  BY <1>1, <1>2 DEF Bijection, Injection, IsInjective, Surjection
<1>4. ExistsBijection(S, T)
  BY <1>3, Zenon DEF ExistsBijection
<1>5. IsFiniteSet(T) /\ Cardinality(T) = Cardinality(S)
  BY <1>4, FS_Bijection, Zenon
<1>. QED  BY <1>5, FS_CardinalityType

(* The values that a function takes on a finite set are finitely many.     *)
LEMMA FiniteImage ==
    ASSUME NEW S, IsFiniteSet(S), NEW T, NEW f, \A x \in S : f[x] \in T,
           \A t \in T : \E x \in S : t = f[x]
    PROVE  IsFiniteSet(T)
<1>. DEFINE g == [x \in S |-> f[x]]
<1>1. g \in [S -> T] /\ \A t \in T : \E x \in S : g[x] = t
  OBVIOUS
<1>. HIDE DEF g
<1>2. g \in Surjection(S, T)
  BY <1>1 DEF Surjection
<1>. QED  BY <1>2, FS_Surjection, Zenon

(* A finite set of integers that is not empty has a greatest element.      *)
LEMMA GreatestInteger ==
    ASSUME NEW S, S \subseteq Int, IsFiniteSet(S), S # {}
    PROVE  \E m \in S : \A k \in S : k <= m
<1>. DEFINE above(x) == {y \in S : y > x}
            T == {Cardinality(above(x)) : x \in S}
<1>1. \A x \in S : IsFiniteSet(above(x)) /\ Cardinality(above(x)) \in Nat
  BY FS_Subset, FS_CardinalityType
<1>2. T \subseteq Nat /\ T # {}
  BY <1>1
<1>3. PICK c \in T : \A d \in T : c <= d
  BY <1>2, LeastNatural
<1>4. PICK m \in S : c = Cardinality(above(m))
  OBVIOUS
<1>5. ASSUME NEW k \in S, ~(k <= m)  PROVE FALSE
  <2>. k \in Int /\ m \in Int /\ \A y \in S : y \in Int
    OBVIOUS
  <2>5. k > m /\ ~(k > k) /\ \A y \in Int : y > k => y > m
    BY <1>5
  <2>1. above(k) \subseteq above(m) /\ k \in above(m) /\ k \notin above(k)
    BY <2>5
  <2>2. Cardinality(above(k)) < Cardinality(above(m))
    BY <1>1, <2>1, ProperPartIsSmaller
  <2>3. Cardinality(above(k)) \in T
    OBVIOUS
  <2>4. c <= Cardinality(above(k))
    BY <1>3, <2>3
  <2>. HIDE DEF above, T
  <2>. QED  BY <1>1, <1>4, <2>2, <2>4
<1>. QED  BY <1>5

(***************************************************************************)
(* The place of an element is the number of those before it.  If of any    *)
(* two elements one is before the other, the places are numbered from 0    *)
(* without a gap.                                                          *)
(***************************************************************************)
IsStrictOrder(R, S) ==
    /\ \A x \in S : <<x, x>> \notin R
    /\ \A x, y \in S : x = y \/ <<x, y>> \in R \/ <<y, x>> \in R
    /\ \A x, y, z \in S : <<x, y>> \in R /\ <<y, z>> \in R => <<x, z>> \in R

Place(R, S, x) == Cardinality({y \in S : <<y, x>> \in R})

(* What is before another has the smaller place.                           *)
LEMMA PlacesGrow ==
    ASSUME NEW S, IsFiniteSet(S), NEW R, IsStrictOrder(R, S),
           NEW x \in S, NEW y \in S, <<x, y>> \in R
    PROVE  Place(R, S, x) < Place(R, S, y)
<1>. DEFINE before(z) == {w \in S : <<w, z>> \in R}
<1>1. before(x) \subseteq before(y) /\ x \in before(y) /\ x \notin before(x)
  BY DEF IsStrictOrder
<1>2. IsFiniteSet(before(y))
  BY FS_Subset
<1>. QED  BY <1>1, <1>2, ProperPartIsSmaller DEF Place

(* The places of a finite set are the numbers below its size.              *)
LEMMA PlacesAreTheNumbers ==
    ASSUME NEW S, IsFiniteSet(S), NEW R, IsStrictOrder(R, S)
    PROVE  /\ Cardinality(S) \in Nat
           /\ {Place(R, S, x) : x \in S} = 0..(Cardinality(S) - 1)
<1>. DEFINE n == Cardinality(S)
            N == 0..(n - 1)
            f == [x \in S |-> Place(R, S, x)]
<1>1. n \in Nat
  BY FS_CardinalityType
<1>2. \A x \in S : Place(R, S, x) \in N
  <2>. SUFFICES ASSUME NEW x \in S  PROVE Place(R, S, x) \in N
    OBVIOUS
  <2>1. {y \in S : <<y, x>> \in R} \subseteq S /\ x \notin {y \in S : <<y, x>> \in R}
    BY DEF IsStrictOrder
  <2>2. Cardinality({y \in S : <<y, x>> \in R}) \in Nat /\ Cardinality({y \in S : <<y, x>> \in R}) < n
    BY <2>1, ProperPartIsSmaller
  <2>. QED  BY <1>1, <2>2 DEF Place
<1>3. IsFiniteSet(N) /\ Cardinality(N) = n
  BY <1>1, FS_Interval
<1>4. \A x, y \in S : f[x] = f[y] => x = y
  <2>. SUFFICES ASSUME NEW x \in S, NEW y \in S, x # y  PROVE Place(R, S, x) # Place(R, S, y)
    OBVIOUS
  <2>1. <<x, y>> \in R \/ <<y, x>> \in R
    BY DEF IsStrictOrder
  <2>2. Place(R, S, x) \in Nat /\ Place(R, S, y) \in Nat
    BY <1>2
  <2>3. CASE <<x, y>> \in R
    BY <2>2, <2>3, PlacesGrow
  <2>4. CASE <<y, x>> \in R
    BY <2>2, <2>4, PlacesGrow
  <2>. QED  BY <2>1, <2>3, <2>4
<1>5. f \in Injection(S, N)
  <2>1. f \in [S -> N]
    BY <1>2
  <2>. QED  BY <1>4, <2>1 DEF Injection, IsInjective
<1>6. f \in Surjection(S, N)
  BY <1>3, <1>5, FS_Injection
<1>7. \A k \in N : \E x \in S : Place(R, S, x) = k
  BY <1>6 DEF Surjection
<1>. QED  BY <1>1, <1>2, <1>7
-----------------------------------------------------------------------------
(* A smaller number, and the number before.                                *)
LEMMA SmallerFacts ==
    ASSUME NEW q \in Nat
    PROVE  /\ q <= q
           /\ \A p \in Nat : p < q => p <= q /\ p # q /\ ~(q <= p)
           /\ \A p, n \in Nat : p < q /\ q <= n => p <= n /\ p # n
           /\ q # 0 => q - 1 \in Nat /\ ~(q <= q - 1)
           /\ \A p \in Nat : p <= q /\ p # q => q # 0 /\ p <= q - 1
  OBVIOUS

(***************************************************************************)
(* What is defined for a node from what is defined for its parent is       *)
(* defined for every node.  `step` gives the value of a node, from its own *)
(* and from the value of its parent.                                       *)
(***************************************************************************)
SolvesForest(f, S, none, parent, base, step) ==
    f = [o \in S |-> IF parent[o] = none THEN base[o] ELSE step[o, f[parent[o]]]]

LEMMA ForestRecursion ==
    ASSUME NEW S, S \subseteq Nat, NEW none, NEW parent \in [S -> S \cup {none}],
           \A o \in S : parent[o] # none => parent[o] \in S /\ parent[o] < o,
           NEW V, NEW base \in [S -> V], NEW step \in [S \X V -> V]
    PROVE  \E f \in [S -> V] : SolvesForest(f, S, none, parent, base, step)
<1>. DEFINE upto(n) == {o \in S : o <= n}
            solves(f, n) ==
              \A o \in upto(n) : f[o] = IF parent[o] = none THEN base[o] ELSE step[o, f[parent[o]]]
            sol(n) == {f \in [S -> V] : solves(f, n)}
<1>1. ASSUME NEW n \in Nat, NEW m \in Nat, NEW f \in sol(n), NEW g \in sol(m), NEW o \in S, o <= n, o <= m
      PROVE  f[o] = g[o]
  <2>. DEFINE T == {q \in S : q <= n /\ q <= m /\ f[q] # g[q]}
  <2>1. SUFFICES ASSUME T # {}  PROVE FALSE
    BY <1>1, Zenon
  <2>2. T \subseteq Nat
    OBVIOUS
  <2>3. PICK q \in T : \A k \in T : q <= k
    BY <2>1, <2>2, LeastNatural
  <2>4. q \in S /\ q \in Nat /\ q \in upto(n) /\ q \in upto(m)
    OBVIOUS
  <2>5. f[q] = (IF parent[q] = none THEN base[q] ELSE step[q, f[parent[q]]])
        /\ g[q] = (IF parent[q] = none THEN base[q] ELSE step[q, g[parent[q]]])
    BY <2>4
  <2>6. CASE parent[q] = none
    BY <2>5, <2>6
  <2>7. CASE parent[q] # none
    <3>1. parent[q] \in S /\ parent[q] \in Nat /\ parent[q] < q
      BY <2>4, <2>7
    <3>. HIDE DEF sol
    <3>2. parent[q] <= n /\ parent[q] <= m /\ ~(q <= parent[q])
      BY <2>4, <3>1, SmallerFacts
    <3>3. parent[q] \notin T
      BY <2>3, <3>2
    <3>. QED  BY <2>5, <3>1, <3>2, <3>3
  <2>. QED  BY <2>6, <2>7
<1>2. ASSUME NEW n \in Nat  PROVE sol(n) # {}
  <2>. DEFINE T == {k \in Nat : sol(k) = {}}
  <2>1. SUFFICES ASSUME T # {}  PROVE FALSE
    OBVIOUS
  <2>2. PICK k \in T : \A j \in T : k <= j
    BY <2>1, LeastNatural
  <2>3. \E g \in [S -> V] : k = 0 \/ (k - 1 \in Nat /\ g \in sol(k - 1))
    <3>1. CASE k = 0
      BY <3>1
    <3>2. CASE k # 0
      <4>1. k - 1 \in Nat /\ ~(k <= k - 1)
        BY <3>2, SmallerFacts, Zenon
      <4>2. k - 1 \notin T
        BY <2>2, <4>1
      <4>3. sol(k - 1) # {}
        BY <4>1, <4>2
      <4>. QED  BY <4>1, <4>3
    <3>. QED  BY <3>1, <3>2
  <2>4. PICK g \in [S -> V] : k = 0 \/ (k - 1 \in Nat /\ g \in sol(k - 1))
    BY <2>3
  <2>. DEFINE f == [o \in S |-> IF o # k THEN g[o]
                                ELSE IF parent[o] = none THEN base[o] ELSE step[o, g[parent[o]]]]
  <2>5. f \in [S -> V]
    OBVIOUS
  <2>6. ASSUME NEW o \in upto(k)
        PROVE  f[o] = IF parent[o] = none THEN base[o] ELSE step[o, f[parent[o]]]
    <3>1. o \in S /\ o \in Nat /\ o <= k /\ k \in Nat
      OBVIOUS
    <3>2. parent[o] # none => parent[o] \in S /\ parent[o] # k /\ f[parent[o]] = g[parent[o]]
      <4>1. parent[o] # none => parent[o] \in S /\ parent[o] \in Nat /\ parent[o] < o
        BY <3>1
      <4>2. parent[o] # none => parent[o] # k
        <5>1. \A p \in Nat : p < o /\ o <= k => p # k
          BY <3>1, SmallerFacts, Zenon
        <5>. HIDE DEF f, T, sol, upto
        <5>. QED  BY <3>1, <4>1, <5>1, Zenon
      <4>. QED  BY <4>1, <4>2
    <3>3. CASE o = k
      BY <3>1, <3>2, <3>3
    <3>4. CASE o # k
      <4>1. k # 0 /\ o <= k - 1
        BY <3>1, <3>4, SmallerFacts, Zenon
      <4>2. g[o] = IF parent[o] = none THEN base[o] ELSE step[o, g[parent[o]]]
        BY <2>4, <3>1, <4>1
      <4>3. f[o] = g[o]
        BY <3>1, <3>4
      <4>. HIDE DEF f, T, sol, solves
      <4>. QED  BY <3>2, <4>2, <4>3
    <3>. QED  BY <3>3, <3>4
  <2>7. f \in sol(k)
    <3>. HIDE DEF f
    <3>. QED  BY <2>5, <2>6
  <2>. QED  BY <2>7
<1>. DEFINE any(n) == CHOOSE f : f \in sol(n)
            whole == [o \in S |-> any(o)[o]]
<1>3. \A n \in Nat : any(n) \in sol(n)
  BY <1>2
<1>. HIDE DEF any
<1>4. whole \in [S -> V]
  BY <1>3
<1>5. ASSUME NEW o \in S
      PROVE  whole[o] = IF parent[o] = none THEN base[o] ELSE step[o, whole[parent[o]]]
  <2>1. o \in Nat /\ o <= o /\ any(o) \in sol(o)
    <3>. HIDE DEF sol
    <3>. QED  BY <1>3, SmallerFacts
  <2>2. any(o)[o] = IF parent[o] = none THEN base[o] ELSE step[o, any(o)[parent[o]]]
    BY <2>1
  <2>3. CASE parent[o] = none
    BY <2>2, <2>3
  <2>4. CASE parent[o] # none
    <3>1. parent[o] \in S /\ parent[o] \in Nat /\ parent[o] <= o /\ parent[o] <= parent[o]
      BY <2>1, <2>4, SmallerFacts, Zenon
    <3>2. any(parent[o]) \in sol(parent[o])
      BY <1>3, <3>1
    <3>. HIDE DEF sol
    <3>3. any(o)[parent[o]] = any(parent[o])[parent[o]]
      BY <1>1, <2>1, <3>1, <3>2
    <3>. QED  BY <2>2, <2>4, <3>1, <3>3
  <2>. QED  BY <2>3, <2>4
<1>6. whole = [o \in S |-> IF parent[o] = none THEN base[o] ELSE step[o, whole[parent[o]]]]
  <2>. HIDE DEF whole
  <2>1. DOMAIN whole = S /\ whole = [o \in S |-> whole[o]]
    BY <1>4
  <2>. QED  BY <1>5, <2>1
<1>. HIDE DEF whole
<1>. QED  BY <1>4, <1>6 DEF SolvesForest

-----------------------------------------------------------------------------
(* The sums of the first elements of a list.                               *)

SumsOf(b, sizes) ==
    b = [k \in 1..(Len(sizes) + 1) |-> IF k = 1 THEN 0 ELSE b[k - 1] + sizes[k - 1]]

SizesBefore(sizes) == CHOOSE b : SumsOf(b, sizes)

LEMMA SumsFacts ==
    ASSUME NEW sizes \in Seq(Int)
    PROVE  /\ SumsOf(SizesBefore(sizes), sizes)
           /\ \A k \in 1..(Len(sizes) + 1) : SizesBefore(sizes)[k] \in Int
           /\ SizesBefore(sizes)[1] = 0
           /\ \A k \in 1..Len(sizes) : SizesBefore(sizes)[k + 1] = SizesBefore(sizes)[k] + sizes[k]
<1>. DEFINE n == Len(sizes)
            S == 1..(n + 1)
            parent == [k \in S |-> k - 1]
            base == [k \in S |-> 0]
            step == [t \in S \X Int |-> IF t[1] = 1 THEN 0 ELSE t[2] + sizes[t[1] - 1]]
<1>1. n \in Nat /\ \A k \in 1..n : sizes[k] \in Int
  OBVIOUS
<1>. HIDE DEF n
<1>2. S \subseteq Nat /\ parent \in [S -> S \cup {0}]
      /\ \A k \in S : parent[k] = k - 1 /\ (parent[k] # 0 => parent[k] \in S /\ parent[k] < k)
  BY <1>1
<1>3. base \in [S -> Int] /\ \A k \in S : base[k] = 0
  OBVIOUS
<1>4. step \in [S \X Int -> Int]
  <2>. SUFFICES ASSUME NEW t \in S \X Int  PROVE (IF t[1] = 1 THEN 0 ELSE t[2] + sizes[t[1] - 1]) \in Int
    OBVIOUS
  <2>1. t[1] \in S /\ t[2] \in Int /\ (t[1] # 1 => t[1] - 1 \in 1..n)
    BY <1>1
  <2>. QED  BY <1>1, <2>1
<1>5. \A k \in S, v \in Int : k # 1 => step[k, v] = v + sizes[k - 1]
  OBVIOUS
<1>. HIDE DEF parent, base, step
<1>6. PICK g \in [S -> Int] : SolvesForest(g, S, 0, parent, base, step)
  <2>. HIDE DEF S
  <2>. QED  BY <1>2, <1>3, <1>4, ForestRecursion
<1>7. \A k \in S : g[k] = IF parent[k] = 0 THEN base[k] ELSE step[k, g[parent[k]]]
  BY <1>6, Zenon DEF SolvesForest
<1>8. \A k \in S : g[k] = IF k = 1 THEN 0 ELSE g[k - 1] + sizes[k - 1]
  <2>. SUFFICES ASSUME NEW k \in S  PROVE g[k] = IF k = 1 THEN 0 ELSE g[k - 1] + sizes[k - 1]
    OBVIOUS
  <2>1. CASE k = 1
    <3>1. parent[k] = 0 /\ base[k] = 0
      BY <1>2, <1>3, <2>1
    <3>. QED  BY <1>7, <2>1, <3>1
  <2>2. CASE k # 1
    <3>1. parent[k] = k - 1 /\ parent[k] # 0 /\ g[k - 1] \in Int
      BY <1>1, <1>2, <2>2
    <3>. QED  BY <1>5, <1>7, <2>2, <3>1
  <2>. QED  BY <2>1, <2>2
<1>9. SumsOf(g, sizes)
  <2>1. g = [k \in S |-> g[k]]
    OBVIOUS
  <2>. QED  BY <1>8, <2>1 DEF SumsOf, n
<1>. DEFINE b == SizesBefore(sizes)
<1>10. SumsOf(b, sizes)
  BY <1>9, Zenon DEF SizesBefore
<1>. HIDE DEF b
<1>11. b = [k \in S |-> IF k = 1 THEN 0 ELSE b[k - 1] + sizes[k - 1]]
  BY <1>10, Zenon DEF SumsOf, n
<1>12. b[1] = 0 /\ \A k \in S : k # 1 => b[k] = b[k - 1] + sizes[k - 1]
  BY <1>1, <1>11
<1>13. \A k \in 1..n : b[k + 1] = b[k] + sizes[k]
  <2>. SUFFICES ASSUME NEW k \in 1..n  PROVE b[k + 1] = b[k] + sizes[k]
    OBVIOUS
  <2>1. k + 1 \in S /\ k + 1 # 1 /\ (k + 1) - 1 = k
    BY <1>1
  <2>. QED  BY <1>12, <2>1
<1>14. \A k \in S : b[k] \in Int
  <2>. DEFINE T == {k \in S : b[k] \notin Int}
  <2>. SUFFICES ASSUME T # {}  PROVE FALSE
    OBVIOUS
  <2>1. PICK m \in T : \A k \in T : m <= k
    BY <1>2, LeastNatural
  <2>2. m \in S /\ m # 1
    BY <1>12
  <2>3. m - 1 \in S /\ m - 1 \in 1..n /\ ~(m <= m - 1)
    BY <1>1, <2>2
  <2>4. b[m - 1] \in Int
    BY <2>1, <2>3
  <2>5. b[m] = b[m - 1] + sizes[m - 1]
    BY <1>12, <2>2
  <2>. QED  BY <1>1, <2>3, <2>4, <2>5
<1>. QED  BY <1>10, <1>12, <1>13, <1>14 DEF b, n

(* As many sets that share nothing hold what they hold each, added up.     *)
LEMMA FamilySize ==
    ASSUME NEW sizes \in Seq(Int), NEW F,
           \A k \in DOMAIN sizes : IsFiniteSet(F[k]) /\ sizes[k] = Cardinality(F[k]),
           \A j, k \in DOMAIN sizes : j # k => F[j] \cap F[k] = {},
           NEW whole, \A x : x \in whole <=> \E k \in DOMAIN sizes : x \in F[k]
    PROVE  IsFiniteSet(whole) /\ Cardinality(whole) = SizesBefore(sizes)[Len(sizes) + 1]
<1>. DEFINE n == Len(sizes)
            b == SizesBefore(sizes)
            upto(m) == UNION {F[k] : k \in 1..m}
            counted(m) == IsFiniteSet(upto(m)) /\ Cardinality(upto(m)) = b[m + 1]
            T == {m \in 0..n : ~counted(m)}
<1>1. /\ n \in Nat /\ DOMAIN sizes = 1..n
      /\ b[1] = 0 /\ \A k \in 1..n : b[k + 1] = b[k] + sizes[k]
  BY SumsFacts
<1>2. \A m \in 0..n : counted(m)
  <2>1. SUFFICES ASSUME T # {}  PROVE FALSE
    OBVIOUS
  <2>2. T \subseteq Nat
    BY <1>1
  <2>3. PICK m \in T : \A k \in T : m <= k
    <3>. HIDE DEF T
    <3>. QED  BY <2>1, <2>2, LeastNatural
  <2>4. m \in 0..n /\ m \in Nat /\ ~counted(m)
    BY <1>1
  <2>5. CASE m = 0
    <3>1. upto(m) = {} /\ m + 1 = 1
      BY <2>5
    <3>. QED  BY <1>1, <2>4, <3>1, FS_EmptySet
  <2>6. CASE m # 0
    <3>. DEFINE l == m - 1
    <3>1. l \in 0..n /\ ~(m <= l) /\ l + 1 = m /\ m \in 1..n
      BY <1>1, <2>4, <2>6
    <3>2. counted(l)
      <4>1. l \notin T
        BY <2>3, <3>1
      <4>. QED  BY <3>1, <4>1
    <3>3. upto(m) = upto(l) \cup F[m]
      <4>1. \A k : k \in 1..m <=> k \in 1..l \/ k = m
        BY <2>4, <3>1
      <4>. QED  BY <4>1
    <3>4. upto(l) \cap F[m] = {}
      <4>1. \A k \in 1..l : k \in 1..n /\ k # m
        BY <1>1, <2>4, <3>1
      <4>2. \A k \in 1..l : F[k] \cap F[m] = {}
        BY <1>1, <3>1, <4>1
      <4>. HIDE DEF l
      <4>. QED  BY <4>2
    <3>5. IsFiniteSet(F[m]) /\ Cardinality(F[m]) = sizes[m] /\ b[m + 1] = b[m] + sizes[m]
      BY <1>1, <3>1
    <3>6. IsFiniteSet(upto(l)) /\ Cardinality(upto(l)) = b[m]
      BY <3>1, <3>2
    <3>. HIDE DEF upto, b, l, T
    <3>7. /\ IsFiniteSet(upto(l) \cup F[m])
          /\ Cardinality(upto(l) \cup F[m]) = Cardinality(upto(l)) + Cardinality(F[m]) - 0
      <4>1. Cardinality({}) = 0
        BY FS_EmptySet
      <4>2. /\ IsFiniteSet(upto(l) \cup F[m])
            /\ Cardinality(upto(l) \cup F[m])
                 = Cardinality(upto(l)) + Cardinality(F[m]) - Cardinality(upto(l) \cap F[m])
        BY <3>5, <3>6, FS_Union, Zenon
      <4>. QED  BY <3>4, <4>1, <4>2
    <3>8. Cardinality(upto(l)) \in Nat /\ Cardinality(F[m]) \in Nat
      BY <3>5, <3>6, FS_CardinalityType
    <3>9. Cardinality(upto(m)) = b[m + 1]
      BY <3>3, <3>5, <3>6, <3>7, <3>8
    <3>. QED  BY <2>4, <3>3, <3>7, <3>9
  <2>. QED  BY <2>5, <2>6
<1>3. n \in 0..n /\ whole = upto(n)
  BY <1>1
<1>. HIDE DEF upto
<1>. QED  BY <1>2, <1>3
=============================================================================
