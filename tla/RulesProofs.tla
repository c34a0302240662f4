----------------------------- MODULE RulesProofs -----------------------------
(***************************************************************************)
(* Proofs about Canonical, Facts and Rules: what fromSnapshot makes of the *)
(* raw nodes, what deriveFacts says of the document, and what a ruleset    *)
(* that is loaded and run reports.                                         *)
(***************************************************************************)
EXTENDS Rules, DataFacts, TLAPS

-----------------------------------------------------------------------------
(***************************************************************************)
(* Raw nodes.                                                              *)
(***************************************************************************)

(* A set of nodes as a list: every one of them, smaller ones first.        *)
LEMMA InOrderFacts ==
    ASSUME NEW S, S \subseteq Nat, IsFiniteSet(S)
    PROVE  /\ InOrder(S) \in Seq(S) /\ Cardinality(S) \in Nat
           /\ DOMAIN InOrder(S) = 1..Cardinality(S)
           /\ \A k \in DOMAIN InOrder(S) : InOrder(S)[k] \in S
           /\ \A j, k \in DOMAIN InOrder(S) : j < k => InOrder(S)[j] < InOrder(S)[k]
           /\ \A o \in S : \E k \in DOMAIN InOrder(S) : InOrder(S)[k] = o
<1>. DEFINE R == {r \in S \X S : r[1] < r[2]}
            n == Cardinality(S)
            below(o) == Cardinality({p \in S : p < o})
            at(k) == CHOOSE o \in S : below(o) = k - 1
            L == [k \in 1..n |-> at(k)]
<1>1. \A x, y \in S : <<x, y>> \in R <=> x < y
  OBVIOUS
<1>2. IsStrictOrder(R, S)
  <2>. HIDE DEF R
  <2>1. \A x \in S : x \in Nat /\ ~(x < x)
    OBVIOUS
  <2>2. \A x, y \in S : x = y \/ x < y \/ y < x
    BY <2>1
  <2>3. \A x, y, z \in S : x < y /\ y < z => x < z
    BY <2>1
  <2>. QED  BY <1>1, <2>1, <2>2, <2>3 DEF IsStrictOrder
<1>3. \A x \in S : Place(R, S, x) = below(x)
  <2>1. \A x \in S : {y \in S : <<y, x>> \in R} = {y \in S : y < x}
    BY <1>1
  <2>. QED  BY <2>1, Zenon DEF Place
<1>4. n \in Nat /\ {Place(R, S, x) : x \in S} = 0..(n - 1)
  BY <1>2, PlacesAreTheNumbers
<1>. HIDE DEF R, below
<1>5. \A k \in 1..n : at(k) \in S /\ below(at(k)) = k - 1
  <2>1. ASSUME NEW k \in 1..n  PROVE \E o \in S : below(o) = k - 1
    <3>1. k - 1 \in 0..(n - 1)
      BY <1>4
    <3>. QED  BY <1>3, <1>4, <3>1
  <2>. QED  BY <2>1
<1>6. \A x \in S : below(x) \in 0..(n - 1)
  BY <1>3, <1>4
<1>7. \A x, y \in S : x < y => below(x) < below(y)
  <2>. SUFFICES ASSUME NEW x \in S, NEW y \in S, x < y  PROVE below(x) < below(y)
    OBVIOUS
  <2>1. <<x, y>> \in R
    BY <1>1
  <2>2. Place(R, S, x) < Place(R, S, y)
    BY <1>2, <2>1, PlacesGrow
  <2>. QED  BY <1>3, <2>2
<1>8. InOrder(S) = L
  BY Zenon DEF InOrder, below
<1>9. L \in Seq(S) /\ DOMAIN L = 1..n /\ \A k \in 1..n : L[k] = at(k)
  BY <1>4, <1>5
<1>10. ASSUME NEW j \in 1..n, NEW k \in 1..n, j < k  PROVE at(j) < at(k)
  <2>1. at(j) \in S /\ at(k) \in S /\ below(at(j)) = j - 1 /\ below(at(k)) = k - 1
    BY <1>5
  <2>2. j - 1 < k - 1 /\ ~(j - 1 = k - 1) /\ ~(k - 1 < j - 1)
    BY <1>4, <1>10
  <2>3. at(j) # at(k) /\ ~(at(k) < at(j))
    BY <1>7, <2>1, <2>2
  <2>4. at(j) \in Nat /\ at(k) \in Nat
    BY <2>1
  <2>. HIDE DEF at
  <2>. QED  BY <2>3, <2>4
<1>11. ASSUME NEW o \in S  PROVE \E k \in 1..n : at(k) = o
  <2>1. below(o) + 1 \in 1..n /\ (below(o) + 1) - 1 = below(o)
    BY <1>4, <1>6
  <2>2. at(below(o) + 1) \in S /\ below(at(below(o) + 1)) = below(o)
    BY <1>5, <2>1
  <2>. DEFINE x == at(below(o) + 1)
  <2>. HIDE DEF at
  <2>6. x \in S /\ below(x) = below(o)
    BY <2>2
  <2>. HIDE DEF x
  <2>7. below(o) \in Nat
    BY <1>4, <1>6
  <2>3. x \in S /\ x \in Nat /\ o \in Nat /\ below(x) = below(o) /\ below(o) \in Nat
    BY <2>6, <2>7
  <2>4. ~(below(o) < below(o))
    BY <2>3
  <2>5. x = o
    BY <1>7, <2>3, <2>4
  <2>. QED  BY <2>1, <2>5 DEF x
<1>. HIDE DEF at, L
<1>12. L \in Seq(S) /\ Cardinality(S) \in Nat /\ DOMAIN L = 1..Cardinality(S)
  BY <1>4, <1>9
<1>13. \A k \in DOMAIN L : L[k] \in S
  BY <1>5, <1>9
<1>14. \A j, k \in DOMAIN L : j < k => L[j] < L[k]
  BY <1>9, <1>10
<1>15. \A o \in S : \E k \in DOMAIN L : L[k] = o
  BY <1>9, <1>11
<1>. HIDE DEF n
<1>. QED  BY <1>8, <1>12, <1>13, <1>14, <1>15, Zenon

(* What is assumed of a snapshot, as the proofs use it.                    *)
LEMMA ForestFacts ==
    ASSUME IsSnapshot(Snap)
    PROVE  /\ Snap.nodes \subseteq Nat /\ NoParent \notin Snap.nodes /\ IsFiniteSet(Snap.nodes)
           /\ Snap.parent \in [Snap.nodes -> Snap.nodes \cup {NoParent}]
           /\ \A o \in Snap.nodes : o \in Nat /\ Snap.parent[o] \in Nat /\ Snap.parent[o] < o
           /\ \A o \in Snap.nodes : Snap.parent[o] # NoParent => Snap.parent[o] \in Snap.nodes
           /\ \A o, p \in Snap.nodes :
                Snap.parent[p] < o /\ o < p => Snap.parent[p] <= Snap.parent[o]
           /\ \A o \in Snap.nodes : Snap.parent[o] = NoParent => Snap.type[o] # None
  BY DEF IsSnapshot, NoParent

(* The children that are read of a node, or the roots.                     *)
LEMMA RawChildrenFacts ==
    ASSUME IsSnapshot(Snap), NEW o
    PROVE  LET cs == RawChildren(o)
               S == {c \in Snap.nodes : Snap.parent[c] = o /\ Snap.type[c] # None}
           IN /\ cs \in Seq(S) /\ cs \in Seq(Snap.nodes) /\ DOMAIN cs = 1..Len(cs) /\ Len(cs) \in Nat
              /\ \A k \in DOMAIN cs :
                   /\ k \in Nat /\ k - 1 \in Nat
                   /\ cs[k] \in Snap.nodes /\ Snap.parent[cs[k]] = o /\ Snap.type[cs[k]] # None
              /\ \A j, k \in DOMAIN cs : j < k => cs[j] < cs[k]
              /\ \A j, k \in DOMAIN cs : j # k => cs[j] # cs[k]
              /\ \A c \in S : \E k \in DOMAIN cs : cs[k] = c
<1>. DEFINE S == {c \in Snap.nodes : Snap.parent[c] = o /\ Snap.type[c] # None}
            cs == RawChildren(o)
<1>1. S \subseteq Snap.nodes /\ S \subseteq Nat /\ IsFiniteSet(S)
  <2>1. S \subseteq Snap.nodes
    OBVIOUS
  <2>. QED  BY <2>1, ForestFacts, FS_Subset
<1>2. cs = InOrder(S)
  BY DEF RawChildren
<1>3. \A c \in S : c \in Snap.nodes /\ Snap.parent[c] = o /\ Snap.type[c] # None
  OBVIOUS
<1>. HIDE DEF cs
<1>4. /\ cs \in Seq(S) /\ Cardinality(S) \in Nat /\ DOMAIN cs = 1..Cardinality(S)
      /\ \A k \in DOMAIN cs : cs[k] \in S
      /\ \A j, k \in DOMAIN cs : j < k => cs[j] < cs[k]
      /\ \A c \in S : \E k \in DOMAIN cs : cs[k] = c
  <2>. HIDE DEF S
  <2>. QED  BY <1>1, <1>2, InOrderFacts
<1>. HIDE DEF S
<1>5. cs \in Seq(Snap.nodes) /\ DOMAIN cs = 1..Len(cs) /\ Len(cs) \in Nat
  <2>1. DOMAIN cs = 1..Len(cs) /\ Len(cs) \in Nat
    BY <1>4
  <2>2. \A k \in 1..Len(cs) : cs[k] \in Snap.nodes
    BY <1>1, <1>4, <2>1
  <2>. QED  BY <1>4, <2>1, <2>2
<1>6. \A k \in DOMAIN cs : k \in Nat /\ k - 1 \in Nat
  BY <1>5
<1>7. \A j, k \in DOMAIN cs : j # k => cs[j] # cs[k]
  <2>. SUFFICES ASSUME NEW j \in DOMAIN cs, NEW k \in DOMAIN cs, j # k  PROVE cs[j] # cs[k]
    OBVIOUS
  <2>1. j \in Nat /\ k \in Nat /\ cs[j] \in Nat /\ cs[k] \in Nat
    BY <1>1, <1>4, <1>6
  <2>2. j < k \/ k < j
    BY <2>1
  <2>3. cs[j] < cs[k] \/ cs[k] < cs[j]
    BY <1>4, <2>2
  <2>. QED  BY <2>1, <2>3
<1>. QED  BY <1>1, <1>3, <1>4, <1>5, <1>6, <1>7 DEF S, cs

(* What holds of a node if it holds of its parent holds of every node.     *)
LEMMA ForestInduction ==
    ASSUME IsSnapshot(Snap), NEW T, T \subseteq Snap.nodes,
           \A o \in Snap.nodes : Snap.parent[o] = NoParent \/ Snap.parent[o] \in T => o \in T
    PROVE  T = Snap.nodes
<1>. DEFINE U == Snap.nodes \ T
<1>1. SUFFICES ASSUME U # {}  PROVE FALSE
  OBVIOUS
<1>2. PICK o \in U : \A p \in U : o <= p
  <2>1. U \subseteq Nat
    BY ForestFacts
  <2>. QED  BY <1>1, <2>1, LeastNatural
<1>3. o \in Snap.nodes /\ o \notin T /\ Snap.parent[o] # NoParent /\ Snap.parent[o] \notin T
  OBVIOUS
<1>4. Snap.parent[o] \in U
  BY <1>3, ForestFacts
<1>5. o \in Nat /\ Snap.parent[o] \in Nat /\ Snap.parent[o] < o /\ o <= Snap.parent[o]
  <2>1. o <= Snap.parent[o]
    BY <1>2, <1>4
  <2>. QED  BY <1>3, <2>1, ForestFacts
<1>. QED  BY <1>5, SmallerFacts

(* The node and what is above it, by its parent's.                         *)
LEMMA ChainFacts ==
    ASSUME IsSnapshot(Snap)
    PROVE  /\ \A o \in Snap.nodes :
                Chain[o] = IF Snap.parent[o] = NoParent THEN {o} ELSE Chain[Snap.parent[o]] \cup {o}
           /\ \A o \in Snap.nodes : Chain[o] \subseteq Snap.nodes /\ \A p \in Chain[o] : p <= o
<1>. DEFINE S == Snap.nodes
            V == SUBSET S
            base == [o \in S |-> {o}]
            step == [t \in S \X V |-> t[2] \cup {t[1]}]
<1>1. base \in [S -> V] /\ step \in [S \X V -> V]
  OBVIOUS
<1>2. \A o \in S : base[o] = {o}
  OBVIOUS
<1>3. \A o \in S, v \in V : step[o, v] = v \cup {o}
  OBVIOUS
<1>. HIDE DEF base, step
<1>4. PICK f \in [S -> V] :
        f = [o \in S |-> IF Snap.parent[o] = NoParent THEN base[o] ELSE step[o, f[Snap.parent[o]]]]
  <2>. HIDE DEF V
  <2>1. /\ S \subseteq Nat /\ Snap.parent \in [S -> S \cup {NoParent}]
        /\ \A o \in S : Snap.parent[o] # NoParent => Snap.parent[o] \in S /\ Snap.parent[o] < o
    BY ForestFacts
  <2>. DEFINE parent == Snap.parent
  <2>2. /\ S \subseteq Nat /\ parent \in [S -> S \cup {NoParent}]
        /\ \A o \in S : parent[o] # NoParent => parent[o] \in S /\ parent[o] < o
    BY <2>1
  <2>. HIDE DEF S, parent
  <2>3. \E f \in [S -> V] : SolvesForest(f, S, NoParent, parent, base, step)
    BY <1>1, <2>2, ForestRecursion
  <2>. QED  BY <2>3, Zenon DEF parent, SolvesForest
<1>5. f = [o \in S |-> IF Snap.parent[o] = NoParent THEN {o} ELSE f[Snap.parent[o]] \cup {o}]
  <2>. HIDE DEF V
  <2>1. \A o \in S : Snap.parent[o] # NoParent => f[Snap.parent[o]] \in V
    BY ForestFacts
  <2>. HIDE DEF S
  <2>2. \A o \in S : (IF Snap.parent[o] = NoParent THEN base[o] ELSE step[o, f[Snap.parent[o]]])
                     = (IF Snap.parent[o] = NoParent THEN {o} ELSE f[Snap.parent[o]] \cup {o})
    BY <1>2, <1>3, <2>1
  <2>. QED  BY <1>4, <2>2, Zenon
<1>. HIDE DEF V
<1>6. Chain = [o \in S |-> IF Snap.parent[o] = NoParent THEN {o} ELSE Chain[Snap.parent[o]] \cup {o}]
  BY <1>5, Zenon DEF Chain
<1>7. \A o \in S : Chain[o] = IF Snap.parent[o] = NoParent THEN {o} ELSE Chain[Snap.parent[o]] \cup {o}
  BY <1>6, Zenon
<1>. DEFINE T == {o \in S : Chain[o] \subseteq S /\ \A p \in Chain[o] : p <= o}
<1>8. ASSUME NEW o \in S, Snap.parent[o] = NoParent \/ Snap.parent[o] \in T  PROVE o \in T
  <2>1. CASE Snap.parent[o] = NoParent
    <3>1. Chain[o] = {o} /\ o \in Nat
      BY <1>7, <2>1, ForestFacts
    <3>. QED  BY <3>1
  <2>2. CASE Snap.parent[o] # NoParent
    <3>. DEFINE q == Snap.parent[o]
    <3>1. q \in T /\ Chain[o] = Chain[q] \cup {o} /\ q \in Nat /\ o \in Nat /\ q < o
      BY <1>7, <1>8, <2>2, ForestFacts
    <3>. HIDE DEF q
    <3>2. Chain[q] \subseteq S /\ \A p \in Chain[q] : p \in Nat /\ p <= q
      BY <3>1, ForestFacts
    <3>3. \A p \in Nat : p <= q => p <= o
      BY <3>1
    <3>4. o <= o
      BY <3>1
    <3>. QED  BY <3>1, <3>2, <3>3, <3>4
  <2>. QED  BY <2>1, <2>2
<1>9. T = S
  BY <1>8, ForestInduction
<1>. QED  BY <1>7, <1>9

(* The names below the root of a node down to it, by its parent's.         *)
LEMMA NamePathFacts ==
    ASSUME IsSnapshot(Snap)
    PROVE  \A o \in Snap.nodes :
             NamePath[o] = IF Snap.parent[o] = NoParent THEN <<>>
                           ELSE Append(NamePath[Snap.parent[o]], Snap.name[o])
<1>. DEFINE S == Snap.nodes
            N == {Snap.name[o] : o \in S}
            V == Seq(N)
            base == [o \in S |-> <<>>]
            step == [t \in S \X V |-> Append(t[2], Snap.name[t[1]])]
<1>1. base \in [S -> V] /\ step \in [S \X V -> V]
  OBVIOUS
<1>2. \A o \in S : base[o] = <<>>
  OBVIOUS
<1>3. \A o \in S, v \in V : step[o, v] = Append(v, Snap.name[o])
  OBVIOUS
<1>. HIDE DEF base, step, V
<1>4. PICK f \in [S -> V] :
        f = [o \in S |-> IF Snap.parent[o] = NoParent THEN base[o] ELSE step[o, f[Snap.parent[o]]]]
  <2>1. /\ S \subseteq Nat /\ Snap.parent \in [S -> S \cup {NoParent}]
        /\ \A o \in S : Snap.parent[o] # NoParent => Snap.parent[o] \in S /\ Snap.parent[o] < o
    BY ForestFacts
  <2>. DEFINE parent == Snap.parent
  <2>2. /\ S \subseteq Nat /\ parent \in [S -> S \cup {NoParent}]
        /\ \A o \in S : parent[o] # NoParent => parent[o] \in S /\ parent[o] < o
    BY <2>1
  <2>. HIDE DEF S, parent
  <2>3. \E f \in [S -> V] : SolvesForest(f, S, NoParent, parent, base, step)
    BY <1>1, <2>2, ForestRecursion
  <2>. QED  BY <2>3, Zenon DEF parent, SolvesForest
<1>5. f = [o \in S |-> IF Snap.parent[o] = NoParent THEN <<>> ELSE Append(f[Snap.parent[o]], Snap.name[o])]
  <2>1. \A o \in S : Snap.parent[o] # NoParent => f[Snap.parent[o]] \in V
    BY ForestFacts
  <2>. HIDE DEF S
  <2>2. \A o \in S : (IF Snap.parent[o] = NoParent THEN base[o] ELSE step[o, f[Snap.parent[o]]])
                     = (IF Snap.parent[o] = NoParent THEN <<>> ELSE Append(f[Snap.parent[o]], Snap.name[o]))
    BY <1>2, <1>3, <2>1
  <2>. QED  BY <1>4, <2>2, Zenon
<1>6. NamePath = [o \in S |-> IF Snap.parent[o] = NoParent THEN <<>>
                              ELSE Append(NamePath[Snap.parent[o]], Snap.name[o])]
  BY <1>5, Zenon DEF NamePath
<1>. QED  BY <1>6, Zenon

-----------------------------------------------------------------------------
(***************************************************************************)
(* The state of a conversion.                                              *)
(***************************************************************************)
NamesGiven == {Snap.name[o] : o \in Snap.nodes}
TypesGiven == {Snap.type[o] : o \in Snap.nodes}

Call ==
    [ at : Snap.nodes, names : Seq(NamesGiven), types : Seq(TypesGiven), path : Seq(Nat),
      visible : BOOLEAN, nth : Nat ]

Rejection == [at : Snap.nodes, path : Seq(Nat)]

Pending == {todo[k].at : k \in DOMAIN todo}
Rejected == {rejections[k].at : k \in DOMAIN rejections}
Reached == DOMAIN nodes \cup Rejected

(* What every part of the state is.                                        *)
Kinds ==
    /\ todo \in Seq(Call)
    /\ rejections \in Seq(Rejection)
    /\ DOMAIN nodes \subseteq Snap.nodes
    /\ \A o \in DOMAIN nodes : nodes[o].path \in Seq(Nat)

(* Document order: what is reached comes before what is pending.           *)
Ordered ==
    /\ \A j, k \in DOMAIN todo : j < k => todo[j].at < todo[k].at
    /\ \A j, k \in DOMAIN rejections : j < k => rejections[j].at < rejections[k].at
    /\ \A o \in Reached, k \in DOMAIN todo : o < todo[k].at
    /\ DOMAIN nodes \cap Rejected = {}

(* Reached or pending are the roots and the children of what is converted. *)
Covered ==
    \A o \in Snap.nodes :
        o \in Pending \cup Reached <=>
            /\ Snap.type[o] # None
            /\ Snap.parent[o] = NoParent \/ Snap.parent[o] \in DOMAIN nodes

-----------------------------------------------------------------------------
(* How many earlier siblings have the name is a number.                    *)
LEMMA SameNameBeforeType ==
    ASSUME NEW siblings, NEW k \in Nat
    PROVE  SameNameBefore(siblings, k) \in Nat
<1>1. IsFiniteSet(1..(k - 1))
  BY FS_Interval
<1>. QED  BY <1>1, FS_Subset, FS_CardinalityType DEF SameNameBefore

(* The calls for the children of a node, or for the roots.                 *)
LEMMA CallsFacts ==
    ASSUME IsSnapshot(Snap), NEW o, NEW names \in Seq(NamesGiven), NEW types \in Seq(TypesGiven),
           NEW path \in Seq(Nat), NEW visible \in BOOLEAN
    PROVE  LET cs == RawChildren(o)
               new == Calls(cs, names, types, path, visible)
           IN /\ new \in Seq(Call) /\ DOMAIN new = DOMAIN cs
              /\ \A k \in DOMAIN new :
                   /\ new[k].at = cs[k] /\ new[k].names = names /\ new[k].types = types
                   /\ new[k].path = Append(path, k - 1) /\ new[k].visible = visible
                   /\ new[k].nth = SameNameBefore(cs, k)
<1>. DEFINE cs == RawChildren(o)
            new == Calls(cs, names, types, path, visible)
<1>1. /\ DOMAIN cs = 1..Len(cs) /\ Len(cs) \in Nat
      /\ \A k \in DOMAIN cs : k \in Nat /\ k - 1 \in Nat /\ cs[k] \in Snap.nodes
  BY RawChildrenFacts
<1>. HIDE DEF cs
<1>2. DOMAIN new = 1..Len(cs)
  BY <1>1 DEF Calls
<1>3. ASSUME NEW k \in DOMAIN cs
      PROVE  /\ new[k].at = cs[k] /\ new[k].names = names /\ new[k].types = types
             /\ new[k].path = Append(path, k - 1) /\ new[k].visible = visible
             /\ new[k].nth = SameNameBefore(cs, k)
             /\ new[k] \in Call
  <2>1. new[k] = [ at |-> cs[k], names |-> names, types |-> types, path |-> Append(path, k - 1),
                   visible |-> visible, nth |-> SameNameBefore(cs, k) ]
    BY DEF Calls
  <2>2. Append(path, k - 1) \in Seq(Nat)
    BY <1>1
  <2>3. SameNameBefore(cs, k) \in Nat
    BY <1>1, SameNameBeforeType
  <2>. HIDE DEF new
  <2>. QED  BY <1>1, <2>1, <2>2, <2>3 DEF Call
<1>. HIDE DEF new
<1>4. new \in Seq(Call)
  <2>1. new = [k \in 1..Len(cs) |-> new[k]]
    BY <1>2, Zenon DEF Calls, new
  <2>2. \A k \in 1..Len(cs) : new[k] \in Call
    BY <1>1, <1>3
  <2>. QED  BY <1>1, <2>1, <2>2
<1>. QED  BY <1>1, <1>2, <1>3, <1>4 DEF cs, new

(* The fields of a canonical node that others are compared with.           *)
LEMMA NodeOfFacts ==
    ASSUME NEW c
    PROVE  /\ NodeOf(c).path = c.path
           /\ NodeOf(c).key = StableKey(c)
           /\ StableKey(c).names = Append(c.names, Snap.name[c.at])
           /\ StableKey(c).types = Append(c.types, Snap.type[c.at])
           /\ StableKey(c).nth = c.nth
           /\ NodeOf(c).visible = (c.visible /\ Snap.visible[c.at])
           /\ NodeOf(c).box = AllOf(Snap.look[c.at].box)
           /\ NodeOf(c).text = TextOf(Snap.look[c.at])
<1>1. /\ NodeOf(c).path = c.path /\ NodeOf(c).key = StableKey(c)
      /\ NodeOf(c).visible = (c.visible /\ Snap.visible[c.at])
      /\ NodeOf(c).box = AllOf(Snap.look[c.at].box)
      /\ NodeOf(c).text = TextOf(Snap.look[c.at])
  BY DEF NodeOf
<1>2. /\ StableKey(c).names = Append(c.names, Snap.name[c.at])
      /\ StableKey(c).types = Append(c.types, Snap.type[c.at])
      /\ StableKey(c).nth = c.nth
  BY DEF StableKey
<1>. QED  BY <1>1, <1>2

(* What is reached or pending is a raw node.                               *)
LEMMA ReachedType ==
    ASSUME IsSnapshot(Snap), Kinds
    PROVE  \A o \in Reached \cup Pending : o \in Snap.nodes /\ o \in Nat
<1>1. ASSUME NEW k \in DOMAIN todo  PROVE todo[k].at \in Snap.nodes
  <2>1. todo[k] \in Call
    BY DEF Kinds
  <2>. QED  BY <2>1 DEF Call
<1>2. ASSUME NEW k \in DOMAIN rejections  PROVE rejections[k].at \in Snap.nodes
  <2>1. rejections[k] \in Rejection
    BY DEF Kinds
  <2>. QED  BY <2>1 DEF Rejection
<1>3. DOMAIN nodes \subseteq Snap.nodes
  BY DEF Kinds
<1>. QED  BY <1>1, <1>2, <1>3, ForestFacts DEF Reached, Rejected, Pending

(* The call that is made.                                                  *)
LEMMA HeadFacts ==
    ASSUME IsSnapshot(Snap), Kinds, Ordered, Covered, todo # <<>>
    PROVE  LET c == Head(todo) IN
           /\ c \in Call /\ c = todo[1] /\ 1 \in DOMAIN todo
           /\ c.at \in Snap.nodes /\ c.at \in Nat /\ c.at \in Pending /\ c.at \notin Reached
           /\ c.names \in Seq(NamesGiven) /\ c.types \in Seq(TypesGiven) /\ c.path \in Seq(Nat)
           /\ c.visible \in BOOLEAN /\ c.nth \in Nat
           /\ Tail(todo) \in Seq(Call)
           /\ DOMAIN Tail(todo) = 1..(Len(todo) - 1)
           /\ \A k \in DOMAIN Tail(todo) : k + 1 \in DOMAIN todo /\ k + 1 # 1 /\ Tail(todo)[k] = todo[k + 1]
           /\ \A k \in DOMAIN todo : k = 1 \/ (k - 1 \in DOMAIN Tail(todo) /\ Tail(todo)[k - 1] = todo[k])
           /\ \A k \in DOMAIN Tail(todo) : Tail(todo)[k].at \in Snap.nodes /\ c.at < Tail(todo)[k].at
           /\ Pending = {c.at} \cup {Tail(todo)[k].at : k \in DOMAIN Tail(todo)}
           /\ \A o \in Snap.nodes : Snap.parent[o] # c.at \/ o \notin Pending \cup Reached
<1>. DEFINE c == Head(todo)
            t == Tail(todo)
<1>1. /\ t \in Seq(Call) /\ c = todo[1] /\ c \in Call /\ 1 \in DOMAIN todo
      /\ DOMAIN t = 1..(Len(todo) - 1)
      /\ \A k \in DOMAIN t : k + 1 \in DOMAIN todo /\ k + 1 # 1 /\ t[k] = todo[k + 1]
      /\ \A k \in DOMAIN todo : k = 1 \/ (k - 1 \in DOMAIN t /\ t[k - 1] = todo[k])
  BY TailFacts DEF Kinds
<1>. HIDE DEF c, t
<1>2. /\ c.at \in Snap.nodes /\ c.names \in Seq(NamesGiven) /\ c.types \in Seq(TypesGiven)
      /\ c.path \in Seq(Nat) /\ c.visible \in BOOLEAN /\ c.nth \in Nat
  BY <1>1 DEF Call
<1>3. c.at \in Nat /\ c.at \in Pending
  BY <1>1, <1>2, ForestFacts DEF Pending
<1>4. c.at \notin Reached
  <2>1. \A o \in Reached : o < c.at
    BY <1>1 DEF Ordered
  <2>2. ~(c.at < c.at)
    BY <1>3
  <2>. QED  BY <2>1, <2>2
<1>5. ASSUME NEW k \in DOMAIN t  PROVE t[k].at \in Snap.nodes /\ c.at < t[k].at
  <2>1. k + 1 \in DOMAIN todo /\ 1 < k + 1 /\ t[k] = todo[k + 1]
    BY <1>1
  <2>2. todo[1].at < todo[k + 1].at
    BY <1>1, <2>1 DEF Ordered
  <2>3. t[k] \in Call
    BY <1>1
  <2>. QED  BY <1>1, <2>1, <2>2, <2>3 DEF Call
<1>6. Pending = {c.at} \cup {t[k].at : k \in DOMAIN t}
  <2>1. ASSUME NEW o \in Pending  PROVE o = c.at \/ \E k \in DOMAIN t : o = t[k].at
    <3>1. PICK k \in DOMAIN todo : o = todo[k].at
      BY DEF Pending
    <3>. QED  BY <1>1, <3>1
  <2>2. ASSUME NEW k \in DOMAIN t  PROVE t[k].at \in Pending
    BY <1>1 DEF Pending
  <2>. QED  BY <1>3, <2>1, <2>2
<1>7. ASSUME NEW o \in Snap.nodes, Snap.parent[o] = c.at  PROVE o \notin Pending \cup Reached
  <2>1. c.at # NoParent /\ c.at \notin DOMAIN nodes
    BY <1>2, <1>4, ForestFacts DEF Reached
  <2>. QED  BY <1>7, <2>1 DEF Covered
<1>. QED  BY <1>1, <1>2, <1>3, <1>4, <1>5, <1>6, <1>7 DEF c, t

(* A rejection moves the call from the list to the rejections.             *)
LEMMA RejectStep ==
    ASSUME IsSnapshot(Snap), Kinds, Ordered, Covered, RejectNode
    PROVE  LET c == Head(todo) IN
           /\ Rejected' = Rejected \cup {c.at} /\ Pending = {c.at} \cup Pending' /\ c.at \notin Pending'
           /\ DOMAIN rejections' = DOMAIN rejections \cup {Len(rejections) + 1}
           /\ \A k \in DOMAIN rejections : rejections'[k] = rejections[k] /\ k # Len(rejections) + 1
           /\ rejections'[Len(rejections) + 1] = [at |-> c.at, path |-> c.path]
           /\ Kinds' /\ Ordered' /\ Covered'
<1>. DEFINE c == Head(todo)
            t == Tail(todo)
            n == Len(rejections) + 1
            r == [at |-> c.at, path |-> c.path]
<1>1. todo # <<>> /\ rejections' = Append(rejections, r) /\ todo' = t /\ nodes' = nodes /\ input' = input
  BY DEF RejectNode
<1>2. Snap' = Snap
  BY <1>1 DEF Snap
<1>3. /\ c.at \in Snap.nodes /\ c.at \in Nat /\ c.path \in Seq(Nat) /\ c.at \notin Reached
      /\ t \in Seq(Call) /\ DOMAIN t = 1..(Len(todo) - 1)
      /\ \A k \in DOMAIN t : k + 1 \in DOMAIN todo /\ t[k] = todo[k + 1]
      /\ \A k \in DOMAIN t : t[k].at \in Snap.nodes /\ c.at < t[k].at
      /\ Pending = {c.at} \cup {t[k].at : k \in DOMAIN t}
  BY <1>1, HeadFacts
<1>. HIDE DEF c, t
<1>4. r \in Rejection /\ r.at = c.at
  BY <1>3 DEF Rejection
<1>5. rejections \in Seq(Rejection)
  BY DEF Kinds
<1>. HIDE DEF r
<1>6. /\ rejections' \in Seq(Rejection)
      /\ DOMAIN rejections = 1..(n - 1) /\ n - 1 \in Nat /\ DOMAIN rejections' = 1..n
      /\ \A k \in DOMAIN rejections : k \in DOMAIN rejections' /\ rejections'[k] = rejections[k] /\ k # n
      /\ rejections'[n] = r
      /\ \A k \in DOMAIN rejections' : k \in DOMAIN rejections \/ k = n
  BY <1>1, <1>4, <1>5, AppendFacts
<1>7. DOMAIN rejections' = DOMAIN rejections \cup {n}
  BY <1>6
<1>8. Rejected' = Rejected \cup {c.at}
  <2>1. Rejected' = {rejections'[k].at : k \in DOMAIN rejections'}
    BY DEF Rejected
  <2>2. \A o \in Rejected' : o \in Rejected \/ o = c.at
    BY <1>4, <1>6, <2>1 DEF Rejected
  <2>3. \A o \in Rejected : o \in Rejected'
    BY <1>6, <2>1 DEF Rejected
  <2>4. n \in DOMAIN rejections' /\ rejections'[n].at = c.at
    BY <1>4, <1>6, <1>7
  <2>. QED  BY <2>1, <2>2, <2>3, <2>4
<1>9. Pending' = {t[k].at : k \in DOMAIN t}
  BY <1>1 DEF Pending
<1>10. c.at \notin Pending'
  <2>1. ~(c.at < c.at)
    BY <1>3
  <2>. QED  BY <1>3, <1>9, <2>1
<1>11. Reached' = Reached \cup {c.at}
  BY <1>1, <1>8 DEF Reached
<1>12. Kinds'
  BY <1>1, <1>2, <1>3, <1>6 DEF Kinds, Call, Rejection, NamesGiven, TypesGiven
<1>13. Ordered'
  <2>1. ASSUME NEW j \in DOMAIN t, NEW k \in DOMAIN t, j < k  PROVE t[j].at < t[k].at
    <3>1. j + 1 \in DOMAIN todo /\ k + 1 \in DOMAIN todo /\ j + 1 < k + 1
      BY <1>3, <2>1
    <3>. QED  BY <1>3, <3>1 DEF Ordered
  <2>2. ASSUME NEW j \in DOMAIN rejections', NEW k \in DOMAIN rejections', j < k
        PROVE  rejections'[j].at < rejections'[k].at
    <3>1. j \in DOMAIN rejections
      BY <1>6, <2>2
    <3>2. CASE k \in DOMAIN rejections
      BY <1>6, <2>2, <3>1, <3>2 DEF Ordered
    <3>3. CASE k = n
      <4>1. rejections[j].at \in Reached
        BY <3>1 DEF Reached, Rejected
      <4>2. todo[1].at = c.at /\ 1 \in DOMAIN todo
        BY <1>1, HeadFacts DEF c
      <4>3. rejections[j].at < c.at
        BY <4>1, <4>2 DEF Ordered
      <4>. QED  BY <1>4, <1>6, <3>1, <3>3, <4>3
    <3>. QED  BY <1>6, <3>2, <3>3
  <2>3. ASSUME NEW o \in Reached \cup {c.at}, NEW k \in DOMAIN t  PROVE o < t[k].at
    <3>1. CASE o \in Reached
      BY <1>3, <3>1 DEF Ordered
    <3>2. CASE o = c.at
      BY <1>3, <3>2
    <3>. QED  BY <3>1, <3>2
  <2>4. DOMAIN nodes \cap Rejected' = {}
    BY <1>3, <1>8 DEF Ordered, Reached
  <2>. QED  BY <1>1, <1>11, <2>1, <2>2, <2>3, <2>4 DEF Ordered
<1>14. Covered'
  <2>1. Pending' \cup Reached' = Pending \cup Reached
    BY <1>3, <1>9, <1>11
  <2>. QED  BY <1>1, <1>2, <2>1 DEF Covered
<1>. QED  BY <1>3, <1>6, <1>7, <1>8, <1>9, <1>10, <1>12, <1>13, <1>14 DEF c, r

(* A conversion puts the calls for the children where the call was.        *)
LEMMA ConvertStep ==
    ASSUME IsSnapshot(Snap), Kinds, Ordered, Covered, ConvertNode
    PROVE  LET c == Head(todo)
               cs == RawChildren(c.at)
               new == Calls(cs, StableKey(c).names, StableKey(c).types, c.path,
                            c.visible /\ Snap.visible[c.at])
           IN /\ DOMAIN nodes' = DOMAIN nodes \cup {c.at} /\ nodes'[c.at] = NodeOf(c)
              /\ \A o \in DOMAIN nodes : nodes'[o] = nodes[o] /\ o # c.at
              /\ \A k \in DOMAIN todo' :
                   \/ \E j \in DOMAIN new : todo'[k] = new[j]
                   \/ \E j \in DOMAIN todo : todo'[k] = todo[j] /\ todo[j].at # c.at
              /\ Pending' = (Pending \ {c.at}) \cup {cs[k] : k \in DOMAIN cs}
              /\ Kinds' /\ Ordered' /\ Covered'
<1>. DEFINE c == Head(todo)
            t == Tail(todo)
            cs == RawChildren(c.at)
            names == StableKey(c).names
            types == StableKey(c).types
            visible == c.visible /\ Snap.visible[c.at]
            new == Calls(cs, names, types, c.path, visible)
<1>0. /\ NodeOf(c).key.names = names /\ NodeOf(c).key.types = types
      /\ NodeOf(c).visible = visible /\ NodeOf(c).path = c.path
      /\ names = Append(c.names, Snap.name[c.at]) /\ types = Append(c.types, Snap.type[c.at])
  BY NodeOfFacts
<1>1. /\ todo # <<>> /\ rejections' = rejections /\ input' = input /\ todo' = new \o t
      /\ nodes' = [o \in DOMAIN nodes \cup {c.at} |-> IF o = c.at THEN NodeOf(c) ELSE nodes[o]]
  <2>. HIDE DEF names, types, visible
  <2>. QED  BY <1>0, Zenon DEF ConvertNode
<1>2. Snap' = Snap
  BY <1>1 DEF Snap
<1>3. /\ c.at \in Snap.nodes /\ c.at \in Nat /\ c.path \in Seq(Nat) /\ c.at \notin Reached
      /\ c.names \in Seq(NamesGiven) /\ c.types \in Seq(TypesGiven)
      /\ t \in Seq(Call) /\ DOMAIN t = 1..(Len(todo) - 1)
      /\ \A k \in DOMAIN t : k + 1 \in DOMAIN todo /\ t[k] = todo[k + 1]
      /\ \A k \in DOMAIN t : t[k].at \in Snap.nodes /\ c.at < t[k].at
      /\ Pending = {c.at} \cup {t[k].at : k \in DOMAIN t}
      /\ \A o \in Snap.nodes : Snap.parent[o] # c.at \/ o \notin Pending \cup Reached
      /\ 1 \in DOMAIN todo /\ c.at = todo[1].at
  BY <1>1, HeadFacts
<1>4. /\ cs \in Seq(Snap.nodes) /\ DOMAIN cs = 1..Len(cs) /\ Len(cs) \in Nat
      /\ \A k \in DOMAIN cs : cs[k] \in Snap.nodes /\ Snap.parent[cs[k]] = c.at /\ Snap.type[cs[k]] # None
      /\ \A j, k \in DOMAIN cs : j < k => cs[j] < cs[k]
      /\ \A o \in Snap.nodes : Snap.parent[o] = c.at /\ Snap.type[o] # None => \E k \in DOMAIN cs : cs[k] = o
  <2>. HIDE DEF c
  <2>. QED  BY RawChildrenFacts
<1>5. /\ names \in Seq(NamesGiven) /\ types \in Seq(TypesGiven) /\ visible \in BOOLEAN
  <2>1. Snap.name[c.at] \in NamesGiven /\ Snap.type[c.at] \in TypesGiven
    BY <1>3 DEF NamesGiven, TypesGiven
  <2>. HIDE DEF c, names, types
  <2>. QED  BY <1>0, <1>3, <2>1
<1>6. /\ new \in Seq(Call) /\ DOMAIN new = DOMAIN cs
      /\ \A k \in DOMAIN new : new[k].at = cs[k]
  <2>. HIDE DEF c, names, types, visible
  <2>. QED  BY <1>3, <1>5, CallsFacts DEF new, cs
<1>. HIDE DEF c, t, cs, new, names, types, visible
<1>7. /\ new \o t \in Seq(Call)
      /\ DOMAIN new = 1..Len(new) /\ DOMAIN t = 1..Len(t) /\ Len(new) \in Nat
      /\ DOMAIN (new \o t) = 1..(Len(new) + Len(t))
      /\ \A k \in DOMAIN new : k \in DOMAIN (new \o t) /\ (new \o t)[k] = new[k]
      /\ \A k \in DOMAIN t : k + Len(new) \in DOMAIN (new \o t) /\ (new \o t)[k + Len(new)] = t[k]
      /\ \A k \in DOMAIN (new \o t) :
           \/ k \in DOMAIN new /\ (new \o t)[k] = new[k]
           \/ k - Len(new) \in DOMAIN t /\ (new \o t)[k] = t[k - Len(new)] /\ k \notin DOMAIN new
  <2>1. new \in Seq(Call) /\ t \in Seq(Call)
    BY <1>3, <1>6
  <2>2. Len(new) \in Nat
    BY <2>1
  <2>. QED  BY <2>1, <2>2, ConcatFacts
<1>8. DOMAIN nodes' = DOMAIN nodes \cup {c.at} /\ nodes'[c.at] = NodeOf(c)
      /\ \A o \in DOMAIN nodes : nodes'[o] = nodes[o] /\ o # c.at
  BY <1>1, <1>3 DEF Reached
<1>9. ~(c.at < c.at)
  BY <1>3
<1>10. \A k \in DOMAIN todo' :
         \/ \E j \in DOMAIN new : todo'[k] = new[j]
         \/ \E j \in DOMAIN todo : todo'[k] = todo[j] /\ todo[j].at # c.at
  <2>. SUFFICES ASSUME NEW k \in DOMAIN todo'
                PROVE  \/ \E j \in DOMAIN new : todo'[k] = new[j]
                       \/ \E j \in DOMAIN todo : todo'[k] = todo[j] /\ todo[j].at # c.at
    OBVIOUS
  <2>1. CASE k \in DOMAIN new /\ todo'[k] = new[k]
    BY <2>1
  <2>2. CASE k - Len(new) \in DOMAIN t /\ todo'[k] = t[k - Len(new)]
    <3>1. (k - Len(new)) + 1 \in DOMAIN todo /\ t[k - Len(new)] = todo[(k - Len(new)) + 1]
          /\ c.at < t[k - Len(new)].at
      BY <1>3, <2>2
    <3>. QED  BY <1>9, <2>2, <3>1
  <2>. QED  BY <1>1, <1>7, <2>1, <2>2
<1>11. Pending' = (Pending \ {c.at}) \cup {cs[k] : k \in DOMAIN cs}
  <2>1. Pending' = {(new \o t)[k].at : k \in DOMAIN (new \o t)}
    BY <1>1 DEF Pending
  <2>2. \A o \in Pending' : (\E k \in DOMAIN cs : o = cs[k]) \/ \E k \in DOMAIN t : o = t[k].at
    BY <1>6, <1>7, <2>1
  <2>3. ASSUME NEW k \in DOMAIN cs  PROVE cs[k] \in Pending'
    BY <1>6, <1>7, <2>1
  <2>4. ASSUME NEW k \in DOMAIN t  PROVE t[k].at \in Pending' /\ t[k].at # c.at
    <3>1. t[k].at \in Pending'
      BY <1>7, <2>1
    <3>. QED  BY <1>3, <1>9, <3>1
  <2>. QED  BY <1>3, <2>2, <2>3, <2>4, SMTT(30)
<1>12. Reached' = Reached \cup {c.at} /\ Rejected' = Rejected
  BY <1>1, <1>8 DEF Reached, Rejected
<1>13. Kinds'
  <2>1. todo' \in Seq(Call)'
    BY <1>1, <1>2, <1>7 DEF Call, NamesGiven, TypesGiven
  <2>2. rejections' \in Seq(Rejection)'
    BY <1>1, <1>2 DEF Kinds, Rejection
  <2>3. DOMAIN nodes' \subseteq Snap'.nodes
    BY <1>2, <1>3, <1>8 DEF Kinds
  <2>4. \A o \in DOMAIN nodes' : nodes'[o].path \in Seq(Nat)
    BY <1>0, <1>3, <1>8 DEF Kinds
  <2>. QED  BY <2>1, <2>2, <2>3, <2>4 DEF Kinds
<1>14. ASSUME NEW j \in DOMAIN cs, NEW k \in DOMAIN t  PROVE cs[j] < t[k].at
  <2>. DEFINE d == cs[j]
              q == t[k].at
  <2>1. d \in Snap.nodes /\ Snap.parent[d] = c.at /\ d \in Nat
    BY <1>4, ForestFacts
  <2>2. q \in Snap.nodes /\ q \in Nat /\ q \in Pending /\ c.at < q
    BY <1>3, ForestFacts
  <2>3. Snap.parent[q] # c.at
    BY <1>3, <2>2
  <2>. HIDE DEF d, q
  <2>4. Snap.parent[q] \in Nat /\ Snap.parent[q] < c.at
    <3>1. CASE Snap.parent[q] = NoParent
      <4>1. 0 < c.at
        BY <1>3, ForestFacts DEF NoParent
      <4>. QED  BY <3>1, <4>1 DEF NoParent
    <3>2. CASE Snap.parent[q] # NoParent
      <4>1. Snap.parent[q] \in Reached
        BY <2>2, <3>2 DEF Covered, Reached
      <4>. QED  BY <1>3, <2>2, <4>1, ForestFacts DEF Ordered
    <3>. QED  BY <3>1, <3>2
  <2>5. ~(q < d)
    <3>1. q < d => Snap.parent[d] <= Snap.parent[q]
      BY <2>1, <2>2, ForestFacts
    <3>. QED  BY <1>3, <2>1, <2>4, <3>1
  <2>. QED  BY <2>1, <2>2, <2>3, <2>5 DEF d, q
<1>15. Ordered'
  <2>1. ASSUME NEW j \in DOMAIN (new \o t), NEW k \in DOMAIN (new \o t), j < k
        PROVE  (new \o t)[j].at < (new \o t)[k].at
    <3>0. j \in Nat /\ k \in Nat /\ (k \in DOMAIN new => j \in DOMAIN new)
      BY <1>7, <2>1
    <3>1. CASE k \in DOMAIN new
      BY <1>4, <1>6, <1>7, <2>1, <3>0, <3>1
    <3>2. CASE j \in DOMAIN new /\ k \notin DOMAIN new
      BY <1>6, <1>7, <1>14, <3>2
    <3>3. CASE j \notin DOMAIN new /\ k \notin DOMAIN new
      <4>. DEFINE a == j - Len(new)
                  b == k - Len(new)
      <4>1. /\ a \in DOMAIN t /\ b \in DOMAIN t
            /\ (new \o t)[j] = t[a] /\ (new \o t)[k] = t[b]
        BY <1>7, <3>3
      <4>2. a + 1 < b + 1
        BY <1>7, <2>1, <3>0
      <4>. HIDE DEF a, b
      <4>3. a + 1 \in DOMAIN todo /\ b + 1 \in DOMAIN todo /\ t[a] = todo[a + 1] /\ t[b] = todo[b + 1]
        BY <1>3, <4>1
      <4>. QED  BY <4>1, <4>2, <4>3 DEF Ordered
    <3>. QED  BY <3>0, <3>1, <3>2, <3>3
  <2>2. ASSUME NEW o \in Reached \cup {c.at}, NEW k \in DOMAIN (new \o t)  PROVE o < (new \o t)[k].at
    <3>1. c.at < (new \o t)[k].at /\ (new \o t)[k].at \in Nat
      <4>1. CASE k \in DOMAIN new /\ (new \o t)[k] = new[k]
        BY <1>4, <1>6, <4>1, ForestFacts
      <4>2. CASE k - Len(new) \in DOMAIN t /\ (new \o t)[k] = t[k - Len(new)]
        BY <1>3, <4>2, ForestFacts
      <4>. QED  BY <1>7, <4>1, <4>2
    <3>2. CASE o \in Reached
      <4>1. o \in Nat
        BY <3>2, ReachedType
      <4>2. o < c.at
        BY <1>3, <3>2 DEF Ordered
      <4>. QED  BY <1>3, <3>1, <4>1, <4>2
    <3>3. CASE o = c.at
      BY <3>1, <3>3
    <3>. QED  BY <3>2, <3>3
  <2>3. DOMAIN nodes' \cap Rejected' = {}
    BY <1>3, <1>8, <1>12 DEF Ordered, Reached
  <2>4. \A j, k \in DOMAIN rejections' : j < k => rejections'[j].at < rejections'[k].at
    BY <1>1 DEF Ordered
  <2>. QED  BY <1>1, <1>12, <2>1, <2>2, <2>3, <2>4 DEF Ordered
<1>16. Covered'
  <2>1. ASSUME NEW o \in Snap.nodes
        PROVE  o \in Pending' \cup Reached' <=>
                 /\ Snap.type[o] # None
                 /\ Snap.parent[o] = NoParent \/ Snap.parent[o] \in DOMAIN nodes \cup {c.at}
    <3>1. o \in Pending' \cup Reached' <=> o \in Pending \cup Reached \/ \E k \in DOMAIN cs : cs[k] = o
      BY <1>3, <1>11, <1>12
    <3>2. (\E k \in DOMAIN cs : cs[k] = o) <=> Snap.parent[o] = c.at /\ Snap.type[o] # None
      BY <1>4
    <3>. QED  BY <3>1, <3>2 DEF Covered
  <2>. QED  BY <1>2, <1>8, <2>1 DEF Covered
<1>. QED  BY <1>8, <1>10, <1>11, <1>13, <1>15, <1>16 DEF new, cs, c, names, types, visible

-----------------------------------------------------------------------------
(***************************************************************************)
(* Paths and keys of the nodes, the rejections and the calls.              *)
(***************************************************************************)
Item(o, path) == [at |-> o, path |-> path]

Items ==
    {Item(o, nodes[o].path) : o \in DOMAIN nodes}
    \cup {Item(rejections[k].at, rejections[k].path) : k \in DOMAIN rejections}
    \cup {Item(todo[k].at, todo[k].path) : k \in DOMAIN todo}

PathAbove(o) == IF Snap.parent[o] = NoParent THEN <<>> ELSE nodes[Snap.parent[o]].path

(* A path is that of the parent and a place among its children, and no two *)
(* items share one.                                                        *)
Paths ==
    /\ \A x \in Items : \E i \in Nat : x.path = Append(PathAbove(x.at), i)
    /\ \A x, y \in Items : x.path = y.path => x.at = y.at

NamesAbove(o) == IF Snap.parent[o] = NoParent THEN <<>> ELSE nodes[Snap.parent[o]].key.names

Numbers(o) ==
    LET cs == RawChildren(Snap.parent[o])
    IN {SameNameBefore(cs, k) : k \in {j \in DOMAIN cs : cs[j] = o}}

(* Keys are made of the names above and the number among the siblings.     *)
Keys ==
    \A o \in Snap.nodes :
        /\ \A k \in DOMAIN todo :
             todo[k].at = o => todo[k].names = NamesAbove(o) /\ todo[k].nth \in Numbers(o)
        /\ o \in DOMAIN nodes =>
             /\ nodes[o].key.names \in Seq(NamesGiven)
             /\ nodes[o].key.names = Append(NamesAbove(o), Snap.name[o])
             /\ nodes[o].key.nth \in Numbers(o)

TextAt(o) == TextOf(Snap.look[o])

(* The fields of a node are read from its raw node.                        *)
Copied ==
    \A o \in DOMAIN nodes :
        /\ nodes[o].visible \in BOOLEAN
        /\ nodes[o].box = AllOf(Snap.look[o].box)
        /\ nodes[o].text = TextAt(o)

ConversionInv == Kinds /\ Ordered /\ Covered /\ Paths /\ Keys /\ Copied

(* An item is a raw node, reached or pending, with a path.                 *)
LEMMA ItemFacts ==
    ASSUME IsSnapshot(Snap), Kinds, Covered
    PROVE  \A x \in Items :
             /\ x = Item(x.at, x.path) /\ x.at \in Snap.nodes /\ x.at \in Pending \cup Reached
             /\ x.path \in Seq(Nat) /\ PathAbove(x.at) \in Seq(Nat)
             /\ Snap.parent[x.at] # NoParent => Snap.parent[x.at] \in DOMAIN nodes
<1>. SUFFICES ASSUME NEW x \in Items
              PROVE  /\ x = Item(x.at, x.path) /\ x.at \in Snap.nodes /\ x.at \in Pending \cup Reached
                     /\ x.path \in Seq(Nat) /\ PathAbove(x.at) \in Seq(Nat)
                     /\ Snap.parent[x.at] # NoParent => Snap.parent[x.at] \in DOMAIN nodes
  OBVIOUS
<1>1. x.path \in Seq(Nat) /\ x = Item(x.at, x.path) /\ x.at \in Pending \cup Reached
  <2>1. CASE \E o \in DOMAIN nodes : x = Item(o, nodes[o].path)
    BY <2>1 DEF Item, Kinds, Reached
  <2>2. CASE \E k \in DOMAIN rejections : x = Item(rejections[k].at, rejections[k].path)
    <3>1. PICK k \in DOMAIN rejections : x = Item(rejections[k].at, rejections[k].path)
      BY <2>2
    <3>2. rejections[k] \in Rejection
      BY DEF Kinds
    <3>. QED  BY <3>1, <3>2 DEF Item, Rejection, Reached, Rejected
  <2>3. CASE \E k \in DOMAIN todo : x = Item(todo[k].at, todo[k].path)
    <3>1. PICK k \in DOMAIN todo : x = Item(todo[k].at, todo[k].path)
      BY <2>3
    <3>2. todo[k] \in Call
      BY DEF Kinds
    <3>. QED  BY <3>1, <3>2 DEF Item, Call, Pending
  <2>. QED  BY <2>1, <2>2, <2>3, Zenon DEF Items
<1>2. x.at \in Snap.nodes
  BY <1>1, ReachedType
<1>3. Snap.parent[x.at] # NoParent => Snap.parent[x.at] \in DOMAIN nodes
  BY <1>1, <1>2 DEF Covered
<1>4. PathAbove(x.at) \in Seq(Nat)
  BY <1>3 DEF PathAbove, Kinds
<1>. QED  BY <1>1, <1>2, <1>3, <1>4

(* A path and the place below it can be told from the whole.               *)
LEMMA PathFacts ==
    /\ \A p \in Seq(Nat), i \in Nat : Append(p, i) # <<>> /\ Append(p, i) \in Seq(Nat)
    /\ \A p, q \in Seq(Nat), i, j \in Nat : Append(p, i) = Append(q, j) => p = q /\ i = j
<1>1. ASSUME NEW p \in Seq(Nat), NEW q \in Seq(Nat), NEW i \in Nat, NEW j \in Nat
      PROVE  /\ Append(p, i) # <<>> /\ Append(p, i) \in Seq(Nat)
             /\ Append(p, i) = Append(q, j) => p = q /\ i = j
  BY AppendInjective
<1>. QED  BY <1>1

(* The children of a converted node are what is added to the items.        *)
LEMMA ItemsGrow ==
    ASSUME IsSnapshot(Snap), Kinds, Ordered, Covered, ConvertNode
    PROVE  /\ Item(Head(todo).at, Head(todo).path) \in Items
           /\ \A x \in Items' :
                \/ x \in Items
                \/ \E k \in DOMAIN RawChildren(Head(todo).at) :
                     /\ x = Item(RawChildren(Head(todo).at)[k], Append(Head(todo).path, k - 1))
                     /\ k - 1 \in Nat /\ Snap.parent[x.at] = Head(todo).at
<1>. DEFINE c == Head(todo)
            cs == RawChildren(c.at)
            names == StableKey(c).names
            types == StableKey(c).types
            visible == c.visible /\ Snap.visible[c.at]
            new == Calls(cs, names, types, c.path, visible)
<1>1. todo # <<>> /\ rejections' = rejections
  BY DEF ConvertNode
<1>2. /\ c.at \in Snap.nodes /\ c.path \in Seq(Nat) /\ c.names \in Seq(NamesGiven) /\ c.types \in Seq(TypesGiven)
      /\ 1 \in DOMAIN todo /\ c = todo[1]
  BY <1>1, HeadFacts
<1>3. Item(c.at, c.path) \in Items
  BY <1>2 DEF Items
<1>4. /\ DOMAIN nodes' = DOMAIN nodes \cup {c.at} /\ nodes'[c.at].path = c.path
      /\ \A o \in DOMAIN nodes : nodes'[o] = nodes[o]
      /\ \A k \in DOMAIN todo' :
           \/ \E j \in DOMAIN new : todo'[k] = new[j]
           \/ \E j \in DOMAIN todo : todo'[k] = todo[j]
  <2>. HIDE DEF names, types, visible, new
  <2>. QED  BY ConvertStep, NodeOfFacts DEF new, names, types, visible
<1>5. names \in Seq(NamesGiven) /\ types \in Seq(TypesGiven) /\ visible \in BOOLEAN
  <2>1. /\ names = Append(c.names, Snap.name[c.at]) /\ types = Append(c.types, Snap.type[c.at])
        /\ Snap.name[c.at] \in NamesGiven /\ Snap.type[c.at] \in TypesGiven
    BY <1>2, NodeOfFacts DEF NamesGiven, TypesGiven
  <2>. HIDE DEF c, names, types
  <2>. QED  BY <1>2, <2>1
<1>6. DOMAIN new = DOMAIN cs /\ \A k \in DOMAIN new : new[k].at = cs[k] /\ new[k].path = Append(c.path, k - 1)
  <2>. HIDE DEF c, names, types, visible
  <2>1. DOMAIN new = DOMAIN cs /\ \A k \in DOMAIN new : new[k].at = cs[k]
    BY <1>2, <1>5, CallsFacts
  <2>2. new = [k \in DOMAIN cs |->
                [ at |-> cs[k], names |-> names, types |-> types, path |-> Append(c.path, k - 1),
                  visible |-> visible, nth |-> SameNameBefore(cs, k) ]]
    BY DEF Calls
  <2>. HIDE DEF new
  <2>3. \A k \in DOMAIN cs : new[k].path = Append(c.path, k - 1)
    BY <2>2
  <2>. QED  BY <2>1, <2>3
<1>7. \A k \in DOMAIN cs : k - 1 \in Nat /\ Snap.parent[cs[k]] = c.at
  <2>. HIDE DEF c
  <2>. QED  BY RawChildrenFacts
<1>. HIDE DEF c, cs, names, types, visible, new
<1>8. ASSUME NEW x \in Items'
      PROVE  \/ x \in Items
             \/ \E k \in DOMAIN cs : /\ x = Item(cs[k], Append(c.path, k - 1))
                                     /\ k - 1 \in Nat /\ Snap.parent[x.at] = c.at
  <2>1. CASE \E o \in DOMAIN nodes' : x = Item(o, nodes'[o].path)
    <3>1. PICK o \in DOMAIN nodes' : x = Item(o, nodes'[o].path)
      BY <2>1
    <3>2. CASE o = c.at
      BY <1>3, <1>4, <3>1, <3>2
    <3>3. CASE o # c.at
      BY <1>4, <3>1, <3>3 DEF Items
    <3>. QED  BY <3>2, <3>3
  <2>2. CASE \E k \in DOMAIN rejections' : x = Item(rejections'[k].at, rejections'[k].path)
    BY <1>1, <2>2 DEF Items
  <2>3. CASE \E k \in DOMAIN todo' : x = Item(todo'[k].at, todo'[k].path)
    <3>1. PICK k \in DOMAIN todo' : x = Item(todo'[k].at, todo'[k].path)
      BY <2>3
    <3>2. CASE \E j \in DOMAIN new : todo'[k] = new[j]
      <4>1. PICK j \in DOMAIN new : todo'[k] = new[j]
        BY <3>2
      <4>2. j \in DOMAIN cs /\ x = Item(cs[j], Append(c.path, j - 1)) /\ j - 1 \in Nat
        BY <1>6, <1>7, <3>1, <4>1
      <4>3. x.at = cs[j]
        BY <4>2 DEF Item
      <4>. QED  BY <1>7, <4>2, <4>3
    <3>3. CASE \E j \in DOMAIN todo : todo'[k] = todo[j]
      BY <3>1, <3>3 DEF Items
    <3>. QED  BY <1>4, <3>2, <3>3
  <2>. QED  BY <2>1, <2>2, <2>3, Zenon DEF Items
<1>. QED  BY <1>3, <1>8 DEF c, cs

(* The paths of the children of a converted node are new.                  *)
LEMMA PathsKept ==
    ASSUME IsSnapshot(Snap), Kinds, Ordered, Covered, Paths, ConvertNode \/ RejectNode
    PROVE  Paths'
<1>. DEFINE c == Head(todo)
            cs == RawChildren(c.at)
<1>1. todo # <<>> /\ Snap' = Snap
  BY DEF ConvertNode, RejectNode, Snap
<1>2. /\ c.at \in Snap.nodes /\ c.at \notin DOMAIN nodes /\ c.path \in Seq(Nat) /\ c.at # NoParent
      /\ c = todo[1] /\ 1 \in DOMAIN todo
  <2>1. c.at \in Snap.nodes /\ c.at \notin Reached /\ c.path \in Seq(Nat) /\ c = todo[1] /\ 1 \in DOMAIN todo
    BY <1>1, HeadFacts
  <2>. QED  BY <2>1, ForestFacts DEF Reached
<1>. HIDE DEF c
<1>3. CASE RejectNode
  <2>1. nodes' = nodes /\ todo' = Tail(todo)
    BY <1>3 DEF RejectNode
  <2>2. /\ DOMAIN rejections' = DOMAIN rejections \cup {Len(rejections) + 1}
        /\ \A k \in DOMAIN rejections : rejections'[k] = rejections[k]
        /\ rejections'[Len(rejections) + 1] = [at |-> c.at, path |-> c.path]
    BY <1>3, RejectStep DEF c
  <2>3. \A k \in DOMAIN todo' : \E j \in DOMAIN todo : todo'[k] = todo[j]
    BY <1>1, <2>1, HeadFacts
  <2>4. ASSUME NEW x \in Items'  PROVE x \in Items
    <3>1. CASE \E o \in DOMAIN nodes' : x = Item(o, nodes'[o].path)
      BY <2>1, <3>1 DEF Items
    <3>2. CASE \E k \in DOMAIN rejections' : x = Item(rejections'[k].at, rejections'[k].path)
      <4>1. PICK k \in DOMAIN rejections' : x = Item(rejections'[k].at, rejections'[k].path)
        BY <3>2
      <4>2. CASE k \in DOMAIN rejections
        BY <2>2, <4>1, <4>2 DEF Items
      <4>3. CASE k = Len(rejections) + 1
        <5>1. x = Item(todo[1].at, todo[1].path)
          BY <1>2, <2>2, <4>1, <4>3
        <5>. QED  BY <1>2, <5>1 DEF Items
      <4>. QED  BY <2>2, <4>2, <4>3
    <3>3. CASE \E k \in DOMAIN todo' : x = Item(todo'[k].at, todo'[k].path)
      <4>1. PICK k \in DOMAIN todo' : x = Item(todo'[k].at, todo'[k].path)
        BY <3>3
      <4>. QED  BY <2>3, <4>1 DEF Items
    <3>. QED  BY <3>1, <3>2, <3>3, Zenon DEF Items
  <2>. QED  BY <1>1, <2>1, <2>4 DEF Paths, PathAbove
<1>4. CASE ConvertNode
  <2>1. /\ DOMAIN nodes' = DOMAIN nodes \cup {c.at} /\ nodes'[c.at].path = c.path
        /\ \A o \in DOMAIN nodes : nodes'[o] = nodes[o]
    BY <1>4, ConvertStep, NodeOfFacts DEF c
  <2>2. /\ Item(c.at, c.path) \in Items
        /\ \A x \in Items' :
             \/ x \in Items
             \/ \E k \in DOMAIN cs :
                  /\ x = Item(cs[k], Append(c.path, k - 1))
                  /\ k - 1 \in Nat /\ Snap.parent[x.at] = c.at
    BY <1>4, ItemsGrow DEF c
  <2>. HIDE DEF cs
  <2>3. ASSUME NEW x \in Items  PROVE PathAbove(x.at)' = PathAbove(x.at)
    BY <1>1, <2>1, ItemFacts DEF PathAbove
  <2>4. \A x \in Items' : \E i \in Nat : x.path = Append(PathAbove(x.at)', i)
    <3>. SUFFICES ASSUME NEW x \in Items'  PROVE \E i \in Nat : x.path = Append(PathAbove(x.at)', i)
      OBVIOUS
    <3>1. CASE x \in Items
      BY <2>3, <3>1 DEF Paths
    <3>2. CASE x \notin Items
      <4>1. PICK k \in DOMAIN cs :
              x = Item(cs[k], Append(c.path, k - 1)) /\ k - 1 \in Nat /\ Snap.parent[x.at] = c.at
        BY <2>2, <3>2
      <4>2. PathAbove(x.at)' = c.path /\ x.path = Append(c.path, k - 1)
        BY <1>1, <1>2, <2>1, <4>1 DEF PathAbove, Item
      <4>. QED  BY <4>1, <4>2
    <3>. QED  BY <3>1, <3>2
  <2>5. ASSUME NEW y \in Items, NEW i \in Nat  PROVE y.path # Append(c.path, i)
    <3>1. PICK j \in Nat : y.path = Append(PathAbove(y.at), j)
      BY DEF Paths
    <3>2. PathAbove(y.at) \in Seq(Nat)
      BY ItemFacts
    <3>3. SUFFICES ASSUME Append(c.path, i) = Append(PathAbove(y.at), j)  PROVE FALSE
      BY <3>1
    <3>4. c.path = PathAbove(y.at)
      <4>. DEFINE p == c.path
                  q == PathAbove(y.at)
      <4>1. p \in Seq(Nat) /\ q \in Seq(Nat) /\ Append(p, i) = Append(q, j)
        BY <1>2, <3>2, <3>3
      <4>. HIDE DEF p, q
      <4>2. p = q
        BY <4>1, PathFacts
      <4>. QED  BY <4>2 DEF p, q
    <3>5. CASE Snap.parent[y.at] = NoParent
      <4>1. PICK l \in Nat : c.path = Append(PathAbove(c.at), l)
        BY <2>2 DEF Paths, Item
      <4>2. PathAbove(c.at) \in Seq(Nat)
        BY <2>2, ItemFacts DEF Item
      <4>3. c.path = <<>>
        BY <3>4, <3>5 DEF PathAbove
      <4>4. c.path # <<>>
        BY <4>1, <4>2, PathFacts, Zenon
      <4>. QED  BY <4>3, <4>4
    <3>6. CASE Snap.parent[y.at] # NoParent
      <4>. DEFINE q == Snap.parent[y.at]
      <4>1. q \in DOMAIN nodes /\ c.path = nodes[q].path
        BY <3>4, <3>6, ItemFacts DEF PathAbove
      <4>2. Item(q, nodes[q].path) \in Items
        BY <4>1 DEF Items
      <4>. HIDE DEF q
      <4>3. q = c.at
        BY <2>2, <4>1, <4>2 DEF Paths, Item
      <4>. QED  BY <1>2, <4>1, <4>3
    <3>. QED  BY <3>5, <3>6
  <2>6. \A x, y \in Items' : x.path = y.path => x.at = y.at
    <3>. SUFFICES ASSUME NEW x \in Items', NEW y \in Items', x.path = y.path  PROVE x.at = y.at
      OBVIOUS
    <3>1. CASE x \in Items /\ y \in Items
      BY <3>1 DEF Paths
    <3>2. ASSUME NEW z \in Items', z \notin Items
          PROVE  \E k \in DOMAIN cs : k - 1 \in Nat /\ z.at = cs[k] /\ z.path = Append(c.path, k - 1)
      BY <2>2, <3>2 DEF Item
    <3>3. CASE x \in Items /\ y \notin Items
      BY <2>5, <3>2, <3>3
    <3>4. CASE x \notin Items /\ y \in Items
      BY <2>5, <3>2, <3>4
    <3>5. CASE x \notin Items /\ y \notin Items
      <4>1. PICK j \in DOMAIN cs : j - 1 \in Nat /\ x.at = cs[j] /\ x.path = Append(c.path, j - 1)
        BY <3>2, <3>5
      <4>2. PICK k \in DOMAIN cs : k - 1 \in Nat /\ y.at = cs[k] /\ y.path = Append(c.path, k - 1)
        BY <3>2, <3>5
      <4>3. j - 1 = k - 1
        <5>1. Append(c.path, j - 1) = Append(c.path, k - 1)
          BY <4>1, <4>2
        <5>. QED  BY <1>2, <4>1, <4>2, <5>1, PathFacts, Zenon
      <4>4. \A k1 \in DOMAIN cs : k1 \in Nat
        BY RawChildrenFacts DEF cs
      <4>5. j = k
        BY <4>3, <4>4
      <4>. QED  BY <4>1, <4>2, <4>5
    <3>. QED  BY <3>1, <3>3, <3>4, <3>5
  <2>. QED  BY <2>4, <2>6 DEF Paths
<1>. QED  BY <1>3, <1>4

(* What depends on the snapshot alone.                                     *)
LEMMA SnapshotStays ==
    ASSUME Snap' = Snap
    PROVE  /\ \A o : Numbers(o)' = Numbers(o) /\ TextAt(o)' = TextAt(o) /\ RawChildren(o)' = RawChildren(o)
           /\ NamesGiven' = NamesGiven /\ TypesGiven' = TypesGiven /\ Call' = Call /\ Rejection' = Rejection
<1>1. \A o : RawChildren(o)' = RawChildren(o)
  BY DEF RawChildren
<1>2. \A o : Numbers(o)' = Numbers(o)
  BY <1>1, SMTT(30) DEF Numbers, SameNameBefore
<1>3. \A o : TextAt(o)' = TextAt(o)
  BY DEF TextAt, TextOf, StyleRefOf
<1>. QED  BY <1>1, <1>2, <1>3 DEF NamesGiven, TypesGiven, Call, Rejection

(* Keys are given to the children as they are to the node.                 *)
LEMMA KeysKept ==
    ASSUME IsSnapshot(Snap), Kinds, Ordered, Covered, Keys, Copied, ConvertNode \/ RejectNode
    PROVE  Keys' /\ Copied'
<1>. DEFINE c == Head(todo)
            cs == RawChildren(c.at)
            names == StableKey(c).names
            types == StableKey(c).types
            visible == c.visible /\ Snap.visible[c.at]
            new == Calls(cs, names, types, c.path, visible)
<1>1. todo # <<>> /\ Snap' = Snap
  BY DEF ConvertNode, RejectNode, Snap
<1>2. /\ c.at \in Snap.nodes /\ c.at \notin DOMAIN nodes /\ c.path \in Seq(Nat) /\ c.at # NoParent
      /\ c.names \in Seq(NamesGiven) /\ c.types \in Seq(TypesGiven) /\ c.visible \in BOOLEAN
      /\ c = todo[1] /\ 1 \in DOMAIN todo
  <2>1. /\ c.at \in Snap.nodes /\ c.at \notin Reached /\ c.path \in Seq(Nat)
        /\ c.names \in Seq(NamesGiven) /\ c.types \in Seq(TypesGiven) /\ c.visible \in BOOLEAN
        /\ c = todo[1] /\ 1 \in DOMAIN todo
    BY <1>1, HeadFacts
  <2>. QED  BY <2>1, ForestFacts DEF Reached
<1>3. /\ \A o : Numbers(o)' = Numbers(o) /\ TextAt(o)' = TextAt(o)
      /\ NamesGiven' = NamesGiven
  BY <1>1, SnapshotStays
<1>. HIDE DEF c, names, types, visible, new, cs
<1>4. CASE RejectNode
  <2>1. nodes' = nodes /\ todo' = Tail(todo)
    BY <1>4 DEF RejectNode
  <2>2. \A k \in DOMAIN todo' : \E j \in DOMAIN todo : todo'[k] = todo[j]
    BY <1>1, <2>1, HeadFacts
  <2>3. \A o : NamesAbove(o)' = NamesAbove(o)
    BY <1>1, <2>1 DEF NamesAbove
  <2>4. Keys'
    BY <1>1, <1>3, <2>1, <2>2, <2>3 DEF Keys
  <2>. QED  BY <1>1, <1>3, <2>1, <2>4 DEF Copied
<1>5. CASE ConvertNode
  <2>1. /\ DOMAIN nodes' = DOMAIN nodes \cup {c.at} /\ nodes'[c.at] = NodeOf(c)
        /\ \A o \in DOMAIN nodes : nodes'[o] = nodes[o]
        /\ \A k \in DOMAIN todo' :
             \/ \E j \in DOMAIN new : todo'[k] = new[j]
             \/ \E j \in DOMAIN todo : todo'[k] = todo[j]
    BY <1>5, ConvertStep DEF new, c, cs, names, types, visible
  <2>2. /\ NodeOf(c).key.names = names /\ NodeOf(c).key.nth = c.nth
        /\ names = Append(c.names, Snap.name[c.at])
        /\ types = Append(c.types, Snap.type[c.at])
        /\ NodeOf(c).visible = visible
        /\ NodeOf(c).box = AllOf(Snap.look[c.at].box)
        /\ NodeOf(c).text = TextAt(c.at)
    BY NodeOfFacts, Zenon DEF names, types, visible, TextAt
  <2>3. names \in Seq(NamesGiven) /\ types \in Seq(TypesGiven) /\ visible \in BOOLEAN
    <3>1. Snap.name[c.at] \in NamesGiven /\ Snap.type[c.at] \in TypesGiven
      BY <1>2 DEF NamesGiven, TypesGiven
    <3>2. visible \in BOOLEAN
      BY <1>2 DEF visible
    <3>. QED  BY <1>2, <2>2, <3>1, <3>2
  <2>4. /\ DOMAIN new = DOMAIN cs
        /\ \A k \in DOMAIN new :
             /\ new[k].at = cs[k] /\ new[k].names = names /\ new[k].nth = SameNameBefore(cs, k)
    BY <1>2, <2>3, CallsFacts DEF new, cs
  <2>5. \A k \in DOMAIN cs : Snap.parent[cs[k]] = c.at
    BY RawChildrenFacts DEF cs
  <2>6. ASSUME NEW o \in Pending \cup Reached  PROVE NamesAbove(o)' = NamesAbove(o)
    <3>1. o \in Snap.nodes
      BY ReachedType
    <3>2. Snap.parent[o] # NoParent => Snap.parent[o] \in DOMAIN nodes
      BY <3>1 DEF Covered
    <3>. QED  BY <1>1, <2>1, <3>2 DEF NamesAbove
  <2>7. ASSUME NEW o \in Snap.nodes, NEW k \in DOMAIN todo', todo'[k].at = o
        PROVE  todo'[k].names = NamesAbove(o)' /\ todo'[k].nth \in Numbers(o)
    <3>1. CASE \E j \in DOMAIN new : todo'[k] = new[j]
      <4>1. PICK j \in DOMAIN new : todo'[k] = new[j]
        BY <3>1
      <4>2. /\ o = cs[j] /\ todo'[k].names = names /\ todo'[k].nth = SameNameBefore(cs, j)
            /\ j \in DOMAIN cs /\ Snap.parent[o] = c.at
        BY <2>4, <2>5, <2>7, <4>1
      <4>3. NamesAbove(o)' = names
        BY <1>1, <1>2, <2>1, <2>2, <4>2 DEF NamesAbove
      <4>4. SameNameBefore(cs, j) \in Numbers(o)
        BY <4>2 DEF Numbers, cs
      <4>. QED  BY <4>2, <4>3, <4>4
    <3>2. CASE \E j \in DOMAIN todo : todo'[k] = todo[j]
      <4>1. PICK j \in DOMAIN todo : todo'[k] = todo[j]
        BY <3>2
      <4>2. o \in Pending
        BY <2>7, <4>1 DEF Pending
      <4>3. todo[j].names = NamesAbove(o) /\ todo[j].nth \in Numbers(o)
        BY <2>7, <4>1 DEF Keys
      <4>4. NamesAbove(o)' = NamesAbove(o)
        BY <2>6, <4>2
      <4>. QED  BY <4>1, <4>3, <4>4
    <3>. QED  BY <2>1, <3>1, <3>2
  <2>8. ASSUME NEW o \in DOMAIN nodes'
        PROVE  /\ nodes'[o].key.names \in Seq(NamesGiven)
               /\ nodes'[o].key.names = Append(NamesAbove(o)', Snap.name[o])
               /\ nodes'[o].key.nth \in Numbers(o)
    <3>1. CASE o = c.at
      <4>1. c.at \in Pending
        BY <1>2 DEF Pending
      <4>2. c.names = NamesAbove(c.at) /\ c.nth \in Numbers(c.at)
        BY <1>2 DEF Keys
      <4>3. c.names = NamesAbove(o)' /\ c.nth \in Numbers(o)
        BY <2>6, <3>1, <4>1, <4>2
      <4>. QED  BY <2>1, <2>2, <2>3, <3>1, <4>3
    <3>2. CASE o # c.at
      <4>1. o \in DOMAIN nodes /\ nodes'[o] = nodes[o] /\ o \in Reached
        BY <2>1, <3>2 DEF Reached
      <4>2. NamesAbove(o)' = NamesAbove(o)
        BY <2>6, <4>1
      <4>3. o \in Snap.nodes
        BY <4>1 DEF Kinds
      <4>. QED  BY <4>1, <4>2, <4>3 DEF Keys
    <3>. QED  BY <3>1, <3>2
  <2>9. Copied'
    <3>. SUFFICES ASSUME NEW o \in DOMAIN nodes'
                  PROVE  /\ nodes'[o].visible \in BOOLEAN
                         /\ nodes'[o].box = AllOf(Snap.look[o].box)
                         /\ nodes'[o].text = TextAt(o)
      BY <1>1, <1>3 DEF Copied
    <3>1. CASE o = c.at
      BY <2>1, <2>2, <2>3, <3>1
    <3>2. CASE o # c.at
      BY <2>1, <3>2 DEF Copied
    <3>. QED  BY <3>1, <3>2
  <2>10. Keys'
    BY <1>1, <1>3, <2>7, <2>8 DEF Keys
  <2>. QED  BY <2>9, <2>10
<1>. QED  BY <1>4, <1>5

(* The whole of a conversion, from the roots on.                           *)
LEMMA ConversionStarts ==
    ASSUME IsSnapshot(Snap), Init
    PROVE  ConversionInv
<1>. DEFINE cs == RawChildren(NoParent)
<1>1. todo = Calls(cs, <<>>, <<>>, <<>>, TRUE) /\ DOMAIN nodes = {} /\ rejections = <<>>
  BY DEF Init
<1>2. /\ <<>> \in Seq(NamesGiven) /\ <<>> \in Seq(TypesGiven) /\ <<>> \in Seq(Nat)
  OBVIOUS
<1>3. /\ todo \in Seq(Call) /\ DOMAIN todo = DOMAIN cs
      /\ \A k \in DOMAIN todo : /\ todo[k].at = cs[k] /\ todo[k].names = <<>>
                                /\ todo[k].nth = SameNameBefore(cs, k)
  <2>. DEFINE new == Calls(cs, <<>>, <<>>, <<>>, TRUE)
  <2>1. /\ new \in Seq(Call) /\ DOMAIN new = DOMAIN cs
        /\ \A k \in DOMAIN new : new[k].at = cs[k] /\ new[k].names = <<>> /\ new[k].nth = SameNameBefore(cs, k)
    <3>. DEFINE empty == <<>>
                shown == TRUE
    <3>1. empty \in Seq(NamesGiven) /\ empty \in Seq(TypesGiven) /\ empty \in Seq(Nat) /\ shown \in BOOLEAN
      BY <1>2
    <3>2. new = Calls(cs, empty, empty, empty, shown)
      OBVIOUS
    <3>. HIDE DEF new, empty, shown
    <3>3. /\ new \in Seq(Call) /\ DOMAIN new = DOMAIN cs
          /\ \A k \in DOMAIN new : new[k].at = cs[k] /\ new[k].names = empty /\ new[k].nth = SameNameBefore(cs, k)
      BY <3>1, <3>2, CallsFacts
    <3>. QED  BY <3>3 DEF empty
  <2>. HIDE DEF new
  <2>2. todo = new
    BY <1>1 DEF new
  <2>. QED  BY <2>1, <2>2
<1>4. \A k \in DOMAIN todo : todo[k].path = Append(<<>>, k - 1)
  <2>. HIDE DEF cs
  <2>1. todo = [k \in DOMAIN cs |->
                 [ at |-> cs[k], names |-> <<>>, types |-> <<>>, path |-> Append(<<>>, k - 1),
                   visible |-> TRUE, nth |-> SameNameBefore(cs, k) ]]
    BY <1>1 DEF Calls
  <2>. QED  BY <2>1
<1>5. /\ \A k \in DOMAIN cs : /\ k \in Nat /\ k - 1 \in Nat /\ cs[k] \in Snap.nodes
                              /\ Snap.parent[cs[k]] = NoParent /\ Snap.type[cs[k]] # None
      /\ \A j, k \in DOMAIN cs : j < k => cs[j] < cs[k]
      /\ \A o \in Snap.nodes : Snap.parent[o] = NoParent /\ Snap.type[o] # None => \E k \in DOMAIN cs : cs[k] = o
  BY RawChildrenFacts
<1>0. /\ rejections \in Seq(Rejection) /\ DOMAIN rejections = {}
  BY <1>1
<1>. HIDE DEF cs
<1>6. Rejected = {} /\ Reached = {} /\ Pending = {cs[k] : k \in DOMAIN cs}
  <2>1. Rejected = {}
    BY <1>0 DEF Rejected
  <2>. QED  BY <1>1, <1>3, <2>1, ZenonT(60) DEF Reached, Pending
<1>7. Kinds
  BY <1>0, <1>1, <1>3 DEF Kinds
<1>8. Ordered
  <2>1. \A j, k \in DOMAIN todo : j < k => todo[j].at < todo[k].at
    BY <1>3, <1>5
  <2>. QED  BY <1>0, <1>1, <1>6, <2>1 DEF Ordered
<1>9. Covered
  BY <1>1, <1>5, <1>6 DEF Covered
<1>10. Paths
  <2>1. ASSUME NEW x \in Items
        PROVE  \E k \in DOMAIN cs : x.at = cs[k] /\ x.path = Append(<<>>, k - 1)
    <3>1. PICK k \in DOMAIN todo : x = Item(todo[k].at, todo[k].path)
      BY <1>0, <1>1 DEF Items
    <3>. QED  BY <1>3, <1>4, <3>1 DEF Item
  <2>2. \A x \in Items : \E i \in Nat : x.path = Append(PathAbove(x.at), i)
    <3>. SUFFICES ASSUME NEW x \in Items  PROVE \E i \in Nat : x.path = Append(PathAbove(x.at), i)
      OBVIOUS
    <3>1. PICK k \in DOMAIN cs : x.at = cs[k] /\ x.path = Append(<<>>, k - 1)
      BY <2>1
    <3>2. PathAbove(x.at) = <<>> /\ k - 1 \in Nat
      BY <1>5, <3>1 DEF PathAbove
    <3>. QED  BY <3>1, <3>2
  <2>3. ASSUME NEW x \in Items, NEW y \in Items, x.path = y.path  PROVE x.at = y.at
    <3>1. PICK j \in DOMAIN cs : x.at = cs[j] /\ x.path = Append(<<>>, j - 1)
      BY <2>1
    <3>2. PICK k \in DOMAIN cs : y.at = cs[k] /\ y.path = Append(<<>>, k - 1)
      BY <2>1
    <3>3. Append(<<>>, j - 1) = Append(<<>>, k - 1)
      BY <2>3, <3>1, <3>2
    <3>6. j - 1 \in Nat /\ k - 1 \in Nat
      BY <1>5
    <3>4. j - 1 = k - 1
      <4>. DEFINE empty == <<>>
      <4>1. empty \in Seq(Nat) /\ Append(empty, j - 1) = Append(empty, k - 1)
        BY <1>2, <3>3
      <4>. HIDE DEF empty
      <4>. QED  BY <3>6, <4>1, PathFacts
    <3>7. j \in Nat /\ k \in Nat
      BY <1>5
    <3>5. j = k
      BY <3>4, <3>7
    <3>. QED  BY <3>1, <3>2, <3>5
  <2>. QED  BY <2>2, <2>3 DEF Paths
<1>11. Keys
  <2>1. ASSUME NEW k \in DOMAIN todo
        PROVE  todo[k].names = NamesAbove(todo[k].at) /\ todo[k].nth \in Numbers(todo[k].at)
    <3>1. k \in DOMAIN cs /\ todo[k].at = cs[k] /\ Snap.parent[cs[k]] = NoParent
      BY <1>3, <1>5
    <3>2. NamesAbove(cs[k]) = <<>>
      BY <3>1 DEF NamesAbove
    <3>3. SameNameBefore(cs, k) \in Numbers(cs[k])
      BY <3>1 DEF Numbers, cs
    <3>. QED  BY <1>3, <3>1, <3>2, <3>3
  <2>. QED  BY <1>1, <2>1 DEF Keys
<1>12. Copied
  BY <1>1 DEF Copied
<1>. QED  BY <1>7, <1>8, <1>9, <1>10, <1>11, <1>12 DEF ConversionInv

(* One call of convert.                                                    *)
LEMMA ConversionGoesOn ==
    ASSUME IsSnapshot(Snap), ConversionInv, ConvertNode \/ RejectNode
    PROVE  ConversionInv'
<1>1. Kinds' /\ Ordered' /\ Covered'
  BY ConvertStep, RejectStep DEF ConversionInv
<1>. QED  BY <1>1, PathsKept, KeysKept DEF ConversionInv

(* The other steps leave the conversion as it is.                          *)
LEMMA ConversionStays ==
    ASSUME ConversionInv, UNCHANGED <<input, todo, nodes, rejections>>
    PROVE  ConversionInv'
<1>1. Snap' = Snap /\ todo' = todo /\ nodes' = nodes /\ rejections' = rejections
  BY DEF Snap
<1>2. Pending' = Pending /\ Rejected' = Rejected /\ Reached' = Reached /\ Items' = Items
  BY <1>1 DEF Pending, Rejected, Reached, Items
<1>3. /\ \A o : Numbers(o)' = Numbers(o) /\ TextAt(o)' = TextAt(o)
      /\ NamesGiven' = NamesGiven /\ Call' = Call /\ Rejection' = Rejection
  BY <1>1, SnapshotStays
<1>4. \A o : NamesAbove(o)' = NamesAbove(o) /\ PathAbove(o)' = PathAbove(o)
  BY <1>1 DEF NamesAbove, PathAbove
<1>5. Kinds' /\ Ordered' /\ Covered'
  BY <1>1, <1>2, <1>3 DEF ConversionInv, Kinds, Ordered, Covered
<1>6. Copied'
  BY <1>1, <1>3 DEF ConversionInv, Copied
<1>7. Paths'
  BY <1>2, <1>4 DEF ConversionInv, Paths
<1>8. Keys'
  BY <1>1, <1>3, <1>4 DEF ConversionInv, Keys
<1>. QED  BY <1>5, <1>6, <1>7, <1>8 DEF ConversionInv

-----------------------------------------------------------------------------
(***************************************************************************)
(* What a conversion promises.                                             *)
(***************************************************************************)

(* Of two siblings of one name, more come before the later one.            *)
LEMMA SameNameCounts ==
    ASSUME NEW cs, NEW j \in Nat, NEW k \in Nat, 1 <= j, j < k, Snap.name[cs[j]] = Snap.name[cs[k]]
    PROVE  SameNameBefore(cs, j) # SameNameBefore(cs, k)
<1>. DEFINE before(l) == {i \in 1..(l - 1) : Snap.name[cs[i]] = Snap.name[cs[l]]}
<1>1. \A i \in 1..(j - 1) : i \in 1..(k - 1)
  OBVIOUS
<1>2. j \in 1..(k - 1) /\ j \notin 1..(j - 1)
  OBVIOUS
<1>3. before(j) \subseteq before(k) /\ j \in before(k) /\ j \notin before(j)
  BY <1>1, <1>2
<1>4. IsFiniteSet(before(k))
  <2>1. IsFiniteSet(1..(k - 1))
    BY FS_Interval
  <2>2. before(k) \subseteq 1..(k - 1)
    OBVIOUS
  <2>. QED  BY <2>1, <2>2, FS_Subset
<1>5. SameNameBefore(cs, j) = Cardinality(before(j)) /\ SameNameBefore(cs, k) = Cardinality(before(k))
  BY DEF SameNameBefore
<1>. HIDE DEF before
<1>6. Cardinality(before(j)) < Cardinality(before(k)) /\ Cardinality(before(j)) \in Nat /\ Cardinality(before(k)) \in Nat
  BY <1>3, <1>4, ProperPartIsSmaller
<1>. QED  BY <1>5, <1>6

(* Two siblings have different keys.                                       *)
LEMMA KeysAreTheirOwn ==
    ASSUME IsSnapshot(Snap), ConversionInv
    PROVE  SiblingsHaveTheirOwnKeys
<1>. SUFFICES ASSUME NEW o \in DOMAIN nodes, NEW p \in DOMAIN nodes,
                     o # p, Snap.parent[o] = Snap.parent[p], nodes[o].key = nodes[p].key
              PROVE  FALSE
  BY DEF SiblingsHaveTheirOwnKeys
<1>. DEFINE q == Snap.parent[o]
            cs == RawChildren(q)
<1>1. o \in Snap.nodes /\ p \in Snap.nodes /\ o \in Reached /\ p \in Reached
  BY DEF ConversionInv, Kinds, Reached
<1>2. q # NoParent => q \in DOMAIN nodes /\ q \in Snap.nodes
  BY <1>1 DEF ConversionInv, Covered, Kinds
<1>3. NamesAbove(o) = NamesAbove(p) /\ NamesAbove(o) \in Seq(NamesGiven)
  <2>1. CASE q = NoParent
    BY <2>1 DEF NamesAbove
  <2>2. CASE q # NoParent
    BY <1>2, <2>2 DEF NamesAbove, ConversionInv, Keys
  <2>. QED  BY <2>1, <2>2
<1>4. Append(NamesAbove(o), Snap.name[o]) = Append(NamesAbove(o), Snap.name[p])
  BY <1>1, <1>3 DEF ConversionInv, Keys
<1>5. Snap.name[o] \in NamesGiven /\ Snap.name[p] \in NamesGiven
  BY <1>1 DEF NamesGiven
<1>6. Snap.name[o] = Snap.name[p]
  <2>. DEFINE above == NamesAbove(o)
              a == Snap.name[o]
              b == Snap.name[p]
  <2>1. /\ above \in Seq(NamesGiven) /\ a \in NamesGiven /\ b \in NamesGiven
        /\ Append(above, a) = Append(above, b)
    BY <1>3, <1>4, <1>5
  <2>. HIDE DEF above, a, b
  <2>2. a = b
    BY <2>1, AppendFacts
  <2>. QED  BY <2>2 DEF a, b
<1>7. nodes[o].key.nth \in Numbers(o) /\ nodes[p].key.nth \in Numbers(p)
  BY <1>1 DEF ConversionInv, Keys
<1>8. PICK j \in DOMAIN cs : cs[j] = o /\ nodes[o].key.nth = SameNameBefore(cs, j)
  BY <1>7 DEF Numbers
<1>9. PICK k \in DOMAIN cs : cs[k] = p /\ nodes[p].key.nth = SameNameBefore(cs, k)
  BY <1>7 DEF Numbers
<1>10. j \in Nat /\ k \in Nat /\ 1 <= j /\ 1 <= k
  <2>. HIDE DEF q
  <2>1. DOMAIN cs = 1..Len(cs) /\ Len(cs) \in Nat
    BY RawChildrenFacts
  <2>. HIDE DEF cs
  <2>. QED  BY <2>1
<1>. HIDE DEF q, cs
<1>11. j < k \/ k < j
  BY <1>8, <1>9, <1>10
<1>12. SameNameBefore(cs, j) # SameNameBefore(cs, k)
  BY <1>6, <1>8, <1>9, <1>10, <1>11, SameNameCounts
<1>. QED  BY <1>8, <1>9, <1>12

(* When nothing is pending, a node is one that has neither a rejected node *)
(* nor one without an id and a type in its chain.                          *)
LEMMA NodesAreTheOthers ==
    ASSUME IsSnapshot(Snap), ConversionInv, todo = <<>>
    PROVE  \A o \in Snap.nodes :
             o \in DOMAIN nodes <=> /\ Chain[o] \cap Rejected = {}
                                    /\ \A a \in Chain[o] : Snap.type[a] # None
<1>. DEFINE clean(o) == Chain[o] \cap Rejected = {} /\ \A a \in Chain[o] : Snap.type[a] # None
            T == {o \in Snap.nodes : o \in DOMAIN nodes <=> clean(o)}
<1>1. Pending = {}
  BY DEF Pending
<1>2. \A o \in Snap.nodes :
        (o \in DOMAIN nodes \/ o \in Rejected) <=>
            /\ Snap.type[o] # None
            /\ Snap.parent[o] = NoParent \/ Snap.parent[o] \in DOMAIN nodes
  BY <1>1 DEF ConversionInv, Covered, Reached
<1>3. \A o : ~(o \in DOMAIN nodes /\ o \in Rejected)
  BY DEF ConversionInv, Ordered
<1>4. ASSUME NEW o \in Snap.nodes, Snap.parent[o] = NoParent \/ Snap.parent[o] \in T  PROVE o \in T
  <2>1. CASE Snap.parent[o] = NoParent
    <3>1. Chain[o] = {o}
      BY <2>1, ChainFacts
    <3>. QED  BY <1>2, <1>3, <2>1, <3>1
  <2>2. CASE Snap.parent[o] # NoParent
    <3>. DEFINE q == Snap.parent[o]
    <3>1. Chain[o] = Chain[q] \cup {o} /\ (q \in DOMAIN nodes <=> clean(q))
      BY <1>4, <2>2, ChainFacts
    <3>2. clean(o) <=> clean(q) /\ o \notin Rejected /\ Snap.type[o] # None
      BY <3>1
    <3>. HIDE DEF clean
    <3>. QED  BY <1>2, <1>3, <2>2, <3>1, <3>2
  <2>. QED  BY <2>1, <2>2
<1>5. T = Snap.nodes
  <2>. HIDE DEF clean
  <2>. QED  BY <1>4, ForestInduction
<1>. QED  BY <1>5

(* What is rejected was looked at: neither it nor anything above it was     *)
(* dropped.                                                                 *)
LEMMA RejectedIsNotDropped ==
    ASSUME IsSnapshot(Snap), ConversionInv, todo = <<>>
    PROVE  Rejected \cap Dropped = {}
<1>. SUFFICES ASSUME NEW o \in Rejected, o \in Dropped  PROVE FALSE
  OBVIOUS
<1>1. /\ o \in Snap.nodes /\ Snap.type[o] # None
      /\ Snap.parent[o] = NoParent \/ Snap.parent[o] \in DOMAIN nodes
  BY DEF Dropped, ConversionInv, Covered, Reached
<1>2. CASE Snap.parent[o] = NoParent
  BY <1>1, <1>2, ChainFacts DEF Dropped
<1>3. CASE Snap.parent[o] # NoParent
  <2>1. Snap.parent[o] \in Snap.nodes
    BY <1>1, <1>3 DEF ConversionInv, Kinds
  <2>2. \A a \in Chain[Snap.parent[o]] : Snap.type[a] # None
    BY <1>1, <1>3, <2>1, NodesAreTheOthers
  <2>3. Chain[o] = Chain[Snap.parent[o]] \cup {o}
    BY <1>1, <1>3, ChainFacts
  <2>. QED  BY <1>1, <2>2, <2>3 DEF Dropped
<1>. QED  BY <1>2, <1>3

(* When the conversion is over, every raw node that was not dropped is      *)
(* accounted for.                                                           *)
LEMMA NodesAreAccountedFor ==
    ASSUME IsSnapshot(Snap), ConversionInv, Converted, phase = "convert" \/ todo = <<>>
    PROVE  EveryNodeAccountedFor
<1>. DEFINE N == DOMAIN nodes
            R == DOMAIN rejections
            under == {o \in Snap.nodes : Chain[o] \cap Rejected # {}}
            P == {nodes[o].path : o \in N}
            Q == {rejections[k].path : k \in R}
<1>1. todo = <<>>
  BY DEF Converted
<1>2. N \subseteq Snap.nodes /\ rejections \in Seq(Rejection)
  BY DEF ConversionInv, Kinds
<1>3. N = Snap.nodes \ (under \cup Dropped)
  <2>1. \A o \in Snap.nodes : o \in N <=> o \notin under /\ o \notin Dropped
    BY <1>1, NodesAreTheOthers DEF Dropped
  <2>. QED  BY <1>2, <2>1
<1>4. \A j, k \in R : j < k => rejections[j].at < rejections[k].at
  BY DEF ConversionInv, Ordered
<1>5. R = 1..Len(rejections) /\ Len(rejections) \in Nat /\ IsFiniteSet(R) /\ Cardinality(R) = Len(rejections)
  <2>1. R = 1..Len(rejections) /\ Len(rejections) \in Nat
    BY <1>2
  <2>2. IsFiniteSet(1..Len(rejections)) /\ Cardinality(1..Len(rejections)) = Len(rejections)
    BY <2>1, FS_Interval
  <2>. QED  BY <2>1, <2>2
<1>6. \A o \in N : Item(o, nodes[o].path) \in Items
  BY DEF Items
<1>7. \A k \in R : Item(rejections[k].at, rejections[k].path) \in Items
  BY DEF Items
<1>8. \A o, p, a, b : Item(o, a) \in Items /\ Item(p, b) \in Items /\ a = b => o = p
  BY DEF ConversionInv, Paths, Item
<1>9. IsFiniteSet(P) /\ Cardinality(P) = Cardinality(N) /\ Cardinality(N) \in Nat
  <2>. DEFINE f == [o \in N |-> nodes[o].path]
  <2>1. IsFiniteSet(N)
    BY <1>2, ForestFacts, FS_Subset
  <2>2. /\ \A o \in N : f[o] \in P
        /\ \A p \in P : \E o \in N : p = f[o]
        /\ \A o, p \in N : f[o] = f[p] => o = p
    BY <1>6, <1>8
  <2>. HIDE DEF f, P, N
  <2>. QED  BY <2>1, <2>2, ImageSize, ZenonT(60)
<1>10. IsFiniteSet(Q) /\ Cardinality(Q) = Len(rejections)
  <2>. DEFINE f == [k \in R |-> rejections[k].path]
  <2>1. ASSUME NEW j \in R, NEW k \in R, f[j] = f[k]  PROVE j = k
    <3>1. rejections[j].at = rejections[k].at
      BY <1>7, <1>8, <2>1
    <3>2. rejections[j].at \in Nat
      BY <1>7, ReachedType DEF ConversionInv, Reached, Rejected
    <3>3. ~(j < k) /\ ~(k < j)
      BY <1>4, <3>1, <3>2
    <3>. QED  BY <1>5, <3>3
  <2>2. /\ \A k \in R : f[k] \in Q
        /\ \A q \in Q : \E k \in R : q = f[k]
        /\ \A j, k \in R : f[j] = f[k] => j = k
    BY <2>1
  <2>3. IsFiniteSet(R)
    BY <1>5
  <2>. HIDE DEF f, Q, R
  <2>4. IsFiniteSet(Q) /\ Cardinality(Q) = Cardinality(R)
    BY <2>2, <2>3, ImageSize, Zenon
  <2>. QED  BY <1>5, <2>4
<1>11. P \cap Q = {}
  <2>1. ASSUME NEW o \in N, NEW k \in R, nodes[o].path = rejections[k].path  PROVE FALSE
    <3>1. o = rejections[k].at
      BY <1>6, <1>7, <1>8, <2>1
    <3>. QED  BY <3>1 DEF ConversionInv, Ordered, Rejected
  <2>. QED  BY <2>1
<1>12. Cardinality(P \cup Q) = Cardinality(N) + Len(rejections)
  <2>1. Cardinality(P \cup Q) = Cardinality(P) + Cardinality(Q) - Cardinality(P \cap Q)
    BY <1>9, <1>10, FS_Union
  <2>2. Cardinality(P \cap Q) = 0
    BY <1>11, FS_EmptySet
  <2>. HIDE DEF P, Q, N, R
  <2>3. \A a, b \in Nat : a + b - 0 = a + b
    OBVIOUS
  <2>. QED  BY <1>5, <1>9, <1>10, <2>1, <2>2, <2>3
<1>13. Rejected \cap Dropped = {}
  BY <1>1, RejectedIsNotDropped
<1>. HIDE DEF P, Q, N
<1>. QED  BY <1>3, <1>4, <1>12, <1>13 DEF EveryNodeAccountedFor, Rejected, P, Q, N

-----------------------------------------------------------------------------
(***************************************************************************)
(* The phases.                                                             *)
(***************************************************************************)
Phases == {"convert", "grouping", "grouped", "derived", "loaded", "reported", "refused"}

(* What is settled by when.                                                *)
Stages ==
    /\ input \in Inputs
    /\ phase \in Phases
    /\ phase = "convert" => /\ facts = None /\ waiting = <<>> /\ members = {}
                            /\ groups = {} /\ diagnostics = {}
    /\ phase # "convert" => todo = <<>> /\ facts = Walk
    /\ phase \notin {"convert", "grouping"} => waiting = <<>>
    /\ phase = "grouping" => groups = {}
    /\ phase \in {"grouping", "grouped"} => Responsive # None

(* Every input has a snapshot that the proofs above are about.             *)
LEMMA SnapshotGiven ==
    ASSUME input \in Inputs
    PROVE  IsSnapshot(Snap)
  BY SnapshotsAssumption DEF Snap

(* What deriveNodeFacts reads is the document and the snapshot.            *)
LEMMA WalkStays ==
    ASSUME UNCHANGED <<input, nodes>>
    PROVE  Walk' = Walk
<1>1. Snap' = Snap /\ nodes' = nodes
  BY DEF Snap
<1>2. \A o : IsRoot(o)' = IsRoot(o) /\ RenderedBelow(o)' = RenderedBelow(o) /\ InFlow(o)' = InFlow(o)
  BY <1>1 DEF IsRoot, RenderedBelow, InFlow
<1>3. \A a, b : ReadsBefore(a, b)' = ReadsBefore(a, b)
  BY <1>1, ZenonT(60) DEF ReadsBefore
<1>4. \A s : OrderIsMeaningful(s)' = OrderIsMeaningful(s)
  BY <1>1 DEF OrderIsMeaningful, Overlap
<1>5. \A c : Reach(c)' = Reach(c)
  BY <1>1 DEF Reach
<1>6. \A o : ChildOverflow(o)' = ChildOverflow(o)
  BY <1>1, <1>2, <1>5 DEF ChildOverflow, Unmeasured
<1>7. \A o : NodeFact(o)' = NodeFact(o)
  BY <1>1, <1>2, <1>3, <1>4, <1>6 DEF NodeFact
<1>. QED  BY <1>1, <1>7 DEF Walk

(* A step of a later phase, or none at all, leaves the document alone.     *)
LEMMA DocumentStays ==
    ASSUME Stages, [Next]_vars
    PROVE  /\ input' = input
           /\ \/ ConvertNode \/ RejectNode
              \/ UNCHANGED <<todo, nodes, rejections>>
           /\ phase # "convert" => UNCHANGED <<todo, nodes, rejections>>
<1>1. CASE UNCHANGED vars
  BY <1>1 DEF vars, canonicalVars
<1>2. CASE Derive
  <2>1. CASE Convert
    BY <2>1 DEF Convert, ConvertNode, RejectNode
  <2>2. CASE DeriveNodes \/ ReportUnseen \/ FinishGroups
    BY <2>2 DEF DeriveNodes, ReportUnseen, FinishGroups
  <2>3. CASE GroupDeclared \/ GroupByName \/ RefuseName \/ PassOver \/ DeriveGroup
    BY <2>3 DEF GroupDeclared, GroupByName, RefuseName, PassOver, DeriveGroup, canonicalVars
  <2>. QED  BY <1>2, <2>1, <2>2, <2>3 DEF Derive, DeriveFacts
<1>3. CASE LoadEntry \/ RefuseRuleset \/ FinishLoading \/ EvaluateRule \/ RefuseRun \/ FinishRun
  BY <1>3 DEF LoadEntry, RefuseRuleset, FinishLoading, EvaluateRule, RefuseRun, FinishRun, canonicalVars
<1>. QED  BY <1>1, <1>2, <1>3 DEF Next

(* Every step keeps what is settled.                                      *)
LEMMA StagesKept ==
    ASSUME Stages, [Next]_vars
    PROVE  Stages'
<1>. USE DEF Phases
<1>1. input' = input /\ Responsive' = Responsive
  BY DocumentStays DEF Responsive
<1>2. nodes' = nodes => Walk' = Walk
  BY <1>1, WalkStays
<1>3. CASE UNCHANGED vars
  BY <1>1, <1>2, <1>3 DEF Stages, vars, canonicalVars, factsVars
<1>4. CASE Convert
  BY <1>1, <1>4 DEF Stages, Convert, ConvertNode, RejectNode, factsVars
<1>5. CASE DeriveNodes
  BY <1>1, <1>2, <1>5 DEF Stages, DeriveNodes
<1>6. CASE GroupDeclared \/ GroupByName \/ RefuseName \/ PassOver
  BY <1>1, <1>2, <1>6 DEF Stages, GroupDeclared, GroupByName, RefuseName, PassOver, canonicalVars
<1>7. CASE ReportUnseen \/ FinishGroups
  BY <1>1, <1>2, <1>7 DEF Stages, ReportUnseen, FinishGroups, factsVars
<1>8. CASE DeriveGroup
  BY <1>1, <1>2, <1>8 DEF Stages, DeriveGroup, canonicalVars
<1>9. CASE LoadEntry \/ EvaluateRule
  BY <1>1, <1>2, <1>9 DEF Stages, LoadEntry, EvaluateRule, canonicalVars, factsVars
<1>10. CASE RefuseRuleset \/ FinishLoading \/ RefuseRun \/ FinishRun
  BY <1>1, <1>2, <1>10 DEF Stages, RefuseRuleset, FinishLoading, RefuseRun, FinishRun, factsVars
<1>. QED  BY <1>3, <1>4, <1>5, <1>6, <1>7, <1>8, <1>9, <1>10 DEF Next, Derive, DeriveFacts

(* The stages and the conversion, over a whole run.                        *)
DocumentInv == Stages /\ ConversionInv

(* The invariant of the conversion and of the walk holds of every run.      *)
LEMMA DocumentInvariant == Spec => []DocumentInv
<1>1. ASSUME RulesInit  PROVE DocumentInv
  <2>1. Stages
    BY <1>1 DEF RulesInit, FactsInit, Init, Stages, Phases
  <2>2. ConversionInv
    BY <1>1, <2>1, SnapshotGiven, ConversionStarts DEF RulesInit, FactsInit, Stages
  <2>. QED  BY <2>1, <2>2 DEF DocumentInv
<1>2. ASSUME DocumentInv, [Next]_vars  PROVE DocumentInv'
  <2>1. Stages'
    BY <1>2, StagesKept DEF DocumentInv
  <2>2. ConversionInv'
    BY <1>2, DocumentStays, SnapshotGiven, ConversionGoesOn, ConversionStays DEF DocumentInv, Stages
  <2>. QED  BY <2>1, <2>2 DEF DocumentInv
<1>. QED  BY <1>1, <1>2, PTL DEF Spec

(* fromSnapshot accounts for every raw node that has an id and a type all  *)
(* the way up, leaves no trace of the others, and gives siblings different *)
(* keys.                                                                   *)
THEOREM ConversionWhole == Spec => []ConversionIsWhole
<1>1. DocumentInv => ConversionIsWhole
  <2>. SUFFICES ASSUME DocumentInv  PROVE ConversionIsWhole
    OBVIOUS
  <2>1. IsSnapshot(Snap) /\ ConversionInv
    BY SnapshotGiven DEF DocumentInv, Stages
  <2>2. EveryNodeAccountedFor
    <3>1. CASE Converted
      BY <2>1, <3>1, NodesAreAccountedFor DEF DocumentInv, Stages
    <3>2. CASE ~Converted
      BY <3>2 DEF EveryNodeAccountedFor
    <3>. QED  BY <3>1, <3>2
  <2>. QED  BY <2>1, <2>2, KeysAreTheirOwn DEF ConversionIsWhole
<1>. QED  BY <1>1, DocumentInvariant, PTL

-----------------------------------------------------------------------------
(***************************************************************************)
(* What deriveNodeFacts says of a node.                                    *)
(***************************************************************************)
Frames == [{"x", "y", "width", "height"} -> Int]

(* A rounded length is a whole number of hundredths.                       *)
LEMMA RoundPxType ==
    ASSUME NEW v \in Int
    PROVE  RoundPx(v) \in Int
<1>1. v + 5 \in Int /\ 5 - v \in Int
  OBVIOUS
<1>2. \A w \in Int : w \div 10 \in Int
  OBVIOUS
<1>3. (v + 5) \div 10 \in Int /\ -((5 - v) \div 10) \in Int
  BY <1>1, <1>2
<1>. QED  BY <1>3 DEF RoundPx

(* The box of a node is read whole or not at all.                          *)
LEMMA BoxFacts ==
    ASSUME IsSnapshot(Snap), ConversionInv, NEW o \in DOMAIN nodes
    PROVE  nodes[o].box = None \/ nodes[o].box \in Frames
<1>. DEFINE raw == Snap.look[o].box
<1>1. o \in Snap.nodes /\ nodes[o].box = AllOf(raw)
  BY DEF ConversionInv, Kinds, Copied
<1>2. raw \in [{"x", "y", "width", "height"} -> Int \cup {None}] \cup {None}
  BY <1>1 DEF IsSnapshot
<1>. HIDE DEF raw
<1>3. ASSUME AllOf(raw) # None  PROVE AllOf(raw) \in Frames
  <2>1. raw # None /\ ~\E s \in DOMAIN raw : raw[s] = None
    BY <1>3 DEF AllOf
  <2>2. DOMAIN raw = {"x", "y", "width", "height"} /\ \A s \in DOMAIN raw : raw[s] \in Int
    BY <1>2, <2>1
  <2>3. AllOf(raw) = [s \in {"x", "y", "width", "height"} |-> RoundPx(raw[s])]
    BY <2>1, <2>2 DEF AllOf
  <2>. QED  BY <2>2, <2>3, RoundPxType DEF Frames
<1>. QED  BY <1>1, <1>3

(* The facts of an id are those of one of the nodes that have it.          *)
LEMMA WalkFacts ==
    ASSUME IsSnapshot(Snap), DOMAIN nodes \subseteq Snap.nodes, facts = Walk
    PROVE  /\ DOMAIN facts = {Snap.id[o] : o \in DOMAIN nodes}
           /\ \A i \in DOMAIN facts :
                /\ facts[i].at \in DOMAIN nodes /\ Snap.id[facts[i].at] = i
                /\ facts[i] = NodeFact(facts[i].at)
           /\ \A o \in DOMAIN nodes : Snap.id[o] \in DOMAIN facts
<1>1. DOMAIN facts = {Snap.id[o] : o \in DOMAIN nodes}
  BY DEF Walk
<1>2. ASSUME NEW i \in DOMAIN facts
      PROVE  /\ facts[i].at \in DOMAIN nodes /\ Snap.id[facts[i].at] = i
             /\ facts[i] = NodeFact(facts[i].at)
  <2>. DEFINE S == {o \in DOMAIN nodes : Snap.id[o] = i}
              last == CHOOSE o \in DOMAIN nodes :
                        Snap.id[o] = i /\ \A q \in DOMAIN nodes : Snap.id[q] = i => q <= o
  <2>1. S # {} /\ S \subseteq Snap.nodes
    BY <1>1
  <2>2. S \subseteq Int /\ IsFiniteSet(S)
    BY <2>1, ForestFacts, FS_Subset
  <2>3. \E m \in S : \A k \in S : k <= m
    BY <2>1, <2>2, GreatestInteger
  <2>4. last \in DOMAIN nodes /\ Snap.id[last] = i
    BY <2>3
  <2>5. facts[i] = NodeFact(last)
    BY <1>1 DEF Walk
  <2>6. NodeFact(last).at = last
    BY DEF NodeFact
  <2>. QED  BY <2>4, <2>5, <2>6
<1>. QED  BY <1>1, <1>2

(* Nodes with different ids are read one before the other, in one order.   *)
LEMMA ReadingOrder ==
    ASSUME IsSnapshot(Snap), ConversionInv, NEW S, S \subseteq DOMAIN nodes,
           \A a, b \in S : Snap.id[a] = Snap.id[b] => a = b
    PROVE  IsStrictOrder({t \in S \X S : ReadsBefore(t[1], t[2])}, S)
<1>. DEFINE R == {t \in S \X S : ReadsBefore(t[1], t[2])}
            id(o) == Snap.id[o]
            box(o) == nodes[o].box
            before(a, b) ==
              \/ box(a) = None /\ box(b) = None /\ id(a) < id(b)
              \/ box(a) # None /\ box(b) = None
              \/ /\ box(a) # None /\ box(b) # None
                 /\ \/ box(a).y < box(b).y
                    \/ box(a).y = box(b).y /\ box(a).x < box(b).x
                    \/ box(a).y = box(b).y /\ box(a).x = box(b).x /\ id(a) < id(b)
<1>1. \A a, b : <<a, b>> \in R <=> a \in S /\ b \in S /\ ReadsBefore(a, b)
  OBVIOUS
<1>2. \A o \in S : id(o) \in Int /\ (box(o) = None \/ (box(o).x \in Int /\ box(o).y \in Int))
  <2>. SUFFICES ASSUME NEW o \in S
                PROVE  id(o) \in Int /\ (box(o) = None \/ (box(o).x \in Int /\ box(o).y \in Int))
    OBVIOUS
  <2>1. o \in Snap.nodes
    BY DEF ConversionInv, Kinds
  <2>2. Snap.id \in [Snap.nodes -> Int]
    BY DEF IsSnapshot
  <2>3. nodes[o].box = None \/ nodes[o].box \in Frames
    BY BoxFacts
  <2>4. \A f \in Frames : f.x \in Int /\ f.y \in Int
    BY DEF Frames
  <2>5. id(o) \in Int
    BY <2>1, <2>2
  <2>6. box(o) = None \/ box(o) \in Frames
    BY <2>3
  <2>. HIDE DEF id, box
  <2>. QED  BY <2>4, <2>5, <2>6
<1>3. \A a, b \in S : ReadsBefore(a, b) <=> before(a, b)
  BY DEF ReadsBefore
<1>4. \A a, b \in S : id(a) = id(b) => a = b
  OBVIOUS
<1>. HIDE DEF R, id, box
<1>5. \A a \in S : ~before(a, a)
  BY <1>2
<1>6. \A a, b \in S : a = b \/ before(a, b) \/ before(b, a)
  BY <1>2, <1>4
<1>7. \A a, b, c \in S : before(a, b) /\ before(b, c) => before(a, c)
  BY <1>2
<1>. HIDE DEF before
<1>8. \A a, b : a \in S /\ b \in S => (<<a, b>> \in R <=> before(a, b))
  BY <1>1, <1>3
<1>9. IsStrictOrder(R, S)
  BY <1>5, <1>6, <1>7, <1>8 DEF IsStrictOrder
<1>. QED  BY <1>9 DEF R

(* The rendered children of a node are nodes of the snapshot, below it.    *)
LEMMA RenderedFacts ==
    ASSUME IsSnapshot(Snap), ConversionInv, NEW o \in DOMAIN nodes
    PROVE  /\ RenderedBelow(o) \subseteq DOMAIN nodes /\ RenderedBelow(o) \subseteq Snap.nodes
           /\ IsFiniteSet(RenderedBelow(o))
           /\ \A c \in RenderedBelow(o) : Snap.parent[c] = o /\ nodes[c].visible /\ ~IsRoot(c)
<1>1. RenderedBelow(o) \subseteq DOMAIN nodes /\ DOMAIN nodes \subseteq Snap.nodes
  BY DEF RenderedBelow, ConversionInv, Kinds
<1>2. IsFiniteSet(RenderedBelow(o))
  BY <1>1, ForestFacts, FS_Subset
<1>3. o # NoParent
  BY <1>1, ForestFacts
<1>. QED  BY <1>1, <1>2, <1>3 DEF RenderedBelow, IsRoot

(* The order of a rendered child is its place among the rendered children. *)
LEMMA OrderIsAPlace ==
    ASSUME IsSnapshot(Snap), ConversionInv, NEW o \in DOMAIN nodes, NEW c \in RenderedBelow(o)
    PROVE  LET cs == RenderedBelow(o)
           IN NodeFact(c).order = Place({t \in cs \X cs : ReadsBefore(t[1], t[2])}, cs, c)
<1>. DEFINE cs == RenderedBelow(o)
            R == {t \in cs \X cs : ReadsBefore(t[1], t[2])}
<1>1. Snap.parent[c] = o /\ nodes[c].visible /\ ~IsRoot(c)
  BY RenderedFacts
<1>2. NodeFact(c).order = Cardinality({b \in cs : ReadsBefore(b, c)})
  BY <1>1 DEF NodeFact
<1>3. {b \in cs : ReadsBefore(b, c)} = {b \in cs : <<b, c>> \in R}
  OBVIOUS
<1>. QED  BY <1>2, <1>3 DEF Place

(* The order of the rendered children is total and follows the boxes.      *)
LEMMA ReadingOrderHolds ==
    ASSUME IsSnapshot(Snap), ConversionInv, facts = Walk
    PROVE  ReadingOrderIsTotal
<1>. DEFINE order(c) == facts[Snap.id[c]].order
<1>. SUFFICES ASSUME NEW i \in DOMAIN facts,
                     \A c \in RenderedBelow(facts[i].at) : facts[Snap.id[c]].at = c
              PROVE  LET cs == {c \in RenderedBelow(facts[i].at) : facts[Snap.id[c]].at = c} IN
                     /\ {order(c) : c \in cs} = 0..(Cardinality(cs) - 1)
                     /\ \A c, d \in cs :
                          /\ nodes[c].box # None /\ nodes[d].box # None
                          /\ nodes[c].box.height > 0
                          /\ nodes[c].box.y + nodes[c].box.height <= nodes[d].box.y
                          => order(c) < order(d)
  BY DEF ReadingOrderIsTotal
<1>. DEFINE o == facts[i].at
            cs == RenderedBelow(o)
            R == {t \in cs \X cs : ReadsBefore(t[1], t[2])}
<1>1. {c \in RenderedBelow(facts[i].at) : facts[Snap.id[c]].at = c} = cs
  OBVIOUS
<1>2. o \in DOMAIN nodes /\ cs \subseteq DOMAIN nodes /\ IsFiniteSet(cs)
  BY WalkFacts, RenderedFacts DEF ConversionInv, Kinds
<1>3. \A a, b \in cs : Snap.id[a] = Snap.id[b] => a = b
  OBVIOUS
<1>4. IsStrictOrder(R, cs)
  BY <1>2, <1>3, ReadingOrder
<1>5. \A c \in cs : order(c) = Place(R, cs, c)
  <2>. SUFFICES ASSUME NEW c \in cs  PROVE order(c) = Place(R, cs, c)
    OBVIOUS
  <2>1. Snap.id[c] \in DOMAIN facts /\ facts[Snap.id[c]].at = c
    BY <1>2, WalkFacts DEF ConversionInv, Kinds
  <2>2. facts[Snap.id[c]] = NodeFact(c)
    BY <2>1, WalkFacts DEF ConversionInv, Kinds
  <2>. QED  BY <1>2, <2>2, OrderIsAPlace
<1>. HIDE DEF o, cs, R, order
<1>6. {Place(R, cs, c) : c \in cs} = 0..(Cardinality(cs) - 1)
  BY <1>2, <1>4, PlacesAreTheNumbers
<1>7. {order(c) : c \in cs} = 0..(Cardinality(cs) - 1)
  BY <1>5, <1>6
<1>8. ASSUME NEW c \in cs, NEW d \in cs, nodes[c].box # None, nodes[d].box # None,
             nodes[c].box.height > 0, nodes[c].box.y + nodes[c].box.height <= nodes[d].box.y
      PROVE  order(c) < order(d)
  <2>1. nodes[c].box \in Frames /\ nodes[d].box \in Frames
    BY <1>2, <1>8, BoxFacts
  <2>2. nodes[c].box.y < nodes[d].box.y
    BY <1>8, <2>1 DEF Frames
  <2>3. ReadsBefore(c, d)
    BY <1>8, <2>2 DEF ReadsBefore
  <2>4. <<c, d>> \in R
    BY <2>3 DEF R
  <2>. QED  BY <1>2, <1>4, <1>5, <2>4, PlacesGrow
<1>. QED  BY <1>1, <1>7, <1>8 DEF cs, o

(* The greatest of finitely many integers.                                 *)
LEMMA MaxFacts ==
    ASSUME NEW S, S \subseteq Int, IsFiniteSet(S), S # {}
    PROVE  Max(S) \in S /\ Max(S) \in Int /\ \A k \in S : k <= Max(S)
<1>1. PICK m \in S : \A k \in S : k <= m
  BY GreatestInteger
<1>2. \A k \in S : m >= k
  BY <1>1
<1>3. Max(S) \in S /\ \A k \in S : Max(S) >= k
  BY <1>2 DEF Max
<1>. QED  BY <1>3

(* How far a child reaches beyond its parent, both having boxes.           *)
LEMMA ReachFacts ==
    ASSUME NEW c, nodes[c].box \in Frames, nodes[Snap.parent[c]].box \in Frames
    PROVE  LET a == nodes[Snap.parent[c]].box
               b == nodes[c].box
           IN /\ Reach(c) \in [Sides -> Int]
              /\ Reach(c)["left"] = a.x - b.x
              /\ Reach(c)["right"] = (b.x + b.width) - (a.x + a.width)
              /\ Reach(c)["top"] = a.y - b.y
              /\ Reach(c)["bottom"] = (b.y + b.height) - (a.y + a.height)
<1>. DEFINE a == nodes[Snap.parent[c]].box
            b == nodes[c].box
<1>1. /\ a.x \in Int /\ a.y \in Int /\ a.width \in Int /\ a.height \in Int
      /\ b.x \in Int /\ b.y \in Int /\ b.width \in Int /\ b.height \in Int
  BY DEF Frames
<1>2. Reach(c) = [ left |-> a.x - b.x, right  |-> (b.x + b.width) - (a.x + a.width),
                   top  |-> a.y - b.y, bottom |-> (b.y + b.height) - (a.y + a.height) ]
  BY DEF Reach
<1>. HIDE DEF a, b
<1>3. /\ a.x - b.x \in Int /\ (b.x + b.width) - (a.x + a.width) \in Int
      /\ a.y - b.y \in Int /\ (b.y + b.height) - (a.y + a.height) \in Int
  BY <1>1
<1>4. Reach(c) \in [Sides -> Int]
  BY <1>2, <1>3 DEF Sides
<1>5. /\ Reach(c)["left"] = a.x - b.x /\ Reach(c)["right"] = (b.x + b.width) - (a.x + a.width)
      /\ Reach(c)["top"] = a.y - b.y /\ Reach(c)["bottom"] = (b.y + b.height) - (a.y + a.height)
  BY <1>2
<1>. QED  BY <1>4, <1>5 DEF a, b

(* An overflow that is known is the greatest reach, on each side.          *)
LEMMA OverflowFacts ==
    ASSUME IsSnapshot(Snap), ConversionInv, NEW o \in DOMAIN nodes, ChildOverflow(o).known
    PROVE  LET out == ChildOverflow(o) IN
           /\ nodes[o].box \in Frames
           /\ \A c \in InFlow(o) :
                /\ c \in DOMAIN nodes /\ Snap.parent[c] = o
                /\ nodes[c].box # None /\ nodes[c].box \in Frames /\ Reach(c) \in [Sides -> Int]
           /\ out.sides \in [Sides -> Int]
           /\ \A s \in Sides :
                /\ out.sides[s] >= 0
                /\ \A c \in InFlow(o) : Reach(c)[s] <= out.sides[s]
                /\ out.sides[s] = 0 \/ \E c \in InFlow(o) : Reach(c)[s] = out.sides[s]
           /\ out.ids = {Snap.id[c] : c \in {d \in InFlow(o) : \E s \in Sides : Reach(d)[s] > 0}}
<1>. DEFINE out == ChildOverflow(o)
            flow == InFlow(o)
            all(s) == {0} \cup {Reach(c)[s] : c \in flow}
<1>1. ~(nodes[o].box = None \/ \E c \in flow : nodes[c].box = None)
  BY DEF ChildOverflow, Unmeasured
<1>2. out = [ known |-> TRUE, sides |-> [s \in Sides |-> Max(all(s))],
              ids   |-> {Snap.id[c] : c \in {d \in flow : \E s \in Sides : Reach(d)[s] > 0}} ]
  BY <1>1 DEF ChildOverflow
<1>3. IsFiniteSet(flow) /\ \A c \in flow : c \in DOMAIN nodes /\ Snap.parent[c] = o
  <2>1. flow \subseteq RenderedBelow(o)
    BY DEF InFlow
  <2>. QED  BY <2>1, RenderedFacts, FS_Subset
<1>4. nodes[o].box \in Frames /\ \A c \in flow : nodes[c].box # None /\ nodes[c].box \in Frames
  BY <1>1, <1>3, BoxFacts
<1>5. \A c \in flow : Reach(c) \in [Sides -> Int]
  BY <1>3, <1>4, ReachFacts
<1>6. ASSUME NEW s \in Sides
      PROVE  /\ Max(all(s)) \in Int /\ Max(all(s)) >= 0
             /\ \A c \in flow : Reach(c)[s] <= Max(all(s))
             /\ Max(all(s)) = 0 \/ \E c \in flow : Reach(c)[s] = Max(all(s))
  <2>. DEFINE T == {Reach(c)[s] : c \in flow}
              f == [c \in flow |-> Reach(c)[s]]
  <2>1. T \subseteq Int
    BY <1>5
  <2>2. /\ \A c \in flow : f[c] \in T
        /\ \A t \in T : \E c \in flow : t = f[c]
    OBVIOUS
  <2>. HIDE DEF f, T, flow
  <2>3. IsFiniteSet(T)
    <3>1. IsFiniteSet(flow)
      BY <1>3
    <3>. QED  BY <2>2, <3>1, FiniteImage, Zenon
  <2>4. IsFiniteSet({0} \cup T)
    BY <2>3, FS_Singleton, FS_Union
  <2>5. {0} \cup T \subseteq Int /\ {0} \cup T # {}
    BY <2>1
  <2>6. Max({0} \cup T) \in {0} \cup T /\ Max({0} \cup T) \in Int /\ \A k \in {0} \cup T : k <= Max({0} \cup T)
    BY <2>4, <2>5, MaxFacts
  <2>7. all(s) = {0} \cup T
    BY DEF T, flow
  <2>8. 0 <= Max(all(s)) /\ Max(all(s)) \in Int
    BY <2>6, <2>7
  <2>9. \A c \in flow : Reach(c)[s] \in T
    BY DEF T
  <2>10. Max(all(s)) = 0 \/ \E c \in flow : Reach(c)[s] = Max(all(s))
    BY <2>6, <2>7 DEF T
  <2>. HIDE DEF all
  <2>. QED  BY <2>6, <2>7, <2>8, <2>9, <2>10
<1>. HIDE DEF all, flow
<1>7. out.sides = [s \in Sides |-> Max(all(s))] /\ \A s \in Sides : out.sides[s] = Max(all(s))
  BY <1>2
<1>8. out.sides \in [Sides -> Int]
  BY <1>6, <1>7
<1>9. out.ids = {Snap.id[c] : c \in {d \in flow : \E s \in Sides : Reach(d)[s] > 0}}
  BY <1>2
<1>. HIDE DEF out
<1>10. \A s \in Sides : /\ out.sides[s] >= 0
                        /\ \A c \in flow : Reach(c)[s] <= out.sides[s]
                        /\ out.sides[s] = 0 \/ \E c \in flow : Reach(c)[s] = out.sides[s]
  BY <1>6, <1>7
<1>. QED  BY <1>3, <1>4, <1>5, <1>8, <1>9, <1>10 DEF out, flow

(* An overflow that is known is as large as the boxes make it.             *)
LEMMA OverflowHolds ==
    ASSUME IsSnapshot(Snap), ConversionInv, facts = Walk
    PROVE  OverflowIsTight
<1>. SUFFICES ASSUME NEW i \in DOMAIN facts, facts[i].overflow.known
              PROVE  LET o == facts[i].at
                         out == facts[i].overflow
                         flow == {c \in DOMAIN nodes : /\ Snap.parent[c] = o /\ nodes[c].visible
                                                       /\ nodes[c].layout.positioning # "ABSOLUTE"}
                         holds(grow, c) ==
                             LET a == nodes[o].box b == nodes[c].box IN
                             /\ b # None
                             /\ a.x - grow["left"] <= b.x /\ b.x + b.width <= a.x + a.width + grow["right"]
                             /\ a.y - grow["top"] <= b.y /\ b.y + b.height <= a.y + a.height + grow["bottom"]
                     IN /\ \A c \in flow : holds(out.sides, c)
                        /\ \A s \in Sides : out.sides[s] > 0 =>
                             \E c \in flow : ~holds([out.sides EXCEPT ![s] = @ - 1], c)
                        /\ out.ids = {Snap.id[c] : c \in {d \in flow : ~holds([s \in Sides |-> 0], d)}}
  BY DEF OverflowIsTight
<1>. DEFINE o == facts[i].at
            out == facts[i].overflow
            flow == {c \in DOMAIN nodes : /\ Snap.parent[c] = o /\ nodes[c].visible
                                          /\ nodes[c].layout.positioning # "ABSOLUTE"}
            holds(grow, c) ==
                LET a == nodes[o].box b == nodes[c].box IN
                /\ b # None
                /\ a.x - grow["left"] <= b.x /\ b.x + b.width <= a.x + a.width + grow["right"]
                /\ a.y - grow["top"] <= b.y /\ b.y + b.height <= a.y + a.height + grow["bottom"]
            within(grow, c) == \A s \in Sides : Reach(c)[s] <= grow[s]
            less(s) == [out.sides EXCEPT ![s] = @ - 1]
            zero == [s \in Sides |-> 0]
<1>1. o \in DOMAIN nodes /\ out = ChildOverflow(o)
  <2>1. o \in DOMAIN nodes /\ facts[i] = NodeFact(o)
    BY WalkFacts DEF ConversionInv, Kinds
  <2>2. NodeFact(o).overflow = ChildOverflow(o)
    BY DEF NodeFact
  <2>. QED  BY <2>1, <2>2
<1>2. flow = InFlow(o)
  BY DEF InFlow, RenderedBelow
<1>3. /\ nodes[o].box \in Frames
      /\ \A c \in flow : /\ Snap.parent[c] = o /\ nodes[c].box # None
                         /\ nodes[c].box \in Frames /\ Reach(c) \in [Sides -> Int]
      /\ out.sides \in [Sides -> Int]
      /\ \A s \in Sides : /\ out.sides[s] >= 0
                          /\ \A c \in flow : Reach(c)[s] <= out.sides[s]
                          /\ out.sides[s] = 0 \/ \E c \in flow : Reach(c)[s] = out.sides[s]
      /\ out.ids = {Snap.id[c] : c \in {d \in flow : \E s \in Sides : Reach(d)[s] > 0}}
  <2>. HIDE DEF o, out, flow
  <2>1. ChildOverflow(o).known
    BY <1>1 DEF out
  <2>. QED  BY <1>1, <1>2, <2>1, OverflowFacts
<1>. HIDE DEF o, out, flow, less, zero
<1>4. ASSUME NEW grow \in [Sides -> Int], NEW c \in flow  PROVE holds(grow, c) <=> within(grow, c)
  <2>. DEFINE a == nodes[o].box
              b == nodes[c].box
              reach == Reach(c)
  <2>1. a \in Frames /\ b \in Frames /\ Snap.parent[c] = o
    BY <1>3
  <2>2. /\ reach["left"] = a.x - b.x
        /\ reach["right"] = (b.x + b.width) - (a.x + a.width)
        /\ reach["top"] = a.y - b.y
        /\ reach["bottom"] = (b.y + b.height) - (a.y + a.height)
    BY <2>1, ReachFacts
  <2>3. b # None
    BY <1>3
  <2>. QED  BY <2>1, <2>2, <2>3 DEF Sides, Frames
<1>5. \A c \in flow : holds(out.sides, c)
  BY <1>3, <1>4
<1>6. ASSUME NEW s \in Sides, out.sides[s] > 0  PROVE \E c \in flow : ~holds(less(s), c)
  <2>1. PICK c \in flow : Reach(c)[s] = out.sides[s]
    BY <1>3, <1>6
  <2>2. less(s) \in [Sides -> Int] /\ less(s)[s] = out.sides[s] - 1
    BY <1>3 DEF less
  <2>3. out.sides[s] \in Int
    BY <1>3
  <2>4. ~(Reach(c)[s] <= less(s)[s])
    BY <2>1, <2>2, <2>3
  <2>5. ~within(less(s), c)
    BY <2>4
  <2>. QED  BY <1>4, <2>2, <2>5
<1>7. \A c \in flow : ~holds(zero, c) <=> \E s \in Sides : Reach(c)[s] > 0
  <2>. SUFFICES ASSUME NEW c \in flow  PROVE ~holds(zero, c) <=> \E s \in Sides : Reach(c)[s] > 0
    OBVIOUS
  <2>1. zero \in [Sides -> Int] /\ \A s \in Sides : zero[s] = 0
    BY DEF zero
  <2>2. \A s \in Sides : Reach(c)[s] \in Int
    BY <1>3
  <2>3. within(zero, c) <=> ~\E s \in Sides : Reach(c)[s] > 0
    BY <2>1, <2>2
  <2>. HIDE DEF holds, within
  <2>. QED  BY <1>4, <2>1, <2>3
<1>. HIDE DEF holds
<1>8. out.ids = {Snap.id[c] : c \in {d \in flow : ~holds(zero, d)}}
  BY <1>3, <1>7
<1>. QED  BY <1>5, <1>6, <1>8 DEF holds, flow, out, o, less, zero

(* deriveNodeFacts: the reading order is total and follows the boxes, and  *)
(* an overflow is as large as the boxes make it.                           *)
THEOREM NodeFactsAreRight == Spec => []NodeFactsHold
<1>1. DocumentInv => NodeFactsHold
  <2>. SUFFICES ASSUME DocumentInv  PROVE NodeFactsHold
    OBVIOUS
  <2>1. IsSnapshot(Snap) /\ ConversionInv
    BY SnapshotGiven DEF DocumentInv, Stages
  <2>2. CASE facts = None
    BY <2>2 DEF NodeFactsHold, ReadingOrderIsTotal, OverflowIsTight
  <2>3. CASE facts = Walk
    BY <2>1, <2>3, ReadingOrderHolds, OverflowHolds DEF NodeFactsHold
  <2>. QED  BY <2>2, <2>3 DEF DocumentInv, Stages
<1>. QED  BY <1>1, DocumentInvariant, PTL

-----------------------------------------------------------------------------
(***************************************************************************)
(* The artboards.                                                          *)
(***************************************************************************)
Roots == {o \in DOMAIN nodes : IsRoot(o)}
Waiting == {waiting[k] : k \in DOMAIN waiting}
Seen == Roots \ Waiting

(* What is made of an artboard: a member, a diagnostic, or nothing.        *)
MemberOf(o) ==
    LET d == Responsive.explicit[Snap.id[o]] n == Responsive.names[Snap.name[o]] IN
    IF Declared(o) THEN {Member(d.section, d.breakpoint, o)}
    ELSE IF Named(o) /\ ~Contradicts(n) THEN {Member(n.section, SlotOf(n), o)}
    ELSE {}

RefusalOf(o) ==
    IF ~Declared(o) /\ Named(o) /\ Contradicts(Responsive.names[Snap.name[o]])
    THEN {Diagnostic("UNKNOWN_GROUPING", <<"name", Snap.name[o]>>, {o})}
    ELSE {}

UnseenDeclarations ==
    { Diagnostic("CONFIG_ERROR", <<"declaration", i>>, {}) :
      i \in DOMAIN Responsive.explicit \ {Snap.id[DocumentRoots[k]] : k \in DOMAIN DocumentRoots} }

(* The artboards that were looked at are members or refused, one by one,   *)
(* and nothing else is.                                                    *)
Artboards ==
    /\ Responsive = None => members = {} /\ waiting = <<>>
    /\ Responsive # None /\ phase # "convert" =>
         /\ waiting \in Seq(Roots)
         /\ \A j, k \in DOMAIN waiting : j # k => waiting[j] # waiting[k]
         /\ \A e : e \in members <=> \E o \in Seen : e \in MemberOf(o)
         /\ \A o \in Seen : RefusalOf(o) \subseteq diagnostics
         /\ \A d \in diagnostics : d.about[1] = "name" => \E o \in Seen : d \in RefusalOf(o)
         /\ phase # "grouping" => UnseenDeclarations \subseteq diagnostics

(* The roots of the document, as a list.                                   *)
LEMMA DocumentRootsFacts ==
    ASSUME IsSnapshot(Snap), DOMAIN nodes \subseteq Snap.nodes
    PROVE  /\ DocumentRoots \in Seq(Roots) /\ Roots = {DocumentRoots[k] : k \in DOMAIN DocumentRoots}
           /\ \A j, k \in DOMAIN DocumentRoots : j # k => DocumentRoots[j] # DocumentRoots[k]
<1>1. Roots \subseteq Nat /\ IsFiniteSet(Roots)
  BY ForestFacts, FS_Subset DEF Roots
<1>2. DocumentRoots = InOrder(Roots)
  BY DEF DocumentRoots, Roots
<1>3. /\ InOrder(Roots) \in Seq(Roots)
      /\ DOMAIN InOrder(Roots) = 1..Cardinality(Roots) /\ Cardinality(Roots) \in Nat
      /\ \A k \in DOMAIN InOrder(Roots) : InOrder(Roots)[k] \in Roots
      /\ \A j, k \in DOMAIN InOrder(Roots) : j < k => InOrder(Roots)[j] < InOrder(Roots)[k]
      /\ \A o \in Roots : \E k \in DOMAIN InOrder(Roots) : InOrder(Roots)[k] = o
  BY <1>1, InOrderFacts
<1>. DEFINE L == InOrder(Roots)
<1>. HIDE DEF L
<1>4. \A j, k \in DOMAIN L : j # k => L[j] # L[k]
  <2>. SUFFICES ASSUME NEW j \in DOMAIN L, NEW k \in DOMAIN L, j # k  PROVE L[j] # L[k]
    OBVIOUS
  <2>1. j \in Nat /\ k \in Nat /\ L[j] \in Nat /\ L[k] \in Nat
    BY <1>1, <1>3 DEF L
  <2>2. j < k \/ k < j
    BY <2>1
  <2>3. L[j] < L[k] \/ L[k] < L[j]
    BY <1>3, <2>2 DEF L
  <2>. QED  BY <2>1, <2>3
<1>. QED  BY <1>2, <1>3, <1>4 DEF L

(* What is made of an artboard depends on the document and the             *)
(* configuration alone.                                                    *)
LEMMA ArtboardsReadOnly ==
    ASSUME input' = input, nodes' = nodes
    PROVE  /\ \A o : MemberOf(o)' = MemberOf(o) /\ RefusalOf(o)' = RefusalOf(o)
           /\ Roots' = Roots /\ UnseenDeclarations' = UnseenDeclarations
           /\ Responsive' = Responsive
<1>1. Snap' = Snap /\ Responsive' = Responsive
  BY DEF Snap, Responsive
<1>2. \A o : IsRoot(o)' = IsRoot(o) /\ Declared(o)' = Declared(o) /\ Named(o)' = Named(o)
  BY <1>1 DEF IsRoot, Declared, Named
<1>3. \A n : Contradicts(n)' = Contradicts(n) /\ SlotOf(n)' = SlotOf(n)
  BY <1>1 DEF Contradicts, SlotOf, SlotsOfWidth
<1>4. \A o : MemberOf(o)' = MemberOf(o) /\ RefusalOf(o)' = RefusalOf(o)
  BY <1>1, <1>2, <1>3 DEF MemberOf, RefusalOf, Member, Diagnostic
<1>5. Roots' = Roots /\ DocumentRoots' = DocumentRoots
  BY <1>2 DEF Roots, DocumentRoots
<1>. QED  BY <1>1, <1>4, <1>5 DEF UnseenDeclarations

(* What is made of an artboard names it.                                   *)
LEMMA AnswerFacts ==
    ASSUME NEW o
    PROVE  /\ \A e \in MemberOf(o) : e.root = o
           /\ \A d \in RefusalOf(o) : /\ d.reason = "UNKNOWN_GROUPING" /\ d.about = <<"name", Snap.name[o]>>
                                      /\ d.about[1] = "name" /\ d.roots = {o}
  BY DEF MemberOf, RefusalOf, Member, Diagnostic

(* A step that looks at no artboard may report something else.             *)
LEMMA ArtboardsStay ==
    ASSUME Artboards, input' = input, nodes' = nodes, members' = members, waiting' = waiting,
           phase # "convert", phase' # "convert",
           NEW D, diagnostics' = diagnostics \cup D, \A d \in D : d.about[1] # "name",
           Responsive # None /\ phase' # "grouping" /\ phase = "grouping" => UnseenDeclarations \subseteq D
    PROVE  Artboards'
<1>. USE ArtboardsReadOnly
<1>1. Waiting' = Waiting /\ Seen' = Seen
  BY DEF Waiting, Seen
<1>2. CASE Responsive = None
  BY <1>2 DEF Artboards
<1>3. CASE Responsive # None
  <2>1. waiting' \in Seq(Roots') /\ \A j, k \in DOMAIN waiting' : j # k => waiting'[j] # waiting'[k]
    BY <1>3 DEF Artboards
  <2>2. \A e : e \in members' <=> \E o \in Seen' : e \in MemberOf(o)'
    BY <1>1, <1>3 DEF Artboards
  <2>3. \A o \in Seen' : RefusalOf(o)' \subseteq diagnostics'
    BY <1>1, <1>3 DEF Artboards
  <2>4. \A d \in diagnostics' : d.about[1] = "name" => \E o \in Seen' : d \in RefusalOf(o)'
    BY <1>1, <1>3 DEF Artboards
  <2>5. phase' # "grouping" => UnseenDeclarations' \subseteq diagnostics'
    BY <1>3 DEF Artboards
  <2>. QED  BY <1>3, <2>1, <2>2, <2>3, <2>4, <2>5 DEF Artboards
<1>. QED  BY <1>2, <1>3

(* The next artboard becomes what it is.                                   *)
LEMMA ArtboardTaken ==
    ASSUME Artboards, input' = input, nodes' = nodes, Responsive # None,
           phase = "grouping", phase' = "grouping",
           waiting # <<>>, waiting' = Tail(waiting),
           members' = members \cup MemberOf(Head(waiting)),
           diagnostics' = diagnostics \cup RefusalOf(Head(waiting))
    PROVE  Artboards'
<1>. USE ArtboardsReadOnly
<1>. DEFINE r == Head(waiting)
<1>1. waiting \in Seq(Roots) /\ \A j, k \in DOMAIN waiting : j # k => waiting[j] # waiting[k]
  BY DEF Artboards
<1>2. /\ waiting' \in Seq(Roots) /\ r \in Roots /\ DOMAIN waiting' = 1..Len(waiting')
      /\ Len(waiting) \in Nat /\ Len(waiting) >= 1 /\ Len(waiting') = Len(waiting) - 1
      /\ DOMAIN waiting = 1..Len(waiting) /\ r = waiting[1]
      /\ \A k \in DOMAIN waiting' : k + 1 \in DOMAIN waiting /\ waiting'[k] = waiting[k + 1]
  BY <1>1
<1>3. \A j, k \in DOMAIN waiting' : j # k => waiting'[j] # waiting'[k]
  BY <1>1, <1>2
<1>4. Waiting = Waiting' \cup {r} /\ r \notin Waiting'
  <2>1. ASSUME NEW k \in DOMAIN waiting  PROVE waiting[k] \in Waiting' \cup {r}
    <3>1. CASE k = 1
      BY <1>2, <3>1
    <3>2. CASE k # 1
      <4>1. k - 1 \in DOMAIN waiting' /\ (k - 1) + 1 = k
        BY <1>2, <3>2
      <4>2. waiting'[k - 1] = waiting[k]
        BY <1>2, <4>1
      <4>. QED  BY <4>1, <4>2 DEF Waiting
    <3>. QED  BY <3>1, <3>2
  <2>2. \A k \in DOMAIN waiting' : waiting'[k] \in Waiting /\ waiting'[k] # r
    BY <1>1, <1>2 DEF Waiting
  <2>3. r \in Waiting
    BY <1>2 DEF Waiting
  <2>. QED  BY <2>1, <2>2, <2>3 DEF Waiting
<1>5. Seen' = Seen \cup {r}
  BY <1>2, <1>4 DEF Seen
<1>. HIDE DEF r
<1>6. members' = members \cup MemberOf(r) /\ diagnostics' = diagnostics \cup RefusalOf(r)
  BY DEF r
<1>7. \A e : e \in members' <=> \E o \in Seen' : e \in MemberOf(o)'
  BY <1>5, <1>6 DEF Artboards
<1>8. \A o \in Seen' : RefusalOf(o)' \subseteq diagnostics'
  BY <1>5, <1>6 DEF Artboards
<1>9. \A d \in diagnostics' : d.about[1] = "name" => \E o \in Seen' : d \in RefusalOf(o)'
  BY <1>5, <1>6 DEF Artboards
<1>. QED  BY <1>2, <1>3, <1>7, <1>8, <1>9 DEF Artboards

(* What the derivation of a group reports is about a breakpoint or a path. *)
LEMMA ReportFacts ==
    ASSUME NEW entries
    PROVE  /\ \A d \in Rivals(entries) : d.about[1] # "name"
           /\ \A d \in Unresolved(entries) : d.about[1] # "name"
<1>1. ASSUME NEW d \in Rivals(entries)  PROVE d.about[1] # "name"
  <2>1. PICK t \in entries \X entries :
          d = Diagnostic("AMBIGUOUS_NODE_MATCH", <<"breakpoint", t[1].breakpoint>>, {t[1].root, t[2].root})
    BY DEF Rivals
  <2>. QED  BY <2>1 DEF Diagnostic
<1>2. ASSUME NEW d \in Unresolved(entries)  PROVE d.about[1] # "name"
  <2>1. PICK p \in PathsOf(entries) :
          \/ d = Diagnostic("AMBIGUOUS_NODE_MATCH", <<"path", p>>, {e.root : e \in AmbiguousIn(p, entries)})
          \/ d = Diagnostic("UNKNOWN_GROUPING", <<"path", p>>, {e.root : e \in MissingIn(p, entries)})
    BY DEF Unresolved
  <2>. QED  BY <2>1 DEF Diagnostic
<1>. QED  BY <1>1, <1>2

(* Every step keeps what was made of the artboards.                        *)
LEMMA ArtboardsKept ==
    ASSUME IsSnapshot(Snap), Stages, ConversionInv, Artboards, [Next]_vars
    PROVE  Artboards'
<1>1. input' = input /\ Responsive' = Responsive
  BY DocumentStays DEF Responsive
<1>2. CASE UNCHANGED vars
  <2>1. CASE phase = "convert"
    BY <1>1, <1>2, <2>1 DEF Artboards, Stages, vars, canonicalVars, factsVars
  <2>2. CASE phase # "convert"
    <3>. DEFINE nothing == {}
    <3>1. /\ diagnostics' = diagnostics \cup nothing /\ nodes' = nodes /\ phase' = phase
          /\ members' = members /\ waiting' = waiting /\ \A d \in nothing : d.about[1] # "name"
      BY <1>2 DEF vars, canonicalVars, factsVars
    <3>. HIDE DEF nothing
    <3>. QED  BY <1>1, <2>2, <3>1, ArtboardsStay
  <2>. QED  BY <2>1, <2>2
<1>3. CASE Convert
  BY <1>1, <1>3 DEF Convert, ConvertNode, RejectNode, factsVars, Stages, Artboards
<1>4. CASE DeriveNodes
  <2>1. CASE Responsive = None
    BY <1>1, <1>4, <2>1 DEF DeriveNodes, Stages, Artboards
  <2>2. CASE Responsive # None
    <3>1. /\ waiting' = DocumentRoots /\ members' = {} /\ diagnostics' = {} /\ nodes' = nodes
          /\ phase' = "grouping"
      BY <1>4, <2>2 DEF DeriveNodes, Stages
    <3>2. Roots' = Roots
      BY <1>1, <3>1, ArtboardsReadOnly
    <3>3. Seen' = {}
      BY <3>1, <3>2, DocumentRootsFacts DEF ConversionInv, Kinds, Seen, Waiting
    <3>4. waiting' \in Seq(Roots') /\ \A j, k \in DOMAIN waiting' : j # k => waiting'[j] # waiting'[k]
      BY <3>1, <3>2, DocumentRootsFacts DEF ConversionInv, Kinds
    <3>. QED  BY <1>1, <2>2, <3>1, <3>3, <3>4 DEF Artboards
  <2>. QED  BY <2>1, <2>2
<1>5. CASE GroupDeclared \/ GroupByName \/ RefuseName \/ PassOver
  <2>1. /\ phase = "grouping" /\ phase' = "grouping" /\ waiting # <<>> /\ waiting' = Tail(waiting)
        /\ nodes' = nodes /\ Responsive # None
    BY <1>5 DEF GroupDeclared, GroupByName, RefuseName, PassOver, canonicalVars, Stages
  <2>2. members' = members \cup MemberOf(Head(waiting))
    BY <1>5 DEF GroupDeclared, GroupByName, RefuseName, PassOver, MemberOf
  <2>3. diagnostics' = diagnostics \cup RefusalOf(Head(waiting))
    BY <1>5 DEF GroupDeclared, GroupByName, RefuseName, PassOver, RefusalOf
  <2>. QED  BY <1>1, <2>1, <2>2, <2>3, ArtboardTaken
<1>6. CASE ReportUnseen
  <2>1. /\ phase = "grouping" /\ phase' = "grouped" /\ nodes' = nodes /\ members' = members
        /\ waiting' = waiting /\ diagnostics' = diagnostics \cup UnseenDeclarations
    BY <1>6 DEF ReportUnseen, UnseenDeclarations
  <2>2. \A d \in UnseenDeclarations : d.about[1] # "name"
    BY DEF UnseenDeclarations, Diagnostic
  <2>. QED  BY <1>1, <2>1, <2>2, ArtboardsStay
<1>7. CASE DeriveGroup
  <2>1. PICK s : LET entries == {e \in members : e.section = s}
                 IN diagnostics' = diagnostics \cup Rivals(entries) \cup Unresolved(entries)
    BY <1>7 DEF DeriveGroup
  <2>. DEFINE entries == {e \in members : e.section = s}
              D == Rivals(entries) \cup Unresolved(entries)
  <2>2. /\ phase = "grouped" /\ phase' = "grouped" /\ nodes' = nodes /\ members' = members
        /\ waiting' = waiting /\ diagnostics' = diagnostics \cup D
    BY <1>7, <2>1 DEF DeriveGroup, canonicalVars
  <2>3. \A d \in D : d.about[1] # "name"
    BY ReportFacts
  <2>. HIDE DEF D
  <2>. QED  BY <1>1, <2>2, <2>3, ArtboardsStay
<1>8. CASE FinishGroups \/ LoadEntry \/ RefuseRuleset \/ FinishLoading \/ EvaluateRule \/ RefuseRun \/ FinishRun
  <2>. DEFINE nothing == {}
  <2>1. /\ phase \in {"grouped", "derived", "loaded"} /\ phase' \in {"derived", "loaded", "refused", "reported"}
        /\ nodes' = nodes /\ members' = members /\ waiting' = waiting
        /\ diagnostics' = diagnostics \cup nothing /\ \A d \in nothing : d.about[1] # "name"
    BY <1>8 DEF FinishGroups, LoadEntry, RefuseRuleset, FinishLoading, EvaluateRule, RefuseRun, FinishRun,
                canonicalVars, factsVars
  <2>. HIDE DEF nothing
  <2>2. phase # "convert" /\ phase # "grouping" /\ phase' # "convert" /\ phase' # "grouping"
    BY <2>1
  <2>. QED  BY <1>1, <2>1, <2>2, ArtboardsStay
<1>. QED  BY <1>2, <1>3, <1>4, <1>5, <1>6, <1>7, <1>8 DEF Next, Derive, DeriveFacts

(* Once all were looked at, every artboard and every declaration has its   *)
(* answer.                                                                 *)
LEMMA ArtboardsAnswered ==
    ASSUME IsSnapshot(Snap), Stages, ConversionInv, Artboards
    PROVE  EveryArtboardAnswered
<1>. SUFFICES ASSUME phase \in {"grouped", "derived"}, Responsive # None
              PROVE  EveryArtboardAnswered
  BY DEF EveryArtboardAnswered
<1>1. waiting = <<>> /\ Seen = Roots
  BY DEF Stages, Seen, Waiting
<1>2. /\ \A e : e \in members <=> \E o \in Roots : e \in MemberOf(o)
      /\ \A o \in Roots : RefusalOf(o) \subseteq diagnostics
      /\ \A d \in diagnostics : d.about[1] = "name" => \E o \in Roots : d \in RefusalOf(o)
      /\ UnseenDeclarations \subseteq diagnostics
  BY <1>1 DEF Artboards
<1>3. ASSUME NEW o \in Roots
      PROVE  LET own == {e \in members : e.root = o}
                 told == {d \in diagnostics : d.reason = "UNKNOWN_GROUPING" /\ d.about = <<"name", Snap.name[o]>> /\ o \in d.roots}
             IN /\ Cardinality(own) + Cardinality(told) <= 1
                /\ own = {} /\ told = {} => ~Declared(o) /\ ~Named(o)
  <2>. DEFINE own == {e \in members : e.root = o}
              told == {d \in diagnostics : d.reason = "UNKNOWN_GROUPING" /\ d.about = <<"name", Snap.name[o]>> /\ o \in d.roots}
  <2>1. own = MemberOf(o)
    BY <1>2, AnswerFacts
  <2>2. told = RefusalOf(o)
    <3>1. \A d \in RefusalOf(o) : d \in told
      BY <1>2, AnswerFacts
    <3>2. ASSUME NEW d \in told  PROVE d \in RefusalOf(o)
      <4>1. d.about[1] = "name" /\ d \in diagnostics /\ o \in d.roots
        OBVIOUS
      <4>2. PICK p \in Roots : d \in RefusalOf(p)
        BY <1>2, <4>1
      <4>3. d.roots = {p}
        BY <4>2, AnswerFacts
      <4>. QED  BY <4>1, <4>2, <4>3
    <3>. QED  BY <3>1, <3>2
  <2>. HIDE DEF own, told
  <2>3. CASE MemberOf(o) = {} /\ RefusalOf(o) = {}
    <3>1. ~Declared(o) /\ ~Named(o)
      BY <2>3 DEF MemberOf, RefusalOf
    <3>2. Cardinality(own) = 0 /\ Cardinality(told) = 0
      BY <2>1, <2>2, <2>3, FS_EmptySet
    <3>. QED  BY <3>1, <3>2 DEF own, told
  <2>4. CASE RefusalOf(o) = {} /\ \E e : MemberOf(o) = {e}
    <3>1. Cardinality(own) = 1 /\ Cardinality(told) = 0 /\ own # {}
      BY <2>1, <2>2, <2>4, FS_EmptySet, FS_Singleton
    <3>. QED  BY <3>1 DEF own, told
  <2>5. CASE MemberOf(o) = {} /\ \E d : RefusalOf(o) = {d}
    <3>1. Cardinality(own) = 0 /\ Cardinality(told) = 1 /\ told # {}
      BY <2>1, <2>2, <2>5, FS_EmptySet, FS_Singleton
    <3>. QED  BY <3>1 DEF own, told
  <2>6. \/ MemberOf(o) = {} /\ RefusalOf(o) = {}
        \/ RefusalOf(o) = {} /\ \E e : MemberOf(o) = {e}
        \/ MemberOf(o) = {} /\ \E d : RefusalOf(o) = {d}
    BY DEF MemberOf, RefusalOf
  <2>. QED  BY <2>3, <2>4, <2>5, <2>6
<1>4. Roots = {DocumentRoots[k] : k \in DOMAIN DocumentRoots}
  BY DocumentRootsFacts DEF ConversionInv, Kinds
<1>5. ASSUME NEW i \in DOMAIN Responsive.explicit
      PROVE  \/ \E e \in members : /\ Snap.id[e.root] = i
                                   /\ e.section = Responsive.explicit[i].section
                                   /\ e.breakpoint = Responsive.explicit[i].breakpoint
             \/ \E d \in diagnostics : d.reason = "CONFIG_ERROR" /\ d.about = <<"declaration", i>>
  <2>1. CASE \E o \in Roots : Snap.id[o] = i
    <3>1. PICK o \in Roots : Snap.id[o] = i
      BY <2>1
    <3>2. Declared(o)
      BY <3>1 DEF Declared
    <3>. DEFINE e == Member(Responsive.explicit[i].section, Responsive.explicit[i].breakpoint, o)
    <3>3. e \in MemberOf(o)
      BY <3>1, <3>2 DEF MemberOf
    <3>4. e \in members
      BY <1>2, <3>3
    <3>5. /\ e.root = o /\ e.section = Responsive.explicit[i].section
          /\ e.breakpoint = Responsive.explicit[i].breakpoint
      BY DEF Member
    <3>. QED  BY <3>1, <3>4, <3>5
  <2>2. CASE ~\E o \in Roots : Snap.id[o] = i
    <3>1. i \notin {Snap.id[DocumentRoots[k]] : k \in DOMAIN DocumentRoots}
      BY <1>4, <2>2
    <3>2. Diagnostic("CONFIG_ERROR", <<"declaration", i>>, {}) \in UnseenDeclarations
      BY <3>1 DEF UnseenDeclarations
    <3>. QED  BY <1>2, <3>2 DEF Diagnostic
  <2>. QED  BY <2>1, <2>2
<1>. QED  BY <1>3, <1>4, <1>5 DEF EveryArtboardAnswered

-----------------------------------------------------------------------------
(***************************************************************************)
(* The groups.                                                             *)
(***************************************************************************)
EntriesOf(s) == {e \in members : e.section = s}

GroupOf(s) ==
    [ section |-> s, members |-> EntriesOf(s), slots |-> Slots(EntriesOf(s)),
      unresolved |-> Cardinality(Unresolved(EntriesOf(s))) ]

ReportOf(s) == Rivals(EntriesOf(s)) \cup Unresolved(EntriesOf(s))

(* A group is what its members make it, and its diagnostics are there.     *)
Grouped == \A g \in groups : g = GroupOf(g.section) /\ ReportOf(g.section) \subseteq diagnostics

(* Groups are made of the document and the members alone.                  *)
LEMMA GroupsReadOnly ==
    ASSUME input' = input, nodes' = nodes, members' = members
    PROVE  \A s : GroupOf(s)' = GroupOf(s) /\ ReportOf(s)' = ReportOf(s)
<1>1. \A s : EntriesOf(s)' = EntriesOf(s)
  BY DEF EntriesOf
<1>2. \A r : Under(r)' = Under(r)
  BY DEF Under
<1>3. \A p, r : NamedBy(p, r)' = NamedBy(p, r)
  BY <1>2 DEF NamedBy
<1>4. \A E : PathsOf(E)' = PathsOf(E)
  BY <1>2 DEF PathsOf
<1>5. \A p, E : AmbiguousIn(p, E)' = AmbiguousIn(p, E) /\ MissingIn(p, E)' = MissingIn(p, E)
  BY <1>3 DEF AmbiguousIn, MissingIn
<1>6. \A E : Unresolved(E)' = Unresolved(E)
  BY <1>4, <1>5 DEF Unresolved, Diagnostic
<1>7. \A E : Slots(E)' = Slots(E)
  <2>1. \A p, r : (CHOOSE o \in NamedBy(p, r) : TRUE)' = CHOOSE o \in NamedBy(p, r) : TRUE
    BY <1>3
  <2>2. ASSUME NEW p, NEW E  PROVE SlotAt(p, E)' = SlotAt(p, E)
    <3>. DEFINE one(r) == CHOOSE o \in NamedBy(p, r) : TRUE
    <3>1. \A r : one(r)' = one(r)
      BY <2>1
    <3>2. SlotAt(p, E) = [path |-> p, by |-> [b \in {e.breakpoint : e \in E} |-> one(Observed(E, b))]]
      BY DEF SlotAt
    <3>3. SlotAt(p, E)' = [path |-> p, by |-> [b \in {e.breakpoint : e \in E} |-> one(Observed(E, b))']]
      BY DEF SlotAt
    <3>4. ASSUME NEW b  PROVE one(Observed(E, b))' = one(Observed(E, b))
      <4>. DEFINE r == Observed(E, b)
      <4>. HIDE DEF r
      <4>1. one(r)' = one(r)
        BY <3>1
      <4>. QED  BY <4>1 DEF r
    <3>. HIDE DEF one
    <3>. QED  BY <3>2, <3>3, <3>4
  <2>. QED  BY <1>4, <1>5, <2>2 DEF Slots
<1>8. \A E : Rivals(E)' = Rivals(E)
  BY DEF Rivals, Diagnostic
<1>. QED  BY <1>1, <1>6, <1>7, <1>8 DEF GroupOf, ReportOf

(* Every step keeps the groups that are there.                             *)
LEMMA GroupsKept ==
    ASSUME Stages, Grouped, [Next]_vars
    PROVE  Grouped'
<1>1. input' = input
  BY DocumentStays
<1>2. CASE phase = "convert" \/ phase = "grouping"
  <2>1. groups = {}
    BY <1>2 DEF Stages
  <2>2. groups' = groups
    <3>1. CASE UNCHANGED vars
      BY <3>1 DEF vars, factsVars
    <3>2. CASE Derive
      BY <1>2, <3>2 DEF Derive, DeriveFacts, Convert, DeriveNodes, GroupDeclared, GroupByName, RefuseName,
                         PassOver, ReportUnseen, DeriveGroup, FinishGroups, factsVars
    <3>3. CASE LoadEntry \/ RefuseRuleset \/ FinishLoading \/ EvaluateRule \/ RefuseRun \/ FinishRun
      BY <1>2, <3>3 DEF LoadEntry, RefuseRuleset, FinishLoading, EvaluateRule, RefuseRun, FinishRun
    <3>. QED  BY <3>1, <3>2, <3>3 DEF Next
  <2>. QED  BY <2>1, <2>2 DEF Grouped
<1>3. CASE phase # "convert" /\ phase # "grouping"
  <2>1. nodes' = nodes /\ members' = members
    <3>1. CASE UNCHANGED vars
      BY <3>1 DEF vars, canonicalVars, factsVars
    <3>2. CASE Derive
      BY <1>3, <3>2 DEF Derive, DeriveFacts, Convert, ConvertNode, RejectNode, DeriveNodes, GroupDeclared,
                         GroupByName, RefuseName, PassOver, ReportUnseen, DeriveGroup, FinishGroups,
                         canonicalVars, factsVars
    <3>3. CASE LoadEntry \/ RefuseRuleset \/ FinishLoading \/ EvaluateRule \/ RefuseRun \/ FinishRun
      BY <3>3 DEF LoadEntry, RefuseRuleset, FinishLoading, EvaluateRule, RefuseRun, FinishRun,
                  canonicalVars, factsVars
    <3>. QED  BY <3>1, <3>2, <3>3 DEF Next
  <2>2. \A s : GroupOf(s)' = GroupOf(s) /\ ReportOf(s)' = ReportOf(s)
    BY <1>1, <2>1, GroupsReadOnly
  <2>3. CASE DeriveGroup
    <3>1. PICK s : LET entries == EntriesOf(s) IN
            /\ groups' = groups \cup {[ section |-> s, members |-> entries, slots |-> Slots(entries),
                                        unresolved |-> Cardinality(Unresolved(entries)) ]}
            /\ diagnostics' = diagnostics \cup Rivals(entries) \cup Unresolved(entries)
      BY <2>3 DEF DeriveGroup, EntriesOf
    <3>2. groups' = groups \cup {GroupOf(s)} /\ GroupOf(s).section = s
      BY <3>1 DEF GroupOf
    <3>3. diagnostics' = diagnostics \cup ReportOf(s)
      BY <3>1 DEF ReportOf
    <3>. QED  BY <2>2, <3>2, <3>3 DEF Grouped
  <2>4. CASE ~DeriveGroup
    <3>1. groups' = groups /\ diagnostics \subseteq diagnostics'
      <4>1. CASE UNCHANGED vars
        BY <4>1 DEF vars, factsVars
      <4>2. CASE Derive
        BY <1>3, <2>4, <4>2 DEF Derive, DeriveFacts, Convert, ConvertNode, RejectNode, DeriveNodes, GroupDeclared,
                           GroupByName, RefuseName, PassOver, ReportUnseen, FinishGroups, factsVars
      <4>3. CASE LoadEntry \/ RefuseRuleset \/ FinishLoading \/ EvaluateRule \/ RefuseRun \/ FinishRun
        BY <4>3 DEF LoadEntry, RefuseRuleset, FinishLoading, EvaluateRule, RefuseRun, FinishRun, factsVars
      <4>. QED  BY <4>1, <4>2, <4>3 DEF Next
    <3>. QED  BY <2>2, <3>1 DEF Grouped
  <2>. QED  BY <2>3, <2>4
<1>. QED  BY <1>2, <1>3

(* The artboards and the groups, over a whole run.                         *)
FactsInv == DocumentInv /\ Artboards /\ Grouped

(* So does the one of the facts, which rests on it.                        *)
LEMMA FactsInvariant == Spec => []FactsInv
<1>1. ASSUME RulesInit, DocumentInv  PROVE FactsInv
  BY <1>1 DEF RulesInit, FactsInit, Init, Artboards, Grouped, FactsInv
<1>2. ASSUME FactsInv, DocumentInv', [Next]_vars  PROVE FactsInv'
  BY <1>2, SnapshotGiven, ArtboardsKept, GroupsKept DEF FactsInv, DocumentInv, Stages
<1>. QED  BY <1>1, <1>2, DocumentInvariant, PTL DEF Spec

(* deriveResponsiveGroups: no artboard and no declaration goes unanswered. *)
THEOREM ArtboardsAreAnswered == Spec => []EveryArtboardAnswered
<1>1. FactsInv => EveryArtboardAnswered
  BY SnapshotGiven, ArtboardsAnswered DEF FactsInv, DocumentInv, Stages
<1>. QED  BY <1>1, FactsInvariant, PTL

(* The phases pass in order, and every part has the shape that the next    *)
(* one relies on.                                                          *)
THEOREM FactsTypes == Spec => []FactsTypeOK
<1>1. FactsInv => FactsTypeOK
  <2>. SUFFICES ASSUME FactsInv  PROVE FactsTypeOK
    OBVIOUS
  <2>1. IsSnapshot(Snap) /\ Stages /\ ConversionInv /\ Artboards /\ Grouped
    BY SnapshotGiven DEF FactsInv, DocumentInv, Stages
  <2>2. DOMAIN nodes \subseteq Snap.nodes
    BY <2>1 DEF ConversionInv, Kinds
  <2>3. ASSUME NEW k \in DOMAIN rejections  PROVE rejections[k].at \in Snap.nodes \ DOMAIN nodes
    <3>1. rejections[k] \in Rejection
      BY <2>1 DEF ConversionInv, Kinds
    <3>2. rejections[k].at \notin DOMAIN nodes
      BY <2>1 DEF ConversionInv, Ordered, Rejected
    <3>. QED  BY <3>1, <3>2 DEF Rejection
  <2>4. ASSUME NEW e \in members  PROVE IsRoot(e.root) /\ e.root \in DOMAIN nodes
    <3>1. Responsive # None /\ phase # "convert"
      BY <2>1 DEF Artboards, Stages
    <3>2. PICK o \in Seen : e \in MemberOf(o)
      BY <2>1, <3>1 DEF Artboards
    <3>. QED  BY <3>2, AnswerFacts DEF Seen, Roots
  <2>5. \A g \in groups : phase # "grouping" /\ g.members = {e \in members : e.section = g.section}
    <3>1. \A s : GroupOf(s).members = {e \in members : e.section = s}
      BY DEF GroupOf, EntriesOf
    <3>2. \A g \in groups : g = GroupOf(g.section)
      BY <2>1 DEF Grouped
    <3>. QED  BY <2>1, <3>1, <3>2 DEF Stages
  <2>6. phase # "convert" => todo = <<>> /\ DOMAIN facts = {Snap.id[o] : o \in DOMAIN nodes}
    BY <2>1, <2>2, WalkFacts DEF Stages
  <2>. QED  BY <2>1, <2>2, <2>3, <2>4, <2>5, <2>6 DEF FactsTypeOK, Stages, Phases
<1>. QED  BY <1>1, FactsInvariant, PTL

-----------------------------------------------------------------------------
(***************************************************************************)
(* What is below an artboard.                                              *)
(***************************************************************************)

(* The path of a node, by that of the node above it.                       *)
LEMMA NodePathFacts ==
    ASSUME IsSnapshot(Snap), ConversionInv, NEW o \in DOMAIN nodes
    PROVE  /\ o \in Snap.nodes /\ nodes[o].path \in Seq(Nat) /\ nodes[o].path # <<>>
           /\ IsRoot(o) => \E i \in Nat : nodes[o].path = <<i>>
           /\ ~IsRoot(o) => /\ Snap.parent[o] \in DOMAIN nodes
                            /\ nodes[o].path[1] = nodes[Snap.parent[o]].path[1]
<1>1. Kinds /\ Covered /\ Paths
  BY DEF ConversionInv
<1>2. Item(o, nodes[o].path) \in Items
  BY DEF Items
<1>3. o \in Snap.nodes /\ nodes[o].path \in Seq(Nat)
  BY <1>1 DEF Kinds
<1>. DEFINE q == Snap.parent[o]
            above == PathAbove(o)
<1>4. above \in Seq(Nat) /\ (q # NoParent => q \in DOMAIN nodes)
  BY <1>1, <1>2, ItemFacts DEF Item
<1>5. PICK i \in Nat : nodes[o].path = Append(above, i)
  BY <1>1, <1>2 DEF Paths, Item
<1>6. nodes[o].path # <<>>
  BY <1>4, <1>5, PathFacts
<1>7. IsRoot(o) => nodes[o].path = <<i>>
  BY <1>5 DEF IsRoot, PathAbove
<1>8. ASSUME ~IsRoot(o)  PROVE q \in DOMAIN nodes /\ nodes[o].path[1] = nodes[q].path[1]
  <2>1. q \in DOMAIN nodes /\ above = nodes[q].path
    BY <1>4, <1>8 DEF IsRoot, PathAbove
  <2>2. Item(q, nodes[q].path) \in Items
    BY <2>1 DEF Items
  <2>3. PathAbove(q) \in Seq(Nat)
    BY <1>1, <2>2, ItemFacts DEF Item
  <2>4. PICK j \in Nat : nodes[q].path = Append(PathAbove(q), j)
    BY <1>1, <2>2 DEF Paths, Item
  <2>5. nodes[q].path # <<>>
    BY <2>3, <2>4, PathFacts
  <2>. HIDE DEF above
  <2>6. Append(above, i)[1] = above[1]
    BY <1>4, <2>1, <2>5, GrownListFacts
  <2>. QED  BY <1>5, <2>1, <2>6
<1>. QED  BY <1>3, <1>6, <1>7, <1>8

(* Paths that start alike are below one artboard.                          *)
LEMMA SameArtboard ==
    ASSUME IsSnapshot(Snap), ConversionInv, NEW r \in Roots
    PROVE  \A o \in DOMAIN nodes : nodes[o].path[1] = nodes[r].path[1] <=> r \in Chain[o]
<1>. DEFINE same(o) == o \in DOMAIN nodes => (nodes[o].path[1] = nodes[r].path[1] <=> r \in Chain[o])
            T == {o \in Snap.nodes : same(o)}
<1>1. r \in DOMAIN nodes /\ IsRoot(r)
  BY DEF Roots
<1>2. ASSUME NEW o \in Snap.nodes, Snap.parent[o] = NoParent \/ Snap.parent[o] \in T  PROVE o \in T
  <2>. SUFFICES ASSUME o \in DOMAIN nodes
                PROVE  nodes[o].path[1] = nodes[r].path[1] <=> r \in Chain[o]
    OBVIOUS
  <2>1. CASE IsRoot(o)
    <3>1. Chain[o] = {o}
      BY <2>1, ChainFacts DEF IsRoot
    <3>2. PICK i \in Nat : nodes[o].path = <<i>>
      BY <2>1, NodePathFacts
    <3>3. PICK j \in Nat : nodes[r].path = <<j>>
      BY <1>1, NodePathFacts
    <3>4. i = j => o = r
      <4>1. Item(o, nodes[o].path) \in Items /\ Item(r, nodes[r].path) \in Items
        BY <1>1 DEF Items
      <4>. QED  BY <3>2, <3>3, <4>1 DEF ConversionInv, Paths, Item
    <3>. QED  BY <3>1, <3>2, <3>3, <3>4
  <2>2. CASE ~IsRoot(o)
    <3>. DEFINE q == Snap.parent[o]
    <3>1. q \in DOMAIN nodes /\ nodes[o].path[1] = nodes[q].path[1]
      BY <2>2, NodePathFacts
    <3>2. Chain[o] = Chain[q] \cup {o}
      BY <2>2, ChainFacts DEF IsRoot
    <3>3. same(q)
      BY <1>2, <2>2 DEF IsRoot
    <3>4. o # r
      BY <1>1, <2>2
    <3>. QED  BY <3>1, <3>2, <3>3, <3>4
  <2>. QED  BY <2>1, <2>2
<1>. HIDE DEF same
<1>3. T = Snap.nodes
  BY <1>2, ForestInduction
<1>. QED  BY <1>3, NodePathFacts DEF same

(* The name path of a node's key is that of the raw names.                 *)
LEMMA NamesDown ==
    ASSUME IsSnapshot(Snap), ConversionInv
    PROVE  \A o \in DOMAIN nodes : Tail(nodes[o].key.names) = NamePath[o]
<1>. DEFINE names(o) == nodes[o].key.names
            right(o) == o \in DOMAIN nodes => Tail(names(o)) = NamePath[o]
            T == {o \in Snap.nodes : right(o)}
<1>1. ASSUME NEW o \in DOMAIN nodes
      PROVE  /\ o \in Snap.nodes /\ Snap.name[o] \in NamesGiven
             /\ names(o) \in Seq(NamesGiven) /\ names(o) = Append(NamesAbove(o), Snap.name[o])
  BY NodePathFacts DEF ConversionInv, Keys, NamesGiven
<1>2. ASSUME NEW o \in Snap.nodes, Snap.parent[o] = NoParent \/ Snap.parent[o] \in T  PROVE o \in T
  <2>. SUFFICES ASSUME o \in DOMAIN nodes  PROVE Tail(names(o)) = NamePath[o]
    OBVIOUS
  <2>. DEFINE x == Snap.name[o]
  <2>1. CASE IsRoot(o)
    <3>1. NamePath[o] = <<>> /\ names(o) = Append(<<>>, x)
      BY <1>1, <2>1, NamePathFacts DEF IsRoot, NamesAbove
    <3>. QED  BY <3>1
  <2>2. CASE ~IsRoot(o)
    <3>. DEFINE q == Snap.parent[o]
    <3>1. q \in DOMAIN nodes
      BY <2>2, NodePathFacts
    <3>2. NamePath[o] = Append(NamePath[q], x) /\ names(o) = Append(names(q), x)
      BY <1>1, <2>2, NamePathFacts DEF IsRoot, NamesAbove
    <3>3. names(q) \in Seq(NamesGiven) /\ names(q) # <<>>
      <4>1. NamesAbove(q) \in Seq(NamesGiven)
        BY <1>1, <3>1, NodePathFacts DEF NamesAbove, IsRoot
      <4>. QED  BY <1>1, <3>1, <4>1
    <3>4. Tail(names(q)) = NamePath[q]
      BY <1>2, <2>2, <3>1 DEF IsRoot
    <3>. HIDE DEF names
    <3>5. Tail(Append(names(q), x)) = Append(Tail(names(q)), x)
      <4>1. x \in NamesGiven
        BY <1>1
      <4>. HIDE DEF x
      <4>. QED  BY <3>3, <4>1, GrownListFacts
    <3>. QED  BY <3>2, <3>4, <3>5
  <2>. QED  BY <2>1, <2>2
<1>. HIDE DEF right
<1>3. T = Snap.nodes
  BY <1>2, ForestInduction
<1>. QED  BY <1>1, <1>3 DEF right, names

(* What is below an artboard, and has a name path there, by the raw nodes. *)
LEMMA NamedByFacts ==
    ASSUME IsSnapshot(Snap), ConversionInv, NEW r \in Roots
    PROVE  /\ Under(r) = {o \in DOMAIN nodes \ {r} : r \in Chain[o]}
           /\ \A p : /\ NamedBy(p, r) = {o \in DOMAIN nodes \ {r} : r \in Chain[o] /\ NamePath[o] = p}
                     /\ IsFiniteSet(NamedBy(p, r)) /\ Cardinality(NamedBy(p, r)) \in Nat
                     /\ NamedBy(p, r) # {} /\ ~(Cardinality(NamedBy(p, r)) > 1)
                          => Cardinality(NamedBy(p, r)) = 1
<1>1. Under(r) = {o \in DOMAIN nodes \ {r} : r \in Chain[o]}
  BY SameArtboard DEF Under
<1>2. ASSUME NEW p
      PROVE  /\ NamedBy(p, r) = {o \in DOMAIN nodes \ {r} : r \in Chain[o] /\ NamePath[o] = p}
             /\ IsFiniteSet(NamedBy(p, r)) /\ Cardinality(NamedBy(p, r)) \in Nat
             /\ NamedBy(p, r) # {} /\ ~(Cardinality(NamedBy(p, r)) > 1)
                  => Cardinality(NamedBy(p, r)) = 1
  <2>1. NamedBy(p, r) = {o \in DOMAIN nodes \ {r} : r \in Chain[o] /\ NamePath[o] = p}
    BY <1>1, NamesDown DEF NamedBy
  <2>2. NamedBy(p, r) \subseteq Snap.nodes
    BY <2>1 DEF ConversionInv, Kinds
  <2>3. IsFiniteSet(NamedBy(p, r))
    BY <2>2, ForestFacts, FS_Subset
  <2>4. Cardinality(NamedBy(p, r)) \in Nat
    BY <2>3, FS_CardinalityType
  <2>5. Cardinality(NamedBy(p, r)) = 0 <=> NamedBy(p, r) = {}
    BY <2>3, FS_EmptySet
  <2>. QED  BY <2>1, <2>3, <2>4, <2>5
<1>. QED  BY <1>1, <1>2

(* The members of a group are artboards of the document.                   *)
LEMMA MembersAreRoots ==
    ASSUME Stages, Artboards
    PROVE  \A e \in members : e.root \in Roots
<1>. SUFFICES ASSUME NEW e \in members  PROVE e.root \in Roots
  OBVIOUS
<1>1. Responsive # None /\ phase # "convert"
  BY DEF Artboards, Stages
<1>2. PICK o \in Seen : e \in MemberOf(o)
  BY <1>1 DEF Artboards
<1>. QED  BY <1>2, AnswerFacts DEF Seen

(* What is observed for a breakpoint is the last of its artboards.         *)
LEMMA ObservedFacts ==
    ASSUME IsSnapshot(Snap), ConversionInv, Stages, Artboards,
           NEW s, NEW d \in EntriesOf(s)
    PROVE  LET r == Observed(EntriesOf(s), d.breakpoint) IN
           /\ \E e \in EntriesOf(s) : e.breakpoint = d.breakpoint /\ e.root = r
           /\ \A e \in EntriesOf(s) : e.breakpoint = d.breakpoint => e.root <= r
           /\ r \in Roots
<1>. DEFINE entries == EntriesOf(s)
            claims == {e.root : e \in {f \in entries : f.breakpoint = d.breakpoint}}
<1>1. claims \subseteq Roots /\ d.root \in claims
  BY MembersAreRoots DEF EntriesOf
<1>2. Roots \subseteq Snap.nodes
  BY DEF ConversionInv, Kinds, Roots
<1>3. IsFiniteSet(claims)
  <2>. HIDE DEF claims
  <2>. QED  BY <1>1, <1>2, ForestFacts, FS_Subset
<1>4. claims \subseteq Int
  <2>. HIDE DEF claims
  <2>. QED  BY <1>1, <1>2, ForestFacts
<1>5. Max(claims) \in claims /\ \A k \in claims : k <= Max(claims)
  <2>. HIDE DEF claims
  <2>. QED  BY <1>1, <1>3, <1>4, MaxFacts
<1>6. Observed(entries, d.breakpoint) = Max(claims)
  BY DEF Observed
<1>. QED  BY <1>1, <1>5, <1>6

(* A slot is one node of every artboard.                                   *)
LEMMA SlotFacts ==
    ASSUME IsSnapshot(Snap), ConversionInv, Stages, Artboards,
           NEW s, NEW p, p \in PathsOf(EntriesOf(s)),
           AmbiguousIn(p, EntriesOf(s)) = {}, MissingIn(p, EntriesOf(s)) = {}
    PROVE  LET slot == SlotAt(p, EntriesOf(s)) IN
           /\ slot.path = p
           /\ DOMAIN slot.by = {e.breakpoint : e \in EntriesOf(s)}
           /\ \A e \in EntriesOf(s) : Cardinality(NamedBy(p, e.root)) = 1
           /\ \A b \in DOMAIN slot.by : NamedBy(p, Observed(EntriesOf(s), b)) = {slot.by[b]}
<1>. DEFINE entries == EntriesOf(s)
            slot == SlotAt(p, entries)
<1>1. slot.path = p /\ DOMAIN slot.by = {e.breakpoint : e \in entries}
  BY DEF SlotAt
<1>2. \A e \in entries : Cardinality(NamedBy(p, e.root)) = 1
  <2>. SUFFICES ASSUME NEW e \in entries  PROVE Cardinality(NamedBy(p, e.root)) = 1
    OBVIOUS
  <2>1. e.root \in Roots
    BY MembersAreRoots DEF EntriesOf
  <2>2. NamedBy(p, e.root) # {} /\ ~(Cardinality(NamedBy(p, e.root)) > 1)
    BY DEF AmbiguousIn, MissingIn
  <2>. QED  BY <2>1, <2>2, NamedByFacts
<1>3. ASSUME NEW b \in DOMAIN slot.by  PROVE NamedBy(p, Observed(entries, b)) = {slot.by[b]}
  <2>1. PICK d \in entries : d.breakpoint = b
    BY <1>1
  <2>. DEFINE r == Observed(entries, b)
  <2>2. PICK e \in entries : e.root = r
    BY <2>1, ObservedFacts
  <2>3. Cardinality(NamedBy(p, r)) = 1 /\ r \in Roots
    BY <1>2, <2>2, MembersAreRoots DEF EntriesOf
  <2>4. IsFiniteSet(NamedBy(p, r))
    BY <2>3, NamedByFacts
  <2>5. PICK x : NamedBy(p, r) = {x}
    BY <2>3, <2>4, FS_Singleton
  <2>6. slot.by[b] = CHOOSE o \in NamedBy(p, r) : TRUE
    BY <1>1 DEF SlotAt
  <2>. QED  BY <2>5, <2>6
<1>. QED  BY <1>1, <1>2, <1>3

(* An artboard that is not observed is named by a diagnostic.              *)
LEMMA UnobservedIsTold ==
    ASSUME IsSnapshot(Snap), ConversionInv, Stages, Artboards,
           NEW s, NEW e \in EntriesOf(s), e.root # Observed(EntriesOf(s), e.breakpoint)
    PROVE  \E d \in Rivals(EntriesOf(s)) :
              /\ d.reason = "AMBIGUOUS_NODE_MATCH"
              /\ d.about = <<"breakpoint", e.breakpoint>> /\ e.root \in d.roots
<1>. DEFINE entries == EntriesOf(s)
            later == {f \in entries : f.breakpoint = e.breakpoint /\ e.root < f.root}
            roots == {f.root : f \in later}
<1>1. \A f \in entries : f.root \in Nat
  <2>1. Roots \subseteq Nat
    BY ForestFacts DEF Roots, ConversionInv, Kinds
  <2>. QED  BY <2>1, MembersAreRoots DEF EntriesOf
<1>2. PICK f \in entries : f.breakpoint = e.breakpoint /\ f.root = Observed(entries, e.breakpoint)
  BY ObservedFacts
<1>3. e.root <= f.root /\ e.root # f.root
  BY <1>2, ObservedFacts
<1>4. roots \subseteq Nat /\ roots # {}
  <2>1. e.root < f.root
    BY <1>1, <1>3
  <2>2. f \in later
    BY <1>2, <2>1
  <2>. QED  BY <1>1, <2>2
<1>5. PICK m \in roots : \A k \in roots : m <= k
  <2>. HIDE DEF roots
  <2>. QED  BY <1>4, LeastNatural
<1>6. PICK g \in later : g.root = m
  BY <1>5
<1>7. ~\E h \in entries : /\ h.breakpoint = e.breakpoint
                          /\ e.root < h.root /\ h.root < g.root
  <2>. SUFFICES ASSUME NEW h \in entries, h.breakpoint = e.breakpoint, e.root < h.root, h.root < g.root
                PROVE  FALSE
    OBVIOUS
  <2>1. g.root <= h.root
    BY <1>5, <1>6
  <2>2. g.root \in Nat /\ h.root \in Nat
    BY <1>1
  <2>. QED  BY <2>1, <2>2
<1>. DEFINE d == Diagnostic("AMBIGUOUS_NODE_MATCH", <<"breakpoint", e.breakpoint>>, {e.root, g.root})
            t == <<e, g>>
<1>8. t \in entries \X entries /\ t[1] = e /\ t[2] = g
  BY <1>6
<1>9. e.breakpoint = g.breakpoint /\ e.root < g.root
  BY <1>6
<1>10. d \in Rivals(entries)
  <2>. HIDE DEF t
  <2>1. t \in {u \in entries \X entries :
                 /\ u[1].breakpoint = u[2].breakpoint /\ u[1].root < u[2].root
                 /\ ~\E h \in entries : /\ h.breakpoint = u[1].breakpoint
                                        /\ u[1].root < h.root /\ h.root < u[2].root}
    BY <1>7, <1>8, <1>9
  <2>. QED  BY <1>8, <2>1 DEF Rivals
<1>. QED  BY <1>10 DEF Diagnostic

(* What a slot says of the artboards holds of the raw nodes.               *)
LEMMA SlotsHold ==
    ASSUME IsSnapshot(Snap), ConversionInv, Stages, Artboards, Grouped
    PROVE  SlotsAreCertain
<1>. DEFINE at(path, r) == {o \in DOMAIN nodes \ {r} : r \in Chain[o] /\ NamePath[o] = path}
<1>. SUFFICES ASSUME NEW g \in groups, NEW s \in g.slots
              PROVE  /\ \A e \in g.members : Cardinality(at(s.path, e.root)) = 1
                     /\ \A b \in DOMAIN s.by :
                          \E e \in g.members : e.breakpoint = b /\ at(s.path, e.root) = {s.by[b]}
                     /\ \A e \in g.members :
                          \/ at(s.path, e.root) = {s.by[e.breakpoint]}
                          \/ \E d \in diagnostics : /\ d.reason = "AMBIGUOUS_NODE_MATCH"
                                                    /\ d.about = <<"breakpoint", e.breakpoint>> /\ e.root \in d.roots
  BY DEF SlotsAreCertain
<1>. DEFINE entries == EntriesOf(g.section)
<1>1. g = GroupOf(g.section) /\ ReportOf(g.section) \subseteq diagnostics
  BY DEF Grouped
<1>2. g.members = entries /\ g.slots = Slots(entries)
  <2>1. \A x : GroupOf(x).members = EntriesOf(x) /\ GroupOf(x).slots = Slots(EntriesOf(x))
    BY DEF GroupOf
  <2>. QED  BY <1>1, <2>1
<1>3. PICK p \in PathsOf(entries) :
        AmbiguousIn(p, entries) = {} /\ MissingIn(p, entries) = {} /\ s = SlotAt(p, entries)
  BY <1>2 DEF Slots
<1>4. /\ s.path = p /\ DOMAIN s.by = {e.breakpoint : e \in entries}
      /\ \A e \in entries : Cardinality(NamedBy(p, e.root)) = 1
      /\ \A b \in DOMAIN s.by : NamedBy(p, Observed(entries, b)) = {s.by[b]}
  BY <1>3, SlotFacts
<1>5. \A e \in entries : e.root \in Roots /\ at(p, e.root) = NamedBy(p, e.root)
  BY MembersAreRoots, NamedByFacts DEF EntriesOf
<1>. HIDE DEF at
<1>6. \A e \in entries : Cardinality(at(p, e.root)) = 1
  BY <1>4, <1>5
<1>7. ASSUME NEW b \in DOMAIN s.by
      PROVE  \E e \in entries : e.breakpoint = b /\ at(p, e.root) = {s.by[b]}
  <2>1. PICK d \in entries : d.breakpoint = b
    BY <1>4
  <2>2. PICK e \in entries : e.breakpoint = b /\ e.root = Observed(entries, b)
    BY <2>1, ObservedFacts
  <2>. QED  BY <1>4, <1>5, <2>2
<1>8. ASSUME NEW e \in entries
      PROVE  \/ at(p, e.root) = {s.by[e.breakpoint]}
             \/ \E d \in diagnostics : /\ d.reason = "AMBIGUOUS_NODE_MATCH"
                                       /\ d.about = <<"breakpoint", e.breakpoint>> /\ e.root \in d.roots
  <2>1. CASE e.root = Observed(entries, e.breakpoint)
    BY <1>4, <1>5, <2>1
  <2>2. CASE e.root # Observed(entries, e.breakpoint)
    <3>1. PICK d \in Rivals(entries) : /\ d.reason = "AMBIGUOUS_NODE_MATCH"
                                       /\ d.about = <<"breakpoint", e.breakpoint>> /\ e.root \in d.roots
      BY <2>2, UnobservedIsTold
    <3>2. d \in diagnostics
      BY <1>1 DEF ReportOf
    <3>. QED  BY <3>1, <3>2
  <2>. QED  BY <2>1, <2>2
<1>. HIDE DEF entries
<1>. QED  BY <1>2, <1>4, <1>6, <1>7, <1>8

(* Every name path below the artboards of a group is a slot or reported.   *)
LEMMA PathsAnswered ==
    ASSUME IsSnapshot(Snap), ConversionInv, Stages, Artboards, Grouped
    PROVE  EveryPathAnswered
<1>. SUFFICES ASSUME NEW g \in groups
              PROVE  LET roots == {e.root : e \in g.members}
                         below == {o \in DOMAIN nodes \ roots : Chain[o] \cap roots # {}}
                     IN /\ Cardinality(g.slots) + g.unresolved = Cardinality({NamePath[o] : o \in below})
                        /\ \A o \in below :
                             \/ \E s \in g.slots : s.path = NamePath[o]
                             \/ \E d \in diagnostics :
                                  d.about = <<"path", NamePath[o]>> /\ d.roots # {} /\ d.roots \subseteq roots
  BY DEF EveryPathAnswered
<1>. DEFINE entries == EntriesOf(g.section)
            roots == {e.root : e \in g.members}
            below == {o \in DOMAIN nodes \ roots : Chain[o] \cap roots # {}}
            paths == PathsOf(entries)
            certain == {q \in paths : AmbiguousIn(q, entries) = {} /\ MissingIn(q, entries) = {}}
            open == {q \in paths : AmbiguousIn(q, entries) # {} \/ MissingIn(q, entries) # {}}
            report(p) ==
              IF AmbiguousIn(p, entries) # {}
              THEN Diagnostic("AMBIGUOUS_NODE_MATCH", <<"path", p>>, {e.root : e \in AmbiguousIn(p, entries)})
              ELSE Diagnostic("UNKNOWN_GROUPING", <<"path", p>>, {e.root : e \in MissingIn(p, entries)})
<1>1. g = GroupOf(g.section) /\ ReportOf(g.section) \subseteq diagnostics
  BY DEF Grouped
<1>2. g.members = entries /\ g.slots = Slots(entries) /\ g.unresolved = Cardinality(Unresolved(entries))
  <2>1. \A x : /\ GroupOf(x).members = EntriesOf(x) /\ GroupOf(x).slots = Slots(EntriesOf(x))
               /\ GroupOf(x).unresolved = Cardinality(Unresolved(EntriesOf(x)))
    BY DEF GroupOf
  <2>. QED  BY <1>1, <2>1
<1>3. \A e \in entries : /\ e.root \in Roots
                         /\ Under(e.root) = {o \in DOMAIN nodes \ {e.root} : e.root \in Chain[o]}
  BY MembersAreRoots, NamedByFacts DEF EntriesOf
<1>4. \A o : o \in below <=> \E e \in entries : o \in Under(e.root)
  <2>1. ASSUME NEW o \in below  PROVE \E e \in entries : o \in Under(e.root)
    BY <1>2, <1>3
  <2>2. ASSUME NEW e \in entries, NEW o \in Under(e.root)  PROVE o \in below
    <3>1. o \in DOMAIN nodes /\ o # e.root /\ e.root \in Chain[o] /\ o \in Snap.nodes
      BY <1>3 DEF ConversionInv, Kinds
    <3>2. o \notin Roots
      <4>1. ASSUME o \in Roots  PROVE FALSE
        <5>1. Chain[o] = {o}
          BY <3>1, <4>1, ChainFacts DEF Roots, IsRoot
        <5>. QED  BY <3>1, <5>1
      <4>. QED  BY <4>1
    <3>3. e.root \in roots /\ o \notin roots
      BY <1>2, <1>3, <3>2
    <3>. QED  BY <3>1, <3>3
  <2>. QED  BY <2>1, <2>2
<1>5. {NamePath[o] : o \in below} = paths
  <2>1. \A e \in entries : \A o \in Under(e.root) : Tail(nodes[o].key.names) = NamePath[o]
    BY <1>3, NamesDown
  <2>2. \A x : x \in paths <=> \E e \in entries : \E o \in Under(e.root) : x = Tail(nodes[o].key.names)
    BY SMTT(30) DEF PathsOf
  <2>. HIDE DEF below, entries, paths
  <2>3. ASSUME NEW x \in paths  PROVE \E o \in below : x = NamePath[o]
    <3>1. PICK e \in entries : \E o \in Under(e.root) : x = Tail(nodes[o].key.names)
      BY <2>2
    <3>2. PICK o \in Under(e.root) : x = Tail(nodes[o].key.names)
      BY <3>1
    <3>. QED  BY <1>4, <2>1, <3>2
  <2>4. ASSUME NEW o \in below  PROVE NamePath[o] \in paths
    <3>1. PICK e \in entries : o \in Under(e.root)
      BY <1>4
    <3>2. Tail(nodes[o].key.names) = NamePath[o]
      BY <2>1, <3>1
    <3>. QED  BY <2>2, <3>1, <3>2
  <2>. QED  BY <2>3, <2>4
<1>6. IsFiniteSet(paths)
  <2>. DEFINE f == [o \in below |-> NamePath[o]]
  <2>1. below \subseteq Snap.nodes
    BY DEF ConversionInv, Kinds
  <2>2. /\ \A o \in below : f[o] \in paths
        /\ \A p \in paths : \E o \in below : p = f[o]
    BY <1>5
  <2>3. IsFiniteSet(below)
    BY <2>1, ForestFacts, FS_Subset
  <2>. HIDE DEF f, below, paths
  <2>. QED  BY <2>2, <2>3, FiniteImage, Zenon
<1>7. IsFiniteSet(certain) /\ IsFiniteSet(open)
  BY <1>6, FS_Subset
<1>8. certain \cup open = paths /\ certain \cap open = {}
  OBVIOUS
<1>9. Cardinality(Slots(entries)) = Cardinality(certain) /\ Cardinality(certain) \in Nat
  <2>. DEFINE f == [p \in certain |-> SlotAt(p, entries)]
              T == Slots(entries)
  <2>1. /\ \A p \in certain : f[p] \in T
        /\ \A t \in T : \E p \in certain : t = f[p]
    BY DEF Slots
  <2>2. \A p, q \in certain : f[p] = f[q] => p = q
    <3>1. \A p : SlotAt(p, entries).path = p
      BY DEF SlotAt
    <3>. QED  BY <3>1
  <2>3. IsFiniteSet(certain)
    BY <1>7
  <2>. HIDE DEF f, certain, T
  <2>4. Cardinality(T) = Cardinality(certain) /\ Cardinality(certain) \in Nat
    BY <2>1, <2>2, <2>3, ImageSize, ZenonT(60)
  <2>. QED  BY <2>4 DEF T
<1>10. Cardinality(Unresolved(entries)) = Cardinality(open) /\ Cardinality(open) \in Nat
  <2>. DEFINE f == [p \in open |-> report(p)]
              T == Unresolved(entries)
  <2>1. /\ \A p \in open : f[p] \in T
        /\ \A t \in T : \E p \in open : t = f[p]
    BY DEF Unresolved
  <2>2. \A p, q \in open : f[p] = f[q] => p = q
    <3>1. \A p : report(p).about = <<"path", p>>
      BY DEF Diagnostic
    <3>. HIDE DEF report
    <3>2. \A p, q : <<"path", p>> = <<"path", q>> => p = q
      OBVIOUS
    <3>. QED  BY <3>1, <3>2
  <2>3. IsFiniteSet(open)
    BY <1>7
  <2>. HIDE DEF f, open, T
  <2>4. Cardinality(T) = Cardinality(open) /\ Cardinality(open) \in Nat
    BY <2>1, <2>2, <2>3, ImageSize, ZenonT(60)
  <2>. QED  BY <2>4 DEF T
<1>11. Cardinality(paths) = Cardinality(certain) + Cardinality(open)
  <2>. HIDE DEF certain, open, paths
  <2>1. Cardinality(certain \cup open) = Cardinality(certain) + Cardinality(open) - Cardinality(certain \cap open)
    BY <1>7, FS_Union
  <2>2. Cardinality(certain \cap open) = 0
    BY <1>8, FS_EmptySet
  <2>3. \A a, b \in Nat : a + b - 0 = a + b
    OBVIOUS
  <2>. QED  BY <1>8, <1>9, <1>10, <2>1, <2>2, <2>3
<1>12. ASSUME NEW o \in below
       PROVE  \/ \E s \in g.slots : s.path = NamePath[o]
              \/ \E d \in diagnostics :
                   d.about = <<"path", NamePath[o]>> /\ d.roots # {} /\ d.roots \subseteq roots
  <2>. DEFINE p == NamePath[o]
  <2>1. p \in certain \/ p \in open
    BY <1>5
  <2>2. CASE p \in certain
    <3>1. SlotAt(p, entries) \in Slots(entries) /\ SlotAt(p, entries).path = p
      BY <2>2 DEF Slots, SlotAt
    <3>. QED  BY <1>2, <3>1
  <2>3. CASE p \in open
    <3>1. report(p) \in Unresolved(entries)
      BY <2>3 DEF Unresolved
    <3>2. report(p) \in diagnostics
      BY <1>1, <3>1 DEF ReportOf
    <3>3. AmbiguousIn(p, entries) \subseteq entries /\ MissingIn(p, entries) \subseteq entries
      BY DEF AmbiguousIn, MissingIn
    <3>4. report(p).about = <<"path", p>> /\ report(p).roots # {} /\ report(p).roots \subseteq roots
      <4>1. CASE AmbiguousIn(p, entries) # {}
        BY <1>2, <3>3, <4>1 DEF Diagnostic
      <4>2. CASE AmbiguousIn(p, entries) = {} /\ MissingIn(p, entries) # {}
        BY <1>2, <3>3, <4>2 DEF Diagnostic
      <4>. QED  BY <2>3, <4>1, <4>2
    <3>. HIDE DEF report
    <3>. QED  BY <3>2, <3>4
  <2>. QED  BY <2>1, <2>2, <2>3
<1>. HIDE DEF below, paths, certain, open, entries, roots
<1>13. Cardinality(g.slots) + g.unresolved = Cardinality({NamePath[o] : o \in below})
  BY <1>2, <1>5, <1>9, <1>10, <1>11
<1>. QED  BY <1>12, <1>13 DEF below, roots

(* deriveResponsiveGroups: a slot is certain, and what is not is reported. *)
THEOREM GroupsAnswered == Spec => []GroupsAreAnswered
<1>1. FactsInv => GroupsAreAnswered
  BY SnapshotGiven, SlotsHold, PathsAnswered DEF FactsInv, DocumentInv, Stages, GroupsAreAnswered
<1>. QED  BY <1>1, FactsInvariant, PTL

-----------------------------------------------------------------------------
(***************************************************************************)
(* The ruleset and the report.                                             *)
(***************************************************************************)
EntryAt(k) == LoadedEntry(Ruleset[k])
LoadedEntries == {EntryAt(k) : k \in DOMAIN Ruleset}
Done == {applied[k] : k \in DOMAIN applied}

Finding(entry, f) ==
    [rule |-> entry.use, severity |-> entry.severity, target |-> f.target, ids |-> f.ids]

(* The entries that were loaded are the first of the ruleset, and those    *)
(* that were evaluated are the first of them.                              *)
Evaluated ==
    /\ loaded \in Seq(LoadedEntries) /\ Len(loaded) <= Len(Ruleset)
    /\ \A k \in DOMAIN loaded : Acceptable(k) /\ loaded[k] = EntryAt(k)
    /\ applied \in Seq(LoadedEntries) /\ Len(applied) <= Len(loaded)
    /\ \A k \in DOMAIN applied : applied[k] = loaded[k]
    /\ \A entry \in Done : ~Undeclared(entry)

(* How far they have come, by the phase.                                   *)
Progress ==
    /\ phase \in {"convert", "grouping", "grouped"} => loaded = <<>>
    /\ phase \notin {"loaded", "reported", "refused"} => applied = <<>> /\ findings = {}
    /\ phase \in {"loaded", "reported"} => Len(loaded) = Len(Ruleset)
    /\ phase = "reported" => Len(applied) = Len(loaded)

(* The findings are what the evaluated entries find, unless the run was    *)
(* refused.                                                                *)
Reported ==
    /\ phase = "refused" => findings = {}
    /\ phase # "refused" =>
         \A f : f \in findings <=>
                  \E entry \in Done : \E x \in Evaluate(entry) : f = Finding(entry, x)

ReportInv == Evaluated /\ Progress /\ Reported

(* A ruleset is a list of entries.                                         *)
LEMMA RulesetFacts ==
    ASSUME input \in Inputs
    PROVE  Len(Ruleset) \in Nat /\ DOMAIN Ruleset = 1..Len(Ruleset)
<1>1. Ruleset \in Seq({Ruleset[k] : k \in DOMAIN Ruleset})
  BY RulesetsAssumption DEF Ruleset
<1>. DEFINE r == Ruleset
            S == {Ruleset[k] : k \in DOMAIN Ruleset}
<1>. HIDE DEF r, S
<1>2. r \in Seq(S)
  BY <1>1 DEF r, S
<1>3. Len(r) \in Nat /\ DOMAIN r = 1..Len(r)
  BY <1>2
<1>. QED  BY <1>3 DEF r

(* What is evaluated and accepted depends on the ruleset, the document and *)
(* the facts alone.                                                        *)
LEMMA EvaluationReadsOnly ==
    ASSUME UNCHANGED <<input, nodes, facts, members, groups>>
    PROVE  /\ \A entry : Evaluate(entry)' = Evaluate(entry) /\ Undeclared(entry)' = Undeclared(entry)
           /\ \A k : Acceptable(k)' = Acceptable(k) /\ EntryAt(k)' = EntryAt(k)
           /\ Ruleset' = Ruleset /\ LoadedEntries' = LoadedEntries
<1>1. /\ Snap' = Snap /\ Responsive' = Responsive /\ Ruleset' = Ruleset /\ input' = input
      /\ nodes' = nodes /\ facts' = facts /\ members' = members /\ groups' = groups
  BY DEF Snap, Responsive, Ruleset
<1>2. /\ \A s : Texts(s)' = Texts(s) /\ Parsed(s)' = Parsed(s)
      /\ \A i, names : Leaf(i, names)' = Leaf(i, names)
      /\ \A o : RenderedBelow(o)' = RenderedBelow(o)
  BY <1>1 DEF Texts, Parsed, Leaf, RenderedBelow
<1>3. TextStyles' = TextStyles /\ \A s : Fonts(s)' = Fonts(s)
  BY <1>1, <1>2 DEF TextStyles, Fonts
<1>4. \A params : TextStyleName(params)' = TextStyleName(params)
  BY <1>1, <1>2, <1>3 DEF TextStyleName, Found, Target
<1>5. \A params, s : ExemptFont(params, s)' = ExemptFont(params, s)
  BY <1>2 DEF ExemptFont
<1>6. \A params : FontConsistency(params)' = FontConsistency(params)
  BY <1>1, <1>2, <1>3, <1>5 DEF FontConsistency, Found, Target
<1>7. \A params : ArtboardWidth(params)' = ArtboardWidth(params)
  BY <1>1 DEF ArtboardWidth, Found, Target
<1>8. \A params : GroupCompleteness(params)' = GroupCompleteness(params)
  BY <1>1 DEF GroupCompleteness, Found, Target
<1>9. \A o, items : CountItems(o, items)' = CountItems(o, items)
  BY <1>1, <1>2 DEF CountItems
<1>10. \A params : ItemCount(params)' = ItemCount(params)
  BY <1>1, <1>9 DEF ItemCount, Found, Target, SlotTarget
<1>11. DocumentRoots' = DocumentRoots
  BY <1>1 DEF DocumentRoots, IsRoot
<1>12. \A params : ContentRoot(params)' = ContentRoot(params)
  BY <1>1, <1>2, <1>11 DEF ContentRoot, Found, Target
<1>13. \A entry : Evaluate(entry)' = Evaluate(entry)
  BY <1>4, <1>6, <1>7, <1>8, <1>10, <1>12 DEF Evaluate
<1>14. \A entry : Undeclared(entry)' = Undeclared(entry)
  BY <1>1 DEF Undeclared
<1>15. \A k : Acceptable(k)' = Acceptable(k)
  BY <1>1 DEF Acceptable, DefaultSeverity
<1>16. \A k : EntryAt(k)' = EntryAt(k)
  BY <1>1 DEF EntryAt, LoadedEntry, DefaultSeverity
<1>17. LoadedEntries' = LoadedEntries
  BY <1>1, <1>16 DEF LoadedEntries
<1>. QED  BY <1>1, <1>13, <1>14, <1>15, <1>16, <1>17

(* Before the ruleset there is nothing to evaluate.                        *)
LEMMA NothingLoaded ==
    ASSUME input \in Inputs, phase \in Phases, loaded = <<>>, applied = <<>>, findings = {},
           phase \notin {"loaded", "reported", "refused"}
    PROVE  ReportInv
<1>1. <<>> \in Seq(LoadedEntries) /\ Len(<<>>) = 0 /\ DOMAIN <<>> = {} /\ Done = {}
  BY DEF Done
<1>2. Evaluated
  BY <1>1, RulesetFacts DEF Evaluated
<1>3. Progress /\ Reported
  BY <1>1 DEF Progress, Reported
<1>. QED  BY <1>2, <1>3 DEF ReportInv

(* One more entry that is accepted.                                        *)
LEMMA EntryLoaded ==
    ASSUME input \in Inputs, ReportInv, LoadEntry
    PROVE  ReportInv'
<1>. DEFINE k == Len(loaded) + 1
            entry == EntryAt(k)
<1>1. /\ phase = "derived" /\ phase' = "derived" /\ k <= Len(Ruleset) /\ Acceptable(k)
      /\ loaded' = Append(loaded, entry) /\ applied' = applied /\ findings' = findings
  BY DEF LoadEntry, canonicalVars, EntryAt
<1>2. /\ \A x : Acceptable(x)' = Acceptable(x) /\ EntryAt(x)' = EntryAt(x)
      /\ Ruleset' = Ruleset /\ LoadedEntries' = LoadedEntries
  BY EvaluationReadsOnly DEF LoadEntry, canonicalVars, factsVars
<1>3. applied = <<>> /\ findings = {}
  BY <1>1 DEF ReportInv, Progress
<1>4. /\ loaded \in Seq(LoadedEntries) /\ Len(loaded) \in Nat /\ DOMAIN loaded = 1..Len(loaded)
      /\ \A j \in DOMAIN loaded : Acceptable(j) /\ loaded[j] = EntryAt(j)
  BY DEF ReportInv, Evaluated
<1>5. k \in DOMAIN Ruleset /\ entry \in LoadedEntries
  BY <1>1, <1>4, RulesetFacts DEF LoadedEntries
<1>. HIDE DEF entry
<1>6. /\ loaded' \in Seq(LoadedEntries) /\ Len(loaded') = k /\ DOMAIN loaded' = 1..k
      /\ \A j \in 1..k : loaded'[j] = IF j = k THEN entry ELSE loaded[j]
  BY <1>1, <1>4, <1>5
<1>7. ASSUME NEW j \in 1..k  PROVE Acceptable(j) /\ loaded'[j] = EntryAt(j)
  <2>1. CASE j = k
    BY <1>1, <1>6, <2>1 DEF entry
  <2>2. CASE j # k
    <3>1. j \in DOMAIN loaded
      BY <1>4, <2>2
    <3>. QED  BY <1>4, <1>6, <2>2, <3>1
  <2>. QED  BY <2>1, <2>2
<1>8. \A j \in DOMAIN loaded' : Acceptable(j)' /\ loaded'[j] = EntryAt(j)'
  BY <1>2, <1>6, <1>7
<1>9. applied' \in Seq(LoadedEntries') /\ Len(applied') = 0 /\ DOMAIN applied' = {} /\ Done' = {}
  BY <1>1, <1>3 DEF Done
<1>10. loaded' \in Seq(LoadedEntries') /\ Len(loaded') <= Len(Ruleset') /\ Len(applied') <= Len(loaded')
  BY <1>1, <1>2, <1>4, <1>6, <1>9
<1>11. Evaluated'
  BY <1>8, <1>9, <1>10 DEF Evaluated
<1>12. Progress' /\ Reported'
  BY <1>1, <1>3, <1>9 DEF Progress, Reported
<1>. QED  BY <1>11, <1>12 DEF ReportInv

(* One more entry that is evaluated.                                       *)
LEMMA EntryEvaluated ==
    ASSUME input \in Inputs, ReportInv, EvaluateRule
    PROVE  ReportInv'
<1>. DEFINE k == Len(applied) + 1
            new == loaded[k]
<1>1. /\ phase = "loaded" /\ phase' = "loaded" /\ Len(applied) < Len(loaded) /\ ~Undeclared(new)
      /\ applied' = Append(applied, new) /\ loaded' = loaded
      /\ findings' = findings \cup {Finding(new, f) : f \in Evaluate(new)}
  BY DEF EvaluateRule, canonicalVars, Finding
<1>2. /\ \A x : Evaluate(x)' = Evaluate(x) /\ Undeclared(x)' = Undeclared(x)
      /\ \A x : Acceptable(x)' = Acceptable(x) /\ EntryAt(x)' = EntryAt(x)
      /\ Ruleset' = Ruleset /\ LoadedEntries' = LoadedEntries
  BY EvaluationReadsOnly DEF EvaluateRule, canonicalVars, factsVars
<1>3. /\ loaded \in Seq(LoadedEntries) /\ Len(loaded) \in Nat /\ DOMAIN loaded = 1..Len(loaded)
      /\ Len(loaded) <= Len(Ruleset) /\ \A j \in DOMAIN loaded : Acceptable(j) /\ loaded[j] = EntryAt(j)
      /\ applied \in Seq(LoadedEntries) /\ Len(applied) \in Nat /\ DOMAIN applied = 1..Len(applied)
      /\ \A j \in DOMAIN applied : applied[j] = loaded[j]
      /\ \A entry \in Done : ~Undeclared(entry)
  BY DEF ReportInv, Evaluated
<1>4. \A f : f \in findings <=> \E entry \in Done : \E x \in Evaluate(entry) : f = Finding(entry, x)
  BY <1>1 DEF ReportInv, Reported
<1>5. k \in DOMAIN loaded /\ new \in LoadedEntries
  BY <1>1, <1>3
<1>6. /\ applied' \in Seq(LoadedEntries) /\ Len(applied') = k /\ DOMAIN applied' = DOMAIN applied \cup {k}
      /\ applied'[k] = new /\ \A j \in DOMAIN applied : applied'[j] = applied[j]
  <2>. HIDE DEF new
  <2>. QED  BY <1>1, <1>3, <1>5
<1>7. \A j \in DOMAIN applied' : applied'[j] = loaded'[j]
  <2>1. \A j \in DOMAIN applied' : j = k \/ j \in DOMAIN applied
    BY <1>6
  <2>. QED  BY <1>1, <1>3, <1>6, <2>1
<1>. HIDE DEF new
<1>8. Done' = Done \cup {new}
  BY <1>6 DEF Done
<1>9. \A entry \in Done' : ~Undeclared(entry)'
  BY <1>1, <1>2, <1>3, <1>8
<1>10. Evaluated'
  <2>1. \A j \in DOMAIN loaded' : Acceptable(j)' /\ loaded'[j] = EntryAt(j)'
    BY <1>1, <1>2, <1>3
  <2>2. loaded' \in Seq(LoadedEntries') /\ Len(loaded') <= Len(Ruleset') /\ applied' \in Seq(LoadedEntries')
    BY <1>1, <1>2, <1>3, <1>6
  <2>3. Len(applied') <= Len(loaded')
    BY <1>1, <1>3, <1>6
  <2>. QED  BY <1>7, <1>9, <2>1, <2>2, <2>3 DEF Evaluated
<1>11. \A f : f \in findings' <=> \E entry \in Done' : \E x \in Evaluate(entry)' : f = Finding(entry, x)
  <2>1. \A f : f \in findings' <=> f \in findings \/ \E x \in Evaluate(new) : f = Finding(new, x)
    BY <1>1
  <2>2. \A f : f \in findings' <=> \E entry \in Done' : \E x \in Evaluate(entry) : f = Finding(entry, x)
    BY <1>4, <1>8, <2>1
  <2>. QED  BY <1>2, <2>2
<1>12. Reported'
  BY <1>1, <1>11 DEF Reported, Finding
<1>13. Progress'
  BY <1>1, <1>2 DEF Progress, ReportInv
<1>. QED  BY <1>10, <1>12, <1>13 DEF ReportInv

(* A step that loads and evaluates nothing.                                *)
LEMMA ReportStays ==
    ASSUME ReportInv, UNCHANGED <<input, nodes, facts, members, groups, loaded, applied>>
    PROVE  /\ Evaluated'
           /\ Done' = Done
           /\ findings' = findings /\ (phase' # "refused" => phase # "refused") /\ (phase' = "refused" => findings' = {})
                => Reported'
<1>1. /\ \A x : Evaluate(x)' = Evaluate(x) /\ Undeclared(x)' = Undeclared(x)
      /\ \A x : Acceptable(x)' = Acceptable(x) /\ EntryAt(x)' = EntryAt(x)
      /\ Ruleset' = Ruleset /\ LoadedEntries' = LoadedEntries
  BY EvaluationReadsOnly
<1>2. Done' = Done
  BY DEF Done
<1>3. /\ loaded \in Seq(LoadedEntries) /\ Len(loaded) <= Len(Ruleset)
      /\ \A k \in DOMAIN loaded : Acceptable(k) /\ loaded[k] = EntryAt(k)
      /\ applied \in Seq(LoadedEntries) /\ Len(applied) <= Len(loaded)
      /\ \A k \in DOMAIN applied : applied[k] = loaded[k]
      /\ \A entry \in Done : ~Undeclared(entry)
  BY DEF ReportInv, Evaluated
<1>4. /\ \A k \in DOMAIN loaded' : Acceptable(k)' /\ loaded'[k] = EntryAt(k)'
      /\ \A k \in DOMAIN applied' : applied'[k] = loaded'[k]
      /\ \A entry \in Done' : ~Undeclared(entry)'
  BY <1>1, <1>2, <1>3
<1>5. loaded' \in Seq(LoadedEntries') /\ Len(loaded') <= Len(Ruleset')
      /\ applied' \in Seq(LoadedEntries') /\ Len(applied') <= Len(loaded')
  BY <1>1, <1>3
<1>6. Evaluated'
  BY <1>4, <1>5 DEF Evaluated
<1>7. ASSUME findings' = findings, phase' # "refused" => phase # "refused", phase' = "refused" => findings' = {}
      PROVE  Reported'
  <2>1. CASE phase' = "refused"
    BY <1>7, <2>1 DEF Reported
  <2>2. CASE phase' # "refused"
    <3>1. \A f : f \in findings <=> \E entry \in Done : \E x \in Evaluate(entry) : f = Finding(entry, x)
      BY <1>7, <2>2 DEF ReportInv, Reported
    <3>2. \A f : f \in findings' <=> \E entry \in Done' : \E x \in Evaluate(entry)' : f = Finding(entry, x)
      BY <1>1, <1>2, <1>7, <3>1
    <3>. QED  BY <2>2, <3>2 DEF Reported, Finding
  <2>. QED  BY <2>1, <2>2
<1>. QED  BY <1>2, <1>6, <1>7

(* Every step keeps what is known of the ruleset and the report.           *)
LEMMA ReportKept ==
    ASSUME Stages, Stages', ReportInv, [Next]_vars
    PROVE  ReportInv'
<1>1. CASE UNCHANGED vars
  <2>1. /\ UNCHANGED <<input, nodes, facts, members, groups, loaded, applied>>
        /\ phase' = phase /\ findings' = findings /\ Ruleset' = Ruleset
    BY <1>1 DEF vars, canonicalVars, factsVars, rulesVars, Ruleset
  <2>2. Evaluated' /\ Reported'
    BY <2>1, ReportStays DEF ReportInv, Reported
  <2>3. Progress'
    BY <2>1 DEF ReportInv, Progress
  <2>. QED  BY <2>2, <2>3 DEF ReportInv
<1>2. CASE Derive
  <2>1. /\ phase \in {"convert", "grouping", "grouped"} /\ phase' \in {"convert", "grouping", "grouped", "derived"}
        /\ loaded' = loaded /\ applied' = applied /\ findings' = findings
    BY <1>2 DEF Derive, DeriveFacts, Convert, ConvertNode, RejectNode, DeriveNodes, GroupDeclared, GroupByName,
                RefuseName, PassOver, ReportUnseen, DeriveGroup, FinishGroups, canonicalVars, rulesVars
  <2>2. loaded = <<>> /\ applied = <<>> /\ findings = {}
    BY <2>1 DEF ReportInv, Progress
  <2>3. loaded' = <<>> /\ applied' = <<>> /\ findings' = {} /\ phase' \notin {"loaded", "reported", "refused"}
    BY <2>1, <2>2
  <2>4. input' \in Inputs /\ phase' \in Phases
    BY DEF Stages
  <2>5. <<>> \in Seq(LoadedEntries') /\ Len(<<>>) = 0 /\ DOMAIN <<>> = {} /\ Done' = {}
    BY <2>3 DEF Done
  <2>6. Len(Ruleset') \in Nat
    <3>1. input' = input
      BY DocumentStays
    <3>2. Ruleset' = Ruleset
      BY <3>1 DEF Ruleset
    <3>. QED  BY <3>2, RulesetFacts DEF Stages
  <2>7. Evaluated'
    BY <2>3, <2>5, <2>6 DEF Evaluated
  <2>8. Progress' /\ Reported'
    BY <2>3, <2>5 DEF Progress, Reported
  <2>. QED  BY <2>7, <2>8 DEF ReportInv
<1>3. CASE LoadEntry
  BY <1>3, EntryLoaded DEF Stages
<1>4. CASE EvaluateRule
  BY <1>4, EntryEvaluated DEF Stages
<1>5. CASE RefuseRuleset \/ FinishLoading \/ FinishRun
  <2>1. /\ UNCHANGED <<input, nodes, facts, members, groups, loaded, applied>> /\ findings' = findings
        /\ Ruleset' = Ruleset
    BY <1>5 DEF RefuseRuleset, FinishLoading, FinishRun, factsVars, rulesVars, Ruleset
  <2>2. /\ phase \in {"derived", "loaded"}
        /\ \/ phase = "derived" /\ phase' = "refused"
           \/ phase = "derived" /\ phase' = "loaded" /\ Len(loaded) = Len(Ruleset)
           \/ phase = "loaded" /\ phase' = "reported" /\ Len(applied) = Len(loaded)
    BY <1>5 DEF RefuseRuleset, FinishLoading, FinishRun
  <2>3. Progress'
    BY <2>1, <2>2 DEF ReportInv, Progress
  <2>4. phase' = "refused" => findings' = {}
    BY <2>1, <2>2 DEF ReportInv, Progress
  <2>5. phase' # "refused" => phase # "refused"
    BY <2>2
  <2>. QED  BY <2>1, <2>3, <2>4, <2>5, ReportStays DEF ReportInv
<1>6. CASE RefuseRun
  <2>1. /\ UNCHANGED <<input, nodes, facts, members, groups, loaded, applied>> /\ findings' = {}
        /\ phase' = "refused"
    BY <1>6 DEF RefuseRun, factsVars
  <2>2. Progress' /\ Reported'
    BY <2>1 DEF Progress, Reported
  <2>. QED  BY <2>1, <2>2, ReportStays DEF ReportInv
<1>. QED  BY <1>1, <1>2, <1>3, <1>4, <1>5, <1>6 DEF Next

(* The whole of what holds over a run: the document, the facts, the report. *)
RulesInv == FactsInv /\ ReportInv

(* RulesInv holds throughout.                                              *)
LEMMA RulesInvariant == Spec => []RulesInv
<1>1. ASSUME RulesInit, FactsInv  PROVE RulesInv
  BY <1>1, NothingLoaded DEF RulesInit, FactsInit, Init, FactsInv, DocumentInv, Stages, RulesInv
<1>2. ASSUME RulesInv, FactsInv', [Next]_vars  PROVE RulesInv'
  BY <1>2, ReportKept DEF RulesInv, FactsInv, DocumentInv
<1>. QED  BY <1>1, <1>2, FactsInvariant, PTL DEF Spec

(* What an entry finds of one target is one thing: a section is one group, *)
(* and a name path one slot of it.                                         *)
LEMMA EvaluateUnique ==
    ASSUME FactsInv, NEW entry, entry.use \in DOMAIN DefaultSeverity,
           NEW x \in Evaluate(entry), NEW y \in Evaluate(entry), x.target = y.target
    PROVE  x = y
<1>. DEFINE P == entry.params
<1>1. \A g, h \in groups : g.section = h.section => g = h
  <2>. SUFFICES ASSUME NEW g \in groups, NEW h \in groups, g.section = h.section  PROVE g = h
    OBVIOUS
  <2>1. g = GroupOf(g.section) /\ h = GroupOf(h.section)
    BY DEF FactsInv, Grouped
  <2>. HIDE DEF P
  <2>. QED  BY <2>1
<1>2. \A g \in groups : \A s, t \in g.slots : s.path = t.path => s = t
  <2>. SUFFICES ASSUME NEW g \in groups, NEW s \in g.slots, NEW t \in g.slots, s.path = t.path  PROVE s = t
    OBVIOUS
  <2>. DEFINE E == EntriesOf(g.section)
  <2>1. g = GroupOf(g.section)
    BY DEF FactsInv, Grouped
  <2>2. GroupOf(g.section).slots = Slots(E)
    BY DEF GroupOf
  <2>3. g.slots = Slots(E)
    BY <2>1, <2>2
  <2>. HIDE DEF E
  <2>4. \A r \in g.slots : \E p : r = SlotAt(p, E)
    BY <2>3 DEF Slots
  <2>5. \A p : SlotAt(p, E).path = p
    BY DEF SlotAt
  <2>6. PICK p : s = SlotAt(p, E)
    BY <2>4
  <2>7. PICK q : t = SlotAt(q, E)
    BY <2>4
  <2>8. p = q
    BY <2>5, <2>6, <2>7
  <2>. QED  BY <2>6, <2>7, <2>8
<1>. HIDE DEF P
<1>3. \A kind, a, b : Target(kind, a) = Target(kind, b) => a = b
  BY DEF Target
<1>4. \A t, i : Found(t, i).target = t
  BY DEF Found
<1>5. CASE entry.use = "textStyleName"
  <2>1. Evaluate(entry) = TextStyleName(P)
    BY <1>5 DEF Evaluate, P
  <2>2. PICK s : x = Found(Target("textStyle", s), Texts(s))
    BY <2>1 DEF TextStyleName
  <2>3. PICK t : y = Found(Target("textStyle", t), Texts(t))
    BY <2>1 DEF TextStyleName
  <2>4. s = t
    BY <1>3, <1>4, <2>2, <2>3
  <2>. QED  BY <2>2, <2>3, <2>4
<1>6. CASE entry.use = "fontConsistency"
  <2>1. Evaluate(entry) = FontConsistency(P)
    BY <1>6 DEF Evaluate, P
  <2>2. PICK s : x = Found(Target("textStyle", s), Texts(s))
    BY <2>1 DEF FontConsistency
  <2>3. PICK t : y = Found(Target("textStyle", t), Texts(t))
    BY <2>1 DEF FontConsistency
  <2>4. s = t
    BY <1>3, <1>4, <2>2, <2>3
  <2>. QED  BY <2>2, <2>3, <2>4
<1>7. CASE entry.use = "artboardWidth"
  <2>1. Evaluate(entry) = ArtboardWidth(P)
    BY <1>7 DEF Evaluate, P
  <2>2. PICK i : x = Found(Target("artboard", i), {i})
    BY <2>1 DEF ArtboardWidth
  <2>3. PICK j : y = Found(Target("artboard", j), {j})
    BY <2>1 DEF ArtboardWidth
  <2>4. i = j
    BY <1>3, <1>4, <2>2, <2>3
  <2>. QED  BY <2>2, <2>3, <2>4
<1>8. CASE entry.use = "groupCompleteness"
  <2>. DEFINE ids(g) == {Snap.id[e.root] : e \in g.members}
  <2>1. Evaluate(entry) = GroupCompleteness(P)
    BY <1>8 DEF Evaluate, P
  <2>2. \A r \in GroupCompleteness(P) : \E g \in groups : r = Found(Target("responsiveGroup", g.section), ids(g))
    BY DEF GroupCompleteness
  <2>. HIDE DEF ids
  <2>3. PICK g \in groups : x = Found(Target("responsiveGroup", g.section), ids(g))
    BY <2>1, <2>2
  <2>4. PICK h \in groups : y = Found(Target("responsiveGroup", h.section), ids(h))
    BY <2>1, <2>2
  <2>5. g.section = h.section
    BY <1>3, <1>4, <2>3, <2>4
  <2>6. g = h
    BY <1>1, <2>5
  <2>. QED  BY <2>3, <2>4, <2>6
<1>9. CASE entry.use = "itemCount"
  <2>. DEFINE ids(s) == {Snap.id[s.by[b]] : b \in DOMAIN s.by}
  <2>1. Evaluate(entry) = ItemCount(P)
    BY <1>9 DEF Evaluate, P
  <2>. DEFINE of(g) == { Found(SlotTarget(g, s), ids(s)) :
                         s \in {t \in g.slots :
                                  /\ t.path[Len(t.path)] \in P.containers
                                  /\ \A b \in DOMAIN t.by : nodes[t.by[b]].visible
                                  /\ \E b, d \in DOMAIN t.by :
                                       CountItems(t.by[b], P.items) # CountItems(t.by[d], P.items)} }
  <2>2. \A r \in ItemCount(P) : \E g \in groups : \E s \in g.slots : r = Found(SlotTarget(g, s), ids(s))
    <3>1. ItemCount(P) = UNION {of(g) : g \in {h \in groups : h.section \notin P.exemptSections}}
      BY DEF ItemCount
    <3>2. \A g : \A r \in of(g) : \E s \in g.slots : r = Found(SlotTarget(g, s), ids(s))
      OBVIOUS
    <3>. HIDE DEF of, ids
    <3>3. ASSUME NEW r \in ItemCount(P)
          PROVE  \E g \in groups : \E s \in g.slots : r = Found(SlotTarget(g, s), ids(s))
      <4>1. PICK h \in groups : r \in of(h)
        BY <3>1
      <4>. QED  BY <3>2, <4>1
    <3>. QED  BY <3>3
  <2>. HIDE DEF ids
  <2>3. PICK g \in groups : \E s \in g.slots : x = Found(SlotTarget(g, s), ids(s))
    BY <2>1, <2>2
  <2>4. PICK s \in g.slots : x = Found(SlotTarget(g, s), ids(s))
    BY <2>3
  <2>5. PICK h \in groups : \E t \in h.slots : y = Found(SlotTarget(h, t), ids(t))
    BY <2>1, <2>2
  <2>6. PICK t \in h.slots : y = Found(SlotTarget(h, t), ids(t))
    BY <2>5
  <2>7. SlotTarget(g, s) = SlotTarget(h, t)
    BY <1>4, <2>4, <2>6
  <2>8. <<g.section, s.path>> = <<h.section, t.path>>
    BY <1>3, <2>7 DEF SlotTarget
  <2>9. g.section = h.section /\ s.path = t.path
    BY <2>8
  <2>10. g = h
    BY <1>1, <2>9
  <2>11. s = t
    BY <1>2, <2>9, <2>10
  <2>. QED  BY <2>4, <2>6, <2>10, <2>11
<1>10. CASE entry.use = "contentRoot"
  <2>1. Evaluate(entry) = ContentRoot(P)
    BY <1>10 DEF Evaluate, P
  <2>2. \A r \in ContentRoot(P) : \E i : r = Found(Target("node", i), {i})
    BY DEF ContentRoot
  <2>3. PICK i : x = Found(Target("node", i), {i})
    BY <2>1, <2>2
  <2>4. PICK j : y = Found(Target("node", j), {j})
    BY <2>1, <2>2
  <2>5. i = j
    BY <1>3, <1>4, <2>3, <2>4
  <2>. QED  BY <2>3, <2>4, <2>5
<1>. QED  BY <1>5, <1>6, <1>7, <1>8, <1>9, <1>10 DEF DefaultSeverity

(* Two entries that were evaluated are of different rules, and of rules    *)
(* that exist.                                                             *)
LEMMA DoneFacts ==
    ASSUME RulesInv
    PROVE  /\ \A j, k \in DOMAIN applied : applied[j].use = applied[k].use => j = k
           /\ \A k \in DOMAIN applied : applied[k].use = Ruleset[k].use /\ applied[k].use \in DOMAIN DefaultSeverity
           /\ \A d, e \in Done : d.use = e.use => d = e
           /\ DOMAIN applied = 1..Len(applied) /\ Len(applied) \in Nat
<1>1. /\ loaded \in Seq(LoadedEntries) /\ applied \in Seq(LoadedEntries) /\ Len(applied) <= Len(loaded)
      /\ \A k \in DOMAIN loaded : Acceptable(k) /\ loaded[k] = EntryAt(k)
      /\ \A k \in DOMAIN applied : applied[k] = loaded[k]
  BY DEF RulesInv, ReportInv, Evaluated
<1>2. /\ DOMAIN applied = 1..Len(applied) /\ Len(applied) \in Nat /\ DOMAIN loaded = 1..Len(loaded)
      /\ Len(loaded) \in Nat
  BY <1>1
<1>3. \A k \in DOMAIN applied : k \in DOMAIN loaded /\ Acceptable(k) /\ applied[k] = EntryAt(k)
  BY <1>1, <1>2
<1>4. \A k : EntryAt(k).use = Ruleset[k].use
  BY DEF EntryAt, LoadedEntry
<1>5. \A k \in DOMAIN applied : applied[k].use = Ruleset[k].use /\ applied[k].use \in DOMAIN DefaultSeverity
  BY <1>3, <1>4 DEF Acceptable
<1>6. ASSUME NEW j \in DOMAIN applied, NEW k \in DOMAIN applied, j < k
      PROVE  applied[j].use # applied[k].use
  <2>1. j \in 1..(k - 1)
    BY <1>2, <1>6
  <2>2. Ruleset[j].use # Ruleset[k].use
    BY <1>3, <2>1 DEF Acceptable
  <2>. QED  BY <1>5, <2>2
<1>7. \A j, k \in DOMAIN applied : applied[j].use = applied[k].use => j = k
  <2>. SUFFICES ASSUME NEW j \in DOMAIN applied, NEW k \in DOMAIN applied, j # k
                PROVE  applied[j].use # applied[k].use
    OBVIOUS
  <2>1. j < k \/ k < j
    BY <1>2
  <2>. QED  BY <1>6, <2>1
<1>. QED  BY <1>2, <1>5, <1>7 DEF Done

(* runRules: a report is of the whole ruleset or of none of it, and a      *)
(* waiver that names a rule and a target means one finding.                *)
THEOREM ReportsAreWhole == Spec => []ReportIsWhole
<1>1. RulesInv => ReportIsWhole
  <2>. SUFFICES ASSUME RulesInv  PROVE ReportIsWhole
    OBVIOUS
  <2>1. ReportInv /\ FactsInv
    BY DEF RulesInv
  <2>2. WaiverHitsOneFinding
    <3>. SUFFICES ASSUME NEW f \in findings, NEW g \in findings, f.rule = g.rule, f.target = g.target
                  PROVE  f = g
      BY DEF WaiverHitsOneFinding
    <3>1. \A h \in findings : \E entry \in Done : \E x \in Evaluate(entry) : h = Finding(entry, x)
      BY <2>1 DEF ReportInv, Reported
    <3>2. PICK d \in Done : \E x \in Evaluate(d) : f = Finding(d, x)
      BY <3>1
    <3>3. PICK x \in Evaluate(d) : f = Finding(d, x)
      BY <3>2
    <3>4. PICK e \in Done : \E y \in Evaluate(e) : g = Finding(e, y)
      BY <3>1
    <3>5. PICK y \in Evaluate(e) : g = Finding(e, y)
      BY <3>4
    <3>6. d.use = e.use /\ x.target = y.target
      BY <3>3, <3>5 DEF Finding
    <3>7. d = e /\ d.use \in DOMAIN DefaultSeverity
      BY <3>6, DoneFacts DEF Done
    <3>8. x = y
      BY <2>1, <3>6, <3>7, EvaluateUnique
    <3>. QED  BY <3>3, <3>5, <3>7, <3>8
  <2>3. AllOrNothing
    <3>1. phase = "refused" => findings = {}
      BY <2>1 DEF ReportInv, Reported
    <3>2. \A entry \in Done : ~Undeclared(entry)
      BY <2>1 DEF ReportInv, Evaluated
    <3>3. \A use : Applied(use) = {e \in Done : e.use = use}
      BY DEF Applied, Done
    <3>4. Applied("textStyleName") # {} => input.config.styleNames # None
      BY <3>2, <3>3 DEF Undeclared
    <3>5. Applied("itemCount") \cup Applied("artboardWidth") \cup Applied("groupCompleteness") # {}
             => Responsive # None
      BY <3>2, <3>3 DEF Undeclared
    <3>6. ASSUME phase = "reported"
          PROVE  [k \in DOMAIN applied |-> applied[k].use] = [k \in DOMAIN Ruleset |-> Ruleset[k].use]
      <4>1. Len(applied) = Len(Ruleset)
        BY <2>1, <3>6 DEF ReportInv, Progress
      <4>2. input \in Inputs
        BY <2>1 DEF FactsInv, DocumentInv, Stages
      <4>3. DOMAIN applied = DOMAIN Ruleset
        BY <4>1, <4>2, DoneFacts, RulesetFacts
      <4>. QED  BY <4>3, DoneFacts
    <3>7. \A j, k \in DOMAIN applied : applied[j].use = applied[k].use => j = k
      BY DoneFacts
    <3>. QED  BY <3>1, <3>4, <3>5, <3>6, <3>7 DEF AllOrNothing
  <2>. QED  BY <2>2, <2>3 DEF ReportIsWhole
<1>. QED  BY <1>1, RulesInvariant, PTL

-----------------------------------------------------------------------------
(***************************************************************************)
(* Lists of items.                                                         *)
(***************************************************************************)

(* The name path of a node ends in its name, and that of a root is empty.  *)
LEMMA NamePathEnds ==
    ASSUME IsSnapshot(Snap), ConversionInv, NEW o \in DOMAIN nodes
    PROVE  /\ IsRoot(o) => NamePath[o] = <<>>
           /\ ~IsRoot(o) => NamePath[o] # <<>> /\ NamePath[o][Len(NamePath[o])] = Snap.name[o]
<1>1. o \in Snap.nodes
  BY NodePathFacts
<1>2. IsRoot(o) => NamePath[o] = <<>>
  BY <1>1, NamePathFacts DEF IsRoot
<1>3. ASSUME ~IsRoot(o)  PROVE NamePath[o] # <<>> /\ NamePath[o][Len(NamePath[o])] = Snap.name[o]
  <2>. DEFINE q == Snap.parent[o]
              x == Snap.name[o]
              names == nodes[q].key.names
              above == NamePath[q]
  <2>1. q \in DOMAIN nodes
    BY <1>3, NodePathFacts
  <2>2. above = Tail(names)
    BY <2>1, NamesDown
  <2>3. names \in Seq(NamesGiven) /\ names # <<>> /\ x \in NamesGiven
    <3>1. \A p \in DOMAIN nodes :
             /\ p \in Snap.nodes /\ Snap.name[p] \in NamesGiven
             /\ nodes[p].key.names \in Seq(NamesGiven)
             /\ nodes[p].key.names = Append(NamesAbove(p), Snap.name[p])
      BY NodePathFacts DEF ConversionInv, Keys, NamesGiven
    <3>2. NamesAbove(q) \in Seq(NamesGiven)
      BY <2>1, <3>1, NodePathFacts DEF NamesAbove, IsRoot
    <3>. QED  BY <2>1, <3>1, <3>2
  <2>4. NamePath[o] = Append(above, x)
    BY <1>1, <1>3, NamePathFacts DEF IsRoot
  <2>. HIDE DEF q, x, names, above
  <2>5. above \in Seq(NamesGiven)
    BY <2>2, <2>3
  <2>6. Append(above, x) # <<>> /\ Append(above, x)[Len(Append(above, x))] = x
    BY <2>3, <2>5
  <2>. QED  BY <2>4, <2>6 DEF x
<1>. QED  BY <1>2, <1>3

(* The items counted among the facts are those that are drawn, if no node  *)
(* occurs twice.                                                           *)
LEMMA ItemsAreDrawn ==
    ASSUME IsSnapshot(Snap), ConversionInv, facts = Walk, NoNestedRoots,
           NEW o \in DOMAIN nodes, NEW items
    PROVE  CountItems(o, items) = DrawnItems(o, items)
<1>. DEFINE S == {c \in DOMAIN nodes : Snap.parent[c] = o /\ nodes[c].visible /\ Snap.name[c] \in items}
            T == {i \in DOMAIN facts : facts[i].parent = Snap.id[o] /\ facts[i].rendered /\ Leaf(i, items)}
            id == Snap.id
<1>1. DOMAIN nodes \subseteq Snap.nodes
  BY DEF ConversionInv, Kinds
<1>2. IsFiniteSet(S)
  BY <1>1, ForestFacts, FS_Subset
<1>3. ASSUME NEW c \in DOMAIN nodes
      PROVE  /\ id[c] \in DOMAIN facts
             /\ facts[id[c]].rendered = nodes[c].visible
             /\ facts[id[c]].namePath = NamePath[c]
             /\ ~IsRoot(c) => facts[id[c]].parent = id[Snap.parent[c]]
  <2>1. id[c] \in DOMAIN facts
    BY <1>1, WalkFacts
  <2>2. /\ facts[id[c]].at \in DOMAIN nodes /\ Snap.id[facts[id[c]].at] = id[c]
        /\ facts[id[c]] = NodeFact(facts[id[c]].at)
    BY <1>1, <2>1, WalkFacts
  <2>3. facts[id[c]] = NodeFact(c)
    BY <2>2 DEF NoNestedRoots
  <2>4. /\ NodeFact(c).rendered = nodes[c].visible
        /\ NodeFact(c).namePath = Tail(nodes[c].key.names)
        /\ ~IsRoot(c) => NodeFact(c).parent = Snap.id[Snap.parent[c]]
    BY DEF NodeFact
  <2>. QED  BY <2>1, <2>3, <2>4, NamesDown
<1>4. ASSUME NEW c \in DOMAIN nodes  PROVE c \in S <=> id[c] \in T
  <2>1. CASE IsRoot(c)
    <3>1. Snap.parent[c] # o
      BY <1>1, <2>1, ForestFacts DEF IsRoot
    <3>2. ~Leaf(id[c], items)
      BY <1>3, <2>1, NamePathEnds DEF Leaf
    <3>. QED  BY <3>1, <3>2
  <2>2. CASE ~IsRoot(c)
    <3>1. Snap.parent[c] \in DOMAIN nodes
      BY <2>2, NodePathFacts
    <3>2. Snap.parent[c] = o <=> id[Snap.parent[c]] = id[o]
      BY <3>1 DEF NoNestedRoots
    <3>3. Leaf(id[c], items) <=> Snap.name[c] \in items
      <4>1. facts[id[c]].namePath = NamePath[c]
        BY <1>3
      <4>2. NamePath[c] # <<>> /\ NamePath[c][Len(NamePath[c])] = Snap.name[c]
        BY <2>2, NamePathEnds
      <4>. QED  BY <4>1, <4>2 DEF Leaf
    <3>4. /\ id[c] \in DOMAIN facts /\ facts[id[c]].rendered = nodes[c].visible
          /\ facts[id[c]].parent = id[Snap.parent[c]]
      BY <1>3, <2>2
    <3>. QED  BY <3>2, <3>3, <3>4
  <2>. QED  BY <2>1, <2>2
<1>5. \A c \in S : id[c] \in T
  BY <1>4
<1>6. \A t \in T : \E c \in S : t = id[c]
  <2>. SUFFICES ASSUME NEW t \in T  PROVE \E c \in S : t = id[c]
    OBVIOUS
  <2>1. DOMAIN facts = {Snap.id[c] : c \in DOMAIN nodes}
    BY <1>1, WalkFacts
  <2>2. PICK c \in DOMAIN nodes : t = id[c]
    BY <2>1
  <2>. QED  BY <1>4, <2>2
<1>7. \A c, d \in S : id[c] = id[d] => c = d
  BY DEF NoNestedRoots
<1>8. CountItems(o, items) = Cardinality(T) /\ DrawnItems(o, items) = Cardinality(S)
  BY DEF CountItems, DrawnItems
<1>. HIDE DEF S, T, id
<1>9. Cardinality(T) = Cardinality(S)
  BY <1>2, <1>5, <1>6, <1>7, ImageSize, Zenon
<1>. QED  BY <1>8, <1>9

(* What the rule of item counts says of a slot.                            *)
LEMMA UnequalIsFound ==
    ASSUME NEW P, NEW g \in groups, g.section \notin P.exemptSections, NEW slot \in g.slots,
           slot.path[Len(slot.path)] \in P.containers,
           \A b \in DOMAIN slot.by : nodes[slot.by[b]].visible,
           \E b, d \in DOMAIN slot.by : CountItems(slot.by[b], P.items) # CountItems(slot.by[d], P.items)
    PROVE  \E x \in ItemCount(P) : x.target = SlotTarget(g, slot)
<1>. DEFINE ids(t) == {Snap.id[t.by[c]] : c \in DOMAIN t.by}
            found(h, t) == Found(SlotTarget(h, t), ids(t))
            unequal(t) == /\ t.path[Len(t.path)] \in P.containers
                          /\ \A b \in DOMAIN t.by : nodes[t.by[b]].visible
                          /\ \E b, d \in DOMAIN t.by : CountItems(t.by[b], P.items) # CountItems(t.by[d], P.items)
            of(h) == {found(h, t) : t \in {u \in h.slots : unequal(u)}}
<1>1. ItemCount(P) = UNION {of(h) : h \in {i \in groups : i.section \notin P.exemptSections}}
  BY DEF ItemCount
<1>2. unequal(slot)
  OBVIOUS
<1>3. found(g, slot).target = SlotTarget(g, slot)
  BY DEF Found
<1>. HIDE DEF unequal, found
<1>4. found(g, slot) \in of(g)
  BY <1>2
<1>. HIDE DEF of
<1>5. found(g, slot) \in ItemCount(P)
  BY <1>1, <1>4
<1>. QED  BY <1>3, <1>5

(* The nodes below an artboard that have a name path.                      *)
NodesAt(e, path) == {o \in DOMAIN nodes \ {e.root} : e.root \in Chain[o] /\ NamePath[o] = path}

(* A slot that is observed in all of the artboards of a group.             *)
ObservedInAll(g, path, slot) ==
    /\ slot \in g.slots /\ slot.path = path
    /\ DOMAIN slot.by = {e.breakpoint : e \in g.members}
    /\ \A e \in g.members : NodesAt(e, path) = {slot.by[e.breakpoint]}

(* Of a section that no two artboards claim one breakpoint of: a name path *)
(* found once in each of them is a slot, observed in all of them.          *)
LEMMA SlotOfAll ==
    ASSUME FactsInv, NEW g \in groups, NEW path, g.members # {},
           \A d, e \in g.members : d.breakpoint = e.breakpoint => d = e,
           \A e \in g.members : Cardinality(NodesAt(e, path)) = 1
    PROVE  \E slot : ObservedInAll(g, path, slot)
<1>. DEFINE s == g.section
            E == EntriesOf(s)
            slot == SlotAt(path, E)
<1>1. IsSnapshot(Snap) /\ ConversionInv /\ Stages /\ Artboards /\ Grouped
  BY SnapshotGiven DEF FactsInv, DocumentInv, Stages
<1>2. g = GroupOf(s)
  BY <1>1 DEF Grouped
<1>3. GroupOf(s).members = E /\ GroupOf(s).slots = Slots(E)
  BY DEF GroupOf
<1>4. g.members = E /\ g.slots = Slots(E)
  BY <1>2, <1>3
<1>5. \A m \in E : NamedBy(path, m.root) = NodesAt(m, path)
  BY <1>1, MembersAreRoots, NamedByFacts DEF EntriesOf, NodesAt
<1>6. \A m \in E : Cardinality(NamedBy(path, m.root)) = 1
  BY <1>4, <1>5
<1>7. \A m \in E : NamedBy(path, m.root) # {}
  <2>1. Cardinality({}) = 0
    BY FS_EmptySet
  <2>. SUFFICES ASSUME NEW m \in E, NamedBy(path, m.root) = {}  PROVE FALSE
    OBVIOUS
  <2>2. Cardinality(NamedBy(path, m.root)) = 1
    BY <1>6
  <2>. QED  BY <2>1, <2>2
<1>8. AmbiguousIn(path, E) = {} /\ MissingIn(path, E) = {}
  BY <1>6, <1>7 DEF AmbiguousIn, MissingIn
<1>9. path \in PathsOf(E)
  <2>1. PICK m \in E : TRUE
    BY <1>4
  <2>2. PICK o \in Under(m.root) : Tail(nodes[o].key.names) = path
    BY <1>7, <2>1 DEF NamedBy
  <2>3. path \in {Tail(nodes[c].key.names) : c \in Under(m.root)}
    BY <2>2
  <2>. QED  BY <2>1, <2>3 DEF PathsOf
<1>10. slot \in g.slots
  BY <1>4, <1>8, <1>9 DEF Slots
<1>11. /\ slot.path = path /\ DOMAIN slot.by = {m.breakpoint : m \in E}
       /\ \A b \in DOMAIN slot.by : NamedBy(path, Observed(E, b)) = {slot.by[b]}
  BY <1>1, <1>8, <1>9, SlotFacts
<1>12. ASSUME NEW m \in E  PROVE NodesAt(m, path) = {slot.by[m.breakpoint]}
  <2>1. \E n \in E : n.breakpoint = m.breakpoint /\ n.root = Observed(E, m.breakpoint)
    BY <1>1, ObservedFacts
  <2>2. Observed(E, m.breakpoint) = m.root
    BY <1>4, <2>1
  <2>3. m.breakpoint \in DOMAIN slot.by
    BY <1>11
  <2>. HIDE DEF slot, E
  <2>. QED  BY <1>5, <1>11, <2>2, <2>3
<1>. HIDE DEF E, slot
<1>13. ObservedInAll(g, path, slot)
  BY <1>4, <1>10, <1>11, <1>12 DEF ObservedInAll
<1>. QED  BY <1>13

(* Where the rule is quiet, two lists of one name path agree.              *)
LEMMA QuietListsAreEqual ==
    ASSUME RulesInv, phase # "refused", NEW g \in groups, NEW rule \in Applied("itemCount"),
           NEW q \in DOMAIN nodes, Snap.name[q] \in rule.params.containers, ~IsRoot(q),
           NoNestedRoots, g.section \notin rule.params.exemptSections,
           \A d, e \in g.members : d.breakpoint = e.breakpoint => d = e,
           \A e \in g.members :
              /\ Cardinality(NodesAt(e, NamePath[q])) = 1
              /\ \A o \in NodesAt(e, NamePath[q]) : nodes[o].visible,
           ~\E f \in findings : f.rule = "itemCount" /\ f.target = Target("slot", <<g.section, NamePath[q]>>),
           NEW d \in g.members, NEW e \in g.members,
           NEW o \in NodesAt(d, NamePath[q]), NEW p \in NodesAt(e, NamePath[q])
    PROVE  DrawnItems(o, rule.params.items) = DrawnItems(p, rule.params.items)
<1>. DEFINE path == NamePath[q]
            P == rule.params
<1>1. IsSnapshot(Snap) /\ ConversionInv /\ Stages /\ FactsInv /\ ReportInv
  BY SnapshotGiven DEF RulesInv, FactsInv, DocumentInv, Stages
<1>2. path # <<>> /\ path[Len(path)] \in P.containers
  BY <1>1, NamePathEnds
<1>3. o \in DOMAIN nodes /\ p \in DOMAIN nodes
  BY DEF NodesAt
<1>. HIDE DEF path
<1>4. /\ \A m \in g.members : Cardinality(NodesAt(m, path)) = 1
      /\ \A m \in g.members : \A c \in NodesAt(m, path) : nodes[c].visible
      /\ o \in NodesAt(d, path) /\ p \in NodesAt(e, path)
      /\ ~\E f \in findings : f.rule = "itemCount" /\ f.target = Target("slot", <<g.section, path>>)
  BY DEF path
<1>5. PICK slot : ObservedInAll(g, path, slot)
  <2>1. g.members # {} /\ FactsInv
    BY <1>1
  <2>2. \A b, c \in g.members : b.breakpoint = c.breakpoint => b = c
    OBVIOUS
  <2>3. \A m \in g.members : Cardinality(NodesAt(m, path)) = 1
    BY <1>4
  <2>. QED  BY <2>1, <2>2, <2>3, SlotOfAll
<1>. USE DEF ObservedInAll
<1>6. /\ o = slot.by[d.breakpoint] /\ p = slot.by[e.breakpoint]
      /\ d.breakpoint \in DOMAIN slot.by /\ e.breakpoint \in DOMAIN slot.by
  BY <1>4, <1>5
<1>7. \A b \in DOMAIN slot.by : nodes[slot.by[b]].visible
  BY <1>4, <1>5
<1>8. CountItems(o, P.items) = CountItems(p, P.items)
  <2>. SUFFICES ASSUME CountItems(o, P.items) # CountItems(p, P.items)  PROVE FALSE
    OBVIOUS
  <2>1. rule \in Done /\ rule.use = "itemCount" /\ Evaluate(rule) = ItemCount(P)
    BY DEF Applied, Done, Evaluate
  <2>2. slot.path[Len(slot.path)] \in P.containers /\ g.section \notin P.exemptSections
    BY <1>2, <1>5
  <2>. HIDE DEF P
  <2>3. \E b, c \in DOMAIN slot.by : CountItems(slot.by[b], P.items) # CountItems(slot.by[c], P.items)
    BY <1>6
  <2>4. slot \in g.slots
    BY <1>5
  <2>5. PICK x \in ItemCount(P) : x.target = SlotTarget(g, slot)
    BY <1>7, <2>2, <2>3, <2>4, UnequalIsFound
  <2>6. Finding(rule, x) \in findings
    BY <1>1, <2>1, <2>5 DEF ReportInv, Reported
  <2>7. Finding(rule, x).rule = "itemCount" /\ Finding(rule, x).target = Target("slot", <<g.section, path>>)
    BY <1>5, <2>1, <2>5 DEF Finding, SlotTarget
  <2>. QED  BY <1>4, <2>6, <2>7
<1>9. facts = Walk
  BY <1>1 DEF Stages
<1>. QED  BY <1>1, <1>3, <1>8, <1>9, ItemsAreDrawn

(* itemCount: where the rule is quiet, and no artboard is left out of the  *)
(* comparison, the lists agree as they are drawn.                          *)
THEOREM QuietListsDoAgree == Spec => []QuietListsAgree
<1>1. RulesInv => QuietListsAgree
  <2>. DEFINE list(e, path) == {o \in DOMAIN nodes \ {e.root} : e.root \in Chain[o] /\ NamePath[o] = path}
              paths(rule) == {NamePath[o] : o \in {q \in DOMAIN nodes :
                                                     Snap.name[q] \in rule.params.containers /\ ~IsRoot(q)}}
  <2>1. ASSUME RulesInv, phase # "refused", NEW g \in groups, NEW rule \in Applied("itemCount"),
               NEW path \in paths(rule)
        PROVE  /\ NoNestedRoots
               /\ g.section \notin rule.params.exemptSections
               /\ \A d, e \in g.members : d.breakpoint = e.breakpoint => d = e
               /\ \A e \in g.members : Cardinality(list(e, path)) = 1 /\ \A o \in list(e, path) : nodes[o].visible
               /\ ~\E f \in findings : f.rule = "itemCount" /\ f.target = Target("slot", <<g.section, path>>)
               => \A d, e \in g.members : \A o \in list(d, path) : \A p \in list(e, path) :
                    DrawnItems(o, rule.params.items) = DrawnItems(p, rule.params.items)
    <3>1. PICK q \in DOMAIN nodes : path = NamePath[q] /\ Snap.name[q] \in rule.params.containers /\ ~IsRoot(q)
      OBVIOUS
    <3>2. \A e : list(e, path) = NodesAt(e, path)
      BY DEF NodesAt
    <3>. HIDE DEF list, paths
    <3>. QED  BY <2>1, <3>1, <3>2, QuietListsAreEqual
  <2>. QED  BY <2>1 DEF QuietListsAgree
<1>. QED  BY <1>1, RulesInvariant, PTL

-----------------------------------------------------------------------------
(***************************************************************************)
(* Runs of overrides.                                                      *)
(***************************************************************************)

(* Where the run that starts at i ends, as overrideRunsOf finds it.        *)
EndOf(ids, i) ==
    CHOOSE e \in (i + 1)..(Len(ids) + 1) :
        /\ e = Len(ids) + 1 \/ ids[e] # ids[i]
        /\ \A k \in i..(e - 1) : ids[k] = ids[i]

RunAt(ids, table, i) == Run(i, EndOf(ids, i), ids[i], OverrideDecoration(ids[i], table))

SolvesRuns(f, ids, table) ==
    f = [ i \in 1..(Len(ids) + 1) |->
            IF i = Len(ids) + 1 THEN <<>>
            ELSE IF ids[i] = 0 THEN f[EndOf(ids, i)]
            ELSE <<RunAt(ids, table, i)>> \o f[EndOf(ids, i)] ]

(* A maximal run of one id, from i on.                                     *)
IsRun(r, i, ids, table) ==
    /\ r.start \in Nat /\ r.end \in Nat
    /\ i <= r.start /\ r.start < r.end /\ r.end <= Len(ids) + 1
    /\ r.id # 0 /\ \A x \in r.start..(r.end - 1) : ids[x] = r.id
    /\ r.end = Len(ids) + 1 \/ ids[r.end] # r.id
    /\ r.decoration = OverrideDecoration(r.id, table)

(* All of the runs from i on, one after the other.                         *)
AreRuns(runs, i, ids, table) ==
    /\ \A k \in DOMAIN runs : IsRun(runs[k], i, ids, table)
    /\ \A j, k \in DOMAIN runs : j < k => runs[j].end <= runs[k].start
    /\ \A x \in i..Len(ids) :
         ids[x] # 0 => \E k \in DOMAIN runs : runs[k].start <= x /\ x < runs[k].end

(* A run ends: at the first place with another id, or behind the last.     *)
LEMMA EndFacts ==
    ASSUME NEW S, NEW ids \in Seq(S), NEW i \in 1..Len(ids)
    PROVE  /\ EndOf(ids, i) \in (i + 1)..(Len(ids) + 1)
           /\ EndOf(ids, i) = Len(ids) + 1 \/ ids[EndOf(ids, i)] # ids[i]
           /\ \A k \in i..(EndOf(ids, i) - 1) : ids[k] = ids[i]
<1>. DEFINE n == Len(ids)
            T == {e \in (i + 1)..(n + 1) : e = n + 1 \/ ids[e] # ids[i]}
<1>1. n \in Nat /\ i \in Nat /\ i <= n
  OBVIOUS
<1>. HIDE DEF n
<1>2. T \subseteq Nat /\ n + 1 \in T
  BY <1>1
<1>3. PICK m \in T : \A e \in T : m <= e
  BY <1>2, LeastNatural
<1>4. ASSUME NEW k \in i..(m - 1)  PROVE ids[k] = ids[i]
  <2>1. m \in Nat /\ m <= n + 1 /\ i < m
    BY <1>1, <1>3
  <2>2. CASE k = i
    BY <2>2
  <2>3. CASE k # i
    <3>1. k \in (i + 1)..(n + 1) /\ k # n + 1 /\ ~(m <= k)
      BY <1>1, <2>1, <2>3
    <3>2. k \notin T
      BY <1>3, <3>1
    <3>. QED  BY <3>1, <3>2
  <2>. QED  BY <2>2, <2>3
<1>5. /\ m \in (i + 1)..(n + 1) /\ (m = n + 1 \/ ids[m] # ids[i])
      /\ \A k \in i..(m - 1) : ids[k] = ids[i]
  BY <1>3, <1>4
<1>6. EndOf(ids, i) = CHOOSE e \in (i + 1)..(n + 1) :
                        (e = n + 1 \/ ids[e] # ids[i]) /\ \A k \in i..(e - 1) : ids[k] = ids[i]
  BY DEF EndOf, n
<1>7. /\ EndOf(ids, i) \in (i + 1)..(n + 1) /\ (EndOf(ids, i) = n + 1 \/ ids[EndOf(ids, i)] # ids[i])
      /\ \A k \in i..(EndOf(ids, i) - 1) : ids[k] = ids[i]
  BY <1>5, <1>6, Zenon
<1>. QED  BY <1>7 DEF n

(* The recursion of overrideRunsOf is defined: it goes on where a run ends. *)
LEMMA RunsAreDefined ==
    ASSUME NEW V, NEW ids \in Seq(V), NEW table
    PROVE  \E f : SolvesRuns(f, ids, table)
<1>. DEFINE n == Len(ids)
            S == 1..(n + 1)
            R == {RunAt(ids, table, i) : i \in 1..n}
            W == Seq(R)
            end(i) == EndOf(ids, i)
            parent == [j \in S |-> IF j = 1 THEN 0 ELSE n + 2 - end(n + 2 - j)]
            base == [j \in S |-> <<>>]
            step == [t \in S \X W |-> LET i == n + 2 - t[1] IN
                       IF i = n + 1 \/ ids[i] = 0 THEN t[2] ELSE <<RunAt(ids, table, i)>> \o t[2]]
<1>1. n \in Nat
  OBVIOUS
<1>2. \A i \in 1..n : end(i) \in (i + 1)..(n + 1)
  BY EndFacts
<1>3. \A i \in 1..n : RunAt(ids, table, i) \in R
  OBVIOUS
<1>. HIDE DEF n, end, R
<1>4. S \subseteq Nat /\ 0 \notin S
  BY <1>1
<1>5. ASSUME NEW j \in S  PROVE /\ j = 1 => parent[j] = 0
                                /\ j # 1 => parent[j] = n + 2 - end(n + 2 - j) /\ parent[j] \in S /\ parent[j] < j
  <2>1. CASE j # 1
    <3>1. n + 2 - j \in 1..n
      BY <1>1, <2>1
    <3>. DEFINE e == end(n + 2 - j)
    <3>2. e \in ((n + 2 - j) + 1)..(n + 1)
      BY <1>2, <3>1
    <3>3. parent[j] = n + 2 - e
      BY <2>1
    <3>. HIDE DEF e, parent
    <3>4. n + 2 - e \in 1..(n + 1) /\ n + 2 - e < j
      BY <1>1, <3>2
    <3>. QED  BY <2>1, <3>3, <3>4 DEF e
  <2>. QED  BY <2>1
<1>6. parent \in [S -> S \cup {0}] /\ \A j \in S : parent[j] # 0 => parent[j] \in S /\ parent[j] < j
  <2>1. \A j \in S : parent[j] \in S \cup {0}
    BY <1>5
  <2>2. parent = [j \in S |-> parent[j]]
    OBVIOUS
  <2>. HIDE DEF parent, S
  <2>. QED  BY <1>5, <2>1, <2>2
<1>7. base \in [S -> W] /\ \A j \in S : base[j] = <<>>
  OBVIOUS
<1>8. \A j \in S, v \in W :
         step[j, v] = LET i == n + 2 - j IN IF i = n + 1 \/ ids[i] = 0 THEN v ELSE <<RunAt(ids, table, i)>> \o v
  OBVIOUS
<1>9. step \in [S \X W -> W]
  <2>1. ASSUME NEW t \in S \X W  PROVE step[t] \in W
    <3>. DEFINE i == n + 2 - t[1]
    <3>1. i \in 1..n \/ i = n + 1
      BY <1>1
    <3>2. t[2] \in W
      OBVIOUS
    <3>3. i \in 1..n => <<RunAt(ids, table, i)>> \o t[2] \in W
      BY <1>3, <3>2
    <3>. QED  BY <3>1, <3>2, <3>3
  <2>. QED  BY <2>1
<1>. HIDE DEF parent, base, step
<1>10. PICK g \in [S -> W] : SolvesForest(g, S, 0, parent, base, step)
  <2>. HIDE DEF S, W
  <2>. QED  BY <1>4, <1>6, <1>7, <1>9, ForestRecursion
<1>11. \A j \in S : g[j] = IF parent[j] = 0 THEN base[j] ELSE step[j, g[parent[j]]]
  BY <1>10, Zenon DEF SolvesForest
<1>. DEFINE f == [i \in S |-> g[n + 2 - i]]
            new(i) == IF i = n + 1 THEN <<>>
                      ELSE IF ids[i] = 0 THEN f[end(i)] ELSE <<RunAt(ids, table, i)>> \o f[end(i)]
<1>12. ASSUME NEW i \in S  PROVE f[i] = new(i)
  <2>. DEFINE j == n + 2 - i
  <2>1. j \in S /\ n + 2 - j = i /\ (j = 1 <=> i = n + 1)
    BY <1>1
  <2>2. f[i] = g[j]
    OBVIOUS
  <2>3. CASE i = n + 1
    <3>. HIDE DEF j
    <3>1. g[j] = base[j]
      BY <1>5, <1>11, <2>1, <2>3
    <3>. QED  BY <1>7, <2>1, <2>2, <2>3, <3>1
  <2>4. CASE i # n + 1
    <3>1. i \in 1..n
      BY <1>1, <2>4
    <3>2. end(i) \in S
      BY <1>1, <1>2, <3>1
    <3>3. f[end(i)] = g[n + 2 - end(i)]
      BY <3>2
    <3>. HIDE DEF j, f
    <3>4. parent[j] = n + 2 - end(i) /\ parent[j] \in S /\ parent[j] # 0
      BY <1>4, <1>5, <2>1, <2>4
    <3>5. g[j] = step[j, f[end(i)]]
      BY <1>11, <2>1, <3>3, <3>4
    <3>6. f[end(i)] \in W
      BY <3>3, <3>4
    <3>. HIDE DEF S, W
    <3>7. step[j, f[end(i)]] = IF ids[i] = 0 THEN f[end(i)] ELSE <<RunAt(ids, table, i)>> \o f[end(i)]
      BY <1>8, <2>1, <2>4, <3>6
    <3>. QED  BY <2>2, <2>4, <3>5, <3>7
  <2>. QED  BY <2>3, <2>4
<1>13. f = [i \in S |-> new(i)]
  <2>1. f = [i \in S |-> f[i]]
    OBVIOUS
  <2>. HIDE DEF f, new, S
  <2>. QED  BY <1>12, <2>1
<1>14. SolvesRuns(f, ids, table)
  <2>. HIDE DEF f
  <2>. QED  BY <1>13, Zenon DEF SolvesRuns, n, end
<1>. QED  BY <1>14

(* What is no override leaves the runs from the next place on.             *)
LEMMA RunsSkip ==
    ASSUME NEW V, NEW ids \in Seq(V), NEW table, NEW i \in 1..Len(ids), ids[i] = 0,
           NEW runs, AreRuns(runs, EndOf(ids, i), ids, table)
    PROVE  AreRuns(runs, i, ids, table)
<1>. DEFINE n == Len(ids)
            e == EndOf(ids, i)
<1>1. n \in Nat /\ e \in (i + 1)..(n + 1) /\ \A x \in i..(e - 1) : ids[x] = ids[i]
  BY EndFacts
<1>. HIDE DEF n, e
<1>2. \A k \in DOMAIN runs : IsRun(runs[k], i, ids, table)
  <2>. SUFFICES ASSUME NEW k \in DOMAIN runs  PROVE IsRun(runs[k], i, ids, table)
    OBVIOUS
  <2>1. IsRun(runs[k], e, ids, table)
    BY DEF AreRuns, e
  <2>2. i <= runs[k].start
    BY <1>1, <2>1 DEF IsRun
  <2>. QED  BY <2>1, <2>2 DEF IsRun
<1>3. ASSUME NEW x \in i..n, ids[x] # 0
      PROVE  \E k \in DOMAIN runs : runs[k].start <= x /\ x < runs[k].end
  <2>1. x \in i..(e - 1) \/ x \in e..n
    BY <1>1
  <2>2. x \in e..n
    BY <1>1, <1>3, <2>1
  <2>. QED  BY <1>3, <2>2 DEF AreRuns, n, e
<1>. QED  BY <1>2, <1>3 DEF AreRuns, n

(* An override starts a run before those from the next place on.           *)
LEMMA RunsGrow ==
    ASSUME NEW V, NEW ids \in Seq(V), NEW table, NEW i \in 1..Len(ids), ids[i] # 0,
           NEW R, RunAt(ids, table, i) \in R, NEW runs \in Seq(R), AreRuns(runs, EndOf(ids, i), ids, table)
    PROVE  AreRuns(<<RunAt(ids, table, i)>> \o runs, i, ids, table)
<1>. DEFINE n == Len(ids)
            e == EndOf(ids, i)
            r == RunAt(ids, table, i)
            all == <<r>> \o runs
<1>1. /\ n \in Nat /\ i \in Nat /\ i <= n /\ e \in (i + 1)..(n + 1) /\ (e = n + 1 \/ ids[e] # ids[i])
      /\ \A x \in i..(e - 1) : ids[x] = ids[i]
  BY EndFacts
<1>2. /\ r.start = i /\ r.end = e /\ r.id = ids[i]
      /\ r.decoration = OverrideDecoration(ids[i], table)
  BY DEF RunAt, Run
<1>3. r \in R
  OBVIOUS
<1>4. /\ \A k \in DOMAIN runs : IsRun(runs[k], e, ids, table)
      /\ \A j, k \in DOMAIN runs : j < k => runs[j].end <= runs[k].start
      /\ \A x \in e..n : ids[x] # 0 => \E k \in DOMAIN runs : runs[k].start <= x /\ x < runs[k].end
  BY DEF AreRuns
<1>. HIDE DEF n, e, r
<1>5. IsRun(r, i, ids, table)
  BY <1>1, <1>2 DEF IsRun, n
<1>6. /\ DOMAIN all = 1..(Len(runs) + 1) /\ DOMAIN runs = 1..Len(runs) /\ Len(runs) \in Nat
      /\ all[1] = r /\ \A k \in DOMAIN runs : all[k + 1] = runs[k]
  <2>1. <<r>> \in Seq(R) /\ Len(<<r>>) = 1 /\ <<r>>[1] = r
    BY <1>3
  <2>. DEFINE s == <<r>>
  <2>. HIDE DEF s
  <2>2. s \in Seq(R) /\ Len(s) = 1 /\ s[1] = r
    BY <2>1 DEF s
  <2>3. /\ DOMAIN s = 1..1 /\ DOMAIN runs = 1..Len(runs) /\ DOMAIN (s \o runs) = 1..(1 + Len(runs))
        /\ \A k \in DOMAIN s : (s \o runs)[k] = s[k]
        /\ \A k \in DOMAIN runs : (s \o runs)[k + 1] = runs[k]
    <3>0. s \in Seq(R) /\ runs \in Seq(R)
      BY <2>2
    <3>1. /\ DOMAIN s = 1..Len(s) /\ DOMAIN runs = 1..Len(runs)
          /\ DOMAIN (s \o runs) = 1..(Len(s) + Len(runs))
      BY <3>0, ConcatFacts
    <3>2. \A k \in DOMAIN s : (s \o runs)[k] = s[k]
      BY <3>0, ConcatFacts
    <3>3. \A k \in DOMAIN runs : (s \o runs)[k + Len(s)] = runs[k]
      BY <3>0, ConcatFacts
    <3>. QED  BY <2>2, <3>1, <3>2, <3>3
  <2>4. Len(runs) \in Nat
    OBVIOUS
  <2>5. 1 + Len(runs) = Len(runs) + 1 /\ 1 \in DOMAIN s
    BY <2>3, <2>4
  <2>. QED  BY <2>2, <2>3, <2>4, <2>5 DEF s
<1>. HIDE DEF all
<1>7. ASSUME NEW k \in DOMAIN all
      PROVE  \/ k = 1 /\ all[k] = r
             \/ k - 1 \in DOMAIN runs /\ all[k] = runs[k - 1] /\ k > 1
  <2>1. CASE k = 1
    BY <1>6, <2>1
  <2>2. CASE k # 1
    <3>1. k - 1 \in DOMAIN runs /\ (k - 1) + 1 = k /\ k > 1
      BY <1>6, <2>2
    <3>2. all[(k - 1) + 1] = runs[k - 1]
      BY <1>6, <3>1
    <3>. QED  BY <3>1, <3>2
  <2>. QED  BY <2>1, <2>2
<1>8. ASSUME NEW k \in DOMAIN runs  PROVE IsRun(runs[k], i, ids, table) /\ e <= runs[k].start
  <2>1. IsRun(runs[k], e, ids, table)
    BY <1>4
  <2>2. e <= runs[k].start /\ i <= runs[k].start
    BY <1>1, <2>1 DEF IsRun
  <2>. QED  BY <2>1, <2>2 DEF IsRun
<1>9. \A k \in DOMAIN all : IsRun(all[k], i, ids, table)
  BY <1>5, <1>7, <1>8
<1>10. ASSUME NEW j \in DOMAIN all, NEW k \in DOMAIN all, j < k  PROVE all[j].end <= all[k].start
  <2>0. j \in Int /\ k \in Int /\ 1 <= j
    BY <1>6
  <2>1. k # 1
    BY <1>10, <2>0
  <2>2. k - 1 \in DOMAIN runs /\ all[k] = runs[k - 1]
    BY <1>7, <2>1
  <2>3. CASE j = 1
    BY <1>2, <1>6, <1>8, <2>2, <2>3
  <2>4. CASE j # 1
    <3>1. j - 1 \in DOMAIN runs /\ all[j] = runs[j - 1]
      BY <1>7, <2>4
    <3>2. j - 1 < k - 1
      BY <1>10, <2>0
    <3>. QED  BY <1>4, <2>2, <3>1, <3>2
  <2>. QED  BY <2>3, <2>4
<1>11. ASSUME NEW x \in i..n, ids[x] # 0
       PROVE  \E k \in DOMAIN all : all[k].start <= x /\ x < all[k].end
  <2>1. CASE x < e
    <3>1. 1 \in DOMAIN all /\ all[1].start <= x /\ x < all[1].end
      BY <1>1, <1>2, <1>6, <2>1
    <3>. QED  BY <3>1
  <2>2. CASE ~(x < e)
    <3>1. x \in e..n
      BY <1>1, <2>2
    <3>2. PICK k \in DOMAIN runs : runs[k].start <= x /\ x < runs[k].end
      BY <1>4, <1>11, <3>1
    <3>3. k + 1 \in DOMAIN all /\ all[k + 1] = runs[k]
      BY <1>6
    <3>. QED  BY <3>2, <3>3
  <2>. QED  BY <2>1, <2>2
<1>12. AreRuns(all, i, ids, table)
  BY <1>9, <1>10, <1>11 DEF AreRuns, n
<1>. QED  BY <1>12 DEF all, r

(* The runs that overrideRunsOf makes are all of them.                     *)
LEMMA OverrideRunsFacts ==
    ASSUME NEW V, NEW ids \in Seq(V), NEW table
    PROVE  /\ \E R : OverrideRuns(ids, table) \in Seq(R)
           /\ AreRuns(OverrideRuns(ids, table), 1, ids, table)
<1>. DEFINE n == Len(ids)
            R == {RunAt(ids, table, i) : i \in 1..n}
            f == CHOOSE g : SolvesRuns(g, ids, table)
<1>1. n \in Nat
  OBVIOUS
<1>2. SolvesRuns(f, ids, table)
  BY RunsAreDefined
<1>3. OverrideRuns(ids, table) = f[1]
  BY Zenon DEF OverrideRuns, SolvesRuns, EndOf, RunAt
<1>. HIDE DEF f
<1>4. \A i \in 1..(n + 1) :
         f[i] = IF i = n + 1 THEN <<>>
                ELSE IF ids[i] = 0 THEN f[EndOf(ids, i)] ELSE <<RunAt(ids, table, i)>> \o f[EndOf(ids, i)]
  BY <1>2, Zenon DEF SolvesRuns
<1>. DEFINE right(i) == f[i] \in Seq(R) /\ AreRuns(f[i], i, ids, table)
            U == {i \in 1..(n + 1) : ~right(i)}
<1>5. U = {}
  <2>. SUFFICES ASSUME U # {}  PROVE FALSE
    OBVIOUS
  <2>1. U \subseteq Int /\ IsFiniteSet(U)
    <3>1. IsFiniteSet(1..(n + 1))
      BY <1>1, FS_Interval
    <3>. HIDE DEF right, n
    <3>2. U \subseteq 1..(n + 1)
      OBVIOUS
    <3>3. IsFiniteSet(U)
      BY <3>1, <3>2, FS_Subset
    <3>. QED  BY <3>2, <3>3
  <2>. HIDE DEF right
  <2>2. PICK i \in U : \A k \in U : k <= i
    <3>. HIDE DEF U
    <3>. QED  BY <2>1, GreatestInteger
  <2>3. i \in 1..(n + 1) /\ ~right(i)
    OBVIOUS
  <2>4. CASE i = n + 1
    <3>1. f[i] = <<>>
      BY <1>4, <2>3, <2>4
    <3>2. <<>> \in Seq(R) /\ DOMAIN <<>> = {}
      OBVIOUS
    <3>3. i..Len(ids) = {}
      BY <1>1, <2>4
    <3>. QED  BY <2>3, <3>1, <3>2, <3>3 DEF right, AreRuns
  <2>5. CASE i # n + 1
    <3>. DEFINE e == EndOf(ids, i)
    <3>1. i \in 1..Len(ids)
      BY <1>1, <2>3, <2>5
    <3>2. e \in (i + 1)..(n + 1)
      BY <3>1, EndFacts
    <3>. HIDE DEF e, n
    <3>3. e \in 1..(n + 1) /\ ~(e <= i)
      BY <1>1, <2>3, <3>2
    <3>4. right(e)
      BY <2>2, <3>3
    <3>5. RunAt(ids, table, i) \in R
      BY <3>1 DEF n
    <3>. HIDE DEF R, U
    <3>6. CASE ids[i] = 0
      <4>1. f[i] = f[e]
        BY <1>4, <2>3, <2>5, <3>6 DEF e
      <4>2. AreRuns(f[e], i, ids, table)
        BY <3>1, <3>4, <3>6, RunsSkip DEF right, e
      <4>. QED  BY <2>3, <3>4, <4>1, <4>2 DEF right
    <3>7. CASE ids[i] # 0
      <4>1. f[i] = <<RunAt(ids, table, i)>> \o f[e]
        BY <1>4, <2>3, <2>5, <3>7 DEF e
      <4>2. AreRuns(<<RunAt(ids, table, i)>> \o f[e], i, ids, table)
        BY <3>1, <3>4, <3>5, <3>7, RunsGrow DEF right, e
      <4>3. <<RunAt(ids, table, i)>> \o f[e] \in Seq(R)
        BY <3>4, <3>5 DEF right
      <4>. QED  BY <2>3, <4>1, <4>2, <4>3 DEF right
    <3>. QED  BY <3>6, <3>7
  <2>. QED  BY <2>4, <2>5
<1>6. right(1)
  <2>1. 1 \in 1..(n + 1)
    BY <1>1
  <2>. HIDE DEF right, n
  <2>. QED  BY <1>5, <2>1
<1>. HIDE DEF R
<1>. QED  BY <1>3, <1>6

(* The runs that hold a character.                                         *)
Holding(runs, i) == {k \in DOMAIN runs : runs[k].start <= i /\ i < runs[k].end}

(* What all of the runs say of the characters.                             *)
LEMMA RunsHold ==
    ASSUME NEW V, NEW ids \in Seq(V), NEW table, NEW R, NEW runs \in Seq(R), AreRuns(runs, 1, ids, table)
    PROVE  /\ \A i \in DOMAIN ids :
                /\ Cardinality(Holding(runs, i)) = IF ids[i] = 0 THEN 0 ELSE 1
                /\ \A k \in Holding(runs, i) : runs[k].id = ids[i]
                /\ i > 1 /\ ids[i] # 0 => (ids[i] = ids[i - 1] <=> Holding(runs, i) = Holding(runs, i - 1))
           /\ \A j, k \in DOMAIN runs : j < k => runs[j].end <= runs[k].start
           /\ \A k \in DOMAIN runs : runs[k].id \notin DOMAIN table => runs[k].decoration = "unknown"
<1>. DEFINE n == Len(ids)
            H(i) == Holding(runs, i)
<1>1. n \in Nat /\ DOMAIN ids = 1..n /\ Len(runs) \in Nat /\ DOMAIN runs = 1..Len(runs)
  OBVIOUS
<1>. HIDE DEF n
<1>2. ASSUME NEW k \in DOMAIN runs
      PROVE  /\ runs[k].start \in 1..n /\ runs[k].end \in 2..(n + 1) /\ runs[k].start < runs[k].end
             /\ runs[k].id # 0 /\ \A x \in runs[k].start..(runs[k].end - 1) : ids[x] = runs[k].id
             /\ runs[k].end = n + 1 \/ ids[runs[k].end] # runs[k].id
             /\ runs[k].decoration = OverrideDecoration(runs[k].id, table)
  <2>1. IsRun(runs[k], 1, ids, table)
    BY DEF AreRuns
  <2>2. /\ runs[k].start \in Nat /\ runs[k].end \in Nat /\ 1 <= runs[k].start
        /\ runs[k].start < runs[k].end /\ runs[k].end <= n + 1
    BY <2>1 DEF IsRun, n
  <2>3. runs[k].start \in 1..n /\ runs[k].end \in 2..(n + 1)
    BY <1>1, <2>2
  <2>. QED  BY <2>1, <2>2, <2>3 DEF IsRun, n
<1>3. \A j, k \in DOMAIN runs : j < k => runs[j].end <= runs[k].start
  BY DEF AreRuns
<1>4. ASSUME NEW i \in 1..n, NEW k \in H(i)  PROVE k \in DOMAIN runs /\ runs[k].id = ids[i] /\ ids[i] # 0
  <2>1. k \in DOMAIN runs /\ runs[k].start <= i /\ i < runs[k].end
    BY DEF Holding
  <2>2. i \in runs[k].start..(runs[k].end - 1)
    BY <1>1, <1>2, <2>1
  <2>. QED  BY <1>2, <2>1, <2>2
<1>5. ASSUME NEW i \in 1..n, NEW j \in H(i), NEW k \in H(i)  PROVE j = k
  <2>1. /\ j \in DOMAIN runs /\ runs[j].start <= i /\ i < runs[j].end
        /\ k \in DOMAIN runs /\ runs[k].start <= i /\ i < runs[k].end
    BY DEF Holding
  <2>2. \A a, b \in DOMAIN runs : a < b /\ runs[b].start <= i => ~(i < runs[a].end)
    <3>. SUFFICES ASSUME NEW a \in DOMAIN runs, NEW b \in DOMAIN runs, a < b, runs[b].start <= i
                  PROVE  ~(i < runs[a].end)
      OBVIOUS
    <3>1. runs[a].end <= runs[b].start
      BY <1>3
    <3>. QED  BY <1>1, <1>2, <3>1
  <2>3. ~(j < k) /\ ~(k < j)
    BY <2>1, <2>2
  <2>4. j \in Int /\ k \in Int
    BY <1>1, <2>1
  <2>. QED  BY <2>3, <2>4
<1>6. ASSUME NEW i \in 1..n, ids[i] # 0  PROVE \E k : H(i) = {k}
  <2>1. \A x \in 1..Len(ids) :
          ids[x] # 0 => \E k \in DOMAIN runs : runs[k].start <= x /\ x < runs[k].end
    BY DEF AreRuns
  <2>2. PICK k \in DOMAIN runs : runs[k].start <= i /\ i < runs[k].end
    BY <1>6, <2>1 DEF n
  <2>3. k \in H(i)
    BY <2>2 DEF Holding
  <2>. HIDE DEF H
  <2>4. H(i) = {k}
    BY <1>5, <2>3
  <2>. QED  BY <2>4
<1>7. ASSUME NEW i \in 1..n  PROVE Cardinality(H(i)) = IF ids[i] = 0 THEN 0 ELSE 1
  <2>1. CASE ids[i] = 0
    <3>1. H(i) = {}
      BY <1>4, <2>1
    <3>2. Cardinality(H(i)) = 0
      BY <3>1, FS_EmptySet
    <3>. QED  BY <2>1, <3>2
  <2>2. CASE ids[i] # 0
    <3>1. PICK k : H(i) = {k}
      BY <1>6, <2>2
    <3>. HIDE DEF H
    <3>2. Cardinality(H(i)) = 1
      BY <3>1, FS_Singleton
    <3>. QED  BY <2>2, <3>2
  <2>. QED  BY <2>1, <2>2
<1>8. ASSUME NEW i \in 1..n, i > 1, ids[i] # 0  PROVE ids[i] = ids[i - 1] <=> H(i) = H(i - 1)
  <2>1. i - 1 \in 1..n
    BY <1>1, <1>8
  <2>2. ASSUME ids[i] = ids[i - 1]  PROVE H(i) = H(i - 1)
    <3>1. PICK k : H(i - 1) = {k}
      BY <1>6, <1>8, <2>1, <2>2
    <3>2. k \in H(i - 1)
      BY <3>1
    <3>3. k \in DOMAIN runs /\ runs[k].id = ids[i]
      BY <1>4, <2>1, <2>2, <3>2
    <3>4. runs[k].start <= i - 1 /\ i - 1 < runs[k].end
      BY <3>2 DEF Holding
    <3>5. runs[k].end # i
      <4>1. runs[k].end # n + 1 => ids[runs[k].end] # runs[k].id
        BY <1>2, <3>3
      <4>2. i # n + 1
        BY <1>1
      <4>. QED  BY <3>3, <4>1, <4>2
    <3>6. runs[k].start <= i /\ i < runs[k].end
      BY <1>1, <1>2, <3>3, <3>4, <3>5
    <3>7. k \in H(i)
      BY <3>3, <3>6 DEF Holding
    <3>. HIDE DEF H
    <3>8. H(i) = {k}
      BY <1>5, <3>7
    <3>. QED  BY <3>1, <3>8
  <2>3. ASSUME H(i) = H(i - 1)  PROVE ids[i] = ids[i - 1]
    <3>1. PICK k : H(i) = {k}
      BY <1>6, <1>8
    <3>2. k \in H(i) /\ k \in H(i - 1)
      BY <2>3, <3>1
    <3>. QED  BY <1>4, <2>1, <3>2
  <2>. QED  BY <2>2, <2>3
<1>9. ASSUME NEW k \in DOMAIN runs, runs[k].id \notin DOMAIN table  PROVE runs[k].decoration = "unknown"
  BY <1>2, <1>9 DEF OverrideDecoration
<1>. HIDE DEF H
<1>10. /\ \A i \in DOMAIN ids :
            /\ Cardinality(H(i)) = IF ids[i] = 0 THEN 0 ELSE 1
            /\ \A k \in H(i) : runs[k].id = ids[i]
            /\ i > 1 /\ ids[i] # 0 => (ids[i] = ids[i - 1] <=> H(i) = H(i - 1))
  BY <1>1, <1>4, <1>7, <1>8
<1>. QED  BY <1>3, <1>9, <1>10 DEF H

(* overrideRunsOf: a character is in a run exactly if it is overridden.    *)
THEOREM RunsAreOverrides == Spec => []RunsAreTheOverrides
<1>1. DocumentInv => RunsAreTheOverrides
  <2>. SUFFICES ASSUME DocumentInv, NEW o \in DOMAIN nodes, nodes[o].text # None
                PROVE  LET ids == Snap.look[o].overrides
                           runs == nodes[o].text.runs
                           holding(i) == {k \in DOMAIN runs : runs[k].start <= i /\ i < runs[k].end}
                       IN /\ \A i \in DOMAIN ids :
                               /\ Cardinality(holding(i)) = IF ids[i] = 0 THEN 0 ELSE 1
                               /\ \A k \in holding(i) : runs[k].id = ids[i]
                               /\ i > 1 /\ ids[i] # 0 => (ids[i] = ids[i - 1] <=> holding(i) = holding(i - 1))
                          /\ \A j, k \in DOMAIN runs : j < k => runs[j].end <= runs[k].start
                          /\ \A k \in DOMAIN runs :
                               runs[k].id \notin DOMAIN Snap.look[o].table => runs[k].decoration = "unknown"
    BY DEF RunsAreTheOverrides
  <2>. DEFINE ids == Snap.look[o].overrides
              table == Snap.look[o].table
              runs == nodes[o].text.runs
              V == Int \cup {None}
  <2>1. IsSnapshot(Snap) /\ o \in Snap.nodes /\ nodes[o].text = TextAt(o)
    BY SnapshotGiven DEF DocumentInv, Stages, ConversionInv, Kinds, Copied
  <2>2. ids \in Seq(V)
    BY <2>1 DEF IsSnapshot
  <2>3. runs = OverrideRuns(ids, table)
    <3>1. TextOf(Snap.look[o]) # None
      BY <2>1 DEF TextAt
    <3>2. Snap.look[o].characters # None
      BY <3>1 DEF TextOf
    <3>3. TextOf(Snap.look[o]).runs = OverrideRuns(ids, table)
      BY <3>2 DEF TextOf
    <3>. QED  BY <2>1, <3>3 DEF TextAt
  <2>. HIDE DEF ids, table, runs, V
  <2>4. PICK R : runs \in Seq(R)
    BY <2>2, <2>3, OverrideRunsFacts
  <2>5. AreRuns(runs, 1, ids, table)
    BY <2>2, <2>3, OverrideRunsFacts
  <2>6. /\ \A i \in DOMAIN ids :
             /\ Cardinality(Holding(runs, i)) = IF ids[i] = 0 THEN 0 ELSE 1
             /\ \A k \in Holding(runs, i) : runs[k].id = ids[i]
             /\ i > 1 /\ ids[i] # 0 => (ids[i] = ids[i - 1] <=> Holding(runs, i) = Holding(runs, i - 1))
        /\ \A j, k \in DOMAIN runs : j < k => runs[j].end <= runs[k].start
        /\ \A k \in DOMAIN runs : runs[k].id \notin DOMAIN table => runs[k].decoration = "unknown"
    BY <2>2, <2>4, <2>5, RunsHold
  <2>. QED  BY <2>6 DEF Holding, ids, table, runs
<1>. QED  BY <1>1, DocumentInvariant, PTL
=============================================================================
