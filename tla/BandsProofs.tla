----------------------------- MODULE BandsProofs -----------------------------
(***************************************************************************)
(* For every finite graph, rings and all: the bands that `_depths' finds   *)
(* respect the edges.  With it go the facts that the proofs about pictures *)
(* share: of sets of sets, of what can be reached in a graph, and of       *)
(* functions on the subsets of a set, each defined from those on smaller   *)
(* ones, as every fold is.                                                 *)
(***************************************************************************)
EXTENDS Bands, FiniteSetTheorems, WellFoundedInduction, TLAPS

-----------------------------------------------------------------------------
(* Numbers, and sets of sets *)

\* Of some numbers one is the least.
LEMMA LeastNumber ==
    ASSUME NEW T \in SUBSET Nat, T # {}
    PROVE  \E m \in T : \A x \in T : m <= x
  <1> DEFINE Less == OpToRel(<, Nat)
  <1>1. \A k, m \in Nat : <<k, m>> \in Less <=> k < m
    BY DEF OpToRel
  <1>2. IsWellFoundedOn(Less, Nat)
    BY NatLessThanWellFounded
  <1> HIDE DEF Less
  <1>3. PICK m \in T : \A x \in T : ~ (<<x, m>> \in Less)
    BY <1>2, WFMin
  <1>4. \A x \in T : x \in Nat /\ m \in Nat /\ ~ (x < m)
    BY <1>1, <1>3
  <1> QED BY <1>4

\* Of finitely many sets one holds no other.
LEMMA LeastOfSets ==
    ASSUME NEW U, IsFiniteSet(U), NEW F \in SUBSET (SUBSET U), F # {}
    PROVE  \E X \in F : \A Y \in F : Y \subseteq X => Y = X
  <1>1. F \subseteq FiniteSubsetsOf(U)
    BY FS_Subset DEF FiniteSubsetsOf
  <1>2. PICK X \in F : \A Y \in F : ~ (<<Y, X>> \in StrictSubsetOrdering(U))
    BY <1>1, FS_StrictSubsetOrderingWellFounded, WFMin
  <1>3. ASSUME NEW Y \in F, Y \subseteq X PROVE Y = X
    BY <1>2, <1>3 DEF StrictSubsetOrdering
  <1> QED BY <1>3

\* And one is held by no other.
LEMMA GreatestOfSets ==
    ASSUME NEW U, IsFiniteSet(U), NEW F \in SUBSET (SUBSET U), F # {}
    PROVE  \E X \in F : \A Y \in F : X \subseteq Y => Y = X
  <1> DEFINE G == {U \ X : X \in F}
  <1>0. G \in SUBSET (SUBSET U) /\ G # {}
    <2>1. PICK X \in F : TRUE
      OBVIOUS
    <2>2. U \ X \in G
      OBVIOUS
    <2>3. \A Y \in G : Y \subseteq U
      OBVIOUS
    <2> HIDE DEF G
    <2> QED BY <2>2, <2>3
  <1>1. PICK Z \in G : \A Y \in G : Y \subseteq Z => Y = Z
    <2> HIDE DEF G
    <2> QED BY <1>0, LeastOfSets
  <1>2. PICK X \in F : Z = U \ X
    OBVIOUS
  <1>3. ASSUME NEW Y \in F, X \subseteq Y PROVE Y = X
    <2>1. U \ Y \in G /\ U \ Y \subseteq Z
      BY <1>2, <1>3
    <2>2. U \ Y = U \ X
      BY <1>1, <1>2, <2>1
    <2>3. X \in SUBSET U /\ Y \in SUBSET U
      OBVIOUS
    <2> QED BY <2>2, <2>3
  <1> QED BY <1>3

\* What holds of {} and is kept by adding the member that CHOOSE names holds of
\* every finite set.
LEMMA GrowByChoice ==
    ASSUME NEW U, IsFiniteSet(U), NEW Good \in SUBSET (SUBSET U), {} \in Good,
           \A s \in SUBSET U : (s # {} /\ s \ {CHOOSE x \in s : TRUE} \in Good) => s \in Good
    PROVE  U \in Good
  <1> SUFFICES ASSUME U \notin Good PROVE FALSE
    OBVIOUS
  <1>1. PICK s \in (SUBSET U) \ Good : \A t \in (SUBSET U) \ Good : t \subseteq s => t = s
    BY LeastOfSets
  <1>2. s # {}
    OBVIOUS
  <1>3. (CHOOSE x \in s : TRUE) \in s
    BY <1>2
  <1>4. s \ {CHOOSE x \in s : TRUE} \in Good
    BY <1>1, <1>3
  <1> QED BY <1>2, <1>4

-----------------------------------------------------------------------------
(* What can be reached *)

\* Reach is the least closed set with S in it.
LEMMA ReachIs ==
    ASSUME NEW S, NEW edges
    PROVE  /\ S \subseteq Reach(S, edges)
           /\ Closed(Reach(S, edges), edges)
           /\ \A T : (S \subseteq T /\ Closed(T, edges)) => Reach(S, edges) \subseteq T
  <1> DEFINE next == {e[2] : e \in edges} \ S
             closed == {T \in SUBSET next : Closed(S \cup T, edges)}
  <1>1. Reach(S, edges) = S \cup {n \in next : \A T \in closed : n \in T}
    BY DEF Reach
  <1>2. ASSUME NEW T, S \subseteq T, Closed(T, edges) PROVE Reach(S, edges) \subseteq T
    <2>1. T \cap next \in closed
      BY <1>2 DEF Closed
    <2> QED BY <1>1, <1>2, <2>1
  <1>3. Closed(Reach(S, edges), edges)
    <2> SUFFICES ASSUME NEW e \in edges, e[1] \in Reach(S, edges), e[2] \notin S
                 PROVE  e[2] \in Reach(S, edges)
      BY <1>1 DEF Closed
    <2>1. e[2] \in next
      OBVIOUS
    <2>2. ASSUME NEW T \in closed PROVE e[2] \in T
      <3>1. e[1] \in S \cup T
        BY <1>1, <2>2
      <3> QED BY <2>2, <3>1 DEF Closed
    <2> QED BY <1>1, <2>1, <2>2
  <1>4. S \subseteq Reach(S, edges)
    BY <1>1
  <1> QED BY <1>2, <1>3, <1>4

\* Whatever is reached was there from the start or comes after what is reached.
LEMMA ReachedFrom ==
    ASSUME NEW S, NEW edges, NEW x \in Reach(S, edges)
    PROVE  x \in S \/ \E e \in edges : e[2] = x /\ e[1] \in Reach(S, edges)
  <1> DEFINE T == {y \in Reach(S, edges) :
                     y \in S \/ \E e \in edges : e[2] = y /\ e[1] \in Reach(S, edges)}
  <1>1. S \subseteq T /\ Closed(T, edges)
    BY ReachIs DEF Closed
  <1>2. Reach(S, edges) \subseteq T
    BY <1>1, ReachIs
  <1> QED BY <1>2

\* What can be reached from what can be reached can be reached.
LEMMA ReachOn ==
    ASSUME NEW S, NEW edges, NEW R, R \subseteq Reach(S, edges)
    PROVE  Reach(R, edges) \subseteq Reach(S, edges)
  BY ReachIs

-----------------------------------------------------------------------------
(* Functions on the subsets of a set *)

Below(s) == (SUBSET s) \ {s}

\* H tells what a function is on a set from what it is on smaller ones.
FromBelow(U, V, H) ==
    /\ H \in [(SUBSET U) \X [SUBSET U -> V] -> V]
    /\ \A s \in SUBSET U : \A g, h \in [SUBSET U -> V] :
           (\A t \in Below(s) : g[t] = h[t]) => H[<<s, g>>] = H[<<s, h>>]

\* g is on each set what H tells.
Told(U, V, H, g) == g \in [SUBSET U -> V] /\ \A s \in SUBSET U : g[s] = H[<<s, g>>]

\* There is a function that is on each set what H tells.
LEMMA RecursionOnSubsets ==
    ASSUME NEW U, IsFiniteSet(U), NEW V, NEW v \in V, NEW H, FromBelow(U, V, H)
    PROVE  \E g : Told(U, V, H, g)
  <1> DEFINE UpTo(k, g) == \A s \in SUBSET U : Cardinality(s) < k => g[s] = H[<<s, g>>]
             Bad == {k \in Nat : ~ \E g \in [SUBSET U -> V] : UpTo(k, g)}
  <1>1. \A s \in SUBSET U : /\ Cardinality(s) \in Nat /\ Cardinality(s) <= Cardinality(U)
                            /\ \A t \in Below(s) : t \in SUBSET U /\ Cardinality(t) < Cardinality(s)
    <2> SUFFICES ASSUME NEW s \in SUBSET U
                 PROVE  /\ Cardinality(s) \in Nat /\ Cardinality(s) <= Cardinality(U)
                        /\ \A t \in Below(s) : t \in SUBSET U /\ Cardinality(t) < Cardinality(s)
      OBVIOUS
    <2>1. IsFiniteSet(s) /\ Cardinality(s) <= Cardinality(U) /\ Cardinality(s) \in Nat
      BY FS_Subset, FS_CardinalityType
    <2>2. ASSUME NEW t \in Below(s) PROVE t \in SUBSET U /\ Cardinality(t) < Cardinality(s)
      <3>1. t \in SUBSET s /\ t # s
        BY DEF Below
      <3>2. IsFiniteSet(t) /\ Cardinality(t) <= Cardinality(s) /\ Cardinality(s) # Cardinality(t)
        BY <2>1, <3>1, FS_Subset
      <3>3. Cardinality(t) \in Nat
        BY <3>2, FS_CardinalityType
      <3> QED BY <2>1, <3>1, <3>2, <3>3
    <2> QED BY <2>1, <2>2
  <1>2. 0 \notin Bad
    <2> DEFINE g == [s \in SUBSET U |-> v]
    <2>1. g \in [SUBSET U -> V]
      OBVIOUS
    <2>2. UpTo(0, g)
      <3> HIDE DEF g
      <3> QED BY <1>1
    <2> HIDE DEF g, UpTo
    <2> QED BY <2>1, <2>2
  <1>3. ASSUME NEW k \in Nat, k \notin Bad PROVE k + 1 \notin Bad
    <2>1. PICK g \in [SUBSET U -> V] : UpTo(k, g)
      BY <1>3
    <2> DEFINE h == [s \in SUBSET U |-> H[<<s, g>>]]
    <2>2. h \in [SUBSET U -> V]
      <3>1. ASSUME NEW s \in SUBSET U PROVE H[<<s, g>>] \in V
        <4>0. PICK W : W = [SUBSET U -> V]
          OBVIOUS
        <4>1. g \in W /\ H \in [(SUBSET U) \X W -> V]
          BY <4>0 DEF FromBelow
        <4>2. <<s, g>> \in (SUBSET U) \X W
          BY <4>1
        <4> QED BY <4>1, <4>2
      <3> QED BY <3>1
    <2>3. ASSUME NEW s \in SUBSET U, Cardinality(s) < k + 1 PROVE h[s] = H[<<s, h>>]
      <3>1. \A t \in Below(s) : t \in SUBSET U /\ Cardinality(t) < k
        <4>1. Cardinality(s) \in Nat /\ \A t \in Below(s) : t \in SUBSET U /\ Cardinality(t) \in Nat /\ Cardinality(t) < Cardinality(s)
          BY <1>1
        <4> HIDE DEF h
        <4> QED BY <2>3, <4>1
      <3>2. \A t \in Below(s) : g[t] = H[<<t, g>>]
        BY <2>1, <3>1
      <3>3. \A t \in Below(s) : h[t] = g[t]
        BY <3>1, <3>2
      <3>4. h[s] = H[<<s, g>>]
        OBVIOUS
      <3> HIDE DEF h
      <3> QED BY <2>2, <3>3, <3>4 DEF FromBelow
    <2>4. UpTo(k + 1, h)
      <3> HIDE DEF h
      <3> QED BY <2>3
    <2> HIDE DEF h, UpTo
    <2> QED BY <2>2, <2>4
  <1>4. Bad = {}
    <2> SUFFICES ASSUME Bad # {} PROVE FALSE
      OBVIOUS
    <2>1. Bad \in SUBSET Nat
      OBVIOUS
    <2> HIDE DEF Bad
    <2>2. PICK k \in Bad : \A x \in Bad : k <= x
      BY <2>1, LeastNumber
    <2>3. k # 0 /\ k \in Nat
      BY <1>2, <2>1
    <2>4. k - 1 \in Nat /\ k - 1 \notin Bad
      BY <2>1, <2>2, <2>3
    <2>5. (k - 1) + 1 \notin Bad
      BY <1>3, <2>4
    <2> QED BY <2>3, <2>5
  <1>5. Cardinality(U) + 1 \in Nat
    <2>1. U \in SUBSET U
      OBVIOUS
    <2> HIDE DEF Bad
    <2> QED BY <1>1, <2>1
  <1>6. PICK g \in [SUBSET U -> V] : UpTo(Cardinality(U) + 1, g)
    BY <1>4, <1>5
  <1>7. \A s \in SUBSET U : Cardinality(s) < Cardinality(U) + 1
    <2>1. Cardinality(U) \in Nat /\ \A s \in SUBSET U : Cardinality(s) \in Nat /\ Cardinality(s) <= Cardinality(U)
      BY <1>1
    <2> QED BY <2>1
  <1> QED BY <1>6, <1>7 DEF Told

\* A fold: base for {}, and for another set one step further than for the set
\* without the member that CHOOSE names.
Pick(s) == CHOOSE x \in s : TRUE
Folds(S, V, base, step, g) ==
    /\ g \in [SUBSET S -> V]
    /\ \A s \in SUBSET S : g[s] = IF s = {} THEN base ELSE step[<<Pick(s), g[s \ {Pick(s)}]>>]

LEMMA FoldExists ==
    ASSUME NEW S, IsFiniteSet(S), NEW V, NEW base \in V, NEW step \in [S \X V -> V]
    PROVE  \E g : Folds(S, V, base, step, g)
  <1>0. PICK W : W = [SUBSET S -> V]
    OBVIOUS
  <1> DEFINE H == [p \in (SUBSET S) \X W |->
                     IF p[1] = {} THEN base ELSE step[<<Pick(p[1]), p[2][p[1] \ {Pick(p[1])}]>>]]
  <1>1. \A s \in SUBSET S : s # {} => Pick(s) \in s /\ s \ {Pick(s)} \in Below(s) /\ s \ {Pick(s)} \in SUBSET S
    BY DEF Pick, Below
  <1>2. ASSUME NEW s \in SUBSET S, NEW g \in W
        PROVE  H[<<s, g>>] = IF s = {} THEN base ELSE step[<<Pick(s), g[s \ {Pick(s)}]>>]
    <2>1. <<s, g>> \in (SUBSET S) \X W /\ <<s, g>>[1] = s /\ <<s, g>>[2] = g
      OBVIOUS
    <2> QED BY <2>1
  <1>3. H \in [(SUBSET S) \X W -> V]
    <2>1. ASSUME NEW p \in (SUBSET S) \X W PROVE H[p] \in V
      <3>1. PICK s \in SUBSET S, g \in W : p = <<s, g>>
        OBVIOUS
      <3>2. s # {} => <<Pick(s), g[s \ {Pick(s)}]>> \in S \X V
        BY <1>0, <1>1
      <3>3. H[p] = IF s = {} THEN base ELSE step[<<Pick(s), g[s \ {Pick(s)}]>>]
        <4> HIDE DEF H
        <4> QED BY <1>2, <3>1
      <3> HIDE DEF H
      <3> QED BY <3>2, <3>3
    <2>2. DOMAIN H = (SUBSET S) \X W /\ H = [p \in (SUBSET S) \X W |-> H[p]]
      OBVIOUS
    <2> HIDE DEF H
    <2> QED BY <2>1, <2>2
  <1> HIDE DEF H
  <1>4. ASSUME NEW s \in SUBSET S, NEW g \in W, NEW h \in W, \A t \in Below(s) : g[t] = h[t]
        PROVE  H[<<s, g>>] = H[<<s, h>>]
    <2>1. s # {} => g[s \ {Pick(s)}] = h[s \ {Pick(s)}]
      BY <1>1, <1>4
    <2>2. H[<<s, g>>] = IF s = {} THEN base ELSE step[<<Pick(s), g[s \ {Pick(s)}]>>]
      BY <1>2
    <2>3. H[<<s, h>>] = IF s = {} THEN base ELSE step[<<Pick(s), h[s \ {Pick(s)}]>>]
      BY <1>2
    <2> QED BY <2>1, <2>2, <2>3
  <1>5. PICK g \in W : \A s \in SUBSET S : g[s] = H[<<s, g>>]
    <2>1. \A s \in SUBSET S : \A g, h \in W : (\A t \in Below(s) : g[t] = h[t]) => H[<<s, g>>] = H[<<s, h>>]
      BY <1>4
    <2>2. FromBelow(S, V, H)
      BY <1>0, <1>3, <2>1 DEF FromBelow
    <2>3. PICK g : Told(S, V, H, g)
      BY <2>2, RecursionOnSubsets
    <2> QED BY <1>0, <2>3 DEF Told
  <1>6. g \in [SUBSET S -> V]
    BY <1>0
  <1>7. Folds(S, V, base, step, g)
    BY <1>2, <1>5, <1>6 DEF Folds
  <1> QED BY <1>7

\* What is one step further for one is for the other: a fold is the only one.
LEMMA OneFold ==
    ASSUME NEW S, IsFiniteSet(S), NEW g, NEW h, g[{}] = h[{}],
           \A s \in SUBSET S : (s # {} /\ g[s \ {Pick(s)}] = h[s \ {Pick(s)}]) => g[s] = h[s]
    PROVE  g[S] = h[S]
  <1> DEFINE Sets == {s \in SUBSET S : g[s] = h[s]}
  <1>1. {} \in Sets
    OBVIOUS
  <1>2. ASSUME NEW s \in SUBSET S, s # {}, s \ {CHOOSE x \in s : TRUE} \in Sets PROVE s \in Sets
    BY <1>2 DEF Pick
  <1>3. Sets \in SUBSET (SUBSET S)
    OBVIOUS
  <1>4. S \in Sets
    <2> HIDE DEF Sets
    <2> QED BY <1>1, <1>2, <1>3, GrowByChoice
  <1> QED BY <1>4

\* Good holds at the base, and is kept by every step.
Keeps(S, V, base, step, Good) ==
    /\ Good \in SUBSET ((SUBSET S) \X V) /\ <<{}, base>> \in Good
    /\ \A s \in SUBSET S : \A x \in s : \A v \in V :
           <<s \ {x}, v>> \in Good => <<s, step[<<x, v>>]>> \in Good

\* It holds at the end.
LEMMA FoldKeeps ==
    ASSUME NEW S, IsFiniteSet(S), NEW V, NEW base, NEW step, NEW g, Folds(S, V, base, step, g),
           NEW Good, Keeps(S, V, base, step, Good)
    PROVE  <<S, g[S]>> \in Good
  <1> DEFINE Sets == {s \in SUBSET S : <<s, g[s]>> \in Good}
  <1>1. {} \in Sets
    BY DEF Folds, Keeps
  <1>2. ASSUME NEW s \in SUBSET S, s # {}, s \ {CHOOSE x \in s : TRUE} \in Sets PROVE s \in Sets
    <2>1. Pick(s) \in s
      BY <1>2 DEF Pick
    <2>2. <<s \ {Pick(s)}, g[s \ {Pick(s)}]>> \in Good
      BY <1>2 DEF Pick
    <2>3. g[s \ {Pick(s)}] \in V
      BY DEF Folds
    <2>4. <<s, step[<<Pick(s), g[s \ {Pick(s)}]>>]>> \in Good
      BY <2>1, <2>2, <2>3 DEF Keeps
    <2>5. g[s] = step[<<Pick(s), g[s \ {Pick(s)}]>>]
      BY <1>2 DEF Folds
    <2> QED BY <2>4, <2>5
  <1>3. Sets \in SUBSET (SUBSET S)
    OBVIOUS
  <1>4. S \in Sets
    <2> HIDE DEF Sets
    <2> QED BY <1>1, <1>2, <1>3, GrowByChoice
  <1> QED BY <1>4

-----------------------------------------------------------------------------
(* The walk through what a node waits on *)

\* Bands found so far; where a walk may start; how it ends; what a walk may be.
Depths(ids) == [ids -> Int]
Starts(ids) == ids \X Depths(ids)
Ends(ids) == [depth : Depths(ids), value : Int]
WalksOf(ids) == [Starts(ids) -> Ends(ids)]

IsGraph(ids, edges) == IsFiniteSet(ids) /\ edges \in SUBSET (ids \X ids)

LEMMA OnIs ==
    ASSUME NEW ids, NEW edges, IsGraph(ids, edges), NEW id
    PROVE  /\ On(id, edges) \in SUBSET ids /\ IsFiniteSet(On(id, edges))
           /\ \A d : d \in On(id, edges) <=> <<id, d>> \in edges
  <1>1. On(id, edges) \in SUBSET ids
    BY DEF IsGraph, On
  <1>2. IsFiniteSet(On(id, edges))
    BY <1>1, FS_Subset DEF IsGraph
  <1>3. ASSUME NEW d, d \in On(id, edges) PROVE <<id, d>> \in edges
    <2>1. PICK e \in edges : e[1] = id /\ e[2] = d
      BY <1>3 DEF On
    <2>2. e = <<e[1], e[2]>>
      BY DEF IsGraph
    <2> QED BY <2>1, <2>2
  <1>4. ASSUME NEW d, <<id, d>> \in edges PROVE d \in On(id, edges)
    <2>1. <<id, d>>[1] = id /\ <<id, d>>[2] = d
      OBVIOUS
    <2> QED BY <1>4, <2>1 DEF On
  <1> QED BY <1>1, <1>2, <1>3, <1>4

LEMMA MaxOfTwo ==
    ASSUME NEW a \in Int, NEW b \in Int
    PROVE  Max({a, b}) = IF a >= b THEN a ELSE b
  <1>1. CASE a >= b
    <2>1. a \in {a, b} /\ \A y \in {a, b} : a >= y
      BY <1>1
    <2>2. \A x \in {a, b} : (\A y \in {a, b} : x >= y) => x = a
      BY <1>1
    <2> QED BY <1>1, <2>1, <2>2 DEF Max
  <1>2. CASE ~ (a >= b)
    <2>1. b \in {a, b} /\ \A y \in {a, b} : b >= y
      BY <1>2
    <2>2. \A x \in {a, b} : (\A y \in {a, b} : x >= y) => x = b
      BY <1>2
    <2> QED BY <1>2, <2>1, <2>2 DEF Max
  <1> QED BY <1>1, <1>2

LEMMA DeeperIs ==
    ASSUME NEW ids, NEW walk \in WalksOf(ids), NEW d \in ids, NEW found \in Ends(ids)
    PROVE  /\ walk[<<d, found.depth>>] \in Ends(ids)
           /\ Deeper(walk, d, found) \in Ends(ids)
           /\ Deeper(walk, d, found).depth = walk[<<d, found.depth>>].depth
           /\ Deeper(walk, d, found).value =
                 IF found.value >= walk[<<d, found.depth>>].value + 1 THEN found.value
                 ELSE walk[<<d, found.depth>>].value + 1
  <1>1. <<d, found.depth>> \in Starts(ids)
    BY DEF Ends, Starts
  <1>2. walk[<<d, found.depth>>] \in Ends(ids)
    BY <1>1 DEF WalksOf
  <1> PICK w : w = walk[<<d, found.depth>>]
    OBVIOUS
  <1>3. w.value \in Int /\ w.depth \in Depths(ids) /\ found.value \in Int
    BY <1>2 DEF Ends
  <1>4. Max({found.value, w.value + 1}) = IF found.value >= w.value + 1 THEN found.value ELSE w.value + 1
    BY <1>3, MaxOfTwo
  <1>5. Deeper(walk, d, found) = [depth |-> w.depth, value |-> Max({found.value, w.value + 1})]
    BY DEF Deeper
  <1>6. Max({found.value, w.value + 1}) \in Int
    BY <1>3, <1>4
  <1> QED BY <1>2, <1>3, <1>4, <1>5, <1>6 DEF Ends

\* The walk through what id waits on is a fold.
Begin(depth) == [depth |-> depth, value |-> 0]
StepOf(walk, S, ids) == [p \in S \X Ends(ids) |-> Deeper(walk, p[1], p[2])]
LastOf(walk, depth, S) == FoldSet(LAMBDA d, found : Deeper(walk, d, found), Begin(depth), S)

LEMMA StepIs ==
    ASSUME NEW ids, NEW walk \in WalksOf(ids), NEW S \in SUBSET ids
    PROVE  /\ StepOf(walk, S, ids) \in [S \X Ends(ids) -> Ends(ids)]
           /\ \A d \in S : \A found \in Ends(ids) : StepOf(walk, S, ids)[<<d, found>>] = Deeper(walk, d, found)
  <1>0. PICK R : R = Ends(ids)
    OBVIOUS
  <1>1. \A p \in S \X R : Deeper(walk, p[1], p[2]) \in R
    BY <1>0, DeeperIs
  <1>2. StepOf(walk, S, ids) = [p \in S \X R |-> Deeper(walk, p[1], p[2])]
    BY <1>0 DEF StepOf
  <1>3. StepOf(walk, S, ids) \in [S \X R -> R]
    BY <1>1, <1>2
  <1>4. ASSUME NEW d \in S, NEW found \in R PROVE StepOf(walk, S, ids)[<<d, found>>] = Deeper(walk, d, found)
    <2>1. <<d, found>> \in S \X R /\ <<d, found>>[1] = d /\ <<d, found>>[2] = found
      OBVIOUS
    <2> QED BY <1>2, <2>1
  <1> QED BY <1>0, <1>3, <1>4

LEMMA LastIs ==
    ASSUME NEW ids, NEW walk \in WalksOf(ids), NEW S \in SUBSET ids, IsFiniteSet(S), NEW depth \in Depths(ids)
    PROVE  \E g : Folds(S, Ends(ids), Begin(depth), StepOf(walk, S, ids), g) /\ LastOf(walk, depth, S) = g[S]
  <1>0. PICK base : base = Begin(depth)
    OBVIOUS
  <1>1. base \in Ends(ids)
    BY <1>0 DEF Begin, Ends
  <1>2. PICK g : Folds(S, Ends(ids), base, StepOf(walk, S, ids), g)
    BY <1>1, StepIs, FoldExists
  <1> DEFINE Iterates(h) == h = [s \in SUBSET S |->
                               IF s = {} THEN base
                               ELSE Deeper(walk, CHOOSE x \in s : TRUE, h[s \ {CHOOSE x \in s : TRUE}])]
             iter == CHOOSE h : Iterates(h)
  <1>3. LastOf(walk, depth, S) = iter[S]
    BY <1>0 DEF LastOf, FoldSet, MapThenFoldSet
  <1>4. ASSUME NEW s \in SUBSET S
        PROVE  g[s] = IF s = {} THEN base ELSE Deeper(walk, Pick(s), g[s \ {Pick(s)}])
    <2>1. g[s] = IF s = {} THEN base ELSE StepOf(walk, S, ids)[<<Pick(s), g[s \ {Pick(s)}]>>]
      BY <1>2 DEF Folds
    <2>2. s # {} => Pick(s) \in S /\ g[s \ {Pick(s)}] \in Ends(ids)
      BY <1>2 DEF Folds, Pick
    <2>3. s # {} => StepOf(walk, S, ids)[<<Pick(s), g[s \ {Pick(s)}]>>] = Deeper(walk, Pick(s), g[s \ {Pick(s)}])
      <3>1. \A d \in S : \A found \in Ends(ids) : StepOf(walk, S, ids)[<<d, found>>] = Deeper(walk, d, found)
        BY StepIs
      <3> QED BY <2>2, <3>1
    <2> QED BY <2>1, <2>3
  <1>5. Iterates(g)
    <2>1. g = [s \in SUBSET S |-> g[s]]
      BY <1>2 DEF Folds
    <2> QED BY <1>4, <2>1 DEF Pick
  <1>6. Iterates(iter)
    <2> HIDE DEF Iterates
    <2> QED BY <1>5
  <1>7. \A s \in SUBSET S : iter[s] = IF s = {} THEN base ELSE Deeper(walk, Pick(s), iter[s \ {Pick(s)}])
    <2> HIDE DEF iter
    <2> QED BY <1>6 DEF Pick
  <1> HIDE DEF iter, Iterates
  <1>8. iter[S] = g[S]
    <2>1. iter[{}] = g[{}]
      BY <1>4, <1>7
    <2>2. \A s \in SUBSET S : (s # {} /\ iter[s \ {Pick(s)}] = g[s \ {Pick(s)}]) => iter[s] = g[s]
      BY <1>4, <1>7
    <2> QED BY <2>1, <2>2, OneFold
  <1> QED BY <1>0, <1>2, <1>3, <1>8

LEMMA VisitedIs ==
    ASSUME NEW ids, NEW edges, IsGraph(ids, edges), NEW walk, NEW id, NEW depth
    PROVE  Visited(walk, id, depth, edges) =
              [depth |-> [LastOf(walk, depth, On(id, edges)).depth EXCEPT ![id] = LastOf(walk, depth, On(id, edges)).value],
               value |-> LastOf(walk, depth, On(id, edges)).value]
  BY DEF Visited, LastOf, Begin

LEMMA VisitedEnds ==
    ASSUME NEW ids, NEW edges, IsGraph(ids, edges), NEW walk \in WalksOf(ids), NEW id \in ids,
           NEW depth \in Depths(ids)
    PROVE  /\ LastOf(walk, depth, On(id, edges)) \in Ends(ids)
           /\ Visited(walk, id, depth, edges) \in Ends(ids)
  <1> PICK S : S = On(id, edges)
    OBVIOUS
  <1>1. S \in SUBSET ids /\ IsFiniteSet(S)
    BY OnIs
  <1>2. PICK g : Folds(S, Ends(ids), Begin(depth), StepOf(walk, S, ids), g) /\ LastOf(walk, depth, S) = g[S]
    BY <1>1, LastIs
  <1>3. LastOf(walk, depth, S) \in Ends(ids)
    BY <1>2 DEF Folds
  <1> PICK last : last = LastOf(walk, depth, S)
    OBVIOUS
  <1>4. last.depth \in Depths(ids) /\ last.value \in Int
    BY <1>3 DEF Ends
  <1>5. [last.depth EXCEPT ![id] = last.value] \in Depths(ids)
    BY <1>4 DEF Depths
  <1>6. Visited(walk, id, depth, edges) = [depth |-> [last.depth EXCEPT ![id] = last.value], value |-> last.value]
    BY VisitedIs
  <1> QED BY <1>3, <1>4, <1>5, <1>6 DEF Ends

-----------------------------------------------------------------------------
(* The walk *)

\* How the walk goes on from id through the nodes seen, where next goes on from
\* there.
Leg(seen, next, id, depth, edges) ==
    IF depth[id] # Unwalked THEN [depth |-> depth, value |-> depth[id]]
    ELSE IF id \in seen THEN [depth |-> depth, value |-> 0]
    ELSE Visited(next, id, depth, edges)

LEMMA LegEnds ==
    ASSUME NEW ids, NEW edges, IsGraph(ids, edges), NEW id \in ids, NEW depth \in Depths(ids),
           NEW seen, NEW next, id \notin seen => next \in WalksOf(ids)
    PROVE  Leg(seen, next, id, depth, edges) \in Ends(ids)
  <1>1. depth[id] \in Int
    BY DEF Depths
  <1>2. [depth |-> depth, value |-> depth[id]] \in Ends(ids) /\ [depth |-> depth, value |-> 0] \in Ends(ids)
    BY <1>1 DEF Ends
  <1> QED BY <1>2, VisitedEnds DEF Leg

IsWalk(ids, edges, walk) ==
    walk = [seen \in SUBSET ids |->
              [at \in Starts(ids) |-> Leg(seen, walk[seen \cup {at[1]}], at[1], at[2], edges)]]

\* There is such a function: where a node has been seen the walk goes no further.
LEMMA WalkExists ==
    ASSUME NEW ids, NEW edges, IsGraph(ids, edges)
    PROVE  \E walk : IsWalk(ids, edges, walk)
  <1>0. PICK V : V = WalksOf(ids)
    OBVIOUS
  <1>1. PICK G : G = [SUBSET ids -> V]
    OBVIOUS
  <1> DEFINE From(s, g) == [at \in Starts(ids) |-> Leg(ids \ s, g[s \ {at[1]}], at[1], at[2], edges)]
             H == [p \in (SUBSET ids) \X G |-> From(p[1], p[2])]
  <1>2. IsFiniteSet(ids)
    BY DEF IsGraph
  <1>3. ASSUME NEW s \in SUBSET ids, NEW g \in G PROVE From(s, g) \in V
    <2>1. ASSUME NEW at \in Starts(ids) PROVE Leg(ids \ s, g[s \ {at[1]}], at[1], at[2], edges) \in Ends(ids)
      <3>1. at[1] \in ids /\ at[2] \in Depths(ids)
        BY DEF Starts
      <3>2. g[s \ {at[1]}] \in WalksOf(ids)
        BY <1>0, <1>1
      <3> QED BY <3>1, <3>2, LegEnds
    <2> QED BY <1>0, <2>1 DEF WalksOf
  <1>4. ASSUME NEW s \in SUBSET ids, NEW g \in G PROVE H[<<s, g>>] = From(s, g)
    <2>1. <<s, g>> \in (SUBSET ids) \X G /\ <<s, g>>[1] = s /\ <<s, g>>[2] = g
      OBVIOUS
    <2> HIDE DEF From
    <2> QED BY <2>1
  <1>5. H \in [(SUBSET ids) \X G -> V]
    <2> HIDE DEF From
    <2> QED BY <1>3
  <1> HIDE DEF H
  <1>6. ASSUME NEW s \in SUBSET ids, NEW g \in G, NEW h \in G, \A t \in Below(s) : g[t] = h[t]
        PROVE  H[<<s, g>>] = H[<<s, h>>]
    <2>1. ASSUME NEW at \in Starts(ids)
          PROVE  Leg(ids \ s, g[s \ {at[1]}], at[1], at[2], edges) = Leg(ids \ s, h[s \ {at[1]}], at[1], at[2], edges)
      <3>1. at[1] \in ids
        BY DEF Starts
      <3>2. CASE at[1] \in s
        <4>1. s \ {at[1]} \in Below(s)
          BY <3>2 DEF Below
        <4> QED BY <1>6, <4>1
      <3>3. CASE at[1] \notin s
        BY <3>1, <3>3 DEF Leg
      <3> QED BY <3>2, <3>3
    <2>2. From(s, g) = From(s, h)
      BY <2>1
    <2> HIDE DEF From
    <2> QED BY <1>4, <2>2
  <1>7. FromBelow(ids, V, H)
    BY <1>1, <1>5, <1>6 DEF FromBelow
  <1>8. \E v : v \in V
    <2>1. ASSUME NEW at \in Starts(ids) PROVE Begin(at[2]) \in Ends(ids)
      BY DEF Starts, Ends, Begin
    <2>2. [at \in Starts(ids) |-> Begin(at[2])] \in WalksOf(ids)
      BY <2>1 DEF WalksOf
    <2> QED BY <1>0, <2>2
  <1>9. PICK g : Told(ids, V, H, g)
    BY <1>2, <1>7, <1>8, RecursionOnSubsets
  <1>10. g \in G /\ \A s \in SUBSET ids : g[s] = H[<<s, g>>]
    BY <1>1, <1>9 DEF Told
  <1> DEFINE walk == [seen \in SUBSET ids |-> g[ids \ seen]]
  <1>11. ASSUME NEW seen \in SUBSET ids
         PROVE  g[ids \ seen] = [at \in Starts(ids) |-> Leg(seen, walk[seen \cup {at[1]}], at[1], at[2], edges)]
    <2>1. g[ids \ seen] = From(ids \ seen, g)
      <3> HIDE DEF From
      <3> QED BY <1>4, <1>10
    <2>2. ASSUME NEW at \in Starts(ids)
          PROVE  g[(ids \ seen) \ {at[1]}] = walk[seen \cup {at[1]}]
      <3>1. at[1] \in ids
        BY DEF Starts
      <3>2. (ids \ seen) \ {at[1]} = ids \ (seen \cup {at[1]}) /\ seen \cup {at[1]} \in SUBSET ids
        BY <3>1
      <3> QED BY <3>2
    <2>3. ids \ (ids \ seen) = seen
      OBVIOUS
    <2> HIDE DEF walk
    <2> QED BY <2>1, <2>2, <2>3
  <1>12. walk = [seen \in SUBSET ids |-> g[ids \ seen]]
    OBVIOUS
  <1>13. IsWalk(ids, edges, walk)
    <2> HIDE DEF walk, From
    <2> QED BY <1>11, <1>12 DEF IsWalk
  <1> QED BY <1>13

LEMMA WalkIs ==
    ASSUME NEW ids, NEW edges, IsGraph(ids, edges)
    PROVE  IsWalk(ids, edges, Walk(ids, edges))
  <1>1. Walk(ids, edges) = CHOOSE walk : IsWalk(ids, edges, walk)
    BY DEF Walk, IsWalk, Leg, Starts, Depths
  <1> QED BY <1>1, WalkExists

-----------------------------------------------------------------------------
(* What a walk leaves *)

InRing(n, edges) == n \in Reach(On(n, edges), edges)
Walked(depth, n) == depth[n] # Unwalked

\* The bands found so far are in order.
InOrder(ids, edges, depth, n) ==
    ~ InRing(n, edges) =>
        /\ \A d \in On(n, edges) : Walked(depth, d) /\ depth[d] < depth[n]
        /\ depth[n] > 0 => \E d \in On(n, edges) : depth[d] = depth[n] - 1
Settled(ids, edges, depth) ==
    /\ depth \in Depths(ids)
    /\ \A n \in ids : Walked(depth, n) => depth[n] \in Nat /\ InOrder(ids, edges, depth, n)

\* A band that was found stays, and a node that is being walked through gets none.
Extends(ids, new, old, seen) ==
    \A n \in ids : (Walked(old, n) \/ n \in seen) => new[n] = old[n]

\* What a walk from id through the nodes seen does, if these lead to id.
Does(ids, edges, seen, id, depth, w) ==
    /\ w \in Ends(ids) /\ w.value \in Nat
    /\ Settled(ids, edges, w.depth) /\ Extends(ids, w.depth, depth, seen)
    /\ id \notin seen => Walked(w.depth, id) /\ w.depth[id] = w.value
LeadTo(seen, id, edges) == \A x \in seen : id \in Reach({x}, edges)
WalksWell(ids, edges, seen, walk) ==
    /\ walk \in WalksOf(ids)
    /\ \A id \in ids : \A depth \in Depths(ids) :
           (Settled(ids, edges, depth) /\ LeadTo(seen, id, edges)) => Does(ids, edges, seen, id, depth, walk[<<id, depth>>])

\* On the way through S: those of S that were gone to are in a band above, and one
\* of them in the next; where S leads back, nothing is said.
OnTheWay(ids, edges, seen, depth, s, found) ==
    /\ Settled(ids, edges, found.depth) /\ Extends(ids, found.depth, depth, seen) /\ found.value \in Nat
    /\ \A d \in s \ seen : Walked(found.depth, d) /\ found.depth[d] < found.value
    /\ (found.value > 0 /\ s \cap seen = {}) => \E d \in s : found.depth[d] = found.value - 1

LEMMA OneOnTheWay ==
    ASSUME NEW ids, NEW edges, IsGraph(ids, edges), NEW seen \in SUBSET ids, NEW walk,
           WalksWell(ids, edges, seen, walk), NEW depth \in Depths(ids), NEW s \in SUBSET ids, NEW x \in s,
           LeadTo(seen, x, edges), NEW found \in Ends(ids),
           OnTheWay(ids, edges, seen, depth, s \ {x}, found)
    PROVE  OnTheWay(ids, edges, seen, depth, s, Deeper(walk, x, found))
  <1> PICK w : w = walk[<<x, found.depth>>]
    OBVIOUS
  <1> PICK then : then = Deeper(walk, x, found)
    OBVIOUS
  <1>1. walk \in WalksOf(ids) /\ x \in ids
    BY DEF WalksWell
  <1>2. /\ w \in Ends(ids) /\ then \in Ends(ids) /\ then.depth = w.depth
        /\ then.value = IF found.value >= w.value + 1 THEN found.value ELSE w.value + 1
    BY <1>1, DeeperIs
  <1>3. found.depth \in Depths(ids)
    BY DEF Ends
  <1>4. Does(ids, edges, seen, x, found.depth, w)
    BY <1>1, <1>3 DEF WalksWell, OnTheWay
  <1>5. w.depth \in Depths(ids) /\ \A n \in ids : w.depth[n] \in Int /\ found.depth[n] \in Int /\ depth[n] \in Int
    BY <1>2, <1>3 DEF Ends, Depths
  <1>6. w.value \in Nat /\ found.value \in Nat
    BY <1>4 DEF Does, OnTheWay
  <1>7. then.value \in Nat /\ then.value >= found.value /\ then.value > w.value
        /\ (then.value = found.value \/ then.value = w.value + 1)
    BY <1>2, <1>6
  <1>8. \A n \in ids : (Walked(found.depth, n) \/ n \in seen) => w.depth[n] = found.depth[n]
    BY <1>4 DEF Does, Extends
  <1>9. Extends(ids, w.depth, depth, seen)
    BY <1>8 DEF OnTheWay, Extends, Walked
  <1>10. ASSUME NEW d \in s \ seen PROVE Walked(w.depth, d) /\ w.depth[d] < then.value
    <2>1. CASE d = x
      BY <1>4, <1>5, <1>6, <1>7, <2>1 DEF Does
    <2>2. CASE d # x
      <3>1. Walked(found.depth, d) /\ found.depth[d] < found.value
        BY <2>2 DEF OnTheWay
      <3>2. w.depth[d] = found.depth[d]
        BY <1>8, <3>1
      <3> QED BY <1>5, <1>6, <1>7, <3>1, <3>2 DEF Walked
    <2> QED BY <2>1, <2>2
  <1>11. ASSUME then.value > 0, s \cap seen = {} PROVE \E d \in s : w.depth[d] = then.value - 1
    <2>1. CASE then.value = w.value + 1
      <3>1. w.depth[x] = w.value
        BY <1>4, <1>11 DEF Does
      <3> QED BY <1>6, <2>1, <3>1
    <2>2. CASE then.value = found.value
      <3>1. PICK d \in s \ {x} : found.depth[d] = found.value - 1
        BY <1>11, <2>2 DEF OnTheWay
      <3>2. Walked(found.depth, d)
        BY <1>11, <3>1 DEF OnTheWay
      <3>3. w.depth[d] = found.depth[d]
        BY <1>8, <3>2
      <3> QED BY <2>2, <3>1, <3>3
    <2> QED BY <1>7, <2>1, <2>2
  <1>12. Settled(ids, edges, w.depth)
    BY <1>4 DEF Does
  <1> QED BY <1>2, <1>7, <1>9, <1>10, <1>11, <1>12 DEF OnTheWay

\* All that id waits on has been gone to.
LEMMA AllOnTheWay ==
    ASSUME NEW ids, NEW edges, IsGraph(ids, edges), NEW seen \in SUBSET ids, NEW walk,
           WalksWell(ids, edges, seen, walk), NEW depth \in Depths(ids), Settled(ids, edges, depth),
           NEW S \in SUBSET ids, \A x \in S : LeadTo(seen, x, edges)
    PROVE  LastOf(walk, depth, S) \in Ends(ids) /\ OnTheWay(ids, edges, seen, depth, S, LastOf(walk, depth, S))
  <1>0. PICK V : V = Ends(ids)
    OBVIOUS
  <1> PICK base : base = Begin(depth)
    OBVIOUS
  <1> PICK step : step = StepOf(walk, S, ids)
    OBVIOUS
  <1>1. IsFiniteSet(S)
    BY FS_Subset DEF IsGraph
  <1>2. walk \in WalksOf(ids)
    BY DEF WalksWell
  <1>3. PICK g : Folds(S, V, base, step, g) /\ LastOf(walk, depth, S) = g[S]
    BY <1>0, <1>1, <1>2, LastIs
  <1>4. \A d \in S : \A found \in V : step[<<d, found>>] = Deeper(walk, d, found) /\ Deeper(walk, d, found) \in V
    <2>1. \A d \in S : \A found \in Ends(ids) : step[<<d, found>>] = Deeper(walk, d, found)
      BY <1>2, StepIs
    <2>2. \A d \in S : \A found \in Ends(ids) : Deeper(walk, d, found) \in Ends(ids)
      BY <1>2, DeeperIs
    <2> QED BY <1>0, <2>1, <2>2
  <1> DEFINE Good == {p \in (SUBSET S) \X V : OnTheWay(ids, edges, seen, depth, p[1], p[2])}
  <1>5. \A s \in SUBSET S : \A v \in V : <<s, v>> \in Good <=> OnTheWay(ids, edges, seen, depth, s, v)
    <2>1. ASSUME NEW s \in SUBSET S, NEW v \in V PROVE <<s, v>> \in Good <=> OnTheWay(ids, edges, seen, depth, s, v)
      <3>1. <<s, v>> \in (SUBSET S) \X V /\ <<s, v>>[1] = s /\ <<s, v>>[2] = v
        OBVIOUS
      <3> QED BY <3>1
    <2> QED BY <2>1
  <1>6. Good \in SUBSET ((SUBSET S) \X V)
    OBVIOUS
  <1> HIDE DEF Good
  <1>7. base \in V /\ <<{}, base>> \in Good
    <2>1. base.depth = depth /\ base.value = 0 /\ base \in V
      BY <1>0 DEF Begin, Ends
    <2>2. OnTheWay(ids, edges, seen, depth, {}, base)
      BY <2>1 DEF OnTheWay, Extends
    <2> QED BY <1>5, <2>1, <2>2
  <1>8. ASSUME NEW s \in SUBSET S, NEW x \in s, NEW v \in V, <<s \ {x}, v>> \in Good
        PROVE  <<s, step[<<x, v>>]>> \in Good
    <2>1. OnTheWay(ids, edges, seen, depth, s \ {x}, v)
      BY <1>5, <1>8
    <2>2. s \in SUBSET ids /\ v \in Ends(ids) /\ LeadTo(seen, x, edges)
      BY <1>0
    <2>3. OnTheWay(ids, edges, seen, depth, s, Deeper(walk, x, v))
      BY <2>1, <2>2, OneOnTheWay
    <2>4. step[<<x, v>>] = Deeper(walk, x, v) /\ Deeper(walk, x, v) \in V
      BY <1>4
    <2> QED BY <1>5, <2>3, <2>4
  <1>9. Keeps(S, V, base, step, Good)
    BY <1>6, <1>7, <1>8 DEF Keeps
  <1>10. <<S, g[S]>> \in Good
    BY <1>1, <1>3, <1>9, FoldKeeps
  <1>11. g[S] \in V
    BY <1>3 DEF Folds
  <1> QED BY <1>0, <1>3, <1>5, <1>10, <1>11

\* What id waits on leads to it when it has been seen, and then id is in a ring.
LEMMA LeadsOn ==
    ASSUME NEW ids, NEW edges, IsGraph(ids, edges), NEW seen, NEW id \in ids, LeadTo(seen, id, edges),
           NEW d \in On(id, edges)
    PROVE  /\ LeadTo(seen \cup {id}, d, edges)
           /\ d \in seen \cup {id} => InRing(id, edges)
  <1>1. <<id, d>> \in edges
    BY OnIs
  <1>2. \A x \in seen \cup {id} : id \in Reach({x}, edges)
    BY ReachIs DEF LeadTo
  <1>3. ASSUME NEW x \in seen \cup {id} PROVE d \in Reach({x}, edges)
    <2>1. id \in Reach({x}, edges) /\ Closed(Reach({x}, edges), edges)
      BY <1>2, ReachIs
    <2>2. <<id, d>>[1] = id /\ <<id, d>>[2] = d
      OBVIOUS
    <2> QED BY <1>1, <2>1, <2>2 DEF Closed
  <1>4. ASSUME d \in seen \cup {id} PROVE InRing(id, edges)
    <2>1. {d} \subseteq Reach(On(id, edges), edges)
      BY ReachIs
    <2>2. Reach({d}, edges) \subseteq Reach(On(id, edges), edges)
      BY <2>1, ReachOn
    <2> QED BY <1>2, <1>4, <2>2 DEF InRing
  <1> QED BY <1>3, <1>4 DEF LeadTo

\* A walk that goes on well from a node goes well through it.
LEMMA VisitDoes ==
    ASSUME NEW ids, NEW edges, IsGraph(ids, edges), NEW seen \in SUBSET ids, NEW id \in ids \ seen,
           NEW walk, WalksWell(ids, edges, seen \cup {id}, walk),
           NEW depth \in Depths(ids), Settled(ids, edges, depth), LeadTo(seen, id, edges), ~ Walked(depth, id)
    PROVE  Does(ids, edges, seen, id, depth, Visited(walk, id, depth, edges))
  <1> PICK S : S = On(id, edges)
    OBVIOUS
  <1> PICK last : last = LastOf(walk, depth, S)
    OBVIOUS
  <1> PICK now : now = [last.depth EXCEPT ![id] = last.value]
    OBVIOUS
  <1>1. S \in SUBSET ids
    BY OnIs
  <1>2. \A x \in S : LeadTo(seen \cup {id}, x, edges)
    BY LeadsOn
  <1>3. last \in Ends(ids) /\ OnTheWay(ids, edges, seen \cup {id}, depth, S, last)
    <2>1. seen \cup {id} \in SUBSET ids
      OBVIOUS
    <2> QED BY <1>1, <1>2, <2>1, AllOnTheWay
  <1>4. Visited(walk, id, depth, edges) = [depth |-> now, value |-> last.value]
    BY VisitedIs
  <1>5. last.depth \in Depths(ids) /\ last.value \in Nat
    BY <1>3 DEF Ends, OnTheWay
  <1>6. now \in Depths(ids) /\ now[id] = last.value /\ \A n \in ids \ {id} : now[n] = last.depth[n]
    BY <1>5 DEF Depths
  <1>7. ~ Walked(last.depth, id)
    BY <1>3 DEF OnTheWay, Extends, Walked
  <1>8. Walked(now, id)
    BY <1>5, <1>6 DEF Walked, Unwalked
  <1>9. Extends(ids, now, depth, seen)
    BY <1>3, <1>6 DEF OnTheWay, Extends
  <1>10. ASSUME NEW n \in ids, Walked(now, n) PROVE now[n] \in Nat /\ InOrder(ids, edges, now, n)
    <2>1. CASE n = id
      <3>1. now[n] \in Nat
        BY <1>5, <1>6, <2>1
      <3>2. ASSUME ~ InRing(id, edges)
            PROVE  /\ \A d \in S : Walked(now, d) /\ now[d] < now[id]
                   /\ now[id] > 0 => \E d \in S : now[d] = now[id] - 1
        <4>1. \A d \in S : d \notin seen \cup {id}
          BY <3>2, LeadsOn
        <4>2. \A d \in S : Walked(last.depth, d) /\ last.depth[d] < last.value
          BY <1>3, <4>1 DEF OnTheWay
        <4>3. last.value > 0 => \E d \in S : last.depth[d] = last.value - 1
          BY <1>3, <4>1 DEF OnTheWay
        <4>4. \A d \in S : now[d] = last.depth[d]
          BY <1>1, <1>6, <4>1
        <4> QED BY <1>6, <4>2, <4>3, <4>4 DEF Walked
      <3> QED BY <2>1, <3>1, <3>2 DEF InOrder
    <2>2. CASE n # id
      <3>1. now[n] = last.depth[n] /\ Walked(last.depth, n)
        BY <1>6, <1>10, <2>2 DEF Walked
      <3>2. last.depth[n] \in Nat /\ InOrder(ids, edges, last.depth, n)
        BY <1>3, <3>1 DEF OnTheWay, Settled
      <3>3. \A d \in On(n, edges) : d \in ids
        BY OnIs
      <3>4. \A d \in ids : Walked(last.depth, d) => now[d] = last.depth[d]
        BY <1>6, <1>7
      <3>5. ASSUME ~ InRing(n, edges)
            PROVE  /\ \A d \in On(n, edges) : Walked(now, d) /\ now[d] < now[n]
                   /\ now[n] > 0 => \E d \in On(n, edges) : now[d] = now[n] - 1
        <4>1. \A d \in On(n, edges) : Walked(last.depth, d) /\ last.depth[d] < last.depth[n]
          BY <3>2, <3>5 DEF InOrder
        <4>2. last.depth[n] > 0 => \E d \in On(n, edges) : last.depth[d] = last.depth[n] - 1
          BY <3>2, <3>5 DEF InOrder
        <4>3. \A d \in On(n, edges) : now[d] = last.depth[d]
          BY <3>3, <3>4, <4>1
        <4> QED BY <3>1, <4>1, <4>2, <4>3 DEF Walked
      <3> QED BY <3>1, <3>2, <3>5 DEF InOrder
    <2> QED BY <2>1, <2>2
  <1>11. Settled(ids, edges, now)
    BY <1>6, <1>10 DEF Settled
  <1>12. [depth |-> now, value |-> last.value] \in Ends(ids)
    BY <1>5, <1>6 DEF Ends
  <1> QED BY <1>4, <1>5, <1>6, <1>8, <1>9, <1>11, <1>12 DEF Does

\* The walk through any nodes goes well: if it did not, take the most that it
\* does not go well through; then it does through one more.
LEMMA WalkGoesWell ==
    ASSUME NEW ids, NEW edges, IsGraph(ids, edges)
    PROVE  WalksWell(ids, edges, {}, Walk(ids, edges)[{}])
  <1> PICK walk : walk = Walk(ids, edges)
    OBVIOUS
  <1>1. IsWalk(ids, edges, walk)
    BY WalkIs
  <1>2. IsFiniteSet(ids)
    BY DEF IsGraph
  <1> DEFINE Bad == {seen \in SUBSET ids : ~ WalksWell(ids, edges, seen, walk[seen])}
  <1>3. ASSUME NEW seen \in SUBSET ids, \A id \in ids \ seen : seen \cup {id} \notin Bad
        PROVE  seen \notin Bad
    <2>1. ASSUME NEW id \in ids \ seen PROVE WalksWell(ids, edges, seen \cup {id}, walk[seen \cup {id}])
      <3>1. seen \cup {id} \in SUBSET ids
        OBVIOUS
      <3> QED BY <1>3, <3>1
    <2>2. walk[seen] = [at \in Starts(ids) |-> Leg(seen, walk[seen \cup {at[1]}], at[1], at[2], edges)]
      BY <1>1 DEF IsWalk
    <2>3. ASSUME NEW id \in ids, NEW depth \in Depths(ids)
          PROVE  /\ walk[seen][<<id, depth>>] = Leg(seen, walk[seen \cup {id}], id, depth, edges)
                 /\ Leg(seen, walk[seen \cup {id}], id, depth, edges) \in Ends(ids)
      <3>1. <<id, depth>> \in Starts(ids) /\ <<id, depth>>[1] = id /\ <<id, depth>>[2] = depth
        BY DEF Starts
      <3>2. id \notin seen => walk[seen \cup {id}] \in WalksOf(ids)
        BY <2>1 DEF WalksWell
      <3>3. Leg(seen, walk[seen \cup {id}], id, depth, edges) \in Ends(ids)
        BY <3>2, LegEnds
      <3> QED BY <2>2, <3>1, <3>3
    <2>4. walk[seen] \in WalksOf(ids)
      <3>1. ASSUME NEW at \in Starts(ids)
            PROVE  Leg(seen, walk[seen \cup {at[1]}], at[1], at[2], edges) \in Ends(ids)
        <4>1. at[1] \in ids /\ at[2] \in Depths(ids)
          BY DEF Starts
        <4> QED BY <2>3, <4>1
      <3> QED BY <2>2, <3>1 DEF WalksOf
    <2>5. ASSUME NEW id \in ids, NEW depth \in Depths(ids), Settled(ids, edges, depth), LeadTo(seen, id, edges)
          PROVE  Does(ids, edges, seen, id, depth, walk[seen][<<id, depth>>])
      <3> PICK leg : leg = Leg(seen, walk[seen \cup {id}], id, depth, edges)
        OBVIOUS
      <3>1. walk[seen][<<id, depth>>] = leg /\ leg \in Ends(ids)
        BY <2>3
      <3>2. CASE Walked(depth, id)
        <4>1. leg = [depth |-> depth, value |-> depth[id]]
          BY <3>2 DEF Leg, Walked
        <4>2. leg.depth = depth /\ leg.value = depth[id]
          BY <4>1
        <4>3. depth[id] \in Nat
          BY <2>5, <3>2 DEF Settled
        <4> QED BY <2>5, <3>1, <3>2, <4>2, <4>3 DEF Does, Extends
      <3>3. CASE ~ Walked(depth, id) /\ id \in seen
        <4>1. leg = [depth |-> depth, value |-> 0]
          BY <3>3 DEF Leg, Walked
        <4>2. leg.depth = depth /\ leg.value = 0
          BY <4>1
        <4> QED BY <2>5, <3>1, <3>3, <4>2 DEF Does, Extends
      <3>4. CASE ~ Walked(depth, id) /\ id \notin seen
        <4>1. leg = Visited(walk[seen \cup {id}], id, depth, edges)
          BY <3>4 DEF Leg, Walked
        <4>2. Does(ids, edges, seen, id, depth, Visited(walk[seen \cup {id}], id, depth, edges))
          BY <2>1, <2>5, <3>4, VisitDoes
        <4> QED BY <3>1, <4>1, <4>2
      <3> QED BY <3>2, <3>3, <3>4
    <2>6. WalksWell(ids, edges, seen, walk[seen])
      BY <2>4, <2>5 DEF WalksWell
    <2> QED BY <2>6
  <1>4. Bad = {}
    <2> SUFFICES ASSUME Bad # {} PROVE FALSE
      OBVIOUS
    <2>1. Bad \in SUBSET (SUBSET ids)
      OBVIOUS
    <2> HIDE DEF Bad
    <2>2. PICK seen \in Bad : \A more \in Bad : seen \subseteq more => more = seen
      BY <1>2, <2>1, GreatestOfSets
    <2>3. \A id \in ids \ seen : seen \cup {id} \notin Bad
      BY <2>2
    <2> QED BY <1>3, <2>1, <2>2, <2>3
  <1>5. {} \in SUBSET ids /\ {} \notin Bad
    BY <1>4
  <1> QED BY <1>5

-----------------------------------------------------------------------------
(* The bands *)

\* Nothing has been walked.
None(ids) == [n \in ids |-> Unwalked]
Further(walk, ids) == [p \in ids \X Depths(ids) |-> walk[p].depth]

GoesTo(walk, ids, id, depth) ==
    /\ Further(walk, ids)[<<id, depth>>] = walk[<<id, depth>>].depth
    /\ walk[<<id, depth>>].depth \in Depths(ids)

LEMMA FurtherAt ==
    ASSUME NEW ids, NEW walk \in WalksOf(ids), NEW id \in ids, NEW depth \in Depths(ids)
    PROVE  GoesTo(walk, ids, id, depth)
  <1>0. PICK V : V = Depths(ids)
    OBVIOUS
  <1>1. <<id, depth>> \in ids \X V
    BY <1>0
  <1>2. walk[<<id, depth>>] \in Ends(ids)
    BY <1>0, <1>1 DEF WalksOf, Starts
  <1>3. Further(walk, ids) = [p \in ids \X V |-> walk[p].depth]
    BY <1>0 DEF Further
  <1> QED BY <1>1, <1>2, <1>3 DEF Ends, GoesTo

LEMMA FurtherIs ==
    ASSUME NEW ids, NEW walk \in WalksOf(ids)
    PROVE  Further(walk, ids) \in [ids \X Depths(ids) -> Depths(ids)]
  <1>0. PICK V : V = Depths(ids)
    OBVIOUS
  <1>1. ASSUME NEW p \in ids \X V PROVE walk[p].depth \in V
    <2>1. walk[p] \in Ends(ids)
      BY <1>0 DEF WalksOf, Starts
    <2> QED BY <1>0, <2>1 DEF Ends
  <1>2. Further(walk, ids) = [p \in ids \X V |-> walk[p].depth]
    BY <1>0 DEF Further
  <1>3. Further(walk, ids) \in [ids \X V -> V]
    BY <1>1, <1>2
  <1> QED BY <1>0, <1>3

LEMMA BandsIs ==
    ASSUME NEW ids, NEW edges, IsFiniteSet(ids), NEW walk, walk = Walk(ids, edges)[{}], walk \in WalksOf(ids)
    PROVE  \E g : Folds(ids, Depths(ids), None(ids), Further(walk, ids), g) /\ Bands(ids, edges) = g[ids]
  <1>0. PICK base : base = None(ids)
    OBVIOUS
  <1>1. base \in Depths(ids)
    BY <1>0 DEF None, Depths, Unwalked
  <1>2. PICK g : Folds(ids, Depths(ids), base, Further(walk, ids), g)
    BY <1>1, FurtherIs, FoldExists
  <1> DEFINE Iterates(h) == h = [s \in SUBSET ids |->
                               IF s = {} THEN base
                               ELSE walk[<<CHOOSE x \in s : TRUE, h[s \ {CHOOSE x \in s : TRUE}]>>].depth]
             iter == CHOOSE h : Iterates(h)
  <1>3. Bands(ids, edges) = iter[ids]
    BY <1>0 DEF Bands, None, FoldSet, MapThenFoldSet
  <1>4. ASSUME NEW s \in SUBSET ids
        PROVE  g[s] = IF s = {} THEN base ELSE walk[<<Pick(s), g[s \ {Pick(s)}]>>].depth
    <2>1. g[s] = IF s = {} THEN base ELSE Further(walk, ids)[<<Pick(s), g[s \ {Pick(s)}]>>]
      BY <1>2 DEF Folds
    <2>2. s # {} => Pick(s) \in ids /\ g[s \ {Pick(s)}] \in Depths(ids)
      BY <1>2 DEF Folds, Pick
    <2>3. s # {} => Further(walk, ids)[<<Pick(s), g[s \ {Pick(s)}]>>] = walk[<<Pick(s), g[s \ {Pick(s)}]>>].depth
      <3>1. ASSUME NEW id \in ids, NEW depth \in Depths(ids)
            PROVE  Further(walk, ids)[<<id, depth>>] = walk[<<id, depth>>].depth
        <4>1. GoesTo(walk, ids, id, depth)
          BY FurtherAt
        <4> QED BY <4>1 DEF GoesTo
      <3> QED BY <2>2, <3>1
    <2> QED BY <2>1, <2>3
  <1>5. Iterates(g)
    <2>1. g = [s \in SUBSET ids |-> g[s]]
      BY <1>2 DEF Folds
    <2> QED BY <1>4, <2>1 DEF Pick
  <1>6. Iterates(iter)
    <2> HIDE DEF Iterates
    <2> QED BY <1>5
  <1>7. \A s \in SUBSET ids : iter[s] = IF s = {} THEN base ELSE walk[<<Pick(s), iter[s \ {Pick(s)}]>>].depth
    <2> HIDE DEF iter
    <2> QED BY <1>6 DEF Pick
  <1> HIDE DEF iter, Iterates
  <1>8. iter[ids] = g[ids]
    <2>1. iter[{}] = g[{}]
      BY <1>4, <1>7
    <2>2. \A s \in SUBSET ids : (s # {} /\ iter[s \ {Pick(s)}] = g[s \ {Pick(s)}]) => iter[s] = g[s]
      BY <1>4, <1>7
    <2> QED BY <2>1, <2>2, OneFold
  <1> QED BY <1>0, <1>2, <1>3, <1>8

\* What is settled and all walked is a picture in bands.
AllSettled(ids, edges, depth, s) ==
    Settled(ids, edges, depth) /\ \A n \in s : Walked(depth, n)

LEMMA BandsSettled ==
    ASSUME NEW ids, NEW edges, IsGraph(ids, edges)
    PROVE  AllSettled(ids, edges, Bands(ids, edges), ids)
  <1>0. PICK V : V = Depths(ids)
    OBVIOUS
  <1> PICK walk : walk = Walk(ids, edges)[{}]
    OBVIOUS
  <1> PICK step : step = Further(walk, ids)
    OBVIOUS
  <1> PICK base : base = None(ids)
    OBVIOUS
  <1>1. IsFiniteSet(ids)
    BY DEF IsGraph
  <1>2. WalksWell(ids, edges, {}, walk)
    BY WalkGoesWell
  <1>3. walk \in WalksOf(ids)
    BY <1>2 DEF WalksWell
  <1>4. PICK g : Folds(ids, V, base, step, g) /\ Bands(ids, edges) = g[ids]
    BY <1>0, <1>1, <1>3, BandsIs
  <1> DEFINE Good == {p \in (SUBSET ids) \X V : AllSettled(ids, edges, p[2], p[1])}
  <1>5. \A s \in SUBSET ids : \A v \in V : <<s, v>> \in Good <=> AllSettled(ids, edges, v, s)
    <2>1. ASSUME NEW s \in SUBSET ids, NEW v \in V PROVE <<s, v>> \in Good <=> AllSettled(ids, edges, v, s)
      <3>1. <<s, v>> \in (SUBSET ids) \X V /\ <<s, v>>[1] = s /\ <<s, v>>[2] = v
        OBVIOUS
      <3> QED BY <3>1
    <2> QED BY <2>1
  <1>6. Good \in SUBSET ((SUBSET ids) \X V)
    OBVIOUS
  <1> HIDE DEF Good
  <1>7. base \in V /\ <<{}, base>> \in Good
    <2>1. base \in V
      BY <1>0 DEF None, Depths, Unwalked
    <2>2. \A n \in ids : ~ Walked(base, n)
      BY DEF None, Walked
    <2>3. AllSettled(ids, edges, base, {})
      BY <1>0, <2>1, <2>2 DEF AllSettled, Settled
    <2> QED BY <1>5, <2>1, <2>3
  <1>8. ASSUME NEW s \in SUBSET ids, NEW x \in s, NEW v \in V, <<s \ {x}, v>> \in Good
        PROVE  <<s, step[<<x, v>>]>> \in Good
    <2> PICK w : w = walk[<<x, v>>]
      OBVIOUS
    <2>1. AllSettled(ids, edges, v, s \ {x})
      BY <1>5, <1>8
    <2>2. x \in ids /\ v \in Depths(ids)
      BY <1>0
    <2>3. step[<<x, v>>] = w.depth /\ w.depth \in V
      <3>1. ASSUME NEW n \in ids, NEW depth \in Depths(ids)
            PROVE  Further(walk, ids)[<<n, depth>>] = walk[<<n, depth>>].depth /\ walk[<<n, depth>>].depth \in Depths(ids)
        <4>1. GoesTo(walk, ids, n, depth)
          BY <1>3, FurtherAt
        <4> QED BY <4>1 DEF GoesTo
      <3> QED BY <1>0, <2>2, <3>1
    <2>4. Does(ids, edges, {}, x, v, w)
      BY <1>2, <2>1, <2>2 DEF WalksWell, AllSettled, LeadTo
    <2>5. Walked(w.depth, x)
      BY <2>4 DEF Does
    <2>6. ASSUME NEW n \in s \ {x} PROVE Walked(w.depth, n)
      <3>1. Walked(v, n)
        BY <2>1, <2>6 DEF AllSettled
      <3>2. w.depth[n] = v[n]
        BY <2>4, <3>1 DEF Does, Extends
      <3> QED BY <3>1, <3>2 DEF Walked
    <2>7. AllSettled(ids, edges, w.depth, s)
      BY <2>4, <2>5, <2>6 DEF Does, AllSettled
    <2> QED BY <1>5, <2>3, <2>7
  <1>9. Keeps(ids, V, base, step, Good)
    BY <1>6, <1>7, <1>8 DEF Keeps
  <1>10. <<ids, g[ids]>> \in Good
    BY <1>1, <1>4, <1>9, FoldKeeps
  <1>11. g[ids] \in V
    BY <1>4 DEF Folds
  <1> QED BY <1>4, <1>5, <1>10, <1>11

\* In every finite graph of what waits on what, each node gets a band; a node
\* that is in no ring is below whatever it waits on, and in the first band or
\* right below a node it waits on; a ring gets bands too (`_depths').
THEOREM BandsAreInOrder ==
    ASSUME NEW ids, NEW edges, IsGraph(ids, edges)
    PROVE  Bands(ids, edges) \in [ids -> Nat] /\ BandsRespect(Bands(ids, edges), edges)
  <1> PICK depth : depth = Bands(ids, edges)
    OBVIOUS
  <1>1. depth \in [ids -> Int] /\ \A n \in ids : depth[n] \in Nat /\ InOrder(ids, edges, depth, n)
    BY BandsSettled DEF AllSettled, Settled, Depths
  <1>2. depth \in [ids -> Nat] /\ DOMAIN depth = ids
    BY <1>1
  <1>3. ASSUME NEW n \in ids, n \notin Reach(On(n, edges), edges)
        PROVE  /\ \A d \in On(n, edges) : depth[d] < depth[n]
               /\ depth[n] > 0 => \E d \in On(n, edges) : depth[d] = depth[n] - 1
    BY <1>1, <1>3 DEF InOrder, InRing
  <1>4. BandsRespect(depth, edges)
    BY <1>2, <1>3 DEF BandsRespect
  <1> QED BY <1>2, <1>4
=============================================================================
