--------------------------- MODULE SessionsProofs ---------------------------
(***************************************************************************)
(* For any sessions, processes and tasks, and whatever changes in the      *)
(* middle of a poll: a picture tells the world as it was, and its links    *)
(* are on both of their ends.                                              *)
(***************************************************************************)
EXTENDS Sessions, FiniteSetTheorems, SequenceTheorems, WellFoundedInduction, TLAPS

\* A set in any order: each of its elements, once.
LEMMA InAnyOrder ==
    ASSUME NEW S, IsFiniteSet(S), NEW f \in SetToSeqs(S)
    PROVE  /\ f \in Seq(S) /\ \A x \in S : \E i \in DOMAIN f : f[i] = x
           /\ \A i, j \in DOMAIN f : f[i] = f[j] => i = j
           /\ Len(f) = Cardinality(S)
  <1> DEFINE n == Cardinality(S)
             D == 1 .. n
  <1>1. n \in Nat
    BY FS_CardinalityType
  <1> HIDE DEF n
  <1>2. f \in [D -> S] /\ \A i, j \in D : i # j => f[i] # f[j]
    BY DEF SetToSeqs, n
  <1>3. IsFiniteSet(D) /\ Cardinality(D) = n
    BY <1>1, FS_Interval
  <1>4. f \in Injection(D, S)
    BY <1>2 DEF Injection, IsInjective
  <1>5. f \in Surjection(D, S)
    BY <1>3, <1>4, FS_Injection DEF n
  <1>6. \A x \in S : \E i \in D : f[i] = x
    BY <1>5 DEF Surjection
  <1> QED BY <1>1, <1>2, <1>6 DEF n

\* A set of numbers up to n has a least and a greatest.
LEMMA Extremes ==
    ASSUME NEW n \in Nat, NEW S \in SUBSET (0 .. n), S # {}
    PROVE  /\ \E m \in S : \A x \in S : m <= x
           /\ \E m \in S : \A x \in S : x <= m
  <1>1. \A T \in SUBSET Nat : T # {} => \E m \in T : \A x \in T : m <= x
    <2> DEFINE Less == OpToRel(<, Nat)
    <2>1. \A k, m \in Nat : <<k, m>> \in Less <=> k < m
      BY DEF OpToRel
    <2>2. IsWellFoundedOn(Less, Nat)
      BY NatLessThanWellFounded
    <2> HIDE DEF Less
    <2>3. ASSUME NEW T \in SUBSET Nat, T # {} PROVE \E m \in T : \A x \in T : m <= x
      <3>1. PICK m \in T : \A x \in T : ~ (<<x, m>> \in Less)
        BY <2>2, <2>3, WFMin
      <3>2. \A x \in T : x \in Nat /\ m \in Nat /\ ~ (x < m)
        BY <2>1, <3>1
      <3> QED BY <3>2
    <2> QED BY <2>3
  <1>2. \E m \in S : \A x \in S : m <= x
    BY <1>1
  <1>3. \E m \in S : \A x \in S : x <= m
    <2> DEFINE T == {n - x : x \in S}
    <2>1. T \in SUBSET Nat
      OBVIOUS
    <2>5. T # {}
      OBVIOUS
    <2>2. PICK t \in T : \A x \in T : t <= x
      BY <1>1, <2>1, <2>5
    <2>3. PICK m \in S : t = n - m
      BY <2>2
    <2>4. \A x \in S : n - m <= n - x
      BY <2>2, <2>3
    <2> QED BY <2>3, <2>4
  <1> QED BY <1>2, <1>3

-----------------------------------------------------------------------------
(* The sessions of a poll *)

SessionRecords == [id : All, nodes : TaskLists, askDismissed : BOOLEAN,
                   attention : {"ended", "asking", "working", "none"}]
Listings == {ss \in Seq(SessionRecords) : \A i, j \in DOMAIN ss : ss[i].id = ss[j].id => i = j}

\* Who is in a listing is there once, and has a list of tasks.
LEMMA Listed ==
    ASSUME NEW ss \in Listings
    PROVE  /\ \A i \in DOMAIN ss : IsShown(ss, ss[i].id) /\ Position(ss, ss[i].id) = i
           /\ \A id : IsShown(ss, id) => /\ id \in All /\ Position(ss, id) \in 1 .. Len(ss)
                                        /\ ss[Position(ss, id)].id = id
                                        /\ ss[Position(ss, id)].nodes \in TaskLists
  <1>1. ss \in Seq(SessionRecords) /\ DOMAIN ss = 1 .. Len(ss)
    BY DEF Listings
  <1>2. \A i \in DOMAIN ss : ss[i].id \in All /\ ss[i].nodes \in TaskLists
    <2>1. \A i \in DOMAIN ss : ss[i] \in SessionRecords
      BY <1>1
    <2> QED BY <2>1 DEF SessionRecords
  <1>3. \A id : IsShown(ss, id) => Position(ss, id) \in DOMAIN ss /\ ss[Position(ss, id)].id = id
    BY DEF IsShown, Position
  <1>4. \A i \in DOMAIN ss : IsShown(ss, ss[i].id)
    BY DEF IsShown
  <1>5. \A i \in DOMAIN ss : Position(ss, ss[i].id) = i
    BY <1>3, <1>4 DEF Listings
  <1> QED BY <1>1, <1>2, <1>3, <1>4, <1>5

\* The nodes are the tasks of those who are shown.
LEMMA NodesAre ==
    ASSUME NEW ss \in Listings
    PROVE  /\ \A id, t : <<id, t>> \in NodesOf(ss) <=> /\ IsShown(ss, id)
                                                     /\ t \in DOMAIN ss[Position(ss, id)].nodes
           /\ \A k \in NodesOf(ss) : /\ k = <<k[1], k[2]>> /\ IsShown(ss, k[1])
                                      /\ k[2] \in DOMAIN ss[Position(ss, k[1])].nodes
                                      /\ k[2] \in Nat
  <1>1. \A k : k \in NodesOf(ss) <=> \E i \in DOMAIN ss : \E t \in DOMAIN ss[i].nodes : k = <<ss[i].id, t>>
    BY DEF NodesOf
  <1>2. ASSUME NEW i \in DOMAIN ss PROVE DOMAIN ss[i].nodes \subseteq Nat
    <2>1. ss[i].nodes \in TaskLists
      BY Listed
    <2> QED BY <2>1 DEF TaskLists
  <1>3. \A id, t : <<id, t>> \in NodesOf(ss) => IsShown(ss, id) /\ t \in DOMAIN ss[Position(ss, id)].nodes
    BY <1>1, Listed
  <1>4. \A id, t : IsShown(ss, id) /\ t \in DOMAIN ss[Position(ss, id)].nodes => <<id, t>> \in NodesOf(ss)
    BY <1>1, Listed
  <1>5. \A k \in NodesOf(ss) : k = <<k[1], k[2]>>
    BY <1>1
  <1> QED
    <2>1. \A k \in NodesOf(ss) : k[2] \in Nat
      BY <1>1, <1>2
    <2> QED BY <1>3, <1>4, <1>5, <2>1

\* Of any nodes there is a foremost and a hindmost.
LEMMA EndsOf ==
    ASSUME NEW ss \in Listings, NEW K \in SUBSET NodesOf(ss), K # {}
    PROVE  Foremost(ss, K) \in K /\ Hindmost(ss, K) \in K
  <1> DEFINE at(k) == Position(ss, k[1])
             Ps == {at(k) : k \in K}
             T(i) == {k[2] : k \in {k \in K : at(k) = i}}
             tasks(i) == Len(ss[i].nodes)
  <1>1. Ps \in SUBSET (0 .. Len(ss)) /\ Ps # {} /\ Len(ss) \in Nat
    BY Listed, NodesAre DEF Listings
  <1>2. ASSUME NEW i \in Ps PROVE T(i) \in SUBSET (0 .. tasks(i)) /\ T(i) # {} /\ tasks(i) \in Nat
    <2>1. PICK k \in K : at(k) = i
      OBVIOUS
    <2>2. ss[i].nodes \in TaskLists
      BY <2>1, Listed, NodesAre
    <2>3. tasks(i) \in Nat /\ DOMAIN ss[i].nodes = 1 .. tasks(i)
      BY <2>2 DEF TaskLists
    <2>4. \A l \in K : at(l) = i => l[2] \in DOMAIN ss[i].nodes
      BY NodesAre
    <2> QED BY <2>1, <2>3, <2>4
  <1>3. \A k, l \in K : at(k) = at(l) /\ k[2] = l[2] => k = l
    BY Listed, NodesAre
  <1>4. \A k, l : IsBefore(ss, k, l) <=> at(k) < at(l) \/ (at(k) = at(l) /\ k[2] < l[2])
    BY DEF IsBefore
  <1>5. \A k \in K : at(k) \in Ps /\ k[2] \in T(at(k)) /\ at(k) \in Int /\ k[2] \in Int
    BY NodesAre, Listed
  <1>6. \E k \in K : \A l \in K \ {k} : IsBefore(ss, k, l)
    <2>1. PICK i \in Ps : \A j \in Ps : i <= j
      BY <1>1, Extremes
    <2>2. PICK t \in T(i) : \A u \in T(i) : t <= u
      BY <1>2, Extremes
    <2>3. PICK k \in K : at(k) = i /\ k[2] = t
      BY <2>2
    <2> HIDE DEF at, Ps, T
    <2>4. ASSUME NEW l \in K \ {k} PROVE IsBefore(ss, k, l)
      <3>1. at(k) <= at(l) /\ (at(l) = at(k) => k[2] <= l[2])
        BY <1>5, <2>1, <2>2, <2>3
      <3> QED BY <1>3, <1>4, <1>5, <3>1
    <2> QED BY <2>4
  <1>7. \E k \in K : \A l \in K \ {k} : IsBefore(ss, l, k)
    <2>1. PICK i \in Ps : \A j \in Ps : j <= i
      BY <1>1, Extremes
    <2>2. PICK t \in T(i) : \A u \in T(i) : u <= t
      BY <1>2, Extremes
    <2>3. PICK k \in K : at(k) = i /\ k[2] = t
      BY <2>2
    <2> HIDE DEF at, Ps, T
    <2>4. ASSUME NEW l \in K \ {k} PROVE IsBefore(ss, l, k)
      <3>1. at(l) <= at(k) /\ (at(l) = at(k) => l[2] <= k[2])
        BY <1>5, <2>1, <2>2, <2>3
      <3> QED BY <1>3, <1>4, <1>5, <3>1
    <2> QED BY <2>4
  <1> QED BY <1>6, <1>7 DEF Foremost, Hindmost

\* The steps of a goal are nodes.
LEMMA MembersAre ==
    ASSUME NEW ss \in Listings, NEW goal \in GoalsOf(ss)
    PROVE  goal \in NodesOf(ss) /\ \A t \in Members(ss, goal) : <<goal[1], t>> \in NodesOf(ss)
  <1>1. goal \in NodesOf(ss)
    BY DEF GoalsOf
  <1>2. IsShown(ss, goal[1]) /\ goal = <<goal[1], goal[2]>>
    BY <1>1, NodesAre
  <1>3. \A t \in Members(ss, goal) : t = goal[2] \/ t \in DOMAIN ss[Position(ss, goal[1])].nodes
    BY DEF Members
  <1> QED BY <1>1, <1>2, <1>3, NodesAre

\* The same sessions in another order have the same nodes, goals and references.
SameSessions(a, b) == /\ \A i \in DOMAIN a : \E j \in DOMAIN b : b[j] = a[i]
                      /\ \A j \in DOMAIN b : \E i \in DOMAIN a : a[i] = b[j]
LEMMA Rearranged ==
    ASSUME NEW a \in Listings, NEW b \in Listings, SameSessions(a, b)
    PROVE  /\ \A id : IsShown(a, id) <=> IsShown(b, id)
           /\ \A id : IsShown(a, id) => a[Position(a, id)] = b[Position(b, id)]
           /\ NodesOf(a) = NodesOf(b) /\ GoalsOf(a) = GoalsOf(b)
           /\ \A k \in NodesOf(a) : Node(a, k) = Node(b, k) /\ Members(a, k) = Members(b, k)
           /\ \A goal \in GoalsOf(a) : Refs(a, goal) = Refs(b, goal)
           /\ NamedByParent(a) = NamedByParent(b)
  <1>1. \A id : IsShown(a, id) <=> IsShown(b, id)
    BY DEF IsShown, SameSessions
  <1>2. ASSUME NEW id, IsShown(a, id) PROVE a[Position(a, id)] = b[Position(b, id)]
    <2>1. PICK i \in DOMAIN a : a[i].id = id
      BY <1>2 DEF IsShown
    <2>2. PICK j \in DOMAIN b : b[j] = a[i]
      BY DEF SameSessions
    <2> QED BY <2>1, <2>2, Listed
  <1>3. NodesOf(a) = NodesOf(b)
    <2>1. \A k : k \in NodesOf(a) <=> \E i \in DOMAIN a : \E t \in DOMAIN a[i].nodes : k = <<a[i].id, t>>
      BY DEF NodesOf
    <2>2. \A k : k \in NodesOf(b) <=> \E i \in DOMAIN b : \E t \in DOMAIN b[i].nodes : k = <<b[i].id, t>>
      BY DEF NodesOf
    <2>3. \A k : k \in NodesOf(a) <=> k \in NodesOf(b)
      BY <2>1, <2>2 DEF SameSessions
    <2> QED BY <2>3
  <1>4. GoalsOf(a) = GoalsOf(b)
    BY <1>3 DEF GoalsOf
  <1>5. \A k \in NodesOf(a) : Node(a, k) = Node(b, k) /\ Members(a, k) = Members(b, k)
    BY <1>2, NodesAre DEF Node, Members
  <1>6. ASSUME NEW goal \in GoalsOf(a) PROVE Refs(a, goal) = Refs(b, goal)
    <2>1. goal \in NodesOf(a) /\ \A t \in Members(a, goal) : <<goal[1], t>> \in NodesOf(a)
      BY MembersAre
    <2>2. Members(a, goal) = Members(b, goal)
      BY <2>1, <1>5
    <2>3. \A t \in Members(a, goal) : Node(a, <<goal[1], t>>) = Node(b, <<goal[1], t>>)
      BY <2>1, <1>5
    <2> QED BY <2>2, <2>3 DEF Refs
  <1>7. NamedByParent(a) = NamedByParent(b)
    BY <1>4, <1>6 DEF NamedByParent
  <1> QED BY <1>1, <1>2, <1>3, <1>4, <1>5, <1>6, <1>7

\* Sorting rearranges.
LEMMA Sorted ==
    ASSUME NEW ss \in Listings, NEW sorted \in InOrder(ss)
    PROVE  sorted \in Listings /\ SameSessions(ss, sorted) /\ Len(sorted) = Len(ss)
  <1> DEFINE n == Len(ss)
  <1>1. n \in Nat /\ DOMAIN ss = 1 .. n /\ ss \in Seq(SessionRecords)
    BY DEF Listings
  <1>2. IsFiniteSet(1 .. n) /\ Cardinality(1 .. n) = n
    BY <1>1, FS_Interval
  <1>3. PICK o \in SetToSeqs(1 .. n) : sorted = [i \in 1 .. n |-> ss[o[i]]]
    BY <1>1 DEF InOrder
  <1>4. /\ o \in Seq(1 .. n) /\ Len(o) = n /\ \A x \in 1 .. n : \E i \in DOMAIN o : o[i] = x
        /\ \A i, j \in DOMAIN o : o[i] = o[j] => i = j
    BY <1>2, InAnyOrder
  <1>5. /\ DOMAIN o = 1 .. n /\ \A i \in 1 .. n : o[i] \in 1 .. n
    BY <1>1, <1>4
  <1>6. \A i \in 1 .. n : sorted[i] = ss[o[i]] /\ sorted[i] \in SessionRecords
    BY <1>1, <1>3, <1>5
  <1>7. sorted \in Seq(SessionRecords) /\ Len(sorted) = n /\ DOMAIN sorted = 1 .. n
    BY <1>1, <1>3, <1>6
  <1> HIDE DEF n
  <1>8. \A i, j \in 1 .. n : sorted[i].id = sorted[j].id => i = j
    <2>1. \A x, y \in 1 .. n : ss[x].id = ss[y].id => x = y
      BY <1>1 DEF Listings
    <2>2. \A i, j \in 1 .. n : sorted[i].id = ss[o[i]].id /\ o[i] \in 1 .. n
      BY <1>5, <1>6
    <2>3. \A i, j \in 1 .. n : o[i] = o[j] => i = j
      BY <1>4, <1>5
    <2> SUFFICES ASSUME NEW i \in 1 .. n, NEW j \in 1 .. n, sorted[i].id = sorted[j].id PROVE i = j
      OBVIOUS
    <2>4. o[i] = o[j]
      BY <2>1, <2>2
    <2> QED BY <2>3, <2>4
  <1>9. SameSessions(ss, sorted)
    BY <1>1, <1>4, <1>5, <1>6, <1>7 DEF SameSessions
  <1> QED BY <1>7, <1>8, <1>9 DEF Listings, n

-----------------------------------------------------------------------------
(* The links *)

\* What a link tells of the work is what has come of it.
LEMMA SummaryIsProgress == \A tasks, S : _summary(tasks, S) = Progress(tasks, S)
  <1> SUFFICES ASSUME NEW tasks, NEW S PROVE _summary(tasks, S) = Progress(tasks, S)
    OBVIOUS
  <1>1. {t \in {t \in S : tasks[t].status # "abandoned"} : tasks[t].status = "completed"}
          = {t \in S : tasks[t].status = "completed"}
    OBVIOUS
  <1> QED BY <1>1 DEF _summary, Progress

\* Both ends of each link of a listing.
BothEnds(ss, links) ==
    /\ \A goal \in GoalsOf(ss) : \A ref \in Refs(ss, goal) :
          IF ref \in NodesOf(ss)
          THEN /\ goal \in DOMAIN links.upstream
               /\ ref \in DOMAIN links.remote
               /\ \E other \in GoalsOf(ss) :
                     /\ ref \in Refs(ss, other)
                     /\ links.remote[ref].to = other[1]
                     /\ links.remote[ref].summary =
                          Progress(ss[Position(ss, other[1])].nodes, Members(ss, other))
          ELSE <<goal, ref>> \in links.broken
    /\ \A goal \in DOMAIN links.upstream :
          links.upstream[goal] \in NodesOf(ss) \cap DOMAIN links.remote

\* What _link_by_parent finds: links from goals that name the node, now.
LEMMA ByParent ==
    ASSUME NEW ss \in Listings
    PROVE  /\ DOMAIN RemoteByParent(ss) = NamedByParent(ss) \cap NodesOf(ss)
           /\ \A k \in DOMAIN RemoteByParent(ss) : \E goal \in GoalsOf(ss) :
                 /\ k \in Refs(ss, goal) /\ RemoteByParent(ss)[k].to = goal[1]
                 /\ RemoteByParent(ss)[k].summary =
                      Progress(ss[Position(ss, goal[1])].nodes, Members(ss, goal))
           /\ \A goal \in GoalsOf(ss) : \A ref \in Refs(ss, goal) \cap NodesOf(ss) :
                 ref \in DOMAIN RemoteByParent(ss) /\ goal \in DOMAIN UpstreamByParent(ss)
           /\ \A goal \in DOMAIN UpstreamByParent(ss) :
                 UpstreamByParent(ss)[goal] \in DOMAIN RemoteByParent(ss)
  <1>1. DOMAIN RemoteByParent(ss) = NamedByParent(ss) \cap NodesOf(ss)
    BY DEF RemoteByParent
  <1>2. \A goal \in GoalsOf(ss) : Refs(ss, goal) \subseteq NamedByParent(ss)
    BY DEF NamedByParent
  <1>3. ASSUME NEW k \in DOMAIN RemoteByParent(ss)
        PROVE  \E goal \in GoalsOf(ss) :
                 /\ k \in Refs(ss, goal) /\ RemoteByParent(ss)[k].to = goal[1]
                 /\ RemoteByParent(ss)[k].summary =
                      Progress(ss[Position(ss, goal[1])].nodes, Members(ss, goal))
    <2> DEFINE K == {goal \in GoalsOf(ss) : k \in Refs(ss, goal)}
               goal == Hindmost(ss, K)
               first == Min({t \in Members(ss, goal) : Node(ss, <<goal[1], t>>).parent = k})
    <2>1. K # {} /\ K \subseteq NodesOf(ss)
      BY <1>1 DEF NamedByParent, GoalsOf
    <2>2. goal \in K
      <3> HIDE DEF K
      <3> QED BY <2>1, EndsOf
    <2>3. RemoteByParent(ss)[k] = Remote(ss, goal[1], first, Members(ss, goal))
      BY <1>1 DEF RemoteByParent
    <2> HIDE DEF goal, first
    <2>4. /\ RemoteByParent(ss)[k].to = goal[1]
          /\ RemoteByParent(ss)[k].summary = _summary(ss[Position(ss, goal[1])].nodes, Members(ss, goal))
      BY <2>3 DEF Remote
    <2> QED BY <2>2, <2>4, SummaryIsProgress
  <1>4. ASSUME NEW goal \in GoalsOf(ss), NEW ref \in Refs(ss, goal) \cap NodesOf(ss)
        PROVE  ref \in DOMAIN RemoteByParent(ss) /\ goal \in DOMAIN UpstreamByParent(ss)
    BY <1>1, <1>2 DEF UpstreamByParent, Found
  <1>5. ASSUME NEW goal \in DOMAIN UpstreamByParent(ss)
        PROVE  UpstreamByParent(ss)[goal] \in DOMAIN RemoteByParent(ss)
    <2>1. goal \in GoalsOf(ss) /\ Found(ss, goal) # {}
      BY DEF UpstreamByParent
    <2>2. UpstreamByParent(ss)[goal] \in Found(ss, goal)
      BY <2>1 DEF UpstreamByParent
    <2> QED BY <1>1, <1>2, <2>1, <2>2 DEF Found
  <1> QED BY <1>1, <1>3, <1>4, <1>5

\* What _link_by_session finds: for nodes that show no link yet, links to
\* sessions that are there, with all that has come of the work in them.
LEMMA BySession ==
    ASSUME NEW ss \in Listings, NEW linked
    PROVE  /\ DOMAIN RemoteBySession(ss, linked) = HandedOver(ss, linked)
           /\ \A k \in HandedOver(ss, linked) :
                 LET id == Node(ss, k).session
                     work == ss[Position(ss, id)].nodes
                 IN  /\ k \in NodesOf(ss) /\ IsShown(ss, id)
                     /\ RemoteBySession(ss, linked)[k].to = id
                     /\ RemoteBySession(ss, linked)[k].summary = Progress(work, DOMAIN work)
                     /\ work # <<>> => <<id, 1>> \in DOMAIN UpstreamBySession(ss, linked)
           /\ \A goal \in DOMAIN UpstreamBySession(ss, linked) :
                 UpstreamBySession(ss, linked)[goal] \in HandedOver(ss, linked)
  <1>1. DOMAIN RemoteBySession(ss, linked) = HandedOver(ss, linked)
    BY DEF RemoteBySession
  <1>2. HandedOver(ss, linked) \subseteq NodesOf(ss)
    BY DEF HandedOver, HandedOn
  <1>3. ASSUME NEW k \in HandedOver(ss, linked)
        PROVE  LET id == Node(ss, k).session
                   work == ss[Position(ss, id)].nodes
               IN  /\ k \in NodesOf(ss) /\ IsShown(ss, id)
                   /\ RemoteBySession(ss, linked)[k].to = id
                   /\ RemoteBySession(ss, linked)[k].summary = Progress(work, DOMAIN work)
                   /\ work # <<>> => <<id, 1>> \in DOMAIN UpstreamBySession(ss, linked)
    <2> DEFINE id == Node(ss, k).session
               work == ss[Position(ss, id)].nodes
               first == IF DOMAIN work = {} THEN NoTask ELSE 1
    <2>1. IsShown(ss, id)
      BY DEF HandedOver
    <2>2. RemoteBySession(ss, linked)[k] = Remote(ss, id, first, DOMAIN work)
      BY DEF RemoteBySession
    <2>3. work \in TaskLists
      BY <2>1, Listed
    <2>4. ASSUME work # <<>> PROVE <<id, 1>> \in DOMAIN UpstreamBySession(ss, linked)
      <3>1. 1 \in DOMAIN work
        <4> HIDE DEF work
        <4> QED BY <2>3, <2>4 DEF TaskLists
      <3>2. <<id, 1>> \in NodesOf(ss)
        BY <2>1, <3>1, NodesAre
      <3>3. <<id, 1>> \in GoalsOf(ss)
        BY <3>2 DEF GoalsOf
      <3>4. <<id, 1>>[1] = id /\ <<id, 1>>[2] = 1
        OBVIOUS
      <3> HIDE DEF id
      <3>5. k \in {l \in HandedOver(ss, linked) : Node(ss, l).session = <<id, 1>>[1]}
        BY <3>4 DEF id
      <3> QED BY <3>3, <3>4, <3>5 DEF UpstreamBySession
    <2> HIDE DEF id, work, first
    <2>5. /\ RemoteBySession(ss, linked)[k].to = id
          /\ RemoteBySession(ss, linked)[k].summary = _summary(ss[Position(ss, id)].nodes, DOMAIN work)
      BY <2>2 DEF Remote
    <2> QED BY <1>2, <2>1, <2>4, <2>5, SummaryIsProgress DEF id, work
  <1>4. ASSUME NEW goal \in DOMAIN UpstreamBySession(ss, linked)
        PROVE  UpstreamBySession(ss, linked)[goal] \in HandedOver(ss, linked)
    <2> DEFINE K == {k \in HandedOver(ss, linked) : Node(ss, k).session = goal[1]}
    <2>1. K # {} /\ UpstreamBySession(ss, linked)[goal] = Foremost(ss, K)
      BY DEF UpstreamBySession
    <2>2. K \subseteq HandedOver(ss, linked)
      OBVIOUS
    <2> HIDE DEF K
    <2> QED BY <1>2, <2>1, <2>2, EndsOf
  <1> QED BY <1>1, <1>3, <1>4

\* The links of a listing are on both of their ends, whatever nodes showed before.
LEMMA LinksMade ==
    ASSUME NEW ss \in Listings, NEW old
    PROVE  LET links == _link_sessions(ss, old) IN
           /\ BothEnds(ss, links)
           /\ \A k \in NodesOf(ss) \ DOMAIN old :
                LET id == Node(ss, k).session IN
                (id # NoSession /\ IsShown(ss, id) /\ k \notin NamedByParent(ss)) =>
                   LET work == ss[Position(ss, id)].nodes
                   IN  /\ links.remote[k].to = id
                       /\ links.remote[k].summary = Progress(work, DOMAIN work)
                       /\ work # <<>> => <<id, 1>> \in DOMAIN links.upstream
           /\ \A k \in DOMAIN links.remote :
                \/ k \in DOMAIN old /\ links.remote[k] = old[k]
                \/ IsShown(ss, links.remote[k].to)
  <1> DEFINE links == _link_sessions(ss, old)
             byParent == RemoteByParent(ss)
             shows == Shows(byParent, old)
             bySession == RemoteBySession(ss, DOMAIN shows)
             upParent == UpstreamByParent(ss)
             upSession == UpstreamBySession(ss, DOMAIN shows)
  <1>1. /\ links.remote = OrElse(shows, bySession) /\ links.upstream = OrElse(upParent, upSession)
        /\ links.broken = BrokenByParent(ss) \cup BrokenBySession(ss, DOMAIN shows)
    BY DEF _link_sessions
  <1>2. PICK L : L = links
    OBVIOUS
  <1>3. shows = OrElse(byParent, old)
    BY DEF Shows
  <1> HIDE DEF links, byParent, shows, bySession, upParent, upSession
  <1>4. /\ DOMAIN shows = DOMAIN byParent \cup DOMAIN old
        /\ \A k \in DOMAIN byParent : shows[k] = byParent[k]
        /\ \A k \in DOMAIN old \ DOMAIN byParent : shows[k] = old[k]
    BY <1>3 DEF OrElse
  <1>5. /\ DOMAIN L.remote = DOMAIN shows \cup DOMAIN bySession
        /\ \A k \in DOMAIN shows : L.remote[k] = shows[k]
        /\ \A k \in DOMAIN bySession \ DOMAIN shows : L.remote[k] = bySession[k]
    BY <1>1, <1>2 DEF OrElse
  <1>6. /\ DOMAIN L.upstream = DOMAIN upParent \cup DOMAIN upSession
        /\ \A k \in DOMAIN upParent : L.upstream[k] = upParent[k]
        /\ \A k \in DOMAIN upSession \ DOMAIN upParent : L.upstream[k] = upSession[k]
    BY <1>1, <1>2 DEF OrElse
  <1>7. /\ DOMAIN byParent = NamedByParent(ss) \cap NodesOf(ss)
        /\ \A k \in DOMAIN byParent : \E goal \in GoalsOf(ss) :
              /\ k \in Refs(ss, goal) /\ byParent[k].to = goal[1]
              /\ byParent[k].summary = Progress(ss[Position(ss, goal[1])].nodes, Members(ss, goal))
        /\ \A goal \in GoalsOf(ss) : \A ref \in Refs(ss, goal) \cap NodesOf(ss) :
              ref \in DOMAIN byParent /\ goal \in DOMAIN upParent
        /\ \A goal \in DOMAIN upParent : upParent[goal] \in DOMAIN byParent
    BY ByParent DEF byParent, upParent
  <1>8. /\ DOMAIN bySession = HandedOver(ss, DOMAIN shows)
        /\ \A k \in DOMAIN bySession :
              /\ k \in NodesOf(ss) /\ IsShown(ss, Node(ss, k).session)
              /\ bySession[k].to = Node(ss, k).session
              /\ LET work == ss[Position(ss, Node(ss, k).session)].nodes
                 IN  /\ bySession[k].summary = Progress(work, DOMAIN work)
                     /\ work # <<>> => <<Node(ss, k).session, 1>> \in DOMAIN upSession
        /\ \A goal \in DOMAIN upSession : upSession[goal] \in DOMAIN bySession
    BY BySession DEF bySession, upSession
  <1>9. BothEnds(ss, L)
    <2>1. ASSUME NEW goal \in GoalsOf(ss), NEW ref \in Refs(ss, goal), ref \in NodesOf(ss)
          PROVE  /\ goal \in DOMAIN L.upstream /\ ref \in DOMAIN L.remote
                 /\ \E other \in GoalsOf(ss) :
                      /\ ref \in Refs(ss, other)
                      /\ L.remote[ref].to = other[1]
                      /\ L.remote[ref].summary =
                           Progress(ss[Position(ss, other[1])].nodes, Members(ss, other))
      <3>1. ref \in DOMAIN byParent /\ goal \in DOMAIN upParent
        BY <1>7, <2>1
      <3>2. L.remote[ref] = byParent[ref]
        BY <1>4, <1>5, <3>1
      <3> QED BY <1>4, <1>5, <1>6, <1>7, <3>1, <3>2
    <2>2. ASSUME NEW goal \in GoalsOf(ss), NEW ref \in Refs(ss, goal), ref \notin NodesOf(ss)
          PROVE  <<goal, ref>> \in L.broken
      BY <1>1, <1>2, <2>2 DEF BrokenByParent
    <2>3. ASSUME NEW goal \in DOMAIN L.upstream
          PROVE  L.upstream[goal] \in NodesOf(ss) \cap DOMAIN L.remote
      BY <1>4, <1>5, <1>6, <1>7, <1>8
    <2> QED BY <2>1, <2>2, <2>3 DEF BothEnds
  <1>10. ASSUME NEW k \in NodesOf(ss) \ DOMAIN old, Node(ss, k).session # NoSession,
                IsShown(ss, Node(ss, k).session), k \notin NamedByParent(ss)
         PROVE  LET id == Node(ss, k).session
                    work == ss[Position(ss, id)].nodes
                IN  /\ L.remote[k].to = id
                    /\ L.remote[k].summary = Progress(work, DOMAIN work)
                    /\ work # <<>> => <<id, 1>> \in DOMAIN L.upstream
    <2>1. k \notin DOMAIN shows
      BY <1>4, <1>7, <1>10
    <2>2. k \in DOMAIN bySession
      BY <1>8, <1>10, <2>1 DEF HandedOver, HandedOn
    <2> QED BY <1>5, <1>6, <1>8, <2>1, <2>2
  <1>11. ASSUME NEW k \in DOMAIN L.remote
         PROVE  \/ k \in DOMAIN old /\ L.remote[k] = old[k]
                \/ IsShown(ss, L.remote[k].to)
    <2>1. CASE k \in DOMAIN byParent
      <3>1. PICK goal \in GoalsOf(ss) : byParent[k].to = goal[1]
        BY <1>7, <2>1
      <3>2. IsShown(ss, goal[1])
        BY MembersAre, NodesAre
      <3> QED BY <1>4, <1>5, <2>1, <3>1, <3>2
    <2>2. CASE k \in DOMAIN old \ DOMAIN byParent
      BY <1>4, <1>5, <2>2
    <2>3. CASE k \notin DOMAIN shows
      BY <1>5, <1>8, <2>3
    <2> QED BY <1>4, <2>1, <2>2, <2>3
  <1> QED BY <1>2, <1>9, <1>10, <1>11 DEF links

-----------------------------------------------------------------------------
(* The inductive invariant *)

Polls == [at : {"build"}, todo : Seq([id : Claude, pid : Pids]), seen : SUBSET Claude,
          dismissed : SUBSET Claude, sessions : Listings, steady : BOOLEAN]

WorldTypes ==
    /\ register \in [Pids -> Claude \cup {NoSession}]
    /\ procs \subseteq Pids /\ asks \subseteq Claude /\ dismissed \subseteq Claude
    /\ nodes \in [All -> TaskLists] /\ \A s \in All : Len(nodes[s]) \in 0 .. MaxTasks
    /\ changes \in 0 .. MaxChanges

ViewTypes ==
    /\ \A k \in DOMAIN kept : k[1] \in Claude /\ kept[k].to \in All
    /\ poll \in {NoPoll} \cup Polls
    /\ picture = [sessions |-> picture.sessions, links |-> picture.links,
                  steady |-> picture.steady]
    /\ picture.sessions \in Listings

\* What a description says of the process it was made of, and of the questions.
TellsOf(session, p) ==
    /\ register[p] = session.id
    /\ session.attention = "ended" <=> p \notin procs
    /\ session.attention = "asking" <=> (p \in procs /\ session.id \in asks \ dismissed)
    /\ session.askDismissed <=> (p \in procs /\ session.id \in asks \cap dismissed)

\* How far a poll has come: as long as nothing changes, every file of the
\* register has been gone through or is still to be, and what is described is
\* as it was described.
PollKnows ==
    poll # NoPoll =>
        /\ \A i \in DOMAIN poll.sessions : poll.sessions[i].id \in poll.seen
        /\ poll.steady =>
            /\ poll.dismissed = dismissed
            /\ \A p \in Pids : register[p] # NoSession =>
                  \/ register[p] \in poll.seen
                  \/ \E i \in DOMAIN poll.todo : poll.todo[i].id = register[p]
            /\ \A i \in DOMAIN poll.todo : register[poll.todo[i].pid] = poll.todo[i].id
            /\ \A s \in poll.seen : \E p \in Pids : register[p] = s
            /\ \A s \in poll.seen : nodes[s] # <<>> <=> IsShown(poll.sessions, s)
            /\ \A i \in DOMAIN poll.sessions : \E p \in Pids : TellsOf(poll.sessions[i], p)

PictureLinks == BothEnds(picture.sessions, picture.links)

SessionsInv == WorldTypes /\ ViewTypes /\ PollKnows /\ PictureTellsTheWorld /\ PictureLinks

\* The invariant is about these variables alone.
LEMMA NothingMoves ==
    ASSUME SessionsInv, UNCHANGED vars
    PROVE  SessionsInv'
  BY DEF SessionsInv, WorldTypes, ViewTypes, PollKnows, TellsOf, PictureTellsTheWorld, PictureLinks,
         Shown, Session, vars, world

LEMMA Starts == ASSUME Init PROVE SessionsInv
  <1> USE SessionsAssumption
  <1>1. WorldTypes
    <2>1. nodes \in [All -> TaskLists] /\ \A s \in All : Len(nodes[s]) <= MaxTasks
      BY DEF Init
    <2>2. \A s \in All : Len(nodes[s]) \in Nat
      BY <2>1 DEF TaskLists
    <2> QED BY <2>1, <2>2 DEF Init, WorldTypes
  <1>2. picture = NoPicture /\ poll = NoPoll /\ kept = <<>>
    BY DEF Init
  <1>3. picture.sessions = <<>> /\ picture.links = NoLinks /\ picture.steady = FALSE
    BY <1>2 DEF NoPicture
  <1>4. ViewTypes
    <2>1. <<>> \in Listings
      BY DEF Listings
    <2> QED BY <1>2, <1>3, <2>1 DEF ViewTypes, NoPicture
  <1>5. BothEnds(<<>>, NoLinks)
    <2>1. NodesOf(<<>>) = {} /\ DOMAIN NoLinks.upstream = {}
      BY DEF NodesOf, NoLinks
    <2>2. GoalsOf(<<>>) = {}
      BY <2>1 DEF GoalsOf
    <2> QED BY <2>1, <2>2 DEF BothEnds
  <1> QED BY <1>1, <1>2, <1>3, <1>4, <1>5
          DEF SessionsInv, PollKnows, PictureTellsTheWorld, PictureLinks

\* A change to the world touches neither what a poll has found nor what is shown,
\* and nothing found or shown counts as steady any more.
LEMMA Changes ==
    ASSUME SessionsInv, Change, WorldTypes'
    PROVE  SessionsInv'
  <1> USE SessionsAssumption
  <1>1. ViewTypes /\ PollKnows /\ PictureLinks
    BY DEF SessionsInv
  <1>2. PICK P : P = poll
    OBVIOUS
  <1>3. PICK Q : Q = poll'
    OBVIOUS
  <1>4. P \in {NoPoll} \cup Polls /\ Q = IF P = NoPoll THEN P ELSE [P EXCEPT !.steady = FALSE]
    BY <1>1, <1>2, <1>3 DEF ViewTypes, Change
  <1>5. P # NoPoll => Q \in Polls /\ Q.steady = FALSE /\ Q.sessions = P.sessions /\ Q.seen = P.seen
    BY <1>4 DEF Polls
  <1>6. picture' = [sessions |-> picture.sessions, links |-> picture.links, steady |-> FALSE]
    BY <1>1 DEF ViewTypes, Change
  <1>7. /\ picture'.sessions = picture.sessions /\ picture'.links = picture.links
        /\ picture'.steady = FALSE
    BY <1>6
  <1>8. ViewTypes'
    <2>1. kept' = kept
      BY DEF Change
    <2>2. Q \in {NoPoll} \cup Polls
      BY <1>4, <1>5
    <2> QED BY <1>1, <1>3, <1>6, <1>7, <2>1, <2>2 DEF ViewTypes
  <1>9. PollKnows'
    <2>1. P # NoPoll => \A i \in DOMAIN P.sessions : P.sessions[i].id \in P.seen
      BY <1>1, <1>2 DEF PollKnows
    <2>2. Q # NoPoll => P # NoPoll
      BY <1>4
    <2>3. poll' # NoPoll => /\ poll'.steady = FALSE
                            /\ \A i \in DOMAIN poll'.sessions : poll'.sessions[i].id \in poll'.seen
      BY <1>3, <1>5, <2>1, <2>2
    <2> QED BY <2>3 DEF PollKnows
  <1>10. PictureLinks'
    BY <1>1, <1>7 DEF PictureLinks
  <1>11. PictureTellsTheWorld'
    BY <1>7 DEF PictureTellsTheWorld
  <1> QED BY <1>8, <1>9, <1>10, <1>11 DEF SessionsInv

References == {NoRef} \cup (All \X Tasks)

\* A task list with a task more, or a task that says something else.
LEMMA ListsKept ==
    ASSUME NEW tasks \in TaskLists, Len(tasks) \in 0 .. MaxTasks
    PROVE  /\ Len(tasks) < MaxTasks => /\ Append(tasks, Plain) \in TaskLists
                                       /\ Len(Append(tasks, Plain)) \in 0 .. MaxTasks
           /\ \A new : \A t \in DOMAIN tasks :
                (\/ \E status \in Statuses : new = [tasks EXCEPT ![t].status = status]
                 \/ \E ref \in References : new = [tasks EXCEPT ![t].parent = ref]
                 \/ \E id \in {NoSession} \cup All : new = [tasks EXCEPT ![t].session = id])
                => new \in TaskLists /\ Len(new) \in 0 .. MaxTasks
  <1> DEFINE R == [status : Statuses, parent : References, session : {NoSession} \cup All]
  <1>1. TaskLists = Seq(R) /\ MaxTasks \in Nat
    BY SessionsAssumption DEF TaskLists, References
  <1>2. Plain \in R
    BY DEF Plain, Statuses, References
  <1>3. \A r \in R : /\ \A status \in Statuses : [r EXCEPT !.status = status] \in R
                     /\ \A ref \in References : [r EXCEPT !.parent = ref] \in R
                     /\ \A id \in {NoSession} \cup All : [r EXCEPT !.session = id] \in R
    OBVIOUS
  <1> HIDE DEF R
  <1>4. \A t \in DOMAIN tasks : tasks[t] \in R
    BY <1>1
  <1>5. \A t \in DOMAIN tasks : \A r \in R : [tasks EXCEPT ![t] = r] \in Seq(R)
    BY <1>1
  <1>6. \A t \in DOMAIN tasks : \A r : Len([tasks EXCEPT ![t] = r]) = Len(tasks)
    BY <1>1
  <1>7. Len(tasks) < MaxTasks => /\ Append(tasks, Plain) \in TaskLists
                                 /\ Len(Append(tasks, Plain)) \in 0 .. MaxTasks
    BY <1>1, <1>2
  <1>8. ASSUME NEW t \in DOMAIN tasks, NEW new, NEW r \in R, new = [tasks EXCEPT ![t] = r]
        PROVE  new \in TaskLists /\ Len(new) \in 0 .. MaxTasks
    BY <1>1, <1>5, <1>6, <1>8
  <1> QED BY <1>3, <1>4, <1>7, <1>8

\* Whatever the sessions and their users do is a change that keeps the types.
LEMMA WorldChanges ==
    ASSUME WorldTypes, World
    PROVE  Change /\ WorldTypes'
  <1> USE SessionsAssumption
  <1>1. ASSUME Change PROVE changes' \in 0 .. MaxChanges
    BY <1>1 DEF WorldTypes, Change
  <1>2. Claude \subseteq All
    BY DEF All
  <1>3. ASSUME NEW p \in Pids, Quit(p) \/ Crash(p) \/ Reuse(p) \/ \E s \in Claude : Start(p, s)
        PROVE  Change /\ WorldTypes'
    <2>1. Change
      BY <1>3 DEF Quit, Crash, Reuse, Start
    <2>2. UNCHANGED <<nodes, asks, dismissed>>
      BY <1>3 DEF Quit, Crash, Reuse, Start
    <2>3. register' \in [Pids -> Claude \cup {NoSession}] /\ procs' \subseteq Pids
      BY <1>3 DEF Quit, Crash, Reuse, Start, WorldTypes
    <2> QED BY <1>1, <2>1, <2>2, <2>3 DEF WorldTypes
  <1>4. ASSUME NEW s \in Claude, Ask(s) \/ Dismiss(s)
        PROVE  Change /\ WorldTypes'
    BY <1>1, <1>4 DEF Ask, Dismiss, WorldTypes
  <1>5. ASSUME NEW s \in All, NEW tasks \in TaskLists, Len(tasks) \in 0 .. MaxTasks, Task(s, tasks)
        PROVE  Change /\ WorldTypes'
    BY <1>1, <1>5 DEF Task, WorldTypes
  <1>6. \A s \in All : nodes[s] \in TaskLists /\ Len(nodes[s]) \in 0 .. MaxTasks
    BY DEF WorldTypes
  <1>7. ASSUME NEW s \in All, Create(s) PROVE Change /\ WorldTypes'
    BY <1>5, <1>6, <1>7, ListsKept DEF Create
  <1>8. ASSUME NEW s \in All, NEW t \in DOMAIN nodes[s], NEW status \in Statuses, SetStatus(s, t, status)
        PROVE  Change /\ WorldTypes'
    <2>1. PICK old : old = nodes[s] /\ old \in TaskLists /\ Len(old) \in 0 .. MaxTasks
      BY <1>6
    <2>2. PICK new : new = [old EXCEPT ![t].status = status]
      OBVIOUS
    <2>3. new \in TaskLists /\ Len(new) \in 0 .. MaxTasks
      BY <2>1, <2>2, ListsKept
    <2>4. Task(s, new)
      BY <1>8, <2>1, <2>2 DEF SetStatus
    <2> QED BY <1>5, <2>3, <2>4
  <1>9. ASSUME NEW s \in All, NEW t \in DOMAIN nodes[s], NEW ref \in References,
               SetParent(s, t, ref)
        PROVE  Change /\ WorldTypes'
    <2>1. PICK old : old = nodes[s] /\ old \in TaskLists /\ Len(old) \in 0 .. MaxTasks
      BY <1>6
    <2>2. PICK new : new = [old EXCEPT ![t].parent = ref]
      OBVIOUS
    <2>3. new \in TaskLists /\ Len(new) \in 0 .. MaxTasks
      BY <2>1, <2>2, ListsKept
    <2>4. Task(s, new)
      BY <1>9, <2>1, <2>2 DEF SetParent
    <2> QED BY <1>5, <2>3, <2>4
  <1>10. ASSUME NEW s \in All, NEW t \in DOMAIN nodes[s], NEW id \in {NoSession} \cup All,
                SetSession(s, t, id)
         PROVE  Change /\ WorldTypes'
    <2>1. PICK old : old = nodes[s] /\ old \in TaskLists /\ Len(old) \in 0 .. MaxTasks
      BY <1>6
    <2>2. PICK new : new = [old EXCEPT ![t].session = id]
      OBVIOUS
    <2>3. new \in TaskLists /\ Len(new) \in 0 .. MaxTasks
      BY <2>1, <2>2, ListsKept
    <2>4. Task(s, new)
      BY <1>10, <2>1, <2>2 DEF SetSession
    <2> QED BY <1>5, <2>3, <2>4
  <1> QED BY <1>2, <1>3, <1>4, <1>7, <1>8, <1>9, <1>10 DEF World, References

\* As long as the world and the picture stay, what the picture tells stays true.
LEMMA PictureStays ==
    ASSUME SessionsInv, UNCHANGED <<world, changes, kept, picture>>
    PROVE  /\ WorldTypes' /\ PictureTellsTheWorld' /\ PictureLinks'
           /\ (poll' \in {NoPoll} \cup Polls => ViewTypes')
  <1>1. WorldTypes' /\ PictureTellsTheWorld' /\ PictureLinks'
    BY DEF SessionsInv, WorldTypes, PictureTellsTheWorld, PictureLinks, Shown, Session, world
  <1>2. poll' \in {NoPoll} \cup Polls => ViewTypes'
    BY DEF SessionsInv, ViewTypes
  <1> QED BY <1>1, <1>2

LEMMA PollBegins ==
    ASSUME SessionsInv, Begin
    PROVE  SessionsInv'
  <1> USE SessionsAssumption
  <1> DEFINE Named == {p \in Pids : register[p] # NoSession}
             told(found) == [i \in DOMAIN found |-> [id |-> register[found[i]], pid |-> found[i]]]
  <1>1. UNCHANGED <<world, changes, kept, picture>>
    BY DEF Begin
  <1>2. PICK found \in SetToSeqs(Named) :
            poll' = [at |-> "build", todo |-> told(found), seen |-> {}, dismissed |-> dismissed,
                     sessions |-> <<>>, steady |-> TRUE]
    BY DEF Begin, _sessions_on_disk
  <1>3. IsFiniteSet(Named)
    BY FS_Subset
  <1>4. found \in Seq(Named) /\ \A p \in Named : \E i \in DOMAIN found : found[i] = p
    BY <1>3, InAnyOrder
  <1>5. PICK todo : todo = told(found)
    OBVIOUS
  <1>6. /\ DOMAIN todo = DOMAIN found
        /\ \A i \in DOMAIN found : todo[i].id = register[found[i]] /\ todo[i].pid = found[i]
    BY <1>5
  <1>7. register \in [Pids -> Claude \cup {NoSession}] /\ dismissed \subseteq Claude
    BY DEF SessionsInv, WorldTypes
  <1>8. todo \in Seq([id : Claude, pid : Pids])
    <2>1. Len(found) \in Nat /\ DOMAIN found = 1 .. Len(found)
      BY <1>4
    <2>2. \A i \in 1 .. Len(found) : found[i] \in Pids /\ register[found[i]] \in Claude
      BY <1>4, <1>7
    <2>3. \A i \in 1 .. Len(found) : todo[i] \in [id : Claude, pid : Pids]
      BY <1>5, <2>1, <2>2
    <2> QED BY <1>5, <2>1, <2>3
  <1>9. PICK Q : Q = poll'
    OBVIOUS
  <1>10. Q = [at |-> "build", todo |-> todo, seen |-> {}, dismissed |-> dismissed,
              sessions |-> <<>>, steady |-> TRUE]
    BY <1>2, <1>5, <1>9
  <1>11. Q \in Polls
    <2>1. <<>> \in Listings
      BY DEF Listings
    <2> QED BY <1>7, <1>8, <1>10, <2>1 DEF Polls
  <1>12. PollKnows'
    <2>1. /\ register' = register /\ dismissed' = dismissed
      BY <1>1 DEF world
    <2>2. \A p \in Pids : register[p] # NoSession => \E i \in DOMAIN todo : todo[i].id = register[p]
      BY <1>4, <1>6
    <2>3. \A i \in DOMAIN todo : register[todo[i].pid] = todo[i].id
      BY <1>6
    <2>4. /\ Q.todo = todo /\ Q.seen = {} /\ Q.dismissed = dismissed /\ Q.sessions = <<>>
          /\ DOMAIN Q.sessions = {}
      BY <1>10
    <2> QED BY <1>9, <2>1, <2>2, <2>3, <2>4 DEF PollKnows
  <1> QED BY <1>1, <1>9, <1>11, <1>12, PictureStays DEF SessionsInv

LEMMA PollRaises ==
    ASSUME SessionsInv, Raise
    PROVE  SessionsInv'
  BY PictureStays DEF Raise, SessionsInv, PollKnows

\* What is described of a session is what is so, when the questions that were put
\* away are those the poll knows of.
LEMMA Describes ==
    ASSUME WorldTypes, NEW info \in [id : Claude, pid : Pids]
    PROVE  /\ _describe(info) \in SessionRecords /\ _describe(info).id = info.id
           /\ _describe(info).nodes = nodes[info.id]
           /\ (poll.dismissed = dismissed /\ register[info.pid] = info.id)
                => TellsOf(_describe(info), info.pid)
  <1> DEFINE asked == _questions(info)
             waiting == _not_dismissed(asked)
             put == _mark_dismissed(asked, waiting)
             state == _attention(_alive(info.pid), waiting # {})
  <1>1. _describe(info) = [id |-> info.id, nodes |-> nodes[info.id],
                           askDismissed |-> put, attention |-> state]
    BY DEF _describe
  <1>2. info.id \in All /\ nodes[info.id] \in TaskLists /\ info.pid \in Pids
    BY DEF WorldTypes, All
  <1>3. put \in BOOLEAN /\ state \in {"ended", "asking", "working"}
    BY DEF _mark_dismissed, _attention
  <1>4. asked = IF info.pid \in procs THEN asks \cap {info.id} ELSE {}
    BY DEF _questions, _alive
  <1>5. waiting = asked \ poll.dismissed
    BY DEF _not_dismissed
  <1>6. /\ state = "ended" <=> info.pid \notin procs
        /\ state = "asking" <=> (info.pid \in procs /\ waiting # {})
    BY DEF _attention, _alive
  <1>7. put <=> asked \ waiting # {}
    BY DEF _mark_dismissed
  <1> HIDE DEF asked, waiting, put, state
  <1>8. /\ _describe(info) \in SessionRecords /\ _describe(info).id = info.id
        /\ _describe(info).nodes = nodes[info.id]
    BY <1>1, <1>2, <1>3 DEF SessionRecords
  <1>9. ASSUME poll.dismissed = dismissed, register[info.pid] = info.id
        PROVE  TellsOf(_describe(info), info.pid)
    <2>1. waiting # {} <=> info.pid \in procs /\ info.id \in asks \ dismissed
      BY <1>4, <1>5, <1>9
    <2>2. asked \ waiting # {} <=> info.pid \in procs /\ info.id \in asks \cap dismissed
      BY <1>4, <1>5, <1>9
    <2>3. /\ _describe(info).attention = state /\ _describe(info).askDismissed = put
      BY <1>1
    <2> QED BY <1>6, <1>7, <1>8, <1>9, <2>1, <2>2, <2>3 DEF TellsOf
  <1> QED BY <1>8, <1>9

\* A listing with another session at its end.
LEMMA OneMore ==
    ASSUME NEW ss \in Listings, NEW one \in SessionRecords, ~IsShown(ss, one.id)
    PROVE  /\ Append(ss, one) \in Listings
           /\ \A id : IsShown(Append(ss, one), id) <=> IsShown(ss, id) \/ id = one.id
           /\ \A i \in DOMAIN Append(ss, one) :
                Append(ss, one)[i] = one \/ (i \in DOMAIN ss /\ Append(ss, one)[i] = ss[i])
  <1>1. PICK more : more = Append(ss, one)
    OBVIOUS
  <1>2. ss \in Seq(SessionRecords) /\ DOMAIN ss = 1 .. Len(ss) /\ Len(ss) \in Nat
    BY DEF Listings
  <1>3. /\ more \in Seq(SessionRecords) /\ DOMAIN more = 1 .. Len(ss) + 1
        /\ more[Len(ss) + 1] = one /\ \A i \in DOMAIN ss : more[i] = ss[i]
    BY <1>1, <1>2
  <1>4. \A i \in DOMAIN more : i = Len(ss) + 1 \/ i \in DOMAIN ss
    BY <1>2, <1>3
  <1>5. \A i \in DOMAIN ss : i \in DOMAIN more /\ i # Len(ss) + 1
    BY <1>2, <1>3
  <1>6. Len(ss) + 1 \in DOMAIN more
    BY <1>2, <1>3
  <1>7. \A id : IsShown(more, id) <=> IsShown(ss, id) \/ id = one.id
    BY <1>3, <1>4, <1>5, <1>6 DEF IsShown
  <1>8. \A i, j \in DOMAIN more : more[i].id = more[j].id => i = j
    <2>1. \A i \in DOMAIN ss : ss[i].id # one.id
      BY DEF IsShown
    <2>2. \A i, j \in DOMAIN ss : ss[i].id = ss[j].id => i = j
      BY DEF Listings
    <2> QED BY <1>3, <1>4, <2>1, <2>2
  <1> QED BY <1>1, <1>3, <1>4, <1>7, <1>8 DEF Listings

LEMMA PollDescribes ==
    ASSUME SessionsInv, Describe
    PROVE  SessionsInv'
  <1> USE SessionsAssumption
  <1> DEFINE Files == [id : Claude, pid : Pids]
  <1>1. UNCHANGED <<world, changes, kept, picture>>
    BY DEF Describe
  <1>2. /\ register' = register /\ dismissed' = dismissed /\ nodes' = nodes
        /\ procs' = procs /\ asks' = asks
    BY <1>1 DEF world
  <1>3. WorldTypes /\ PollKnows /\ poll \in Polls /\ poll.todo # <<>>
    BY DEF SessionsInv, ViewTypes, Describe
  <1>4. PICK P : P = poll
    OBVIOUS
  <1>5. PICK Q : Q = poll'
    OBVIOUS
  <1>6. PICK info : info = Head(poll.todo)
    OBVIOUS
  <1>7. PICK one : one = _describe(info)
    OBVIOUS
  <1>8. /\ P.todo \in Seq(Files) /\ P.todo # <<>> /\ P.seen \subseteq Claude
        /\ P.dismissed \subseteq Claude /\ P.sessions \in Listings /\ P.steady \in BOOLEAN
        /\ DOMAIN P = {"at", "todo", "seen", "dismissed", "sessions", "steady"}
    BY <1>3, <1>4 DEF Polls
  <1>9. /\ info \in Files /\ Tail(P.todo) \in Seq(Files)
        /\ \A i \in DOMAIN P.todo : P.todo[i] = info \/ \E j \in DOMAIN Tail(P.todo) : Tail(P.todo)[j] = P.todo[i]
        /\ \A j \in DOMAIN Tail(P.todo) : \E i \in DOMAIN P.todo : Tail(P.todo)[j] = P.todo[i]
        /\ \E i \in DOMAIN P.todo : P.todo[i] = info
    <2>1. PICK T : T = P.todo
      OBVIOUS
    <2>2. T \in Seq(Files) /\ T # <<>> /\ info = Head(T)
      BY <1>4, <1>6, <1>8, <2>1
    <2> HIDE DEF Files
    <2>3. DOMAIN T = 1 .. Len(T) /\ Len(T) \in Nat /\ Len(T) > 0 /\ info = T[1] /\ T[1] \in Files
      BY <2>2
    <2>4. PICK R : R = Tail(T)
      OBVIOUS
    <2>5. R \in Seq(Files) /\ Len(R) = Len(T) - 1 /\ DOMAIN R = 1 .. (Len(T) - 1)
      BY <2>2, <2>4
    <2>6. \A j \in 1 .. (Len(T) - 1) : R[j] = T[j + 1]
      BY <2>2, <2>4
    <2>7. \A i \in DOMAIN T : T[i] = info \/ \E j \in DOMAIN R : R[j] = T[i]
      <3> SUFFICES ASSUME NEW i \in DOMAIN T, i # 1 PROVE \E j \in DOMAIN R : R[j] = T[i]
        BY <2>3
      <3>1. i - 1 \in DOMAIN R /\ R[i - 1] = T[i]
        BY <2>3, <2>5, <2>6
      <3> QED BY <3>1
    <2>8. \A j \in DOMAIN R : j + 1 \in DOMAIN T /\ R[j] = T[j + 1]
      BY <2>3, <2>5, <2>6
    <2>9. 1 \in DOMAIN T
      BY <2>3
    <2> QED BY <2>1, <2>3, <2>4, <2>5, <2>7, <2>8, <2>9
  <1>10. /\ info.id \in Claude /\ info.pid \in Pids
    BY <1>9
  <1> DEFINE here == info.id \notin P.seen /\ nodes[info.id] # <<>>
             found == IF here THEN Append(P.sessions, one) ELSE P.sessions
  <1>11. Q = [P EXCEPT !.todo = Tail(P.todo), !.seen = P.seen \cup {info.id}, !.sessions = found]
    BY <1>4, <1>5, <1>6, <1>7 DEF Describe, IsNew, _transcript_for
  <1>12. /\ one \in SessionRecords /\ one.id = info.id /\ one.nodes = nodes[info.id]
         /\ (P.dismissed = dismissed /\ register[info.pid] = info.id) => TellsOf(one, info.pid)
    BY <1>3, <1>4, <1>7, <1>9, Describes
  <1>13. \A i \in DOMAIN P.sessions : P.sessions[i].id \in P.seen
    BY <1>3, <1>4 DEF PollKnows, Polls, NoPoll
  <1>14. here => ~IsShown(P.sessions, one.id)
    BY <1>12, <1>13 DEF IsShown
  <1>15. /\ found \in Listings
         /\ \A id : IsShown(found, id) <=> IsShown(P.sessions, id) \/ (here /\ id = info.id)
         /\ \A i \in DOMAIN found : \/ here /\ found[i] = one
                                    \/ i \in DOMAIN P.sessions /\ found[i] = P.sessions[i]
    <2>1. CASE here
      BY <1>8, <1>12, <1>14, <2>1, OneMore
    <2>2. CASE ~here
      BY <1>8, <2>2
    <2> QED BY <2>1, <2>2
  <1> HIDE DEF found
  <1>16. /\ Q.todo = Tail(P.todo) /\ Q.seen = P.seen \cup {info.id} /\ Q.sessions = found
         /\ Q.dismissed = P.dismissed /\ Q.steady = P.steady
    BY <1>8, <1>11
  <1>17. Q \in Polls
    <2>1. Q = [at |-> "build", todo |-> Tail(P.todo), seen |-> P.seen \cup {info.id},
               dismissed |-> P.dismissed, sessions |-> found, steady |-> P.steady]
      BY <1>3, <1>4, <1>11 DEF Polls
    <2> QED BY <1>8, <1>9, <1>10, <1>15, <2>1 DEF Polls
  <1>18. \A i \in DOMAIN Q.sessions : Q.sessions[i].id \in Q.seen
    BY <1>12, <1>13, <1>15, <1>16
  <1>19. ASSUME Q.steady
         PROVE  /\ Q.dismissed = dismissed
                /\ \A p \in Pids : register[p] # NoSession =>
                      register[p] \in Q.seen \/ \E i \in DOMAIN Q.todo : Q.todo[i].id = register[p]
                /\ \A i \in DOMAIN Q.todo : register[Q.todo[i].pid] = Q.todo[i].id
                /\ \A s \in Q.seen : \E p \in Pids : register[p] = s
                /\ \A s \in Q.seen : nodes[s] # <<>> <=> IsShown(Q.sessions, s)
                /\ \A i \in DOMAIN Q.sessions : \E p \in Pids : TellsOf(Q.sessions[i], p)
    <2>1. /\ P.dismissed = dismissed
          /\ \A p \in Pids : register[p] # NoSession =>
                register[p] \in P.seen \/ \E i \in DOMAIN P.todo : P.todo[i].id = register[p]
          /\ \A i \in DOMAIN P.todo : register[P.todo[i].pid] = P.todo[i].id
          /\ \A s \in P.seen : \E p \in Pids : register[p] = s
          /\ \A s \in P.seen : nodes[s] # <<>> <=> IsShown(P.sessions, s)
          /\ \A i \in DOMAIN P.sessions : \E p \in Pids : TellsOf(P.sessions[i], p)
      BY <1>3, <1>4, <1>16, <1>19 DEF PollKnows, Polls, NoPoll
    <2>2. \A p \in Pids : register[p] # NoSession =>
              register[p] \in Q.seen \/ \E i \in DOMAIN Q.todo : Q.todo[i].id = register[p]
      <3> SUFFICES ASSUME NEW p \in Pids, register[p] # NoSession, register[p] \notin Q.seen
                   PROVE  \E i \in DOMAIN Q.todo : Q.todo[i].id = register[p]
        OBVIOUS
      <3>1. PICK i \in DOMAIN P.todo : P.todo[i].id = register[p]
        BY <1>16, <2>1
      <3>2. P.todo[i] # info
        BY <1>16, <3>1
      <3>3. PICK j \in DOMAIN Tail(P.todo) : Tail(P.todo)[j] = P.todo[i]
        BY <1>9, <3>1, <3>2
      <3>4. j \in DOMAIN Q.todo /\ Q.todo[j] = P.todo[i]
        BY <1>16, <3>3
      <3> QED BY <3>1, <3>4
    <2>3. \A i \in DOMAIN Q.todo : register[Q.todo[i].pid] = Q.todo[i].id
      BY <1>9, <1>16, <2>1
    <2>4. register[info.pid] = info.id
      BY <1>9, <2>1
    <2>5. \A s \in Q.seen : \E p \in Pids : register[p] = s
      BY <1>10, <1>16, <2>1, <2>4
    <2>6. \A s \in Q.seen : nodes[s] # <<>> <=> IsShown(Q.sessions, s)
      <3>1. \A s : IsShown(P.sessions, s) => s \in P.seen
        BY <1>13 DEF IsShown
      <3> QED BY <1>15, <1>16, <2>1, <3>1
    <2>7. \A i \in DOMAIN Q.sessions : \E p \in Pids : TellsOf(Q.sessions[i], p)
      BY <1>10, <1>12, <1>15, <1>16, <2>1, <2>4
    <2> QED BY <1>16, <2>1, <2>2, <2>3, <2>5, <2>6, <2>7
  <1>20. PollKnows'
    <2>1. \A session, p : TellsOf(session, p) => TellsOf(session, p)'
      BY <1>2 DEF TellsOf
    <2> QED BY <1>2, <1>5, <1>18, <1>19, <2>1 DEF PollKnows, TellsOf
  <1> QED BY <1>1, <1>5, <1>17, <1>20, PictureStays DEF SessionsInv

\* The threads of Codex, if any were found, each once.
LEMMA Threads ==
    ASSUME WorldTypes, NEW threads \in CodexSessions
    PROVE  threads \in Listings /\ \A i \in DOMAIN threads : threads[i].id \in Codex
  <1> USE SessionsAssumption
  <1>1. CASE threads = <<>>
    BY <1>1 DEF Listings
  <1>2. CASE threads # <<>>
    <2>1. PICK order \in SetToSeqs(Codex) :
            threads = [i \in DOMAIN order |-> [id |-> order[i], nodes |-> nodes[order[i]],
                                               askDismissed |-> FALSE, attention |-> "none"]]
      BY <1>2 DEF CodexSessions
    <2>2. IsFiniteSet(Codex)
      BY FS_Subset DEF All
    <2>3. order \in Seq(Codex) /\ \A i, j \in DOMAIN order : order[i] = order[j] => i = j
      BY <2>2, InAnyOrder
    <2>4. /\ DOMAIN order = 1 .. Len(order) /\ Len(order) \in Nat
          /\ \A i \in DOMAIN order : order[i] \in Codex
      BY <2>3
    <2>5. \A i \in DOMAIN order : threads[i] \in SessionRecords /\ threads[i].id = order[i]
      <3> SUFFICES ASSUME NEW i \in DOMAIN order
                   PROVE  threads[i] \in SessionRecords /\ threads[i].id = order[i]
        OBVIOUS
      <3>1. order[i] \in All /\ nodes[order[i]] \in TaskLists
        BY <2>4 DEF All, WorldTypes
      <3>2. threads[i] = [id |-> order[i], nodes |-> nodes[order[i]],
                          askDismissed |-> FALSE, attention |-> "none"]
        BY <2>1
      <3> QED BY <3>1, <3>2 DEF SessionRecords
    <2>6. DOMAIN threads = 1 .. Len(order) /\ threads \in Seq(SessionRecords)
      BY <2>1, <2>4, <2>5
    <2> QED BY <2>3, <2>4, <2>5, <2>6 DEF Listings
  <1> QED BY <1>1, <1>2

\* Two listings of different sessions, one after the other.
LEMMA Joined ==
    ASSUME NEW a \in Listings, NEW b \in Listings,
           \A i \in DOMAIN a : a[i].id \in Claude, \A j \in DOMAIN b : b[j].id \in Codex
    PROVE  /\ a \o b \in Listings
           /\ \A i \in DOMAIN (a \o b) : \/ i \in DOMAIN a /\ (a \o b)[i] = a[i]
                                         \/ \E j \in DOMAIN b : (a \o b)[i] = b[j]
           /\ \A i \in DOMAIN a : i \in DOMAIN (a \o b) /\ (a \o b)[i] = a[i]
  <1> USE SessionsAssumption
  <1>1. PICK c : c = a \o b
    OBVIOUS
  <1>2. PICK n \in Nat : n = Len(a)
    BY DEF Listings
  <1>3. PICK m \in Nat : m = Len(b)
    BY DEF Listings
  <1>4. /\ a \in Seq(SessionRecords) /\ b \in Seq(SessionRecords)
        /\ DOMAIN a = 1 .. n /\ DOMAIN b = 1 .. m
    BY <1>2, <1>3 DEF Listings
  <1>5. c \in Seq(SessionRecords) /\ DOMAIN c = 1 .. (n + m)
    BY <1>1, <1>2, <1>3, <1>4
  <1>6. /\ \A i \in 1 .. n : c[i] = a[i]
        /\ \A i \in (n + 1) .. (n + m) : c[i] = b[i - n]
    BY <1>1, <1>2, <1>3, <1>4
  <1>7. \A i \in DOMAIN c : i \in 1 .. n \/ i \in (n + 1) .. (n + m)
    BY <1>5
  <1>8. \A i \in (n + 1) .. (n + m) : i - n \in 1 .. m
    OBVIOUS
  <1>9. \A i \in 1 .. n : c[i].id \in Claude
    BY <1>4, <1>6
  <1>10. \A i \in (n + 1) .. (n + m) : c[i].id \in Codex
    BY <1>4, <1>6, <1>8
  <1>11. ASSUME NEW i \in DOMAIN c, NEW j \in DOMAIN c, c[i].id = c[j].id PROVE i = j
    <2>1. CASE i \in 1 .. n /\ j \in 1 .. n
      BY <1>4, <1>6, <1>11, <2>1 DEF Listings
    <2>2. CASE i \in (n + 1) .. (n + m) /\ j \in (n + 1) .. (n + m)
      <3>1. b[i - n].id = b[j - n].id
        BY <1>6, <1>11, <2>2
      <3>2. i - n = j - n
        BY <1>4, <1>8, <2>2, <3>1 DEF Listings
      <3> QED BY <2>2, <3>2
    <2>3. CASE i \in 1 .. n /\ j \in (n + 1) .. (n + m)
      BY <1>9, <1>10, <1>11, <2>3
    <2>4. CASE i \in (n + 1) .. (n + m) /\ j \in 1 .. n
      BY <1>9, <1>10, <1>11, <2>4
    <2> QED BY <1>7, <2>1, <2>2, <2>3, <2>4
  <1>12. \A i \in DOMAIN c : \/ i \in DOMAIN a /\ c[i] = a[i]
                             \/ \E j \in DOMAIN b : c[i] = b[j]
    BY <1>4, <1>6, <1>7, <1>8
  <1>13. \A i \in DOMAIN a : i \in DOMAIN c
    BY <1>4, <1>5
  <1> QED BY <1>1, <1>4, <1>5, <1>6, <1>11, <1>12, <1>13 DEF Listings

\* What a poll publishes: the sessions it found and the threads of Codex, sorted,
\* and their links.
Published(threads, ss, sorted) ==
    /\ threads \in CodexSessions /\ ss = poll.sessions \o threads
    /\ sorted \in InOrder(ss)
    /\ picture' = [sessions |-> sorted, links |-> _link_sessions(ss, kept),
                   steady |-> poll.steady]
    /\ ss \in Listings /\ sorted \in Listings /\ SameSessions(ss, sorted)

LEMMA Publishes ==
    ASSUME SessionsInv, Publish
    PROVE  /\ \E threads, ss, sorted : Published(threads, ss, sorted)
           /\ poll \in Polls /\ \A i \in DOMAIN poll.sessions : poll.sessions[i].id \in Claude
  <1> USE SessionsAssumption
  <1>1. PICK threads \in CodexSessions :
          \E sorted \in InOrder(AfterCodex(poll.sessions, threads)) :
             picture' = [sessions |-> sorted,
                         links |-> _link_sessions(AfterCodex(poll.sessions, threads), kept),
                         steady |-> poll.steady]
    BY DEF Publish
  <1>2. PICK ss : ss = AfterCodex(poll.sessions, threads)
    OBVIOUS
  <1>3. PICK sorted \in InOrder(ss) :
          picture' = [sessions |-> sorted, links |-> _link_sessions(ss, kept), steady |-> poll.steady]
    BY <1>1, <1>2
  <1>4. poll \in Polls
    BY DEF SessionsInv, ViewTypes, Publish
  <1>5. poll.sessions \in Listings /\ \A i \in DOMAIN poll.sessions : poll.sessions[i].id \in Claude
    BY <1>4 DEF SessionsInv, PollKnows, Publish, Polls
  <1>6. ss \in Listings
    <2>1. PICK found : found = poll.sessions
      OBVIOUS
    <2>2. threads \in Listings /\ \A i \in DOMAIN threads : threads[i].id \in Codex
      BY Threads DEF SessionsInv
    <2>3. found \o threads \in Listings
      BY <1>5, <2>1, <2>2, Joined
    <2> QED BY <1>2, <2>1, <2>3 DEF AfterCodex
  <1>7. sorted \in Listings /\ SameSessions(ss, sorted)
    BY <1>6, Sorted
  <1> QED BY <1>2, <1>3, <1>4, <1>5, <1>6, <1>7 DEF Published, AfterCodex

\* Links that are on both ends are so in whatever order the sessions come.
LEMMA OrderDoesNotMatter ==
    ASSUME NEW a \in Listings, NEW b \in Listings, SameSessions(a, b), NEW links, BothEnds(a, links)
    PROVE  BothEnds(b, links)
  <1>1. /\ NodesOf(a) = NodesOf(b) /\ GoalsOf(a) = GoalsOf(b)
        /\ \A goal \in GoalsOf(a) : Refs(a, goal) = Refs(b, goal)
    BY Rearranged
  <1>2. \A goal \in GoalsOf(a) : /\ Members(a, goal) = Members(b, goal)
                                 /\ a[Position(a, goal[1])] = b[Position(b, goal[1])]
    BY Rearranged, MembersAre, NodesAre
  <1> QED BY <1>1, <1>2 DEF BothEnds

\* A poll during which nothing changed tells of every session what is so.
LEMMA SteadyPollTells ==
    ASSUME SessionsInv, Publish
    PROVE  PictureTellsTheWorld'
  <1> USE SessionsAssumption
  <1>1. PICK threads, ss, sorted : Published(threads, ss, sorted)
    BY Publishes
  <1>2. PICK found : found = poll.sessions
    OBVIOUS
  <1>3. found \in Listings /\ \A i \in DOMAIN found : found[i].id \in Claude
    BY <1>2, Publishes DEF Polls
  <1>4. threads \in Listings /\ \A j \in DOMAIN threads : threads[j].id \in Codex
    BY <1>1, Threads DEF SessionsInv, Published
  <1>5. /\ ss \in Listings /\ sorted \in Listings /\ SameSessions(ss, sorted) /\ ss = found \o threads
        /\ picture'.sessions = sorted /\ picture'.steady = poll.steady
    BY <1>1, <1>2 DEF Published
  <1>6. /\ register' = register /\ dismissed' = dismissed /\ nodes' = nodes
        /\ procs' = procs /\ asks' = asks
    BY DEF Publish, world
  <1>7. /\ \A i \in DOMAIN ss : \/ i \in DOMAIN found /\ ss[i] = found[i]
                                \/ \E j \in DOMAIN threads : ss[i] = threads[j]
        /\ \A i \in DOMAIN found : i \in DOMAIN ss /\ ss[i] = found[i]
    BY <1>3, <1>4, <1>5, Joined
  <1>8. ss \in Listings /\ sorted \in Listings /\ SameSessions(ss, sorted)
    BY <1>5
  <1>9. ASSUME NEW s \in Claude
        PROVE  /\ IsShown(sorted, s) <=> IsShown(found, s)
               /\ IsShown(found, s) => \E i \in DOMAIN found : /\ found[i].id = s
                                                              /\ sorted[Position(sorted, s)] = found[i]
    <2>1. s \notin Codex
      OBVIOUS
    <2>2. IsShown(ss, s) <=> IsShown(found, s)
      BY <1>4, <1>7, <2>1 DEF IsShown
    <2>3. ASSUME NEW i \in DOMAIN found, found[i].id = s PROVE ss[Position(ss, s)] = found[i]
      <3>1. i \in DOMAIN ss /\ ss[i] = found[i]
        BY <1>7
      <3>2. Position(ss, ss[i].id) = i
        BY <1>8, <3>1, Listed
      <3> QED BY <2>3, <3>1, <3>2
    <2>4. /\ IsShown(sorted, s) <=> IsShown(ss, s)
          /\ IsShown(ss, s) => sorted[Position(sorted, s)] = ss[Position(ss, s)]
      BY <1>8, Rearranged
    <2> QED BY <2>2, <2>3, <2>4 DEF IsShown
  <1> SUFFICES ASSUME poll.steady PROVE PictureTellsTheWorld'
    BY <1>5 DEF PictureTellsTheWorld
  <1>10. /\ \A i \in DOMAIN found : found[i].id \in poll.seen
         /\ \A p \in Pids : register[p] # NoSession => register[p] \in poll.seen
         /\ \A s \in poll.seen : \E p \in Pids : register[p] = s
         /\ \A s \in poll.seen : nodes[s] # <<>> <=> IsShown(found, s)
         /\ \A i \in DOMAIN found : \E p \in Pids : TellsOf(found[i], p)
    BY <1>2 DEF SessionsInv, PollKnows, Publish
  <1>11. \A s \in Claude : IsShown(found, s) <=> (nodes[s] # <<>> /\ \E p \in Pids : register[p] = s)
    <2>1. \A s : IsShown(found, s) => s \in poll.seen
      BY <1>10 DEF IsShown
    <2>2. \A s \in Claude : s # NoSession
      BY DEF All
    <2> QED BY <1>10, <2>1, <2>2
  <1>12. \A s : s \in Shown' <=> IsShown(sorted, s)
    BY <1>5 DEF Shown, IsShown
  <1>13. ASSUME NEW s \in Claude, IsShown(sorted, s), NEW p \in Pids,
                \A q \in Pids : register[q] = s <=> q = p
         PROVE  TellsOf(sorted[Position(sorted, s)], p) /\ sorted[Position(sorted, s)].id = s
    <2>1. PICK i \in DOMAIN found : found[i].id = s /\ sorted[Position(sorted, s)] = found[i]
      BY <1>9, <1>13
    <2>2. PICK q \in Pids : TellsOf(found[i], q)
      BY <1>10
    <2>3. q = p
      BY <1>13, <2>1, <2>2 DEF TellsOf
    <2> QED BY <2>1, <2>2, <2>3
  <1>14. Shown' \cap Claude = {s \in Claude : nodes[s] # <<>> /\ \E p \in Pids : register[p] = s}
    BY <1>9, <1>11, <1>12
  <1>15. \A s \in Shown' \cap Claude : \A p \in Pids :
           (\A q \in Pids : register[q] = s <=> q = p) =>
             LET session == sorted[Position(sorted, s)]
             IN  /\ session.attention = "ended" <=> p \notin procs
                 /\ session.attention = "asking" <=> (p \in procs /\ s \in asks \ dismissed)
                 /\ session.askDismissed <=> (p \in procs /\ s \in asks \cap dismissed)
    BY <1>12, <1>13 DEF TellsOf
  <1> QED BY <1>5, <1>6, <1>14, <1>15 DEF PictureTellsTheWorld, Session

LEMMA PollPublishes ==
    ASSUME SessionsInv, Publish
    PROVE  SessionsInv'
  <1> USE SessionsAssumption
  <1>1. PICK threads, ss, sorted : Published(threads, ss, sorted)
    BY Publishes
  <1>2. PICK links : links = _link_sessions(ss, kept)
    OBVIOUS
  <1>3. /\ ss \in Listings /\ sorted \in Listings /\ SameSessions(ss, sorted)
        /\ picture' = [sessions |-> sorted, links |-> links, steady |-> poll.steady]
    BY <1>1, <1>2 DEF Published
  <1>4. /\ BothEnds(ss, links)
        /\ \A k \in DOMAIN links.remote : \/ k \in DOMAIN kept /\ links.remote[k] = kept[k]
                                          \/ IsShown(ss, links.remote[k].to)
    BY <1>2, <1>3, LinksMade
  <1>5. PictureLinks'
    BY <1>3, <1>4, OrderDoesNotMatter DEF PictureLinks
  <1>6. kept' = [k \in {k \in DOMAIN links.remote : k[1] \in Claude} |-> links.remote[k]]
    <2>1. PICK t \in CodexSessions : LET found == AfterCodex(poll.sessions, t)
                                         made == _link_sessions(found, kept)
                                     IN  /\ \E o \in InOrder(found) :
                                              picture' = [sessions |-> o, links |-> made, steady |-> poll.steady]
                                         /\ kept' = [k \in {k \in DOMAIN made.remote : k[1] \in Claude} |-> made.remote[k]]
      BY DEF Publish
    <2>2. PICK made : made = _link_sessions(AfterCodex(poll.sessions, t), kept)
      OBVIOUS
    <2>3. picture'.links = made /\ picture'.links = links
      BY <1>3, <2>1, <2>2
    <2> QED BY <2>1, <2>2, <2>3
  <1>7. \A k \in DOMAIN kept' : k[1] \in Claude /\ kept'[k].to \in All
    <2>1. \A k \in DOMAIN kept : kept[k].to \in All
      BY DEF SessionsInv, ViewTypes
    <2>2. \A k \in DOMAIN links.remote : links.remote[k].to \in All
      BY <1>3, <1>4, <2>1, Listed
    <2> QED BY <1>6, <2>2
  <1>8. poll' = NoPoll /\ UNCHANGED <<world, changes>>
    BY DEF Publish
  <1>9. ViewTypes'
    BY <1>3, <1>7, <1>8 DEF ViewTypes
  <1>10. WorldTypes'
    BY <1>8 DEF SessionsInv, WorldTypes, world
  <1> QED BY <1>5, <1>8, <1>9, <1>10, SteadyPollTells DEF SessionsInv, PollKnows

-----------------------------------------------------------------------------
(* The theorems *)

LEMMA SessionsInvariant == Spec => []SessionsInv
  <1>1. Init => SessionsInv
    BY Starts
  <1>2. SessionsInv /\ [Next]_vars => SessionsInv'
    <2> SUFFICES ASSUME SessionsInv, [Next]_vars PROVE SessionsInv'
      OBVIOUS
    <2>1. CASE World
      BY <2>1, WorldChanges, Changes DEF SessionsInv
    <2>2. CASE Begin
      BY <2>2, PollBegins
    <2>3. CASE Describe
      BY <2>3, PollDescribes
    <2>4. CASE Raise
      BY <2>4, PollRaises
    <2>5. CASE Publish
      BY <2>5, PollPublishes
    <2>6. CASE UNCHANGED vars
      BY <2>6, NothingMoves
    <2> QED BY <2>1, <2>2, <2>3, <2>4, <2>5, <2>6 DEF Next, Build
  <1> QED BY <1>1, <1>2, PTL DEF Spec

\* No more sessions in a listing than there are.
LEMMA NoMoreThanThereAre ==
    ASSUME NEW ss \in Listings
    PROVE  Len(ss) <= Cardinality(All)
  <1> USE SessionsAssumption
  <1> DEFINE n == Len(ss)
             ids == [i \in 1 .. n |-> ss[i].id]
  <1>1. n \in Nat /\ DOMAIN ss = 1 .. n /\ ss \in Seq(SessionRecords)
    BY DEF Listings
  <1>2. \A i \in 1 .. n : ss[i] \in SessionRecords
    BY <1>1
  <1>3. \A i \in 1 .. n : ss[i].id \in All
    BY <1>2 DEF SessionRecords
  <1>4. \A i, j \in 1 .. n : ss[i].id = ss[j].id => i = j
    BY <1>1 DEF Listings
  <1> HIDE DEF n
  <1>5. IsFiniteSet(1 .. n) /\ Cardinality(1 .. n) = n
    BY <1>1, FS_Interval
  <1>6. ids \in Injection(1 .. n, All)
    BY <1>3, <1>4 DEF Injection, IsInjective
  <1> HIDE DEF ids
  <1>7. Cardinality(1 .. n) <= Cardinality(All)
    BY <1>5, <1>6, FS_Injection
  <1> QED BY <1>5, <1>7 DEF n

\* Type correctness, and nobody is in a picture twice.
THEOREM TypesHold == Spec => []TypeOK
  <1>1. SessionsInv => TypeOK
    <2> SUFFICES ASSUME SessionsInv PROVE TypeOK
      OBVIOUS
    <2>1. PICK ss \in Listings : ss = picture.sessions
      BY DEF SessionsInv, ViewTypes
    <2>2. IsInjective([i \in DOMAIN ss |-> ss[i].id])
      BY DEF IsInjective, Listings
    <2>3. Len(ss) <= Cardinality(All)
      BY NoMoreThanThereAre
    <2>4. poll # NoPoll => /\ poll.seen \subseteq Claude
                           /\ \A i \in DOMAIN poll.sessions : poll.sessions[i].id \in Claude
      BY DEF SessionsInv, ViewTypes, PollKnows, Polls
    <2> QED BY <2>1, <2>2, <2>3, <2>4 DEF SessionsInv, WorldTypes, ViewTypes, TypeOK
  <1> QED BY <1>1, SessionsInvariant, PTL

\* Whatever changes in the middle of a poll, and whether or not Codex answers, a
\* picture built while nothing changed has every session there is, as it is.
THEOREM PicturesAreTrue == Spec => []PictureTellsTheWorld
  <1>1. SessionsInv => PictureTellsTheWorld
    BY DEF SessionsInv
  <1> QED BY <1>1, SessionsInvariant, PTL

\* Either end of a link is enough: it is on both, or on the card as broken.
THEOREM LinksHold == Spec => []LinksAreCurrent
  <1>1. SessionsInv => LinksAreCurrent
    BY DEF SessionsInv, PictureLinks, BothEnds, LinksAreCurrent, Goals, Remotes, ProgressOf, Session
  <1> QED BY <1>1, SessionsInvariant, PTL

\* A node that hands work to a session shows, the first time, what has come of
\* all of it, and the session's first goal leads back.
THEOREM FirstLinksHold == Spec => FirstLinkIsRight
  <1> DEFINE Right(k) ==
        LET now == picture'.sessions
            id == Node(now, k).session
        IN  (IsShown(now, id) /\ k \notin NamedByParent(now)) =>
                LET work == now[Position(now, id)].nodes
                IN  /\ picture'.links.remote[k].to = id
                    /\ picture'.links.remote[k].summary = Progress(work, DOMAIN work)
                    /\ work # <<>> => <<id, 1>> \in DOMAIN picture'.links.upstream
  <1>1. ASSUME SessionsInv, [Next]_vars, kept' # kept,
               NEW k \in NodesOf(picture'.sessions) \ DOMAIN kept
        PROVE  Right(k)
    <2>1. Publish
      <3>1. World => Change
        BY <1>1, WorldChanges DEF SessionsInv
      <3> QED BY <1>1, <3>1 DEF Next, Build, Change, Begin, Describe, Raise, vars
    <2>2. PICK threads, ss, now : Published(threads, ss, now)
      BY <1>1, <2>1, Publishes
    <2>3. PICK links : links = _link_sessions(ss, kept)
      OBVIOUS
    <2>4. /\ ss \in Listings /\ now \in Listings /\ SameSessions(ss, now)
          /\ picture'.sessions = now /\ picture'.links = links
      BY <2>2, <2>3 DEF Published
    <2>5. ss \in Listings /\ now \in Listings /\ SameSessions(ss, now)
      BY <2>4
    <2>6. /\ k \in NodesOf(ss) /\ Node(now, k) = Node(ss, k)
          /\ NamedByParent(now) = NamedByParent(ss)
          /\ \A id : IsShown(now, id) <=> IsShown(ss, id)
          /\ \A id : IsShown(ss, id) => now[Position(now, id)] = ss[Position(ss, id)]
      <3>1. k \in NodesOf(now)
        BY <1>1, <2>4
      <3> QED BY <2>5, <3>1, Rearranged
    <2> DEFINE id == Node(ss, k).session
               work == ss[Position(ss, id)].nodes
    <2> SUFFICES ASSUME IsShown(ss, id), k \notin NamedByParent(ss)
                 PROVE  /\ links.remote[k].to = id
                        /\ links.remote[k].summary = Progress(work, DOMAIN work)
                        /\ work # <<>> => <<id, 1>> \in DOMAIN links.upstream
      BY <2>4, <2>6
    <2>7. id # NoSession
      BY <2>5, Listed, SessionsAssumption
    <2>8. k \in NodesOf(ss) \ DOMAIN kept
      BY <1>1, <2>6
    <2> QED BY <2>3, <2>5, <2>7, <2>8, LinksMade
  <1>2. SessionsInv /\ [Next]_vars =>
          [\A k \in NodesOf(picture'.sessions) \ DOMAIN kept : Right(k)]_kept
    BY <1>1
  <1> QED BY <1>2, SessionsInvariant, PTL DEF Spec, FirstLinkIsRight
=============================================================================
