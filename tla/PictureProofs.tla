---------------------------- MODULE PictureProofs ----------------------------
(***************************************************************************)
(* For any number of tasks, changes and labels, and whatever the viewer    *)
(* folds: the goals are what is tied together, folding hides no            *)
(* dependency, no open node and no urgent colour.  It rests on two facts:  *)
(* the steps below a node form a tree, and every view and breakdown was    *)
(* written by one poll.                                                    *)
(***************************************************************************)
EXTENDS Picture, BandsProofs

-----------------------------------------------------------------------------
(* The steps below a node *)

\* The steps under n are its own and their steps.
LEMMA BelowIs ==
    ASSUME NEW ns, NEW n
    PROVE  /\ StepsBelow(ns, n) \subseteq DOMAIN ns
           /\ \A s \in DOMAIN ns : s \in StepsBelow(ns, n) <=>
                 \/ ns[s].parent = n
                 \/ ns[s].parent \in DOMAIN ns /\ ns[s].parent \in StepsBelow(ns, n)
  <1> DEFINE E == ParentEdges(ns)
             B == StepsBelow(ns, n)
  <1>1. \A s \in DOMAIN ns : ns[s].parent \in DOMAIN ns => <<ns[s].parent, s>> \in E
    BY DEF ParentEdges
  <1>2. \A e \in E : e[2] \in DOMAIN ns /\ ns[e[2]].parent = e[1] /\ e[1] \in DOMAIN ns
    BY DEF ParentEdges
  <1>3. B = Reach(Steps(ns, n), E)
    BY DEF StepsBelow
  <1>4. \A s \in Steps(ns, n) : s \in DOMAIN ns /\ ns[s].parent = n
    BY DEF Steps
  <1>5. \A s \in DOMAIN ns : ns[s].parent = n => s \in Steps(ns, n)
    BY DEF Steps
  <1> HIDE DEF E, B
  <1>6. ASSUME NEW s \in B
        PROVE  s \in DOMAIN ns /\ (ns[s].parent = n \/ (ns[s].parent \in DOMAIN ns /\ ns[s].parent \in B))
    <2>1. s \in Steps(ns, n) \/ \E e \in E : e[2] = s /\ e[1] \in B
      BY <1>3, ReachedFrom
    <2> QED BY <1>2, <1>4, <2>1
  <1>7. ASSUME NEW s \in DOMAIN ns, ns[s].parent = n PROVE s \in B
    BY <1>3, <1>5, <1>7, ReachIs
  <1>8. ASSUME NEW s \in DOMAIN ns, ns[s].parent \in DOMAIN ns, ns[s].parent \in B PROVE s \in B
    <2>1. <<ns[s].parent, s>> \in E
      BY <1>1, <1>8
    <2>2. Closed(B, E)
      BY <1>3, ReachIs
    <2> QED BY <1>8, <2>1, <2>2 DEF Closed
  <1> QED BY <1>6, <1>7, <1>8 DEF B

\* A set with the steps of n, and the steps of its members, has all below n.
LEMMA BelowWithin ==
    ASSUME NEW ns, NEW n, NEW T,
           \A s \in DOMAIN ns : ns[s].parent = n => s \in T,
           \A s \in DOMAIN ns : (ns[s].parent \in DOMAIN ns /\ ns[s].parent \in T) => s \in T
    PROVE  StepsBelow(ns, n) \subseteq T
  <1>1. Steps(ns, n) \subseteq T
    BY DEF Steps
  <1>2. Closed(T, ParentEdges(ns))
    BY DEF Closed, ParentEdges
  <1> QED BY <1>1, <1>2, ReachIs DEF StepsBelow

\* What is below a step below c is below c.
LEMMA BelowOn ==
    ASSUME NEW ns, NEW c, NEW b \in StepsBelow(ns, c)
    PROVE  StepsBelow(ns, b) \subseteq StepsBelow(ns, c)
  <1>1. \A s \in DOMAIN ns : ns[s].parent = b => s \in StepsBelow(ns, c)
    BY BelowIs
  <1>2. \A s \in DOMAIN ns : (ns[s].parent \in DOMAIN ns /\ ns[s].parent \in StepsBelow(ns, c))
                               => s \in StepsBelow(ns, c)
    BY BelowIs
  <1> QED BY <1>1, <1>2, BelowWithin

\* Of two nodes that a step is below one is below the other.
LEMMA BelowBoth ==
    ASSUME NEW ns, NEW b \in DOMAIN ns, NEW c \in DOMAIN ns,
           NEW a \in StepsBelow(ns, b), a \in StepsBelow(ns, c)
    PROVE  b = c \/ b \in StepsBelow(ns, c) \/ c \in StepsBelow(ns, b)
  <1> DEFINE One == b = c \/ b \in StepsBelow(ns, c) \/ c \in StepsBelow(ns, b)
             T == {x \in StepsBelow(ns, b) : x \in StepsBelow(ns, c) => One}
  <1>1. ASSUME NEW s \in DOMAIN ns, ns[s].parent = b PROVE s \in T
    <2>1. s \in StepsBelow(ns, b)
      BY <1>1, BelowIs
    <2>2. s \in StepsBelow(ns, c) => b = c \/ b \in StepsBelow(ns, c)
      BY <1>1, BelowIs
    <2> QED BY <2>1, <2>2
  <1>2. ASSUME NEW s \in DOMAIN ns, ns[s].parent \in DOMAIN ns, ns[s].parent \in T PROVE s \in T
    <2>1. s \in StepsBelow(ns, b)
      BY <1>2, BelowIs
    <2>2. s \in StepsBelow(ns, c) => ns[s].parent = c \/ ns[s].parent \in StepsBelow(ns, c)
      BY <1>2, BelowIs
    <2> QED BY <1>2, <2>1, <2>2
  <1>3. StepsBelow(ns, b) \subseteq T
    <2> HIDE DEF T
    <2> QED BY <1>1, <1>2, BelowWithin
  <1> QED BY <1>3

-----------------------------------------------------------------------------
(* The invariant *)

\* The steps of a node are never above it.
Acyclic(ns) == \A n \in DOMAIN ns : n \notin StepsBelow(ns, n)

\* One poll wrote every view, and every breakdown of a node that has steps.
BuiltBy(quiet) ==
    \A n \in Known :
        /\ nodes[n].view = View(nodes, n, quiet)
        /\ Steps(nodes, n) # {} => nodes[n].breakdown = BreakdownOf(nodes, n, quiet)
OfOnePoll == \E quiet \in BOOLEAN : BuiltBy(quiet)

IInv == TypeOK /\ Acyclic(nodes) /\ OfOnePoll

NodeLists == {ns \in Seq(Node) : Len(ns) <= MaxNodes}

LEMMA NodesAre ==
    ASSUME NEW ns \in NodeLists
    PROVE  /\ DOMAIN ns = 1 .. Len(ns) /\ DOMAIN ns \subseteq Ids /\ NoNode \notin DOMAIN ns
           /\ IsFiniteSet(DOMAIN ns)
           /\ \A n \in DOMAIN ns :
                 /\ ns[n] \in Node
                 /\ ns[n].status \in Status /\ ns[n].parent \in Ids \cup {NoNode}
                 /\ ns[n].blockedBy \subseteq Ids /\ ns[n].blocks \subseteq Ids
                 /\ ns[n].goal \in Labels \cup {"none"}
  <1>1. ns \in Seq(Node) /\ Len(ns) \in Nat /\ DOMAIN ns = 1 .. Len(ns) /\ Len(ns) <= MaxNodes
    BY DEF NodeLists
  <1>2. \A n \in DOMAIN ns : ns[n] \in Node
    BY <1>1
  <1>3. DOMAIN ns \subseteq Ids /\ NoNode \notin DOMAIN ns
    BY <1>1, PictureAssumption DEF Ids, NoNode, PictureAssumption
  <1>4. IsFiniteSet(DOMAIN ns)
    <2>1. 1 \in Int /\ Len(ns) \in Int
      BY <1>1
    <2>2. IsFiniteSet(1 .. Len(ns))
      BY <2>1, FS_Interval
    <2> QED BY <1>1, <2>2
  <1>5. \A node \in Node :
           /\ node.status \in Status /\ node.parent \in Ids \cup {NoNode}
           /\ node.blockedBy \subseteq Ids /\ node.blocks \subseteq Ids
           /\ node.goal \in Labels \cup {"none"}
    BY DEF Node
  <1> QED BY <1>1, <1>2, <1>3, <1>4, <1>5

-----------------------------------------------------------------------------
(* Colours *)

Colours == ToSet(SEVERITY)

LEMMA ColoursAre ==
    /\ Colours = {"blocked", "stalled", "in_progress", "waiting", "pending", "completed"}
    /\ DOMAIN SEVERITY = 1 .. 6
    /\ \A v \in Colours : Rank(v) \in 1 .. 6 /\ SEVERITY[Rank(v)] = v
  <1>1. DOMAIN SEVERITY = 1 .. 6
    BY DEF SEVERITY
  <1>2. Colours = {SEVERITY[i] : i \in 1 .. 6}
    BY <1>1 DEF Colours, ToSet
  <1>3. Colours = {"blocked", "stalled", "in_progress", "waiting", "pending", "completed"}
    BY <1>2 DEF SEVERITY
  <1>4. ASSUME NEW v \in Colours PROVE Rank(v) \in 1 .. 6 /\ SEVERITY[Rank(v)] = v
    <2>1. \E i \in DOMAIN SEVERITY : SEVERITY[i] = v
      BY <1>1, <1>2
    <2> QED BY <1>1, <2>1 DEF Rank
  <1> QED BY <1>1, <1>3, <1>4

\* The worst of some colours is one of them, and none of them is worse.
LEMMA WorstIs ==
    ASSUME NEW views \in SUBSET Colours
    PROVE  /\ Worst(views) \in Colours
           /\ \A w \in views : Rank(Worst(views)) <= Rank(w)
  <1>1. CASE views = {}
    BY <1>1, ColoursAre DEF Worst
  <1>2. CASE views # {}
    <2> DEFINE F == {Rank(v) : v \in views}
    <2>1. F \in SUBSET Nat /\ F # {}
      <3>1. \A v \in views : Rank(v) \in Nat
        BY ColoursAre
      <3> QED BY <1>2, <3>1
    <2>2. PICK r \in F : \A x \in F : r <= x
      <3> HIDE DEF F
      <3> QED BY <2>1, LeastNumber
    <2>3. PICK v \in views : r = Rank(v)
      OBVIOUS
    <2>5. \A w \in views : Rank(v) <= Rank(w)
      BY <2>2, <2>3
    <2>6. Worst(views) = CHOOSE u \in views : \A w \in views : Rank(u) <= Rank(w)
      BY <1>2 DEF Worst
    <2>7. Worst(views) \in views /\ \A w \in views : Rank(Worst(views)) <= Rank(w)
      <3> HIDE DEF F
      <3> QED BY <2>5, <2>6
    <2> QED BY <2>7
  <1> QED BY <1>1, <1>2

-----------------------------------------------------------------------------
(* What a poll writes *)

\* A node that has not been abandoned is drawn in a colour.
LEMMA ViewIs ==
    ASSUME NEW ns \in NodeLists, NEW n \in DOMAIN ns, NEW quiet \in BOOLEAN
    PROVE  /\ View(ns, n, quiet) \in Status \cup Colours
           /\ ns[n].status # "abandoned" => View(ns, n, quiet) \in Colours
           /\ ns[n].status = "abandoned" => View(ns, n, quiet) = "abandoned"
           /\ ns[n].status = "completed" <=> View(ns, n, quiet) = "completed"
  <1>1. ns[n].status \in Status
    BY NodesAre
  <1>2. View(ns, n, quiet) \in {"blocked", "stalled", "waiting"} \cup {ns[n].status}
    BY DEF View
  <1>3. ns[n].status \in {"abandoned", "completed"} => View(ns, n, quiet) = ns[n].status
    BY DEF View
  <1> QED BY <1>1, <1>2, <1>3, ColoursAre DEF Status, View

LEMMA BreakdownIs ==
    ASSUME NEW ns \in NodeLists, NEW n \in DOMAIN ns, NEW quiet \in BOOLEAN
    PROVE  BreakdownOf(ns, n, quiet) \in Breakdown
  <1> DEFINE views == {View(ns, s, quiet) : s \in Colouring(ns, n)}
  <1>1. DOMAIN ns \subseteq Ids
    BY NodesAre
  <1>2. Steps(ns, n) \in SUBSET Ids
    BY <1>1 DEF Steps
  <1>3. \A s \in Colouring(ns, n) : s \in DOMAIN ns /\ ns[s].status # "abandoned"
    BY BelowIs DEF Colouring, Live
  <1>4. views \in SUBSET Colours
    BY <1>3, ViewIs
  <1>5. Worst(views) \in Colours
    <2> HIDE DEF views
    <2> QED BY <1>4, WorstIs
  <1>6. (~UsedFromOutside(ns, n)) \in BOOLEAN
    OBVIOUS
  <1> DEFINE disagree == /\ ns[n].status = "completed"
                         /\ \E s \in Live(ns, Steps(ns, n)) : ns[s].status # "completed"
  <1>7. BreakdownOf(ns, n, quiet) = [steps |-> Steps(ns, n), folded |-> ~UsedFromOutside(ns, n),
                                     worst |-> Worst(views), disagrees |-> disagree]
    BY DEF BreakdownOf
  <1>8. disagree \in BOOLEAN
    OBVIOUS
  <1> HIDE DEF views, disagree
  <1> QED BY <1>2, <1>5, <1>6, <1>7, <1>8 DEF Breakdown, Colours

\* What the nodes ns say of each other, but for their labels, ms say as well.
SayTheSame(ns, ms) ==
    /\ DOMAIN ns = DOMAIN ms
    /\ \A n \in DOMAIN ns : /\ ns[n].status = ms[n].status /\ ns[n].parent = ms[n].parent
                            /\ ns[n].blockedBy = ms[n].blockedBy /\ ns[n].blocks = ms[n].blocks

LEMMA SameBelow ==
    ASSUME NEW ns, NEW ms, NEW n, DOMAIN ns = DOMAIN ms,
           \A s \in DOMAIN ns : ns[s].parent = ms[s].parent
    PROVE  Steps(ns, n) = Steps(ms, n) /\ StepsBelow(ns, n) = StepsBelow(ms, n)
  <1>1. Steps(ns, n) = Steps(ms, n)
    BY DEF Steps
  <1>2. ParentEdges(ns) = ParentEdges(ms)
    BY DEF ParentEdges
  <1> QED BY <1>1, <1>2 DEF StepsBelow

LEMMA SamePicture ==
    ASSUME NEW ns, NEW ms, SayTheSame(ns, ms), NEW n \in DOMAIN ns, NEW quiet
    PROVE  View(ns, n, quiet) = View(ms, n, quiet) /\ BreakdownOf(ns, n, quiet) = BreakdownOf(ms, n, quiet)
  <1> USE DEF SayTheSame
  <1>1. Steps(ns, n) = Steps(ms, n) /\ StepsBelow(ns, n) = StepsBelow(ms, n)
    BY SameBelow
  <1>2. ASSUME NEW s \in DOMAIN ns PROVE View(ns, s, quiet) = View(ms, s, quiet)
    <2>1. (\E d \in ns[s].blockedBy \cap DOMAIN ns : ns[d].status \notin Finished)
            <=> (\E d \in ms[s].blockedBy \cap DOMAIN ms : ms[d].status \notin Finished)
      OBVIOUS
    <2> QED BY <2>1 DEF View
  <1>3. \A m \in DOMAIN ns : Named(ns, m) = Named(ms, m)
    BY DEF Named
  <1>4. UsedFromOutside(ns, n) <=> UsedFromOutside(ms, n)
    BY <1>1, <1>3 DEF UsedFromOutside
  <1>5. Steps(ns, n) \subseteq DOMAIN ns /\ StepsBelow(ns, n) \subseteq DOMAIN ns
    BY BelowIs DEF Steps
  <1>6. Colouring(ns, n) = Colouring(ms, n) /\ Live(ns, Steps(ns, n)) = Live(ms, Steps(ms, n))
    BY <1>1, <1>5 DEF Colouring, Live
  <1>7. {View(ns, s, quiet) : s \in Colouring(ns, n)} = {View(ms, s, quiet) : s \in Colouring(ms, n)}
    <2>1. Colouring(ns, n) \subseteq DOMAIN ns
      BY <1>5 DEF Colouring, Live
    <2> QED BY <1>2, <1>6, <2>1
  <1>8. (\E s \in Live(ns, Steps(ns, n)) : ns[s].status # "completed")
          <=> (\E s \in Live(ms, Steps(ms, n)) : ms[s].status # "completed")
    <2>1. Live(ns, Steps(ns, n)) \subseteq DOMAIN ns
      BY <1>5 DEF Live
    <2> QED BY <1>6, <2>1
  <1>9. ns[n].status = ms[n].status
    OBVIOUS
  <1> QED BY <1>1, <1>2, <1>4, <1>7, <1>8, <1>9 DEF BreakdownOf

\* A poll leaves what the nodes say, and writes their views and breakdowns.
LEMMA BuiltIs ==
    ASSUME NEW ns \in NodeLists, NEW quiet \in BOOLEAN, NEW ms, ms = Built(ns, quiet)
    PROVE  /\ ms \in NodeLists /\ SayTheSame(ns, ms)
           /\ \A n \in DOMAIN ms :
                /\ ms[n].goal = ns[n].goal
                /\ ms[n].view = View(ms, n, quiet)
                /\ Steps(ms, n) # {} => ms[n].breakdown = BreakdownOf(ms, n, quiet)
  <1> DEFINE New(n) == [ns[n] EXCEPT !.view = View(ns, n, quiet),
                     !.breakdown = IF Steps(ns, n) = {} THEN @ ELSE BreakdownOf(ns, n, quiet)]
  <1>1. ms = [n \in DOMAIN ns |-> New(n)]
    BY DEF Built
  <1>2. ASSUME NEW n \in DOMAIN ns
        PROVE  /\ New(n) \in Node
               /\ New(n).status = ns[n].status /\ New(n).parent = ns[n].parent
               /\ New(n).blockedBy = ns[n].blockedBy /\ New(n).blocks = ns[n].blocks
               /\ New(n).goal = ns[n].goal /\ New(n).view = View(ns, n, quiet)
               /\ Steps(ns, n) # {} => New(n).breakdown = BreakdownOf(ns, n, quiet)
    <2>1. ns[n] \in Node
      BY NodesAre
    <2>2. View(ns, n, quiet) \in Status \cup ToSet(SEVERITY) /\ BreakdownOf(ns, n, quiet) \in Breakdown
      BY ViewIs, BreakdownIs DEF Colours
    <2> QED BY <2>1, <2>2 DEF Node
  <1> HIDE DEF New
  <1>3. DOMAIN ms = DOMAIN ns /\ \A n \in DOMAIN ns : ms[n] = New(n)
    BY <1>1
  <1>4. SayTheSame(ns, ms)
    BY <1>2, <1>3 DEF SayTheSame
  <1>5. ms \in NodeLists
    <2>1. ns \in Seq(Node) /\ Len(ns) <= MaxNodes /\ Len(ns) \in Nat /\ DOMAIN ns = 1 .. Len(ns)
      BY DEF NodeLists
    <2>2. ms \in [1 .. Len(ns) -> Node]
      BY <1>1, <1>2, <2>1
    <2>3. ms \in Seq(Node) /\ Len(ms) = Len(ns)
      BY <2>1, <2>2
    <2> QED BY <2>1, <2>3 DEF NodeLists
  <1>6. ASSUME NEW n \in DOMAIN ns
        PROVE  View(ns, n, quiet) = View(ms, n, quiet) /\ BreakdownOf(ns, n, quiet) = BreakdownOf(ms, n, quiet)
               /\ Steps(ns, n) = Steps(ms, n)
    BY <1>4, SamePicture, SameBelow DEF SayTheSame
  <1> QED BY <1>2, <1>3, <1>4, <1>5, <1>6

LEMMA SameAcyclic ==
    ASSUME NEW ns, NEW ms, DOMAIN ns = DOMAIN ms,
           \A s \in DOMAIN ns : ns[s].parent = ms[s].parent, Acyclic(ns)
    PROVE  Acyclic(ms)
  BY SameBelow DEF Acyclic

\* What every poll leaves.
LEMMA PollLeaves ==
    ASSUME NEW ns \in NodeLists, Acyclic(ns), NEW quiet \in BOOLEAN, nodes' = Built(ns, quiet)
    PROVE  nodes' \in NodeLists /\ DOMAIN nodes' = DOMAIN ns /\ Acyclic(nodes') /\ OfOnePoll'
  <1> PICK ms : ms = nodes'
    OBVIOUS
  <1>1. /\ ms \in NodeLists /\ SayTheSame(ns, ms)
        /\ \A n \in DOMAIN ms :
             /\ ms[n].view = View(ms, n, quiet)
             /\ Steps(ms, n) # {} => ms[n].breakdown = BreakdownOf(ms, n, quiet)
    BY BuiltIs
  <1>2. Acyclic(ms)
    BY <1>1, SameAcyclic DEF SayTheSame
  <1>3. BuiltBy(quiet)'
    BY <1>1 DEF BuiltBy, Known
  <1> QED BY <1>1, <1>2, <1>3 DEF OfOnePoll, SayTheSame

-----------------------------------------------------------------------------
(* What an edit leaves *)

\* A node that is new is below no other, and what had it as its parent before
\* there was such a node is now below it.
LEMMA CreateAcyclic ==
    ASSUME NEW ns \in NodeLists, Acyclic(ns)
    PROVE  Acyclic(Append(ns, Plain))
  <1> PICK ms : ms = Append(ns, Plain)
    OBVIOUS
  <1> PICK k : k = Len(ns) + 1
    OBVIOUS
  <1>1. /\ DOMAIN ms = DOMAIN ns \cup {k} /\ k \notin DOMAIN ns /\ ms[k] = Plain /\ NoNode \notin DOMAIN ms
        /\ \A n \in DOMAIN ns : ms[n] = ns[n]
    BY DEF NodeLists, NoNode
  <1>2. ms[k].parent = NoNode
    BY <1>1 DEF Plain
  <1>3. k \notin StepsBelow(ms, k)
    BY <1>1, <1>2, BelowIs
  <1>4. ASSUME NEW n \in DOMAIN ns PROVE n \notin StepsBelow(ms, n)
    <2>1. StepsBelow(ns, n) \subseteq DOMAIN ns
      BY BelowIs
    <2>2. \A s \in DOMAIN ms : ms[s].parent = n => s \in StepsBelow(ns, n)
      BY <1>1, <1>2, BelowIs
    <2>3. \A s \in DOMAIN ms : (ms[s].parent \in DOMAIN ms /\ ms[s].parent \in StepsBelow(ns, n))
                                 => s \in StepsBelow(ns, n)
      BY <1>1, <1>2, <2>1, BelowIs
    <2>4. StepsBelow(ms, n) \subseteq StepsBelow(ns, n)
      BY <2>2, <2>3, BelowWithin
    <2> QED BY <2>4 DEF Acyclic
  <1> QED BY <1>1, <1>3, <1>4 DEF Acyclic

\* A node that is hung under one outside its own part leaves a tree.
LEMMA SetParentAcyclic ==
    ASSUME NEW ns, Acyclic(ns), NEW n \in DOMAIN ns, NEW ms, NEW p,
           DOMAIN ms = DOMAIN ns, ms[n].parent = p,
           \A s \in DOMAIN ns \ {n} : ms[s].parent = ns[s].parent,
           p # n, p \notin StepsBelow(ns, n)
    PROVE  Acyclic(ms)
  <1>1. ASSUME NEW a \in DOMAIN ns, a = n \/ a \in StepsBelow(ns, n) PROVE a \notin StepsBelow(ms, a)
    <2>1. p # a /\ p \notin StepsBelow(ns, a)
      BY <1>1, BelowOn
    <2>2. \A s \in DOMAIN ms : ms[s].parent = a => s \in StepsBelow(ns, a)
      BY <2>1, BelowIs
    <2>3. \A s \in DOMAIN ms : (ms[s].parent \in DOMAIN ms /\ ms[s].parent \in StepsBelow(ns, a))
                                 => s \in StepsBelow(ns, a)
      BY <2>1, BelowIs
    <2>4. StepsBelow(ms, a) \subseteq StepsBelow(ns, a)
      BY <2>2, <2>3, BelowWithin
    <2> QED BY <2>4 DEF Acyclic
  <1>2. ASSUME NEW a \in DOMAIN ns, a # n, a \notin StepsBelow(ns, n) PROVE a \notin StepsBelow(ms, a)
    <2> DEFINE T == StepsBelow(ns, a) \cup {n} \cup StepsBelow(ns, n)
    <2>1. \A s \in DOMAIN ms : ms[s].parent = a => s \in T
      BY BelowIs
    <2>2. \A s \in DOMAIN ms : (ms[s].parent \in DOMAIN ms /\ ms[s].parent \in T) => s \in T
      BY BelowIs
    <2>3. StepsBelow(ms, a) \subseteq T
      <3> HIDE DEF T
      <3> QED BY <2>1, <2>2, BelowWithin
    <2> QED BY <1>2, <2>3 DEF Acyclic
  <1> QED BY <1>1, <1>2 DEF Acyclic

-----------------------------------------------------------------------------
(* The invariant holds *)

LEMMA InitIInv == ASSUME PictureAssumption, Init PROVE IInv
  <1>1. PICK k \in 0 .. MaxNodes : \E parent \in {f \in [1 .. k -> 0 .. k] : \A n \in 1 .. k : f[n] < n} :
           nodes = Built([n \in 1 .. k |-> [Plain EXCEPT !.parent = parent[n]]], FALSE)
    BY DEF Init
  <1>2. PICK parent \in [1 .. k -> 0 .. k] :
           /\ \A n \in 1 .. k : parent[n] < n
           /\ nodes = Built([n \in 1 .. k |-> [Plain EXCEPT !.parent = parent[n]]], FALSE)
    BY <1>1
  <1>3. PICK ns : ns = [n \in 1 .. k |-> [Plain EXCEPT !.parent = parent[n]]]
    OBVIOUS
  <1>4. k \in Nat /\ k <= MaxNodes /\ MaxNodes \in Nat
    BY DEF PictureAssumption
  <1>5. DOMAIN ns = 1 .. k /\ \A n \in 1 .. k : ns[n].parent = parent[n]
    BY <1>3 DEF Plain
  <1>6. Unbroken \in Breakdown
    BY ColoursAre DEF Unbroken, Breakdown, Colours
  <1>7. \A p \in Ids \cup {NoNode} : [Plain EXCEPT !.parent = p] \in Node
    BY <1>6 DEF Plain, Node, Status
  <1>8. \A n \in 1 .. k : parent[n] \in Ids \cup {NoNode}
    <2>1. \A n \in 1 .. k : parent[n] \in 0 .. k
      OBVIOUS
    <2> QED BY <1>4, <2>1 DEF Ids, NoNode
  <1>9. ns \in NodeLists
    <2>1. ns \in [1 .. k -> Node]
      BY <1>3, <1>7, <1>8
    <2>2. ns \in Seq(Node) /\ Len(ns) = k
      BY <1>4, <2>1, <1>5
    <2> QED BY <1>4, <2>2 DEF NodeLists
  <1>10. Acyclic(ns)
    <2> SUFFICES ASSUME NEW n \in 1 .. k PROVE n \notin StepsBelow(ns, n)
      BY <1>5 DEF Acyclic
    <2> DEFINE T == {x \in 1 .. k : n < x}
    <2>1. \A s \in DOMAIN ns : ns[s].parent = n => s \in T
      BY <1>2, <1>5
    <2>2. \A s \in DOMAIN ns : (ns[s].parent \in DOMAIN ns /\ ns[s].parent \in T) => s \in T
      BY <1>2, <1>5
    <2>3. StepsBelow(ns, n) \subseteq T
      <3> HIDE DEF T
      <3> QED BY <2>1, <2>2, BelowWithin
    <2> QED BY <2>3
  <1> PICK ms : ms = nodes
    OBVIOUS
  <1>11. ms = Built(ns, FALSE)
    BY <1>2, <1>3
  <1>12. /\ ms \in NodeLists /\ SayTheSame(ns, ms)
         /\ \A n \in DOMAIN ms :
              /\ ms[n].view = View(ms, n, FALSE)
              /\ Steps(ms, n) # {} => ms[n].breakdown = BreakdownOf(ms, n, FALSE)
    BY <1>9, <1>11, BuiltIs
  <1>13. Acyclic(ms)
    BY <1>10, <1>12, SameAcyclic DEF SayTheSame
  <1>14. OfOnePoll
    BY <1>12 DEF OfOnePoll, BuiltBy, Known
  <1>15. TypeOK
    <2>1. edits = 0 /\ hide_done = FALSE /\ fold = [n \in {} |-> TRUE]
      BY DEF Init
    <2>2. edits \in 0 .. MaxEdits
      BY <2>1 DEF PictureAssumption
    <2> QED BY <1>12, <2>1, <2>2 DEF TypeOK, NodeLists, Known
  <1> QED BY <1>13, <1>14, <1>15 DEF IInv

\* A poll of nodes in good order leaves them in good order.
LEMMA PollKeeps ==
    ASSUME IInv, NEW ns \in NodeLists, Acyclic(ns), Known \subseteq DOMAIN ns, Poll(ns),
           edits' \in 0 .. MaxEdits
    PROVE  IInv'
  <1>1. PICK quiet \in BOOLEAN : nodes' = Built(ns, quiet)
    BY DEF Poll
  <1>2. nodes' \in NodeLists /\ DOMAIN nodes' = DOMAIN ns /\ Acyclic(nodes') /\ OfOnePoll'
    BY <1>1, PollLeaves
  <1>3. UNCHANGED <<fold, hide_done>>
    BY DEF Poll
  <1>4. TypeOK'
    BY <1>2, <1>3 DEF IInv, TypeOK, NodeLists, Known
  <1>5. Acyclic(nodes')
    BY <1>2
  <1> QED BY <1>2, <1>4, <1>5 DEF IInv

LEMMA EditKeeps ==
    ASSUME PictureAssumption, IInv, NEW ns \in NodeLists, Acyclic(ns), DOMAIN ns = Known, Edit(ns)
    PROVE  IInv'
  <1>1. Len(nodes) \in Nat /\ edits \in 0 .. MaxEdits /\ MaxEdits \in Nat
    BY DEF IInv, TypeOK, PictureAssumption
  <1>2. edits' \in 0 .. MaxEdits
    BY <1>1 DEF Edit
  <1> QED BY <1>2, PollKeeps DEF Edit

\* One node of a list in another state.
LEMMA OneNode ==
    ASSUME NEW ns \in NodeLists, NEW n \in DOMAIN ns, NEW node \in Node, NEW ms,
           ms = [ns EXCEPT ![n] = node]
    PROVE  /\ ms \in NodeLists /\ DOMAIN ms = DOMAIN ns /\ ms[n] = node
           /\ \A m \in DOMAIN ns \ {n} : ms[m] = ns[m]
  <1>1. ns \in Seq(Node) /\ Len(ns) \in Nat /\ DOMAIN ns = 1 .. Len(ns) /\ Len(ns) <= MaxNodes
    BY DEF NodeLists
  <1>2. ms \in [1 .. Len(ns) -> Node]
    BY <1>1
  <1>3. ms \in Seq(Node) /\ Len(ms) = Len(ns)
    BY <1>1, <1>2
  <1> QED BY <1>1, <1>2, <1>3 DEF NodeLists

LEMMA NodesHeld ==
    ASSUME TypeOK
    PROVE  nodes \in NodeLists
  BY DEF TypeOK, NodeLists

\* A change that leaves every parent.
LEMMA ChangeKeeps ==
    ASSUME PictureAssumption, IInv, NEW n \in Known, NEW node \in Node, node.parent = nodes[n].parent,
           Edit([nodes EXCEPT ![n] = node])
    PROVE  IInv'
  <1>1. nodes \in NodeLists /\ Acyclic(nodes) /\ DOMAIN nodes = Known
    BY NodesHeld DEF IInv, Known
  <1> PICK ms : ms = [nodes EXCEPT ![n] = node]
    OBVIOUS
  <1>2. /\ ms \in NodeLists /\ DOMAIN ms = Known /\ ms[n] = node
        /\ \A m \in Known \ {n} : ms[m] = nodes[m]
    BY <1>1, OneNode
  <1>3. Acyclic(ms)
    <2>1. \A s \in DOMAIN nodes : nodes[s].parent = ms[s].parent
      BY <1>1, <1>2
    <2> QED BY <1>1, <1>2, <2>1, SameAcyclic
  <1>4. Edit(ms)
    OBVIOUS
  <1> QED BY <1>2, <1>3, <1>4, EditKeeps

LEMMA SetStatusKeeps ==
    ASSUME PictureAssumption, IInv, NEW n \in Known, NEW s \in Status, SetStatus(n, s)
    PROVE  IInv'
  <1>1. nodes[n] \in Node
    BY NodesHeld, NodesAre DEF IInv, Known
  <1> PICK node : node = [nodes[n] EXCEPT !.status = s]
    OBVIOUS
  <1>2. node \in Node /\ node.parent = nodes[n].parent
    BY <1>1 DEF Node
  <1>3. [nodes EXCEPT ![n].status = s] = [nodes EXCEPT ![n] = node]
    OBVIOUS
  <1> QED BY <1>2, <1>3, ChangeKeeps DEF SetStatus

LEMMA AddBlockedByKeeps ==
    ASSUME PictureAssumption, IInv, NEW n \in Known, NEW d \in Ids, AddBlockedBy(n, d)
    PROVE  IInv'
  <1>1. nodes[n] \in Node
    BY NodesHeld, NodesAre DEF IInv, Known
  <1> PICK node : node = [nodes[n] EXCEPT !.blockedBy = @ \cup {d}]
    OBVIOUS
  <1>2. node \in Node /\ node.parent = nodes[n].parent
    BY <1>1 DEF Node
  <1>3. [nodes EXCEPT ![n].blockedBy = @ \cup {d}] = [nodes EXCEPT ![n] = node]
    OBVIOUS
  <1> QED BY <1>2, <1>3, ChangeKeeps DEF AddBlockedBy

LEMMA AddBlocksKeeps ==
    ASSUME PictureAssumption, IInv, NEW n \in Known, NEW d \in Ids, AddBlocks(n, d)
    PROVE  IInv'
  <1>1. nodes[n] \in Node
    BY NodesHeld, NodesAre DEF IInv, Known
  <1> PICK node : node = [nodes[n] EXCEPT !.blocks = @ \cup {d}]
    OBVIOUS
  <1>2. node \in Node /\ node.parent = nodes[n].parent
    BY <1>1 DEF Node
  <1>3. [nodes EXCEPT ![n].blocks = @ \cup {d}] = [nodes EXCEPT ![n] = node]
    OBVIOUS
  <1> QED BY <1>2, <1>3, ChangeKeeps DEF AddBlocks

LEMMA SetGoalKeeps ==
    ASSUME PictureAssumption, IInv, NEW n \in Known, NEW label \in Labels, SetGoal(n, label)
    PROVE  IInv'
  <1>1. nodes[n] \in Node
    BY NodesHeld, NodesAre DEF IInv, Known
  <1> PICK node : node = [nodes[n] EXCEPT !.goal = label]
    OBVIOUS
  <1>2. node \in Node /\ node.parent = nodes[n].parent
    BY <1>1 DEF Node
  <1>3. [nodes EXCEPT ![n].goal = label] = [nodes EXCEPT ![n] = node]
    OBVIOUS
  <1> QED BY <1>2, <1>3, ChangeKeeps DEF SetGoal

LEMMA SetParentKeeps ==
    ASSUME PictureAssumption, IInv, NEW n \in Known, NEW p \in Ids \cup {NoNode}, SetParent(n, p)
    PROVE  IInv'
  <1>1. nodes \in NodeLists /\ Acyclic(nodes) /\ DOMAIN nodes = Known
    BY NodesHeld DEF IInv, Known
  <1>2. nodes[n] \in Node
    BY <1>1, NodesAre
  <1> PICK node : node = [nodes[n] EXCEPT !.parent = p]
    OBVIOUS
  <1>3. node \in Node /\ node.parent = p
    BY <1>2 DEF Node
  <1> PICK ms : ms = [nodes EXCEPT ![n] = node]
    OBVIOUS
  <1>4. /\ ms \in NodeLists /\ DOMAIN ms = Known /\ ms[n] = node
        /\ \A m \in Known \ {n} : ms[m] = nodes[m]
    BY <1>1, <1>3, OneNode
  <1>5. Edit(ms) /\ p # n /\ p \notin StepsBelow(nodes, n)
    <2>1. [nodes EXCEPT ![n].parent = p] = ms
      OBVIOUS
    <2> QED BY <2>1 DEF SetParent, Part
  <1>6. Acyclic(ms)
    <2>1. \A s \in DOMAIN nodes \ {n} : ms[s].parent = nodes[s].parent
      BY <1>1, <1>4
    <2> QED BY <1>1, <1>3, <1>4, <1>5, <2>1, SetParentAcyclic
  <1> QED BY <1>4, <1>5, <1>6, EditKeeps

LEMMA CreateKeeps == ASSUME PictureAssumption, IInv, Create PROVE IInv'
  <1>1. nodes \in NodeLists /\ Acyclic(nodes) /\ Len(nodes) \in Nat /\ nodes \in Seq(Node)
    BY NodesHeld DEF IInv, TypeOK
  <1>2. Plain \in Node
    <2>1. Unbroken \in Breakdown
      BY ColoursAre DEF Unbroken, Breakdown, Colours
    <2> QED BY <2>1 DEF Plain, Node, Status
  <1> PICK ms : ms = Append(nodes, Plain)
    OBVIOUS
  <1>3. Len(nodes) < MaxNodes /\ Poll(ms) /\ MaxNodes \in Nat /\ edits' = edits
    BY DEF Create, PictureAssumption
  <1>4. ms \in NodeLists /\ Known \subseteq DOMAIN ms
    <2>1. ms \in Seq(Node) /\ Len(ms) = Len(nodes) + 1 /\ DOMAIN ms = 1 .. (Len(nodes) + 1)
      BY <1>1, <1>2
    <2>2. Len(ms) <= MaxNodes
      BY <1>1, <1>3, <2>1
    <2>3. DOMAIN nodes = 1 .. Len(nodes)
      BY <1>1
    <2> QED BY <1>1, <2>1, <2>2, <2>3 DEF NodeLists, Known
  <1>5. Acyclic(ms)
    BY <1>1, CreateAcyclic
  <1>6. edits' \in 0 .. MaxEdits
    BY <1>3 DEF IInv, TypeOK
  <1> QED BY <1>3, <1>4, <1>5, <1>6, PollKeeps

LEMMA NothingNewKeeps == ASSUME PictureAssumption, IInv, NothingNew PROVE IInv'
  <1>1. nodes \in NodeLists /\ Acyclic(nodes)
    BY NodesHeld DEF IInv
  <1>2. Poll(nodes) /\ edits' \in 0 .. MaxEdits
    BY DEF NothingNew, IInv, TypeOK
  <1> QED BY <1>1, <1>2, PollKeeps DEF Known

\* What the viewer does leaves the nodes.
LEMMA ViewerKeeps ==
    ASSUME IInv, UNCHANGED <<nodes, edits>>, hide_done' \in BOOLEAN,
           DOMAIN fold' \subseteq Known, fold' \in [DOMAIN fold' -> BOOLEAN]
    PROVE  IInv'
  <1>1. TypeOK'
    BY DEF IInv, TypeOK, Known
  <1>2. nodes' = nodes
    OBVIOUS
  <1>3. Acyclic(nodes')
    BY <1>2 DEF IInv
  <1>4. OfOnePoll'
    BY <1>2 DEF IInv, OfOnePoll, BuiltBy, Known
  <1> QED BY <1>1, <1>3, <1>4 DEF IInv

LEMMA ToggleFoldKeeps == ASSUME IInv, NEW n \in Known, ToggleFold(n) PROVE IInv'
  <1> DEFINE F == DOMAIN fold \cup {n}
  <1>1. fold' = [m \in F |-> IF m = n THEN ~Folded(n, fold) ELSE fold[m]]
    BY DEF ToggleFold
  <1>2. DOMAIN fold \subseteq Known /\ fold \in [DOMAIN fold -> BOOLEAN] /\ hide_done \in BOOLEAN
    BY DEF IInv, TypeOK
  <1>3. Folded(n, fold) \in BOOLEAN
    BY DEF Folded
  <1>4. fold' \in [F -> BOOLEAN] /\ DOMAIN fold' = F
    BY <1>1, <1>2, <1>3
  <1>5. F \subseteq Known
    BY <1>2
  <1>6. UNCHANGED <<nodes, edits, hide_done>>
    BY DEF ToggleFold
  <1> HIDE DEF F
  <1> QED BY <1>2, <1>4, <1>5, <1>6, ViewerKeeps

LEMMA GoToQuestionKeeps == ASSUME IInv, NEW n \in Known, GoToQuestion(n) PROVE IInv'
  <1> DEFINE F == DOMAIN fold \cup WayDown(n)
  <1>1. fold' = [m \in F |-> m \notin WayDown(n) /\ fold[m]]
    BY DEF GoToQuestion
  <1>2. DOMAIN fold \subseteq Known /\ fold \in [DOMAIN fold -> BOOLEAN] /\ hide_done \in BOOLEAN
    BY DEF IInv, TypeOK
  <1>3. \A m \in F : (m \notin WayDown(n) /\ fold[m]) \in BOOLEAN
    OBVIOUS
  <1>4. fold' \in [F -> BOOLEAN] /\ DOMAIN fold' = F
    BY <1>1, <1>2, <1>3
  <1>5. F \subseteq Known
    BY <1>2 DEF WayDown
  <1>6. UNCHANGED <<nodes, edits, hide_done>>
    BY DEF GoToQuestion
  <1> HIDE DEF F
  <1> QED BY <1>2, <1>4, <1>5, <1>6, ViewerKeeps

LEMMA ToggleHideDoneKeeps == ASSUME IInv, ToggleHideDone PROVE IInv'
  BY ViewerKeeps DEF ToggleHideDone, IInv, TypeOK

LEMMA InductiveInvariant == ASSUME PictureAssumption PROVE Spec => []IInv
  <1>1. Init => IInv
    BY InitIInv
  <1>2. IInv /\ [Next]_vars => IInv'
    <2> SUFFICES ASSUME IInv, [Next]_vars PROVE IInv'
      OBVIOUS
    <2>1. CASE NothingNew \/ Create \/ ToggleHideDone
      BY <2>1, NothingNewKeeps, CreateKeeps, ToggleHideDoneKeeps
    <2>2. ASSUME NEW n \in Known, \E s \in Status : SetStatus(n, s) PROVE IInv'
      BY <2>2, SetStatusKeeps
    <2>3. ASSUME NEW n \in Known, \E d \in Ids : AddBlockedBy(n, d) \/ AddBlocks(n, d) PROVE IInv'
      BY <2>3, AddBlockedByKeeps, AddBlocksKeeps
    <2>4. ASSUME NEW n \in Known, \E p \in Ids \cup {NoNode} : SetParent(n, p) PROVE IInv'
      BY <2>4, SetParentKeeps
    <2>5. ASSUME NEW n \in Known, \E label \in Labels : SetGoal(n, label) PROVE IInv'
      BY <2>5, SetGoalKeeps
    <2>6. ASSUME NEW n \in Known, ToggleFold(n) \/ GoToQuestion(n) PROVE IInv'
      BY <2>6, ToggleFoldKeeps, GoToQuestionKeeps
    <2>7. CASE UNCHANGED vars
      <3>1. UNCHANGED <<nodes, edits>> /\ hide_done' = hide_done /\ fold' = fold
        BY <2>7 DEF vars
      <3>2. hide_done \in BOOLEAN /\ DOMAIN fold \subseteq Known /\ fold \in [DOMAIN fold -> BOOLEAN]
        BY DEF IInv, TypeOK
      <3> QED BY <3>1, <3>2, ViewerKeeps
    <2> QED BY <2>1, <2>2, <2>3, <2>4, <2>5, <2>6, <2>7 DEF Next
  <1> QED BY <1>1, <1>2, PTL DEF Spec

-----------------------------------------------------------------------------
(* Goals *)

\* `up' hangs the nodes of K under one another in trees: the number h drops along
\* each step up, and r is the root of each node's tree.
IsForest(K, up, h, r) ==
    /\ up \in [K -> K] /\ h \in [K -> Nat] /\ r \in [K -> K]
    /\ \A n \in K : up[n] # n => h[up[n]] < h[n]
    /\ \A n \in K : r[up[n]] = r[n] /\ (up[n] = n => r[n] = n)
Forests(K) == {up \in [K -> K] : \E h, r : IsForest(K, up, h, r)}

\* The walk up ends, and at the root.
LEMMA FindIs ==
    ASSUME NEW K, NEW up, NEW h, NEW r, IsForest(K, up, h, r), NEW n \in K
    PROVE  /\ WayUp(n, up) \subseteq K
           /\ Find(n, up) = r[n] /\ up[r[n]] = r[n] /\ r[r[n]] = r[n]
  <1> DEFINE steps == {<<m, up[up[m]]>> : m \in {m \in DOMAIN up : up[m] # m}}
             T == {m \in K : r[m] = r[n]}
             way == WayUp(n, up)
  <1>1. /\ up \in [K -> K] /\ h \in [K -> Nat] /\ r \in [K -> K] /\ DOMAIN up = K
        /\ \A m \in K : up[m] \in K /\ up[up[m]] \in K /\ h[m] \in Nat
        /\ \A m \in K : up[m] # m => h[up[m]] < h[m]
        /\ \A m \in K : r[up[m]] = r[m] /\ (up[m] = m => r[m] = m)
    BY DEF IsForest
  <1>2. way = Reach({n}, steps)
    BY DEF WayUp
  <1>3. way \subseteq T
    <2>1. {n} \subseteq T
      OBVIOUS
    <2>2. Closed(T, steps)
      BY <1>1 DEF Closed
    <2> HIDE DEF T, steps, way
    <2> QED BY <1>2, <2>1, <2>2, ReachIs
  <1>4. ASSUME NEW m \in way PROVE up[up[m]] \in way
    <2>1. m \in K /\ (up[m] # m => <<m, up[up[m]]>> \in steps)
      BY <1>1, <1>3
    <2>2. Closed(way, steps)
      BY <1>2, ReachIs
    <2>3. <<m, up[up[m]]>>[1] = m /\ <<m, up[up[m]]>>[2] = up[up[m]]
      OBVIOUS
    <2>4. CASE up[m] = m
      BY <1>4, <2>4
    <2>5. CASE up[m] # m
      <3> HIDE DEF steps, way
      <3> QED BY <1>4, <2>1, <2>2, <2>3, <2>5 DEF Closed
    <2> QED BY <2>4, <2>5
  <1>5. \E m \in way : up[m] = m
    <2> DEFINE F == {h[m] : m \in way}
    <2>1. F \in SUBSET Nat /\ F # {}
      <3>1. n \in way
        BY <1>2, ReachIs
      <3> HIDE DEF way
      <3> QED BY <1>1, <1>3, <3>1
    <2>2. PICK least \in F : \A x \in F : least <= x
      <3> HIDE DEF F
      <3> QED BY <2>1, LeastNumber
    <2>3. PICK m \in way : least = h[m]
      OBVIOUS
    <2>4. m \in K /\ h[m] <= h[up[up[m]]]
      BY <1>3, <1>4, <2>2, <2>3
    <2>5. up[m] # m => h[up[m]] < h[m] /\ h[up[up[m]]] <= h[up[m]]
      <3>1. CASE up[up[m]] = up[m]
        BY <1>1, <2>4, <3>1
      <3>2. CASE up[up[m]] # up[m]
        BY <1>1, <2>4, <3>2
      <3> QED BY <3>1, <3>2
    <2>6. h[m] \in Nat /\ h[up[m]] \in Nat /\ h[up[up[m]]] \in Nat
      BY <1>1, <2>4
    <2> QED BY <2>3, <2>4, <2>5, <2>6
  <1>6. \A m \in way : up[m] = m => m = r[n]
    BY <1>1, <1>3
  <1>7. Find(n, up) \in way /\ up[Find(n, up)] = Find(n, up)
    <2> HIDE DEF way
    <2> QED BY <1>5 DEF Find, way
  <1>8. Find(n, up) = r[n]
    BY <1>6, <1>7
  <1> QED BY <1>1, <1>3, <1>7, <1>8

\* Halving the way leaves the trees' roots.
LEMMA HalvedIs ==
    ASSUME NEW K, NEW up, NEW h, NEW r, IsForest(K, up, h, r), NEW n \in K
    PROVE  IsForest(K, Halved(n, up), h, r)
  <1> PICK way : way = WayUp(n, up)
    OBVIOUS
  <1> PICK next : next = Halved(n, up)
    OBVIOUS
  <1>1. /\ up \in [K -> K] /\ h \in [K -> Nat] /\ r \in [K -> K] /\ DOMAIN up = K
        /\ \A m \in K : up[m] \in K /\ up[up[m]] \in K /\ h[m] \in Nat
        /\ \A m \in K : up[m] # m => h[up[m]] < h[m]
        /\ \A m \in K : r[up[m]] = r[m] /\ (up[m] = m => r[m] = m)
    BY DEF IsForest
  <1>3. next = [m \in K |-> IF m \in way THEN up[up[m]] ELSE up[m]]
    BY <1>1 DEF Halved
  <1>4. ASSUME NEW m \in K
        PROVE  /\ next[m] \in K /\ r[next[m]] = r[m]
               /\ next[m] # m => h[next[m]] < h[m]
               /\ next[m] = m => r[m] = m
    <2>1. CASE m \notin way
      BY <1>1, <1>3, <2>1
    <2>2. CASE m \in way
      <3>1. next[m] = up[up[m]]
        BY <1>3, <2>2
      <3>2. r[up[up[m]]] = r[m]
        BY <1>1
      <3>3. CASE up[m] = m
        BY <1>1, <3>1, <3>3
      <3>4. CASE up[m] # m
        <4>1. h[up[m]] < h[m]
          BY <1>1, <3>4
        <4>2. up[up[m]] = up[m] \/ h[up[up[m]]] < h[up[m]]
          BY <1>1
        <4>3. h[up[up[m]]] < h[m]
          <5>1. h[m] \in Nat /\ h[up[m]] \in Nat /\ h[up[up[m]]] \in Nat
            BY <1>1
          <5> QED BY <4>1, <4>2, <5>1
        <4>4. up[up[m]] # m
          <5>1. h[m] \in Nat
            BY <1>1
          <5> QED BY <4>3, <5>1
        <4> QED BY <1>1, <3>1, <3>2, <4>3, <4>4
      <3> QED BY <3>3, <3>4
    <2> QED BY <2>1, <2>2
  <1>5. next \in [K -> K]
    BY <1>3, <1>4
  <1> QED BY <1>1, <1>4, <1>5 DEF IsForest

\* Of two trees it makes one: what was under the root of the second is now under
\* that of the first.
IsJoined(K, next, tie, r) ==
    \E h2, r2 : /\ IsForest(K, next, h2, r2)
                /\ \A n \in K : r2[n] = IF r[n] = r[tie[2]] THEN r[tie[1]] ELSE r[n]

LEMMA UnionIs ==
    ASSUME NEW K, NEW up, NEW h, NEW r, IsForest(K, up, h, r), NEW tie \in K \X K
    PROVE  IsJoined(K, Union(tie, up), tie, r)
  <1> PICK left : left = Halved(tie[1], up)
    OBVIOUS
  <1> PICK both : both = Halved(tie[2], left)
    OBVIOUS
  <1> PICK next : next = Union(tie, up)
    OBVIOUS
  <1> PICK a : a = r[tie[1]]
    OBVIOUS
  <1> PICK b : b = r[tie[2]]
    OBVIOUS
  <1>0. tie[1] \in K /\ tie[2] \in K
    OBVIOUS
  <1>1. IsForest(K, left, h, r) /\ Find(tie[1], up) = a
    BY <1>0, FindIs, HalvedIs
  <1>2. IsForest(K, both, h, r) /\ Find(tie[2], left) = b
    BY <1>0, <1>1, FindIs, HalvedIs
  <1>3. both[a] = a /\ both[b] = b /\ r[a] = a /\ r[b] = b
    BY <1>0, <1>2, FindIs
  <1>4. /\ both \in [K -> K] /\ h \in [K -> Nat] /\ r \in [K -> K] /\ DOMAIN both = K
        /\ \A m \in K : both[m] \in K /\ h[m] \in Nat
        /\ \A m \in K : both[m] # m => h[both[m]] < h[m]
        /\ \A m \in K : r[both[m]] = r[m] /\ (both[m] = m => r[m] = m)
    BY <1>2 DEF IsForest
  <1>5. a \in K /\ b \in K
    BY <1>0, <1>4
  <1>6. next = [m \in K |-> IF m = b THEN a ELSE both[m]]
    <2>1. next = [both EXCEPT ![b] = a]
      BY <1>1, <1>2 DEF Union
    <2> QED BY <1>4, <2>1
  <1>7. next \in [K -> K] /\ \A m \in K : next[m] = IF m = b THEN a ELSE both[m]
    BY <1>4, <1>5, <1>6
  <1>8. CASE a = b
    <2>1. \A m \in K : next[m] = both[m]
      BY <1>3, <1>7, <1>8
    <2>2. next = both
      BY <1>4, <1>7, <2>1
    <2>3. \A n \in K : r[n] = IF r[n] = r[tie[2]] THEN r[tie[1]] ELSE r[n]
      BY <1>8
    <2> QED BY <1>2, <2>2, <2>3 DEF IsJoined
  <1>9. CASE a # b
    <2> PICK h2 : h2 = [m \in K |-> IF r[m] = b THEN h[m] + h[a] + 1 ELSE h[m]]
      OBVIOUS
    <2> PICK r2 : r2 = [m \in K |-> IF r[m] = b THEN a ELSE r[m]]
      OBVIOUS
    <2>1. h2 \in [K -> Nat] /\ r2 \in [K -> K]
      BY <1>4, <1>5
    <2>2. \A m \in K : /\ h2[m] = IF r[m] = b THEN h[m] + h[a] + 1 ELSE h[m]
                       /\ r2[m] = IF r[m] = b THEN a ELSE r[m]
      OBVIOUS
    <2>3. h2[a] = h[a] /\ h2[b] = h[b] + h[a] + 1 /\ r2[a] = a /\ r2[b] = a
      BY <1>3, <1>5, <1>9, <2>2
    <2>4. ASSUME NEW m \in K
          PROVE  /\ next[m] # m => h2[next[m]] < h2[m]
                 /\ r2[next[m]] = r2[m] /\ (next[m] = m => r2[m] = m)
      <3>1. CASE m = b
        <4>1. h[a] \in Nat /\ h[b] \in Nat
          BY <1>4, <1>5
        <4> QED BY <1>7, <1>9, <2>3, <3>1, <4>1
      <3>2. CASE m # b
        <4>1. next[m] = both[m] /\ both[m] \in K /\ r[both[m]] = r[m]
          BY <1>4, <1>7, <3>2
        <4>2. h[m] \in Nat /\ h[both[m]] \in Nat /\ h[a] \in Nat
          BY <1>4, <1>5, <4>1
        <4>3. both[m] # m => h2[both[m]] < h2[m]
          <5>1. both[m] # m => h[both[m]] < h[m]
            BY <1>4
          <5>2. CASE r[m] = b
            <6>1. h2[m] = h[m] + h[a] + 1 /\ h2[both[m]] = h[both[m]] + h[a] + 1
              BY <2>2, <4>1, <5>2
            <6> QED BY <4>2, <5>1, <6>1
          <5>3. CASE r[m] # b
            <6>1. h2[m] = h[m] /\ h2[both[m]] = h[both[m]]
              BY <2>2, <4>1, <5>3
            <6> QED BY <5>1, <6>1
          <5> QED BY <5>2, <5>3
        <4>4. r2[both[m]] = r2[m]
          BY <2>2, <4>1
        <4>5. both[m] = m => r2[m] = m
          BY <1>4, <2>2, <3>2
        <4> QED BY <4>1, <4>3, <4>4, <4>5
      <3> QED BY <3>1, <3>2
    <2>5. IsForest(K, next, h2, r2)
      BY <1>7, <2>1, <2>4 DEF IsForest
    <2> QED BY <2>2, <2>5 DEF IsJoined
  <1> QED BY <1>8, <1>9

UnionsOver(S, base, g) ==
    \A s \in SUBSET S : g[s] = IF s = {} THEN base ELSE Union(Pick(s), g[s \ {Pick(s)}])

\* At first every node is a root.
LEMMA BaseIs ==
    ASSUME NEW K, K \in SUBSET Nat
    PROVE  /\ IsForest(K, [n \in K |-> n], [n \in K |-> n], [n \in K |-> n])
           /\ [n \in K |-> n] \in Forests(K)
  <1>1. [n \in K |-> n] \in [K -> Nat] /\ [n \in K |-> n] \in [K -> K]
    OBVIOUS
  <1>2. IsForest(K, [n \in K |-> n], [n \in K |-> n], [n \in K |-> n])
    BY <1>1 DEF IsForest
  <1> QED BY <1>1, <1>2 DEF Forests

\* The ties can be gone through one after another.
LEMMA UnionsExist ==
    ASSUME NEW K, NEW S \in SUBSET (K \X K), IsFiniteSet(S), NEW base \in Forests(K)
    PROVE  \E g \in [SUBSET S -> Forests(K)] : UnionsOver(S, base, g)
  <1>0. PICK V : V = Forests(K)
    OBVIOUS
  <1> DEFINE step == [p \in S \X V |-> Union(p[1], p[2])]
  <1>1. ASSUME NEW tie \in S, NEW up \in V
        PROVE  Union(tie, up) \in V /\ step[<<tie, up>>] = Union(tie, up)
    <2>1. <<tie, up>> \in S \X V /\ <<tie, up>>[1] = tie /\ <<tie, up>>[2] = up
      OBVIOUS
    <2>2. PICK h, r : IsForest(K, up, h, r)
      BY <1>0 DEF Forests
    <2>3. PICK h2, r2 : IsForest(K, Union(tie, up), h2, r2)
      <3>1. tie \in K \X K
        OBVIOUS
      <3> QED BY <2>2, <3>1, UnionIs DEF IsJoined
    <2>4. Union(tie, up) \in V
      <3>1. Union(tie, up) \in [K -> K]
        BY <2>3 DEF IsForest
      <3> QED BY <1>0, <2>3, <3>1 DEF Forests
    <2> QED BY <2>1, <2>4
  <1>2. step \in [S \X V -> V]
    BY <1>1
  <1> HIDE DEF step
  <1>3. PICK g : Folds(S, V, base, step, g)
    BY <1>0, <1>2, FoldExists
  <1>4. ASSUME NEW s \in SUBSET S
        PROVE  g[s] = IF s = {} THEN base ELSE Union(Pick(s), g[s \ {Pick(s)}])
    <2>1. g[s] = IF s = {} THEN base ELSE step[<<Pick(s), g[s \ {Pick(s)}]>>]
      BY <1>3 DEF Folds
    <2>2. s # {} => Pick(s) \in S /\ g[s \ {Pick(s)}] \in V
      BY <1>3 DEF Folds, Pick
    <2> QED BY <1>1, <2>1, <2>2
  <1>5. g \in [SUBSET S -> Forests(K)]
    BY <1>0, <1>3 DEF Folds
  <1> QED BY <1>4, <1>5 DEF UnionsOver

\* The forest is what is left when all ties have been gone through.
LEMMA ForestIsLast ==
    ASSUME NEW S, S = EdgeTies \cup ParentTies \cup GoalTies, S \in SUBSET (Known \X Known),
           IsFiniteSet(S), Known \in SUBSET Nat
    PROVE  \E g \in [SUBSET S -> Forests(Known)] :
              UnionsOver(S, [n \in Known |-> n], g) /\ Forest = g[S]
  <1> PICK base : base = [n \in Known |-> n]
    OBVIOUS
  <1> DEFINE union == [at \in S \X [Known -> Known] |-> Union(at[1], at[2])]
             Iterates(g) == g = [s \in SUBSET S |->
                               IF s = {} THEN base
                               ELSE union[<<CHOOSE x \in s : TRUE, g[s \ {CHOOSE x \in s : TRUE}]>>]]
             iter == CHOOSE g : Iterates(g)
  <1>1. Forest = iter[S]
    BY DEF Forest, FoldSet, MapThenFoldSet
  <1>2. base \in Forests(Known)
    BY BaseIs
  <1>3. PICK g \in [SUBSET S -> Forests(Known)] : UnionsOver(S, base, g)
    BY <1>2, UnionsExist
  <1>8. ASSUME NEW s \in SUBSET S, s # {}
        PROVE  g[s] = union[<<Pick(s), g[s \ {Pick(s)}]>>]
    <2>1. Pick(s) \in S
      BY <1>8 DEF Pick
    <2>2. g[s \ {Pick(s)}] \in [Known -> Known]
      <3>1. Forests(Known) \subseteq [Known -> Known]
        BY DEF Forests
      <3> QED BY <3>1
    <2>3. g[s] = Union(Pick(s), g[s \ {Pick(s)}])
      BY <1>3, <1>8 DEF UnionsOver
    <2>4. ASSUME NEW tie \in S, NEW up \in [Known -> Known] PROVE union[<<tie, up>>] = Union(tie, up)
      <3>1. <<tie, up>> \in S \X [Known -> Known] /\ <<tie, up>>[1] = tie /\ <<tie, up>>[2] = up
        OBVIOUS
      <3> QED BY <3>1
    <2> HIDE DEF union
    <2> QED BY <2>1, <2>2, <2>3, <2>4
  <1>4. Iterates(g)
    <2> HIDE DEF union
    <2> QED BY <1>3, <1>8 DEF UnionsOver, Pick
  <1>5. Iterates(iter)
    <2> HIDE DEF Iterates
    <2> QED BY <1>4
  <1>6. \A s \in SUBSET S : iter[s] = IF s = {} THEN base ELSE union[<<Pick(s), iter[s \ {Pick(s)}]>>]
    <2> HIDE DEF iter, union
    <2> QED BY <1>5 DEF Pick
  <1> HIDE DEF iter, Iterates, union
  <1>7. iter[S] = g[S]
    <2>1. iter[{}] = g[{}]
      BY <1>3, <1>6 DEF UnionsOver
    <2>2. \A s \in SUBSET S : (s # {} /\ iter[s \ {Pick(s)}] = g[s \ {Pick(s)}]) => iter[s] = g[s]
      BY <1>6, <1>8
    <2> QED BY <2>1, <2>2, OneFold
  <1> QED BY <1>1, <1>3, <1>7

\* How two nodes may be tied, either way: the ties of GoalsAreTheTiedNodes.
SameLabel == UNION {{<<n, m>> : m \in {m \in Known : nodes[m].goal = nodes[n].goal}} :
                        n \in {n \in Known : nodes[n].goal # "none"}}
OneWay == EdgeTies \cup ParentTies
Ties == OneWay \cup {<<e[2], e[1]>> : e \in OneWay} \cup SameLabel

LEMMA TiesAre ==
    ASSUME nodes \in NodeLists
    PROVE  /\ OneWay \in SUBSET (Known \X Known) /\ GoalTies \in SUBSET (Known \X Known)
           /\ GoalTies \subseteq SameLabel
           /\ Ties \in SUBSET (Known \X Known)
           /\ \A m, n : <<m, n>> \in Ties => <<n, m>> \in Ties
           /\ IsFiniteSet(EdgeTies \cup ParentTies \cup GoalTies)
  <1>1. EdgeTies \in SUBSET (Known \X Known)
    BY DEF EdgeTies
  <1>2. ParentTies \in SUBSET (Known \X Known)
    BY DEF ParentTies, ParentEdges, Known
  <1>3. \A e \in GoalTies : e \in Known \X Known /\ \E label \in Labels : nodes[e[1]].goal = label /\ nodes[e[2]].goal = label
    BY DEF GoalTies
  <1>4. GoalTies \in SUBSET (Known \X Known)
    BY <1>3
  <1>5. GoalTies \subseteq SameLabel
    BY <1>3, PictureAssumption DEF SameLabel, PictureAssumption
  <1>6. SameLabel \in SUBSET (Known \X Known) /\ \A m, n : <<m, n>> \in SameLabel => <<n, m>> \in SameLabel
    BY DEF SameLabel
  <1>7. OneWay \in SUBSET (Known \X Known)
    BY <1>1, <1>2 DEF OneWay
  <1>8. Ties \in SUBSET (Known \X Known)
    BY <1>6, <1>7 DEF Ties
  <1>9. \A m, n : <<m, n>> \in Ties => <<n, m>> \in Ties
    <2> SUFFICES ASSUME NEW m, NEW n, <<m, n>> \in Ties PROVE <<n, m>> \in Ties
      OBVIOUS
    <2>1. CASE <<m, n>> \in OneWay
      BY <2>1 DEF Ties
    <2>2. CASE <<m, n>> \in {<<e[2], e[1]>> : e \in OneWay}
      <3>1. PICK e \in OneWay : <<m, n>> = <<e[2], e[1]>>
        BY <2>2
      <3>2. e = <<n, m>>
        BY <1>7, <3>1
      <3> QED BY <3>2 DEF Ties
    <2>3. CASE <<m, n>> \in SameLabel
      BY <1>6, <2>3 DEF Ties
    <2> QED BY <2>1, <2>2, <2>3 DEF Ties
  <1>10. IsFiniteSet(EdgeTies \cup ParentTies \cup GoalTies)
    <2>1. IsFiniteSet(Known)
      BY NodesAre DEF Known
    <2>2. IsFiniteSet(Known \X Known)
      BY <2>1, FS_Product
    <2> QED BY <1>1, <1>2, <1>4, <2>2, FS_Subset
  <1> QED BY <1>4, <1>5, <1>7, <1>8, <1>9, <1>10

\* What is tied either way can be reached either way.
LEMMA ReachBothWays ==
    ASSUME NEW E, \A m, n : <<m, n>> \in E => <<n, m>> \in E, NEW K, E \in SUBSET (K \X K),
           NEW n, NEW m \in Reach({n}, E)
    PROVE  n \in Reach({m}, E)
  <1> DEFINE T == {x \in Reach({n}, E) : n \in Reach({x}, E)}
  <1>1. \A x : x \in Reach({x}, E)
    BY ReachIs
  <1>2. {n} \subseteq T
    BY <1>1
  <1>3. Closed(T, E)
    <2> SUFFICES ASSUME NEW e \in E, e[1] \in T PROVE e[2] \in T
      BY DEF Closed
    <2>1. e = <<e[1], e[2]>> /\ <<e[2], e[1]>> \in E
      OBVIOUS
    <2>2. e[2] \in Reach({n}, E)
      BY ReachIs DEF Closed
    <2>3. e[1] \in Reach({e[2]}, E)
      <3>1. <<e[2], e[1]>>[1] \in Reach({e[2]}, E)
        BY <1>1
      <3>2. Closed(Reach({e[2]}, E), E)
        BY ReachIs
      <3> QED BY <2>1, <3>1, <3>2 DEF Closed
    <2>4. Reach({e[1]}, E) \subseteq Reach({e[2]}, E)
      BY <2>3, ReachOn
    <2> QED BY <2>2, <2>4
  <1>4. Reach({n}, E) \subseteq T
    <2> HIDE DEF T
    <2> QED BY <1>2, <1>3, ReachIs
  <1> QED BY <1>4

\* Ties join groups, and nothing else does.
LEMMA RootJoins ==
    ASSUME PictureAssumption, nodes \in NodeLists
    PROVE  /\ Root \in [Known -> Known]
           /\ \A e \in EdgeTies \cup ParentTies \cup GoalTies : Root[e[1]] = Root[e[2]]
           /\ \A m, n \in Known : Root[m] = Root[n] => m \in Reach({n}, Ties)
  <1> PICK S : S = EdgeTies \cup ParentTies \cup GoalTies
    OBVIOUS
  <1> PICK K : K = Known
    OBVIOUS
  <1> PICK E : E = Ties
    OBVIOUS
  <1>1. S \in SUBSET (K \X K) /\ IsFiniteSet(S) /\ S \subseteq E
    BY TiesAre DEF Ties, OneWay
  <1>2. PICK g \in [SUBSET S -> Forests(K)] : UnionsOver(S, [n \in K |-> n], g) /\ Forest = g[S]
    <2>1. K \in SUBSET Nat
      BY NodesAre DEF Known, Ids
    <2> QED BY <1>1, <2>1, ForestIsLast
  <1>3. \A m, n : <<m, n>> \in E => <<n, m>> \in E
    BY TiesAre
  <1>4. E \in SUBSET (K \X K)
    BY TiesAre
  <1> DEFINE Joined(s, root) == \A e \in s : root[e[1]] = root[e[2]]
             Tied(root) == \A m, n \in K : root[m] = root[n] => m \in Reach({n}, E)
             Good == {s \in SUBSET S : \E h, root : IsForest(K, g[s], h, root) /\ Joined(s, root) /\ Tied(root)}
  <1>5. {} \in Good
    <2> PICK base : base = [n \in K |-> n]
      OBVIOUS
    <2>1. g[{}] = base
      BY <1>2 DEF UnionsOver
    <2>2. IsForest(K, base, base, base)
      BY BaseIs, NodesAre DEF Known, Ids
    <2>3. \A n \in K : n \in Reach({n}, E)
      BY ReachIs
    <2>4. Joined({}, base) /\ Tied(base)
      BY <2>3
    <2> HIDE DEF Joined, Tied
    <2> QED BY <2>1, <2>2, <2>4
  <1>6. ASSUME NEW s \in SUBSET S, s # {}, s \ {CHOOSE x \in s : TRUE} \in Good PROVE s \in Good
    <2> PICK tie : tie = Pick(s)
      OBVIOUS
    <2>1. tie \in s /\ tie \in K \X K /\ tie \in E /\ tie = <<tie[1], tie[2]>>
      BY <1>1, <1>6 DEF Pick
    <2> PICK up : up = g[s \ {tie}]
      OBVIOUS
    <2>2. PICK h, root : IsForest(K, up, h, root) /\ Joined(s \ {tie}, root) /\ Tied(root)
      <3>1. s \ {tie} \in Good
        BY <1>6 DEF Pick
      <3> HIDE DEF Joined, Tied
      <3> QED BY <3>1
    <2>3. g[s] = Union(tie, up)
      BY <1>2, <1>6 DEF UnionsOver
    <2>4. PICK h2, next : /\ IsForest(K, g[s], h2, next)
                          /\ \A n \in K : next[n] = IF root[n] = root[tie[2]] THEN root[tie[1]] ELSE root[n]
      <3>1. IsForest(K, up, h, root) /\ tie \in K \X K
        BY <2>1, <2>2
      <3>2. IsJoined(K, g[s], tie, root)
        BY <2>3, <3>1, UnionIs
      <3> QED BY <3>2 DEF IsJoined
    <2>5. Joined(s, next)
      <3> SUFFICES ASSUME NEW e \in s PROVE next[e[1]] = next[e[2]]
        OBVIOUS
      <3>1. e[1] \in K /\ e[2] \in K
        BY <1>1
      <3>2. CASE e = tie
        BY <2>1, <2>4, <3>1, <3>2
      <3>3. CASE e # tie
        <4>1. root[e[1]] = root[e[2]]
          BY <2>2, <3>3
        <4>2. next[e[1]] = (IF root[e[1]] = root[tie[2]] THEN root[tie[1]] ELSE root[e[1]])
          BY <2>4, <3>1
        <4>3. next[e[2]] = (IF root[e[2]] = root[tie[2]] THEN root[tie[1]] ELSE root[e[2]])
          BY <2>4, <3>1
        <4> QED BY <4>1, <4>2, <4>3
      <3> QED BY <3>2, <3>3
    <2>6. Tied(next)
      <3> SUFFICES ASSUME NEW m \in K, NEW n \in K, next[m] = next[n] PROVE m \in Reach({n}, E)
        OBVIOUS
      <3>1. tie[1] \in K /\ tie[2] \in K
        BY <2>1
      <3>2. \A a, b \in K : root[a] = root[b] => a \in Reach({b}, E)
        BY <2>2
      <3>4. tie[2] \in Reach({tie[1]}, E) /\ tie[1] \in Reach({tie[2]}, E)
        <4>1. tie[2] \in Reach({tie[1]}, E)
          BY <2>1, ReachIs DEF Closed
        <4> QED BY <1>3, <1>4, <4>1, ReachBothWays
      <3>5. CASE root[m] = root[n]
        BY <3>2, <3>5
      <3>6. CASE root[m] = root[tie[2]] /\ root[n] # root[tie[2]]
        <4>1. root[n] = root[tie[1]]
          BY <2>4, <3>6
        <4>2. m \in Reach({tie[2]}, E) /\ tie[1] \in Reach({n}, E)
          BY <3>1, <3>2, <3>6, <4>1
        <4>3. Reach({tie[2]}, E) \subseteq Reach({tie[1]}, E)
          BY <3>4, ReachOn
        <4>4. Reach({tie[1]}, E) \subseteq Reach({n}, E)
          BY <4>2, ReachOn
        <4> QED BY <4>2, <4>3, <4>4
      <3>7. CASE root[m] # root[tie[2]] /\ root[n] = root[tie[2]]
        <4>1. root[m] = root[tie[1]]
          BY <2>4, <3>7
        <4>2. m \in Reach({tie[1]}, E) /\ tie[2] \in Reach({n}, E)
          BY <3>1, <3>2, <3>7, <4>1
        <4>3. Reach({tie[1]}, E) \subseteq Reach({tie[2]}, E)
          BY <3>4, ReachOn
        <4>4. Reach({tie[2]}, E) \subseteq Reach({n}, E)
          BY <4>2, ReachOn
        <4> QED BY <4>2, <4>3, <4>4
      <3>8. CASE root[m] # root[tie[2]] /\ root[n] # root[tie[2]]
        BY <2>4, <3>2, <3>8
      <3> QED BY <3>5, <3>6, <3>7, <3>8
    <2> HIDE DEF Joined, Tied
    <2> QED BY <2>4, <2>5, <2>6
  <1>7. Good \in SUBSET (SUBSET S)
    OBVIOUS
  <1>8. S \in Good
    <2> HIDE DEF Good
    <2> QED BY <1>1, <1>5, <1>6, <1>7, GrowByChoice
  <1>9. PICK h, root : IsForest(K, Forest, h, root) /\ Joined(S, root) /\ Tied(root)
    <2> HIDE DEF Joined, Tied
    <2> QED BY <1>2, <1>8
  <1>10. Root = [n \in K |-> root[n]]
    <2>1. \A n \in K : Find(n, Forest) = root[n]
      BY <1>9, FindIs
    <2>2. Forest \in [K -> K]
      BY <1>9 DEF IsForest
    <2>3. Root = [n \in K |-> Find(n, Forest)]
      BY <2>2 DEF Root
    <2> QED BY <2>1, <2>3
  <1>11. Root \in [K -> K] /\ \A n \in K : Root[n] = root[n]
    BY <1>9, <1>10 DEF IsForest
  <1>12. \A e \in S : e[1] \in K /\ e[2] \in K
    BY <1>1
  <1> QED BY <1>9, <1>11, <1>12

\* The nodes of one representative are those that are tied together.
LEMMA GoalsFollow == ASSUME PictureAssumption, IInv PROVE GoalsAreTheTiedNodes
  <1>1. nodes \in NodeLists
    BY NodesHeld DEF IInv
  <1>2. /\ Root \in [Known -> Known]
        /\ \A e \in OneWay \cup GoalTies : Root[e[1]] = Root[e[2]]
        /\ \A m, n \in Known : Root[m] = Root[n] => m \in Reach({n}, Ties)
    BY <1>1, RootJoins DEF OneWay
  <1>3. Known \in SUBSET Nat
    BY <1>1, NodesAre DEF Known, Ids
  <1>4. ASSUME NEW e \in SameLabel PROVE Root[e[1]] = Root[e[2]]
    <2> DEFINE label == nodes[e[1]].goal
               labelled == {n \in Known : nodes[n].goal = label}
    <2>1. e[1] \in labelled /\ e[2] \in labelled /\ label \in Labels
      <3>1. e[1] \in Known /\ e[2] \in Known /\ nodes[e[2]].goal = label /\ label # "none"
        BY DEF SameLabel
      <3>2. label \in Labels \cup {"none"}
        BY <1>1, <3>1, NodesAre DEF Known
      <3> QED BY <3>1, <3>2
    <2>2. PICK least \in labelled : \A m \in labelled : least <= m
      <3>1. labelled \in SUBSET Nat /\ labelled # {}
        BY <1>3, <2>1
      <3> HIDE DEF labelled
      <3> QED BY <3>1, LeastNumber
    <2>3. \A m \in labelled : <<least, m>> \in GoalTies
      BY <2>1, <2>2 DEF GoalTies
    <2>4. \A m \in labelled : Root[least] = Root[m]
      <3> HIDE DEF labelled
      <3>1. ASSUME NEW m \in labelled PROVE Root[least] = Root[m]
        <4>1. Root[<<least, m>>[1]] = Root[<<least, m>>[2]]
          BY <1>2, <2>3
        <4> QED BY <4>1
      <3> QED BY <3>1
    <2> QED BY <2>1, <2>4
  <1>5. ASSUME NEW e \in Ties PROVE Root[e[1]] = Root[e[2]]
    <2>1. CASE e \in OneWay
      BY <1>2, <2>1
    <2>2. CASE e \in {<<f[2], f[1]>> : f \in OneWay}
      <3>1. PICK f \in OneWay : e = <<f[2], f[1]>>
        BY <2>2
      <3>2. Root[f[1]] = Root[f[2]]
        BY <1>2
      <3> QED BY <3>1, <3>2
    <2>3. CASE e \in SameLabel
      BY <1>4, <2>3
    <2> QED BY <2>1, <2>2, <2>3 DEF Ties
  <1>6. ASSUME NEW n \in Known PROVE {m \in Known : Root[m] = Root[n]} = Reach({n}, Ties)
    <2> DEFINE T == {m \in Known : Root[m] = Root[n]}
    <2>1. {n} \subseteq T
      OBVIOUS
    <2>2. Closed(T, Ties)
      <3>1. Ties \in SUBSET (Known \X Known)
        BY <1>1, TiesAre
      <3> QED BY <1>5, <3>1 DEF Closed
    <2>3. Reach({n}, Ties) \subseteq T
      <3> HIDE DEF T
      <3> QED BY <2>1, <2>2, ReachIs
    <2> QED BY <1>2, <2>3
  <1> QED BY <1>6 DEF GoalsAreTheTiedNodes, Ties, OneWay, SameLabel

-----------------------------------------------------------------------------
(* The page *)

\* The parts of a picture hold one another or are apart.
LEMMA PartIs ==
    ASSUME IInv
    PROVE  /\ \A n \in Known : n \in Part(n) /\ Part(n) \subseteq Known
           /\ \A n, h \in Known : h \in Part(n) => Part(h) \subseteq Part(n)
           /\ \A n, h \in Known : (h \in Part(n) /\ n \in Part(h)) => h = n
           /\ \A n, a, b \in Known : (n \in Part(a) /\ n \in Part(b)) => (a \in Part(b) \/ b \in Part(a))
  <1>1. \A n \in Known : n \in Part(n) /\ Part(n) \subseteq Known
    BY BelowIs DEF Part, Known
  <1>2. \A n, h \in Known : h \in Part(n) => Part(h) \subseteq Part(n)
    BY BelowOn DEF Part
  <1>3. \A n, h \in Known : (h \in Part(n) /\ n \in Part(h)) => h = n
    <2> SUFFICES ASSUME NEW n \in Known, NEW h \in Known, h \in Part(n), n \in Part(h), h # n PROVE FALSE
      OBVIOUS
    <2>1. h \in StepsBelow(nodes, n) /\ n \in StepsBelow(nodes, h)
      BY DEF Part
    <2>2. n \in StepsBelow(nodes, n)
      BY <2>1, BelowOn
    <2> QED BY <2>2 DEF IInv, Acyclic, Known
  <1>4. ASSUME NEW n \in Known, NEW a \in Known, NEW b \in Known, n \in Part(a), n \in Part(b)
        PROVE  a \in Part(b) \/ b \in Part(a)
    <2>1. CASE n = a \/ n = b
      BY <1>4, <2>1
    <2>2. CASE n # a /\ n # b
      <3>1. n \in StepsBelow(nodes, a) /\ n \in StepsBelow(nodes, b)
        BY <1>4, <2>2 DEF Part
      <3>2. a = b \/ a \in StepsBelow(nodes, b) \/ b \in StepsBelow(nodes, a)
        BY <3>1, BelowBoth DEF Known
      <3> QED BY <3>2 DEF Part
    <2> QED BY <2>1, <2>2
  <1> QED BY <1>1, <1>2, <1>3, <1>4

\* Of some nodes, one is below no other, and one is above no other.
LEMMA Topmost ==
    ASSUME IInv, NEW S \in SUBSET Known, S # {}
    PROVE  \E t \in S : \A h \in S : t \in Part(h) => h = t
  <1>1. IsFiniteSet(Known)
    BY NodesHeld, NodesAre DEF IInv, Known
  <1> DEFINE F == {Part(h) : h \in S}
  <1>2. F \in SUBSET (SUBSET Known) /\ F # {}
    BY PartIs
  <1>3. PICK X \in F : \A Y \in F : X \subseteq Y => Y = X
    <2> HIDE DEF F
    <2> QED BY <1>1, <1>2, GreatestOfSets
  <1>4. PICK t \in S : X = Part(t)
    OBVIOUS
  <1>5. ASSUME NEW h \in S, t \in Part(h) PROVE h = t
    <2>1. Part(t) \subseteq Part(h)
      BY <1>5, PartIs
    <2>2. Part(h) = Part(t)
      BY <1>3, <1>4, <2>1
    <2> QED BY <1>5, <2>2, PartIs
  <1> QED BY <1>5

LEMMA Nearest ==
    ASSUME IInv, NEW n \in Known, NEW S \in SUBSET {h \in Known : n \in Part(h)}, S # {}
    PROVE  \E t \in S : \A h \in S : t \in Part(h)
  <1>1. IsFiniteSet(Known)
    BY NodesHeld, NodesAre DEF IInv, Known
  <1> DEFINE F == {Part(h) : h \in S}
  <1>2. F \in SUBSET (SUBSET Known) /\ F # {}
    BY PartIs
  <1>3. PICK X \in F : \A Y \in F : Y \subseteq X => Y = X
    <2> HIDE DEF F
    <2> QED BY <1>1, <1>2, LeastOfSets
  <1>4. PICK t \in S : X = Part(t)
    OBVIOUS
  <1>5. ASSUME NEW h \in S PROVE t \in Part(h)
    <2>1. t \in Part(h) \/ h \in Part(t)
      BY PartIs
    <2>2. CASE h \in Part(t)
      <3>1. Part(h) \subseteq Part(t)
        BY <2>2, PartIs
      <3>2. Part(h) = Part(t)
        BY <1>3, <1>4, <3>1
      <3> QED BY <3>2, PartIs
    <2> QED BY <2>1, <2>2
  <1> QED BY <1>5

\* The node that is shown for n is the nearest one drawn that holds it; there is
\* none just when n has left the drawing or no drawn node holds it.
LEMMA ShownIs ==
    ASSUME IInv, NEW n \in Known
    PROVE  \/ Shown[n] = NoNode /\ (n \in Left \/ \A h \in Drawn : n \notin Part(h))
           \/ /\ Shown[n] \in Drawn /\ Shown[n] \in Known /\ n \in Part(Shown[n]) /\ n \notin Left
              /\ \A o \in Drawn : n \in Part(o) => Shown[n] \in Part(o)
  <1> DEFINE held == UNION {{<<m, h>> : m \in Part(h)} : h \in Drawn}
             up == On(n, held)
  <1>1. Drawn \subseteq Known
    BY DEF Drawn
  <1>2. up = {h \in Drawn : n \in Part(h)}
    <2>1. \A e \in held : e[1] = n => e[2] \in Drawn /\ n \in Part(e[2])
      OBVIOUS
    <2>2. ASSUME NEW h \in Drawn, n \in Part(h) PROVE <<n, h>> \in held /\ <<n, h>>[1] = n /\ <<n, h>>[2] = h
      BY <2>2
    <2> HIDE DEF held
    <2> QED BY <2>1, <2>2 DEF On
  <1>3. \A o \in up : \A h : <<h, o>> \in held <=> h \in Part(o)
    BY <1>2
  <1>4. Shown[n] = IF n \in Left \/ up = {} THEN NoNode ELSE CHOOSE h \in up : \A o \in up : <<h, o>> \in held
    BY DEF Shown
  <1>5. up # {} => \E h \in up : \A o \in up : h \in Part(o)
    BY <1>1, <1>2, Nearest
  <1> HIDE DEF up, held
  <1>6. CASE n \in Left \/ up = {}
    BY <1>2, <1>4, <1>6
  <1>7. CASE n \notin Left /\ up # {}
    <2>1. Shown[n] \in up /\ \A o \in up : Shown[n] \in Part(o)
      BY <1>3, <1>4, <1>5, <1>7
    <2> QED BY <1>1, <1>2, <1>7, <2>1
  <1> QED BY <1>6, <1>7

LEMMA NoNodeIsNone == ASSUME IInv PROVE NoNode \notin Known
  BY NodesHeld, NodesAre DEF IInv, Known

\* Where the breakdowns are current, what is hidden is below a folded node, or
\* has left.
LEMMA HiddenIs ==
    ASSUME PictureAssumption, IInv, Current, NEW f
    PROVE  \A n \in Known : n \in HiddenBy(f) <=>
              n \in Left \/ \E g \in Known : Folded(g, f) /\ n \in StepsBelow(nodes, g)
  <1> DEFINE kids == UNION {{<<n, s>> : s \in {s \in nodes[n].breakdown.steps : Root[s] = Root[n]}} :
                               n \in Known}
             first == {e[2] : e \in {e \in kids : Folded(e[1], f)}}
             T == {n \in Known : \E g \in Known : Folded(g, f) /\ n \in StepsBelow(nodes, g)}
  <1>1. kids = ParentEdges(nodes)
    <2>1. \A e \in ParentEdges(nodes) : Root[e[1]] = Root[e[2]]
      BY RootJoins, NodesHeld DEF IInv, ParentTies
    <2>2. \A p, s : <<p, s>> \in ParentEdges(nodes) <=> p \in Known /\ s \in Steps(nodes, p)
      BY DEF ParentEdges, Steps, Known
    <2>3. \A p, s : <<p, s>> \in kids <=> p \in Known /\ s \in Steps(nodes, p) /\ Root[s] = Root[p]
      BY DEF Current
    <2>4. \A p, s : <<p, s>> \in ParentEdges(nodes) => Root[s] = Root[p]
      <3> SUFFICES ASSUME NEW p, NEW s, <<p, s>> \in ParentEdges(nodes) PROVE Root[s] = Root[p]
        OBVIOUS
      <3>1. Root[<<p, s>>[1]] = Root[<<p, s>>[2]]
        BY <2>1
      <3> QED BY <3>1
    <2>5. \A e \in kids : e = <<e[1], e[2]>>
      OBVIOUS
    <2>6. \A e \in ParentEdges(nodes) : e = <<e[1], e[2]>>
      BY DEF ParentEdges
    <2>7. \A p, s : <<p, s>> \in kids <=> <<p, s>> \in ParentEdges(nodes)
      <3> HIDE DEF kids
      <3> QED BY <2>2, <2>3, <2>4
    <2> HIDE DEF kids
    <2> QED BY <2>5, <2>6, <2>7
  <1>2. HiddenBy(f) = Reach(first, kids) \cup Left
    BY DEF HiddenBy
  <1>3. \A s : s \in first <=> \E p \in Known : Folded(p, f) /\ s \in Known /\ nodes[s].parent = p
    <2>1. \A e \in ParentEdges(nodes) : /\ e[2] \in Known /\ e[1] \in Known
                                        /\ nodes[e[2]].parent = e[1]
      BY DEF ParentEdges, Known
    <2>2. \A s \in Known : nodes[s].parent \in Known => <<nodes[s].parent, s>> \in ParentEdges(nodes)
      BY DEF ParentEdges, Known
    <2>3. first = {e[2] : e \in {e \in ParentEdges(nodes) : Folded(e[1], f)}}
      BY <1>1
    <2> HIDE DEF kids, first
    <2>4. ASSUME NEW p \in Known, Folded(p, f), NEW s \in Known, nodes[s].parent = p PROVE s \in first
      <3>1. <<p, s>> \in ParentEdges(nodes) /\ <<p, s>>[1] = p /\ <<p, s>>[2] = s
        BY <2>2, <2>4
      <3> QED BY <2>3, <2>4, <3>1
    <2> QED BY <2>1, <2>3, <2>4
  <1> HIDE DEF first, kids
  <1>4. ASSUME NEW g \in Known, Folded(g, f) PROVE StepsBelow(nodes, g) \subseteq Reach(first, kids)
    <2>1. \A s \in DOMAIN nodes : nodes[s].parent = g => s \in Reach(first, kids)
      BY <1>3, <1>4, ReachIs DEF Known
    <2>2. \A s \in DOMAIN nodes : nodes[s].parent \in DOMAIN nodes => <<nodes[s].parent, s>> \in kids
      BY <1>1 DEF ParentEdges
    <2>3. \A s \in DOMAIN nodes : (nodes[s].parent \in DOMAIN nodes /\ nodes[s].parent \in Reach(first, kids))
                                   => s \in Reach(first, kids)
      <3>1. Closed(Reach(first, kids), kids)
        BY ReachIs
      <3> QED BY <2>2, <3>1 DEF Closed
    <2> QED BY <2>1, <2>3, BelowWithin
  <1>5. Reach(first, kids) \subseteq T
    <2>1. first \subseteq T
      BY <1>3, BelowIs DEF Known
    <2>2. Closed(T, kids)
      <3> SUFFICES ASSUME NEW e \in kids, e[1] \in T PROVE e[2] \in T
        BY DEF Closed
      <3>1. e[2] \in DOMAIN nodes /\ nodes[e[2]].parent = e[1] /\ e[1] \in DOMAIN nodes
        BY <1>1 DEF ParentEdges
      <3> QED BY <3>1, BelowIs DEF Known
    <2> HIDE DEF T
    <2> QED BY <2>1, <2>2, ReachIs
  <1> QED BY <1>2, <1>4, <1>5

\* No node vanishes.
LEMMA NothingDoes == ASSUME PictureAssumption, IInv PROVE NothingVanishes
  <1> SUFFICES ASSUME Current, NEW n \in Known, Shown[n] = NoNode
               PROVE  nodes[n].view \in Finished /\ \E g \in Left : n \in Part(g)
    BY DEF NothingVanishes
  <1>1. \A g \in Left : n \in Part(g) => nodes[n].view \in Finished
    BY DEF Left, Gone
  <1>2. n \in Left \/ \A h \in Drawn : n \notin Part(h)
    BY ShownIs, NoNodeIsNone
  <1>3. CASE n \in Left
    BY <1>1, <1>3, PartIs
  <1>4. CASE \A h \in Drawn : n \notin Part(h)
    <2> DEFINE S == {h \in Known : n \in Part(h)}
    <2>1. S \in SUBSET Known /\ S # {}
      BY PartIs
    <2>2. PICK t \in S : \A h \in S : t \in Part(h) => h = t
      <3> HIDE DEF S
      <3> QED BY <2>1, Topmost
    <2>3. t \in HiddenBy(fold)
      BY <1>4, <2>2 DEF Drawn
    <2>4. t \in Left \/ \E g \in Known : t \in StepsBelow(nodes, g)
      BY <2>2, <2>3, HiddenIs
    <2>5. ASSUME NEW g \in Known, t \in StepsBelow(nodes, g) PROVE FALSE
      <3>1. t \in Part(g) /\ n \in Part(t) /\ t \in Known
        BY <2>2, <2>5 DEF Part
      <3>2. n \in Part(g)
        BY <3>1, PartIs
      <3>3. g = t
        BY <2>2, <3>1, <3>2
      <3> QED BY <2>5, <3>3 DEF IInv, Acyclic, Known
    <2> QED BY <1>1, <2>2, <2>4, <2>5
  <1> QED BY <1>2, <1>3, <1>4

\* A red step still shows: the node that stands for it has steps, so the last
\* poll coloured its breakdown.
LEMMA RedOneDoes == ASSUME IInv PROVE RedStepStillShows
  <1> SUFFICES ASSUME NEW n \in Known, Shown[n] \notin {n, NoNode}, nodes[n].status # "abandoned"
               PROVE  Rank(nodes[Shown[n]].breakdown.worst) <= Rank(nodes[n].view)
    BY DEF RedStepStillShows
  <1> PICK h : h = Shown[n]
    OBVIOUS
  <1>1. h \in Known /\ n \in Part(h) /\ h # n
    BY ShownIs
  <1>2. n \in StepsBelow(nodes, h)
    BY <1>1 DEF Part
  <1>3. Steps(nodes, h) # {}
    <2> SUFFICES ASSUME Steps(nodes, h) = {} PROVE FALSE
      OBVIOUS
    <2>1. \A s \in DOMAIN nodes : nodes[s].parent # h
      BY DEF Steps
    <2>2. StepsBelow(nodes, h) \subseteq {}
      BY <2>1, BelowWithin
    <2> QED BY <1>2, <2>2
  <1>4. PICK quiet \in BOOLEAN : BuiltBy(quiet)
    BY DEF IInv, OfOnePoll
  <1>5. nodes \in NodeLists
    BY NodesHeld DEF IInv
  <1> DEFINE views == {View(nodes, s, quiet) : s \in Colouring(nodes, h)}
  <1>6. nodes[h].breakdown.worst = Worst(views)
    <2>1. nodes[h].breakdown = BreakdownOf(nodes, h, quiet)
      BY <1>1, <1>3, <1>4 DEF BuiltBy
    <2> QED BY <2>1 DEF BreakdownOf
  <1>7. nodes[n].view \in views
    <2>1. n \in Colouring(nodes, h)
      BY <1>2 DEF Colouring, Live
    <2> QED BY <1>4, <2>1 DEF BuiltBy
  <1>8. views \in SUBSET Colours
    <2>1. \A s \in Colouring(nodes, h) : s \in DOMAIN nodes /\ nodes[s].status # "abandoned"
      BY BelowIs DEF Colouring, Live
    <2> QED BY <1>5, <2>1, ViewIs
  <1> HIDE DEF views
  <1> QED BY <1>6, <1>7, <1>8, WorstIs

\* Folding hides no dependency: a step that is folded away is below a drawn node
\* that the server folded, and so used by that node's part alone.
LEMMA FoldingHidesNone == ASSUME PictureAssumption, IInv PROVE FoldingHidesNoDependency
  <1> SUFFICES ASSUME Current, DOMAIN fold = {}, ~hide_done, NEW e \in EdgeTies
               PROVE  Shown[e[1]] = Shown[e[2]] \/ {e[1], e[2]} \subseteq Drawn
    BY DEF FoldingHidesNoDependency
  <1>1. e[1] \in Known /\ e[2] \in Known /\ e[2] \in Named(nodes, e[1])
    BY DEF EdgeTies
  <1>2. \A n \in Known : n \notin Left
    BY DEF Left
  <1>3. ASSUME NEW x \in {e[1], e[2]}, x \notin Drawn PROVE Shown[e[1]] = Shown[e[2]]
    <2> DEFINE S == {g \in Known : Folded(g, fold) /\ x \in StepsBelow(nodes, g)}
    <2>1. S \in SUBSET Known /\ S # {}
      BY <1>1, <1>2, <1>3, HiddenIs DEF Drawn
    <2>2. PICK t \in S : \A h \in S : t \in Part(h) => h = t
      <3> HIDE DEF S
      <3> QED BY <2>1, Topmost
    <2>3. t \in Known /\ Folded(t, fold) /\ x \in StepsBelow(nodes, t)
      BY <2>2
    <2>4. t \in Drawn
      <3> SUFFICES ASSUME NEW g \in Known, Folded(g, fold), t \in StepsBelow(nodes, g) PROVE FALSE
        BY <1>2, <2>3, HiddenIs DEF Drawn
      <3>1. x \in StepsBelow(nodes, g) /\ t \in Part(g)
        BY <2>3, BelowOn DEF Part
      <3>2. g = t
        BY <2>2, <3>1
      <3> QED BY <3>2 DEF IInv, Acyclic, Known
    <2>5. ~UsedFromOutside(nodes, t)
      <3>1. nodes[t].breakdown.steps # {} /\ nodes[t].breakdown.folded
        BY <2>3 DEF Folded
      <3>2. Steps(nodes, t) # {}
        BY <2>3, <3>1 DEF Current
      <3>3. PICK quiet \in BOOLEAN : BuiltBy(quiet)
        BY DEF IInv, OfOnePoll
      <3>4. nodes[t].breakdown = BreakdownOf(nodes, t, quiet)
        BY <2>3, <3>2, <3>3 DEF BuiltBy
      <3>5. nodes[t].breakdown.folded = ~UsedFromOutside(nodes, t)
        BY <3>4 DEF BreakdownOf
      <3> QED BY <3>1, <3>5
    <2>6. e[1] \in Part(t) /\ e[2] \in Part(t)
      <3>1. x # t
        BY <2>3 DEF IInv, Acyclic, Known
      <3>2. (e[1] \in StepsBelow(nodes, t)) = (e[2] \in StepsBelow(nodes, t)) \/ t \in {e[1], e[2]}
        BY <1>1, <2>5 DEF UsedFromOutside, Known
      <3> QED BY <2>3, <3>1, <3>2 DEF Part
    <2>7. ASSUME NEW y \in Known, y \in Part(t) PROVE Shown[y] = t
      <3>1. Shown[y] \in Drawn /\ Shown[y] \in Part(t) /\ Shown[y] \in Known
        BY <1>2, <2>4, <2>7, ShownIs
      <3>2. Shown[y] \notin StepsBelow(nodes, t)
        BY <2>3, <3>1, HiddenIs DEF Drawn
      <3> QED BY <3>1, <3>2 DEF Part
    <2> QED BY <1>1, <2>6, <2>7
  <1> QED BY <1>3

\* Every breakdown on the way to a node is open once the viewer has gone there.
LEMMA GoingThereOpens ==
    ASSUME PictureAssumption, IInv, NEW n \in Known, GoToQuestion(n), Current
    PROVE  n \notin HiddenBy(fold') \ Left
  <1> PICK f : f = fold'
    OBVIOUS
  <1> SUFFICES ASSUME NEW g \in Known, Folded(g, f), n \in StepsBelow(nodes, g) PROVE FALSE
    BY HiddenIs
  <1>1. g # n
    BY DEF IInv, Acyclic, Known
  <1>2. g \in WayDown(n)
    BY <1>1 DEF WayDown, Part
  <1>3. f = [m \in DOMAIN fold \cup WayDown(n) |-> m \notin WayDown(n) /\ fold[m]]
    BY DEF GoToQuestion
  <1>4. g \in DOMAIN f /\ ~f[g]
    BY <1>2, <1>3
  <1> QED BY <1>4 DEF Folded

-----------------------------------------------------------------------------
(* Bands *)

\* What the server walks is a finite graph.
LEMMA WaitsAreAGraph == ASSUME PictureAssumption, IInv PROVE IsGraph(Known, Waits)
  <1>1. IsFiniteSet(Known)
    BY NodesHeld, NodesAre DEF IInv, Known
  <1>2. Waits \in SUBSET (Known \X Known)
    BY DEF Waits
  <1> QED BY <1>1, <1>2 DEF IsGraph

GoalOf(n) == {m \in Known : Root[m] = Root[n]}

\* The boxes of the drawing that wait on each other, and their bands.
BoxWaiting == BoxWaits(Box, Lifted)
Arrangement == Arranged(Box, Lifted)
Drawing == DrawnDepth(Box, Lifted)

LEMMA BoxWaitingIs ==
    /\ \A p \in BoxWaiting : p = <<p[1], p[2]>>
    /\ \A n, h : <<n, h>> \in BoxWaiting <=>
          /\ n \in Drawn /\ h \in Drawn /\ n # h /\ Box[n] = Box[h]
          /\ \E l \in Lifted : l[1] \in Under(n, Box) /\ l[2] \in Under(h, Box)
  <1> PICK box : box = Box
    OBVIOUS
  <1> PICK lifted : lifted = Lifted
    OBVIOUS
  <1> DEFINE beside == UNION {{<<n, h>> : h \in Level(n, box) \ {n}} : n \in DOMAIN box}
             waiting(e) == \E l \in lifted : l[1] \in Under(e[1], box) /\ l[2] \in Under(e[2], box)
  <1>1. DOMAIN box = Drawn
    BY DEF Box
  <1>2. BoxWaiting = {e \in beside : waiting(e)}
    BY DEF BoxWaiting, BoxWaits
  <1>3. \A p \in beside : p = <<p[1], p[2]>>
    OBVIOUS
  <1>4. \A n, h : <<n, h>> \in beside <=> n \in Drawn /\ h \in Drawn /\ n # h /\ box[n] = box[h]
    BY <1>1 DEF Level
  <1>5. \A n, h : waiting(<<n, h>>) <=> \E l \in lifted : l[1] \in Under(n, box) /\ l[2] \in Under(h, box)
    <2>1. \A n, h : <<n, h>>[1] = n /\ <<n, h>>[2] = h
      OBVIOUS
    <2> QED BY <2>1
  <1> HIDE DEF beside, waiting
  <1> QED BY <1>2, <1>3, <1>4, <1>5

\* What waits, what is below and what is drawn inside belong to one goal.
LEMMA OneGoal ==
    ASSUME PictureAssumption, IInv
    PROVE  /\ \A e \in Waits : e[1] \in Known /\ e[2] \in Known /\ Root[e[1]] = Root[e[2]]
           /\ \A n, h \in Known : n \in Part(h) => Root[n] = Root[h]
           /\ \A n \in Drawn : Under(n, Box) \subseteq {m \in Drawn : Root[m] = Root[n]}
           /\ \A e \in Lifted : /\ e[1] \in Drawn /\ e[2] \in Drawn /\ Root[e[1]] = Root[e[2]]
  <1>1. \A e \in EdgeTies \cup ParentEdges(nodes) : Root[e[1]] = Root[e[2]]
    BY RootJoins, NodesHeld DEF IInv, ParentTies
  <1>2. ASSUME NEW e \in Waits PROVE e[1] \in Known /\ e[2] \in Known /\ Root[e[1]] = Root[e[2]]
    <2>1. e \in EdgeTies /\ e[1] \in Known /\ e[2] \in Known
      BY DEF Waits, EdgeTies, Named
    <2> QED BY <1>1, <2>1
  <1>3. \A s \in Known : nodes[s].parent \in Known => Root[nodes[s].parent] = Root[s]
    <2> SUFFICES ASSUME NEW s \in Known, nodes[s].parent \in Known PROVE Root[nodes[s].parent] = Root[s]
      OBVIOUS
    <2>1. <<nodes[s].parent, s>> \in ParentEdges(nodes)
      BY DEF ParentEdges, Known
    <2>2. Root[<<nodes[s].parent, s>>[1]] = Root[<<nodes[s].parent, s>>[2]]
      BY <1>1, <2>1
    <2> QED BY <2>2
  <1>4. ASSUME NEW h \in Known, NEW n \in Part(h) PROVE Root[n] = Root[h]
    <2> PICK T : T = GoalOf(h)
      OBVIOUS
    <2>1. \A s \in DOMAIN nodes : nodes[s].parent = h => s \in T
      BY <1>3 DEF Known, GoalOf
    <2>2. \A s \in DOMAIN nodes : (nodes[s].parent \in DOMAIN nodes /\ nodes[s].parent \in T) => s \in T
      BY <1>3 DEF Known, GoalOf
    <2>3. StepsBelow(nodes, h) \subseteq T
      BY <2>1, <2>2, BelowWithin
    <2> QED BY <2>3 DEF Part, GoalOf
  <1>5. ASSUME NEW n \in Drawn PROVE Under(n, Box) \subseteq {m \in Drawn : Root[m] = Root[n]}
    <2> DEFINE T == {m \in Drawn : Root[m] = Root[n]}
               E == {<<Box[s], s>> : s \in DOMAIN Box}
    <2>1. {n} \subseteq T
      OBVIOUS
    <2>2. ASSUME NEW s \in Drawn, Box[s] \in T PROVE s \in T
      <3>1. Box[s] = IF nodes[s].parent \in Drawn THEN nodes[s].parent ELSE NoNode
        BY DEF Box
      <3>2. Box[s] # NoNode
        BY <2>2, NoNodeIsNone DEF Drawn
      <3> QED BY <1>3, <2>2, <3>1, <3>2 DEF Drawn
    <2>3. DOMAIN Box = Drawn
      BY DEF Box
    <2>4. Closed(T, E)
      <3> HIDE DEF T
      <3> QED BY <2>2, <2>3 DEF Closed
    <2> HIDE DEF T, E
    <2>5. Reach({n}, E) \subseteq T
      BY <2>1, <2>4, ReachIs
    <2> QED BY <2>5 DEF Under, T, E
  <1>6. ASSUME NEW e \in Lifted
        PROVE  e[1] \in Drawn /\ e[2] \in Drawn /\ Root[e[1]] = Root[e[2]]
    <2>1. PICK w \in Waits : e = <<Shown[w[1]], Shown[w[2]]>>
      BY DEF Lifted
    <2>2. e[1] # NoNode /\ e[2] # NoNode /\ e[1] = Shown[w[1]] /\ e[2] = Shown[w[2]]
      BY <2>1 DEF Lifted
    <2>3. /\ e[1] \in Drawn /\ e[1] \in Known /\ w[1] \in Part(e[1])
          /\ e[2] \in Drawn /\ e[2] \in Known /\ w[2] \in Part(e[2])
      BY <1>2, <2>2, ShownIs
    <2>4. Root[w[1]] = Root[e[1]] /\ Root[w[2]] = Root[e[2]]
      BY <1>4, <2>3
    <2> QED BY <1>2, <2>3, <2>4
  <1> QED BY <1>2, <1>4, <1>5, <1>6

\* Of a goal that is drawn in the server's bands every node is drawn, as itself
\* and with nothing inside it.
LEMMA ServedIs ==
    ASSUME PictureAssumption, IInv, NEW n \in AsServed
    PROVE  /\ n \in Drawn /\ Box[n] = NoNode /\ Under(n, Box) = {n} /\ Shown[n] = n
           /\ \A m \in Known : Root[m] = Root[n] => m \in AsServed
  <1> PICK G : G = GoalOf(n)
    OBVIOUS
  <1>1. n \in Known /\ \A m \in G : /\ m \in Known /\ ~Folded(m, fold) /\ m \notin Left
                                    /\ nodes[m].parent \notin Known
    BY DEF AsServed, GoalOf
  <1>2. \A m \in Known : Root[m] = Root[n] => m \in AsServed
    BY DEF AsServed
  <1>3. n \in Drawn
    <2> DEFINE kids == UNION {{<<m, s>> : s \in {s \in nodes[m].breakdown.steps : Root[s] = Root[m]}} :
                               m \in Known}
               first == {e[2] : e \in {e \in kids : Folded(e[1], fold)}}
               T == Reach(first, kids) \ G
    <2>1. ASSUME NEW e \in kids, e[2] \in G PROVE e[1] \in G
      <3>1. e[1] \in Known /\ Root[e[2]] = Root[e[1]]
        OBVIOUS
      <3> QED BY <2>1, <3>1 DEF GoalOf
    <2>2. HiddenBy(fold) = Reach(first, kids) \cup Left
      BY DEF HiddenBy
    <2>3. \A x \in first : \E e \in kids : x = e[2] /\ Folded(e[1], fold)
      OBVIOUS
    <2> HIDE DEF kids
    <2>4. first \subseteq T
      <3>1. first \subseteq Reach(first, kids)
        BY ReachIs
      <3>2. \A x \in first : x \notin G
        BY <1>1, <2>1, <2>3
      <3> HIDE DEF first
      <3> QED BY <3>1, <3>2
    <2> HIDE DEF first
    <2>5. Closed(T, kids)
      BY <2>1, ReachIs DEF Closed
    <2>6. Reach(first, kids) \subseteq T
      <3> HIDE DEF T
      <3> QED BY <2>4, <2>5, ReachIs
    <2>7. n \in G
      BY <1>1 DEF GoalOf
    <2> QED BY <1>1, <2>2, <2>6, <2>7 DEF Drawn
  <1>4. nodes[n].parent \notin Known /\ n \notin Left
    BY <1>1 DEF GoalOf
  <1>5. Box[n] = NoNode
    BY <1>3, <1>4 DEF Box, Drawn
  <1>6. Shown[n] = n
    <2>1. n \in Part(n)
      BY <1>1, PartIs
    <2>2. Shown[n] \in Known /\ n \in Part(Shown[n])
      BY <1>1, <1>3, <1>4, <2>1, ShownIs
    <2>3. n \notin StepsBelow(nodes, Shown[n])
      BY <1>1, <1>4, <2>2, BelowIs DEF Known
    <2> QED BY <2>2, <2>3 DEF Part
  <1>7. Under(n, Box) = {n}
    <2> DEFINE E == {<<Box[s], s>> : s \in DOMAIN Box}
    <2>1. \A e \in E : e[2] \in Drawn /\ e[1] = Box[e[2]]
      BY DEF Box
    <2>2. Under(n, Box) = Reach({n}, E)
      BY DEF Under
    <2> HIDE DEF E
    <2>3. ASSUME NEW x \in Under(n, Box) PROVE x = n
      <3>1. x \in G
        BY <1>3, <2>3, OneGoal DEF GoalOf, Drawn
      <3>2. x = n \/ \E e \in E : e[2] = x /\ e[1] \in Under(n, Box)
        BY <2>2, <2>3, ReachedFrom
      <3>3. ASSUME NEW e \in E, e[2] = x, e[1] \in Under(n, Box) PROVE FALSE
        <4>1. e[1] \in Known
          BY <1>3, <3>3, OneGoal DEF Drawn
        <4>2. Box[x] = IF nodes[x].parent \in Drawn THEN nodes[x].parent ELSE NoNode
          BY <2>1, <3>3 DEF Box
        <4>3. nodes[x].parent \notin Drawn
          BY <1>1, <3>1 DEF Drawn
        <4> QED BY <2>1, <3>3, <4>1, <4>2, <4>3, NoNodeIsNone
      <3> QED BY <3>2, <3>3
    <2>4. n \in Under(n, Box)
      BY <2>2, ReachIs
    <2> QED BY <2>3, <2>4
  <1> QED BY <1>2, <1>3, <1>5, <1>6, <1>7

\* There what a node waits on is what the page draws it as waiting on.
LEMMA ServedWaits ==
    ASSUME PictureAssumption, IInv, NEW n \in AsServed
    PROVE  \A d : <<n, d>> \in BoxWaiting \cup OnItself <=> <<n, d>> \in Waits
  <1>1. n \in Known
    BY DEF AsServed
  <1>2. ASSUME NEW d, <<n, d>> \in BoxWaiting PROVE <<n, d>> \in Waits
    <2>1. /\ d \in Drawn /\ n \in Drawn
          /\ \E l \in Lifted : l[1] \in Under(n, Box) /\ l[2] \in Under(d, Box)
      BY <1>2, BoxWaitingIs
    <2>2. PICK l \in Lifted : l[1] \in Under(n, Box) /\ l[2] \in Under(d, Box)
      BY <2>1
    <2>3. l[1] = n /\ Root[l[2]] = Root[d] /\ Root[l[1]] = Root[l[2]]
      BY <2>1, <2>2, OneGoal, ServedIs
    <2>4. d \in AsServed
      BY <2>1, <2>3, ServedIs DEF Drawn
    <2>5. l[2] = d
      BY <2>2, <2>4, ServedIs
    <2>6. PICK w \in Waits : l = <<Shown[w[1]], Shown[w[2]]>>
      BY DEF Lifted
    <2>7. w[1] \in Known /\ w[2] \in Known /\ Shown[w[1]] = n /\ Shown[w[2]] = d
      BY <2>3, <2>5, <2>6, OneGoal
    <2>8. w[1] \in Part(n) /\ w[2] \in Part(d) /\ d \in Known
      BY <1>1, <2>1, <2>7, NoNodeIsNone, ShownIs DEF Drawn
    <2>9. w[1] \in AsServed /\ w[2] \in AsServed
      <3>1. Root[w[1]] = Root[n] /\ Root[w[2]] = Root[d]
        BY <1>1, <2>7, <2>8, OneGoal
      <3> QED BY <2>4, <2>7, <3>1, ServedIs
    <2>10. w[1] = n /\ w[2] = d
      BY <2>7, <2>9, ServedIs
    <2>11. w = <<w[1], w[2]>>
      BY DEF Waits
    <2> QED BY <2>10, <2>11
  <1>3. ASSUME NEW d, <<n, d>> \in Waits, d # n PROVE <<n, d>> \in BoxWaiting
    <2>1. d \in Known /\ Root[n] = Root[d]
      <3>1. <<n, d>>[1] = n /\ <<n, d>>[2] = d
        OBVIOUS
      <3> QED BY <1>3, <3>1, OneGoal
    <2>2. d \in AsServed
      BY <2>1, ServedIs
    <2>3. /\ n \in Drawn /\ Box[n] = NoNode /\ Under(n, Box) = {n} /\ Shown[n] = n
          /\ d \in Drawn /\ Box[d] = NoNode /\ Under(d, Box) = {d} /\ Shown[d] = d
      BY <2>2, ServedIs
    <2>4. <<n, d>> \in Lifted
      <3>1. n # NoNode /\ d # NoNode
        BY <1>1, <2>1, NoNodeIsNone
      <3>2. <<Shown[<<n, d>>[1]], Shown[<<n, d>>[2]]>> = <<n, d>>
        BY <2>3
      <3> QED BY <1>3, <3>1, <3>2 DEF Lifted
    <2>5. <<n, d>>[1] = n /\ <<n, d>>[2] = d
      OBVIOUS
    <2> QED BY <1>3, <2>3, <2>4, <2>5, BoxWaitingIs
  <1>4. \A d : <<n, d>> \in OnItself => <<n, d>> \in Waits
    BY DEF OnItself
  <1>5. \A d : (<<n, d>> \in Waits /\ d = n) => <<n, d>> \in OnItself
    BY DEF OnItself
  <1> QED BY <1>2, <1>3, <1>4, <1>5

\* What the page walks are the boxes that wait on each other.
LEMMA ArrangedIs ==
    ASSUME PictureAssumption, IInv
    PROVE  /\ IsGraph(Drawn, BoxWaiting) /\ Arrangement = Bands(Drawn, BoxWaiting)
  <1> PICK box : box = Box
    OBVIOUS
  <1> PICK lifted : lifted = Lifted
    OBVIOUS
  <1> DEFINE deps == UNION {{<<n, h>> : h \in DepsOf(n, box, lifted)} : n \in DOMAIN box}
  <1>1. DOMAIN box = Drawn
    BY DEF Box
  <1>2. Arrangement = Bands(Drawn, deps)
    BY <1>1 DEF Arrangement, Arranged
  <1>3. \A p \in BoxWaiting : p = <<p[1], p[2]>> /\ p[1] \in Drawn /\ p[2] \in Drawn
    BY BoxWaitingIs
  <1>4. \A n, h : <<n, h>> \in BoxWaiting <=>
           /\ n \in Drawn /\ h \in Drawn /\ n # h /\ box[n] = box[h]
           /\ \E l \in lifted : l[1] \in Under(n, box) /\ l[2] \in Under(h, box)
    BY BoxWaitingIs
  <1>5. \A n, h : <<n, h>> \in deps <=>
           /\ n \in Drawn /\ h \in Drawn /\ n # h /\ box[n] = box[h]
           /\ \E l \in lifted : l[1] \in Under(n, box) /\ l[2] \in Under(h, box)
    BY <1>1 DEF DepsOf, Level
  <1>6. \A p \in deps : p = <<p[1], p[2]>>
    OBVIOUS
  <1>7. BoxWaiting = deps
    <2> HIDE DEF deps
    <2> QED BY <1>3, <1>4, <1>5, <1>6
  <1>8. IsFiniteSet(Drawn)
    BY WaitsAreAGraph, FS_Subset DEF Drawn, IsGraph
  <1>9. BoxWaiting \in SUBSET (Drawn \X Drawn)
    BY <1>3
  <1> QED BY <1>2, <1>7, <1>8, <1>9 DEF IsGraph

LEMMA ReachWithin ==
    ASSUME NEW S, NEW E, NEW T, S \subseteq T, Closed(T, E)
    PROVE  Reach(S, E) \subseteq T
  BY ReachIs

\* With more edges more can be reached.
LEMMA ReachMore ==
    ASSUME NEW S, NEW E, NEW R, NEW F, S \subseteq R, E \subseteq F
    PROVE  Reach(S, E) \subseteq Reach(R, F)
  <1>1. Closed(Reach(R, F), E) /\ S \subseteq Reach(R, F)
    BY ReachIs DEF Closed
  <1> QED BY <1>1, ReachIs

\* A node of a served goal that is in a ring of what waits is in one of what is
\* drawn.
LEMMA ServedRing ==
    ASSUME PictureAssumption, IInv, NEW n \in AsServed, NEW X, X = BoxWaiting \cup OnItself,
           n \in Reach(On(n, Waits), Waits)
    PROVE  n \in Reach(On(n, X), X)
  <1> PICK T : T = Reach(On(n, X), X) \cap AsServed
    OBVIOUS
  <1>1. \A e \in Waits : e = <<e[1], e[2]>> /\ e[2] \in Known /\ Root[e[1]] = Root[e[2]]
    BY OneGoal DEF Waits
  <1>2. ASSUME NEW m \in AsServed, NEW e \in Waits, e[1] = m PROVE e \in X /\ e[2] \in AsServed
    BY <1>1, <1>2, ServedIs, ServedWaits
  <1>3. On(n, Waits) \subseteq T
    <2> SUFFICES ASSUME NEW e \in Waits, e[1] = n PROVE e[2] \in T
      BY DEF On
    <2>1. e \in X /\ e[2] \in AsServed
      BY <1>2
    <2>2. e[2] \in On(n, X)
      BY <2>1 DEF On
    <2> QED BY <2>1, <2>2, ReachIs
  <1>4. Closed(T, Waits)
    <2>1. Closed(Reach(On(n, X), X), X)
      BY ReachIs
    <2> QED BY <1>2, <2>1 DEF Closed
  <1>5. Reach(On(n, Waits), Waits) \subseteq T
    BY <1>3, <1>4, ReachWithin
  <1> QED BY <1>5

LEMMA BandsFollow == ASSUME PictureAssumption, IInv PROVE BandsFollowDependencies
  <1> PICK X : X = BoxWaiting \cup OnItself
    OBVIOUS
  <1>1. Depth \in [Known -> Nat] /\ BandsRespect(Depth, Waits)
    BY WaitsAreAGraph, BandsAreInOrder DEF Depth
  <1>2. Arrangement \in [Drawn -> Nat] /\ BandsRespect(Arrangement, BoxWaiting)
    BY ArrangedIs, BandsAreInOrder
  <1>3. /\ DOMAIN Drawing = Drawn
        /\ \A n \in Drawn : Drawing[n] = IF n \in AsServed THEN Depth[n] ELSE Arrangement[n]
    BY DEF Drawing, DrawnDepth, Arrangement, Box
  <1>4. ASSUME NEW n \in Drawn, n \notin Reach(On(n, X), X)
        PROVE  /\ \A d \in On(n, X) : Drawing[d] < Drawing[n]
               /\ Drawing[n] > 0 => \E d \in On(n, X) : Drawing[d] = Drawing[n] - 1
    <2>1. CASE n \in AsServed
      <3>1. n \notin Reach(On(n, Waits), Waits) /\ n \in Known
        BY <1>4, <2>1, ServedRing DEF Drawn
      <3>2. /\ \A d \in On(n, Waits) : Depth[d] < Depth[n]
            /\ Depth[n] > 0 => \E d \in On(n, Waits) : Depth[d] = Depth[n] - 1
        BY <1>1, <3>1 DEF BandsRespect
      <3>3. \A e \in X \cup Waits : e = <<e[1], e[2]>>
        BY DEF BoxWaiting, BoxWaits, OnItself, Waits
      <3>4. On(n, X) = On(n, Waits)
        <4>1. \A d : <<n, d>> \in X <=> <<n, d>> \in Waits
          BY <2>1, ServedWaits
        <4> QED BY <3>3, <4>1 DEF On
      <3>5. ASSUME NEW d \in On(n, Waits) PROVE Drawing[d] = Depth[d]
        <4>1. PICK e \in Waits : e[1] = n /\ e[2] = d
          BY DEF On
        <4>2. d \in Known /\ Root[n] = Root[d]
          BY <4>1, OneGoal
        <4>3. d \in AsServed /\ d \in Drawn
          BY <2>1, <4>2, ServedIs
        <4> QED BY <1>3, <4>3
      <3>6. Drawing[n] = Depth[n]
        BY <1>3, <2>1
      <3> QED BY <3>2, <3>4, <3>5, <3>6
    <2>2. CASE n \notin AsServed
      <3>1. \A e \in BoxWaiting : e[1] \in Drawn /\ e[2] \in Drawn /\ Root[e[1]] = Root[e[2]]
        <4> SUFFICES ASSUME NEW e \in BoxWaiting
                     PROVE  e[1] \in Drawn /\ e[2] \in Drawn /\ Root[e[1]] = Root[e[2]]
          OBVIOUS
        <4>1. /\ e[1] \in Drawn /\ e[2] \in Drawn
              /\ \E l \in Lifted : l[1] \in Under(e[1], Box) /\ l[2] \in Under(e[2], Box)
          BY BoxWaitingIs
        <4>2. PICK l \in Lifted : l[1] \in Under(e[1], Box) /\ l[2] \in Under(e[2], Box)
          BY <4>1
        <4>3. Root[l[1]] = Root[e[1]] /\ Root[l[2]] = Root[e[2]] /\ Root[l[1]] = Root[l[2]]
          BY <4>1, <4>2, OneGoal
        <4> QED BY <4>1, <4>3
      <3>2. On(n, X) = On(n, BoxWaiting)
        <4>1. ASSUME NEW e \in OnItself, e[1] = n PROVE FALSE
          <5>1. e[2] = n
            BY <4>1 DEF OnItself
          <5>2. n \in On(n, X)
            BY <4>1, <5>1 DEF On
          <5> QED BY <1>4, <5>2, ReachIs
        <4> QED BY <4>1 DEF On
      <3>3. n \notin Reach(On(n, BoxWaiting), BoxWaiting)
        <4>1. Reach(On(n, BoxWaiting), BoxWaiting) \subseteq Reach(On(n, X), X)
          BY <3>2, ReachMore
        <4> QED BY <1>4, <4>1
      <3>4. /\ \A d \in On(n, BoxWaiting) : Arrangement[d] < Arrangement[n]
            /\ Arrangement[n] > 0 => \E d \in On(n, BoxWaiting) : Arrangement[d] = Arrangement[n] - 1
        BY <1>2, <3>3 DEF BandsRespect
      <3>5. ASSUME NEW d \in On(n, BoxWaiting) PROVE Drawing[d] = Arrangement[d]
        <4>1. PICK e \in BoxWaiting : e[1] = n /\ e[2] = d
          BY DEF On
        <4>2. d \in Drawn /\ Root[n] = Root[d] /\ n \in Known
          BY <3>1, <4>1 DEF Drawn
        <4>3. d \notin AsServed
          BY <2>2, <4>2, ServedIs
        <4> QED BY <1>3, <4>2, <4>3
      <3>6. Drawing[n] = Arrangement[n]
        BY <1>3, <2>2
      <3> QED BY <3>2, <3>4, <3>5, <3>6
    <2> QED BY <2>1, <2>2
  <1>5. BandsRespect(Drawing, X)
    BY <1>3, <1>4 DEF BandsRespect
  <1> QED BY <1>1, <1>5 DEF BandsFollowDependencies, Drawing, BoxWaiting

-----------------------------------------------------------------------------
\* The nodes of a session, their views and breakdowns and the viewer's choices
\* have their types; no more tasks are held than the bound.
THEOREM TypesHold == ASSUME PictureAssumption PROVE Spec => []TypeOK
  BY InductiveInvariant, PTL DEF IInv

\* `Independent goals are separate graphs': after every poll two nodes have the
\* same representative just when edges, parents and labels tie them together.
THEOREM GoalsAreTied == ASSUME PictureAssumption PROVE Spec => []GoalsAreTheTiedNodes
  <1>1. IInv => GoalsAreTheTiedNodes
    BY GoalsFollow
  <1> QED BY <1>1, InductiveInvariant, PTL

\* Every node is below what it waits on in the server's bands, and in the drawing,
\* whatever is folded, hidden or nested, a box is below those beside it that it or
\* its steps wait on; but for what waits on itself through a ring of nodes, or of
\* boxes.
THEOREM BandsFollowWaits == ASSUME PictureAssumption PROVE Spec => []BandsFollowDependencies
  <1>1. IInv => BandsFollowDependencies
    BY BandsFollow
  <1> QED BY <1>1, InductiveInvariant, PTL

\* As long as the viewer has made no choice, no edge ends on a step that is
\* folded away, but for those within one drawn node.
THEOREM NoDependencyIsHidden == ASSUME PictureAssumption PROVE Spec => []FoldingHidesNoDependency
  <1>1. IInv => FoldingHidesNoDependency
    BY FoldingHidesNone
  <1> QED BY <1>1, InductiveInvariant, PTL

\* Whatever the viewer folds and hides, each node is drawn, or under one that
\* is, but for finished ones that the switch hides.
THEOREM NoNodeVanishes == ASSUME PictureAssumption PROVE Spec => []NothingVanishes
  <1>1. IInv => NothingVanishes
    BY NothingDoes
  <1> QED BY <1>1, InductiveInvariant, PTL

\* The node that stands for a step folded away has at least as urgent a colour.
THEOREM RedStepsShow == ASSUME PictureAssumption PROVE Spec => []RedStepStillShows
  <1>1. IInv => RedStepStillShows
    BY RedOneDoes
  <1> QED BY <1>1, InductiveInvariant, PTL

\* A tap on a question leads to a node that no breakdown hides.
THEOREM WaysDownAreOpen == ASSUME PictureAssumption PROVE Spec => TheWayDownIsOpen
  <1>1. IInv => [\A n \in Known : (fold' # fold /\ GoToQuestion(n) /\ Current)
                                      => n \notin HiddenBy(fold') \ Left]_fold
    BY GoingThereOpens
  <1> QED BY <1>1, InductiveInvariant, PTL DEF TheWayDownIsOpen
=============================================================================
