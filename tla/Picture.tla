------------------------------ MODULE Picture ------------------------------
(***************************************************************************)
(* The picture of one Claude Code session: how state.py turns the nodes a  *)
(* reader holds into goals, bands, views and breakdowns on every poll, and *)
(* how the page draws them with some breakdowns folded away.               *)
(*                                                                         *)
(* The nodes outlive the poll, and what a poll writes into them - `view',  *)
(* `breakdown' - stays until a later one writes it again.  The agent's     *)
(* edits are what module TaskReplay replays; here they change the fields   *)
(* the picture is made of.  A poll reads what was written and builds the   *)
(* picture in one go; here it reads one change at a time.  The order in    *)
(* which a node lists its dependencies is left out: it only tells for the  *)
(* bands within a ring of them.                                            *)
(***************************************************************************)
EXTENDS Bands, Sequences

CONSTANTS Labels,     \* goal labels
          MaxNodes,   \* bound: tasks
          MaxEdits,   \* bound: changes to the tasks
          MaxSize,    \* bound: tasks, and changes to them, together
          MaxChoices  \* bound: breakdowns the viewer has an own choice for

ASSUME PictureAssumption ==
    /\ {MaxNodes, MaxEdits, MaxSize, MaxChoices} \subseteq Nat
    /\ "none" \notin Labels

VARIABLES nodes,     \* the session's nodes, in the order they were created
          edits,     \* how often they were changed
          fold,      \* FOLD of the page: the viewer's own choices
          hide_done  \* HIDE_DONE of the page

vars == <<nodes, edits, fold, hide_done>>

NoNode == 0
Ids == 1 .. MaxNodes
Known == DOMAIN nodes

Status == {"pending", "in_progress", "completed", "abandoned"}
Finished == {"completed", "abandoned"}
\* Worst first.
SEVERITY == <<"blocked", "stalled", "in_progress", "waiting", "pending", "completed">>
Rank(view) == CHOOSE i \in DOMAIN SEVERITY : SEVERITY[i] = view

Unbroken == [steps |-> {}, folded |-> FALSE, worst |-> "pending", disagrees |-> FALSE]
Breakdown == [steps : SUBSET Ids, folded : BOOLEAN, worst : ToSet(SEVERITY), disagrees : BOOLEAN]
Node == [status : Status, blockedBy : SUBSET Ids, blocks : SUBSET Ids,
         parent : Ids \cup {NoNode}, goal : Labels \cup {"none"},
         view : Status \cup ToSet(SEVERITY), breakdown : Breakdown]
Plain == [status |-> "pending", blockedBy |-> {}, blocks |-> {}, parent |-> NoNode,
          goal |-> "none", view |-> "pending", breakdown |-> Unbroken]

-----------------------------------------------------------------------------
(* What the nodes ns say of each other *)

Named(ns, n) == ns[n].blockedBy \cup ns[n].blocks
ParentEdges(ns) == {<<ns[s].parent, s>> : s \in {s \in DOMAIN ns : ns[s].parent \in DOMAIN ns}}
Steps(ns, n) == {s \in DOMAIN ns : ns[s].parent = n}
\* _steps_below
StepsBelow(ns, n) == Reach(Steps(ns, n), ParentEdges(ns))
\* n, and every step under it.
Part(n) == {n} \cup StepsBelow(nodes, n)

-----------------------------------------------------------------------------
(* Views and breakdowns: _apply_views, _hold_breakdowns *)

\* quiet: nothing was written to the transcript for STALL_SECONDS.
View(ns, n, quiet) ==
    LET status == ns[n].status
        blocking == \E d \in ns[n].blockedBy \cap DOMAIN ns : ns[d].status \notin Finished
    IN  CASE status = "in_progress" /\ blocking -> "blocked"
          [] status = "in_progress" /\ ~blocking /\ quiet -> "stalled"
          [] status = "pending" /\ blocking -> "waiting"
          [] OTHER -> status

\* An edge between a step under n and a node outside, other than n's own.
UsedByDependents(ns, n) ==
    LET inside == StepsBelow(ns, n) IN
    \E m \in DOMAIN ns : m \notin inside /\ m # n /\ ns[m].blockedBy \cap inside # {}
UsedFromOutside(ns, n) ==
    LET inside == StepsBelow(ns, n) IN
    \E m \in DOMAIN ns : \E other \in Named(ns, m) :
        (m \in inside) # (other \in inside) /\ n \notin {m, other}

Worst(views) ==
    IF views = {} THEN "pending"
    ELSE CHOOSE v \in views : \A w \in views : Rank(v) <= Rank(w)

Live(ns, S) == {s \in S : ns[s].status # "abandoned"}
ColouringDirectly(ns, n) == Live(ns, Steps(ns, n))
Colouring(ns, n) == Live(ns, StepsBelow(ns, n))

BreakdownOf(ns, n, quiet) ==
    [steps |-> Steps(ns, n),
     folded |-> ~UsedFromOutside(ns, n),
     worst |-> Worst({View(ns, s, quiet) : s \in Colouring(ns, n)}),
     disagrees |-> /\ ns[n].status = "completed"
                   /\ \E s \in Live(ns, Steps(ns, n)) : ns[s].status # "completed"]

\* A node without steps keeps the breakdown it had.
Built(ns, quiet) ==
    [n \in DOMAIN ns |->
       [ns[n] EXCEPT !.view = View(ns, n, quiet),
                     !.breakdown = IF Steps(ns, n) = {} THEN @ ELSE BreakdownOf(ns, n, quiet)]]

\* The page starts on a session that has broken down its work before.
Init ==
    /\ \E k \in 0 .. MaxNodes :
       \E parent \in {f \in [1 .. k -> 0 .. k] : \A n \in 1 .. k : f[n] < n} :
           nodes = Built([n \in 1 .. k |-> [Plain EXCEPT !.parent = parent[n]]], FALSE)
    /\ edits = 0
    /\ fold = [n \in {} |-> TRUE]
    /\ hide_done = FALSE

-----------------------------------------------------------------------------
(* A poll, which finds a change the agent made to its tasks, or none *)

Poll(ns) ==
    /\ \E quiet \in BOOLEAN : nodes' = Built(ns, quiet)
    /\ UNCHANGED <<fold, hide_done>>

Edit(ns) ==
    /\ edits < MaxEdits /\ Len(nodes) + edits < MaxSize
    /\ edits' = edits + 1
    /\ Poll(ns)

NothingNew == Poll(nodes) /\ UNCHANGED edits

Create ==
    /\ Len(nodes) < MaxNodes /\ Len(nodes) + edits < MaxSize
    /\ Poll(Append(nodes, Plain))
    /\ UNCHANGED edits

SetStatus(n, s) == nodes[n].status # s /\ Edit([nodes EXCEPT ![n].status = s])

AddBlockedBy(n, d) ==
    d \notin nodes[n].blockedBy /\ Edit([nodes EXCEPT ![n].blockedBy = @ \cup {d}])

AddBlocks(n, d) == d \notin nodes[n].blocks /\ Edit([nodes EXCEPT ![n].blocks = @ \cup {d}])

\* Another parent, or none.  A ring of parents is left out: the page's walks up
\* from a node do not end in one.
SetParent(n, p) ==
    /\ nodes[n].parent # p
    /\ p \notin Part(n)
    /\ Edit([nodes EXCEPT ![n].parent = p])

SetGoal(n, label) == nodes[n].goal # label /\ Edit([nodes EXCEPT ![n].goal = label])

-----------------------------------------------------------------------------
(* Goals: _group *)

EdgeTies == UNION {{<<n, d>> : d \in Named(nodes, n) \cap Known} : n \in Known}
ParentTies == ParentEdges(nodes)
GoalTies == UNION {LET labelled == {n \in Known : nodes[n].goal = label}
                   IN  {<<n, m>> : n \in {n \in labelled : \A m \in labelled : n <= m}, m \in labelled} :
                   label \in Labels}

\* _DisjointSet: `up' is its `parent', a node with itself above it a root.  The
\* walk of find() takes two steps at a time.
WayUp(n, up) == Reach({n}, {<<m, up[up[m]]>> : m \in {m \in DOMAIN up : up[m] # m}})
Find(n, up) == CHOOSE m \in WayUp(n, up) : up[m] = m
\* What find() leaves: the nodes on its way are hung two steps further up.
Halved(n, up) == LET way == WayUp(n, up)
                 IN  [m \in DOMAIN up |-> IF m \in way THEN up[up[m]] ELSE up[m]]
UnionOfItem(tie, up) ==
    LET left == Halved(tie[1], up) IN [Halved(tie[2], left) EXCEPT ![tie[2]] = Find(tie[1], up)]
Union(tie, up) ==
    LET left == Halved(tie[1], up)
    IN  [Halved(tie[2], left) EXCEPT ![Find(tie[2], left)] = Find(tie[1], up)]
\* In which order the ties are taken decides only which node represents a group.
Forest == LET ties == EdgeTies \cup ParentTies \cup GoalTies
              union == [at \in ties \X [Known -> Known] |-> Union(at[1], at[2])]
          IN  FoldSet(LAMBDA tie, up : union[<<tie, up>>], [n \in Known |-> n], ties)
Root == LET found == [up \in [Known -> Known] |-> [n \in Known |-> Find(n, up)]] IN found[Forest]

-----------------------------------------------------------------------------
(* Bands: _depths *)

Waits == UNION {{<<n, d>> : d \in nodes[n].blockedBy \cap Known} : n \in Known}
Depth == Bands(Known, Waits)

-----------------------------------------------------------------------------
(* The page *)

\* isFolded(), for the viewer's choices f.
Folded(n, f) == /\ nodes[n].breakdown.steps # {}
                /\ IF n \in DOMAIN f THEN f[n] ELSE nodes[n].breakdown.folded

\* finished(): the nodes the switch hides.
GoneOnItsOwn == {n \in Known : nodes[n].view = "completed"}
Gone == {n \in Known : nodes[n].view = "completed" /\ \A s \in Part(n) : nodes[s].view \in Finished}
Left == IF hide_done THEN Gone ELSE {}

\* hiddenBy(): what is under a folded node of the same goal, as the breakdowns
\* tell it, and what the switch hides.
HiddenBy(f) ==
    LET root == Root
        kids == UNION {{<<n, s>> : s \in {s \in nodes[n].breakdown.steps : root[s] = root[n]}} : n \in Known}
    IN  Reach({e[2] : e \in {e \in kids : Folded(e[1], f)}}, kids) \cup Left
Drawn == Known \ HiddenBy(fold)

\* shown() of liftEdges: the nearest node still drawn that holds n.
Shown == LET held == UNION {{<<n, h>> : n \in Part(h)} : h \in Drawn}
             left == Left
         IN  [n \in Known |->
                LET up == On(n, held)
                IN  IF n \in left \/ up = {} THEN NoNode
                    ELSE CHOOSE h \in up : \A o \in up : <<h, o>> \in held]

\* An edge is drawn between the nodes that are shown for its ends.
Lifted == LET shown == Shown
          IN  {e \in {<<shown[w[1]], shown[w[2]]>> : w \in Waits} :
                 NoNode \notin {e[1], e[2]} /\ e[1] # e[2]}

\* layoutNested: a node whose parent is drawn as well is drawn inside it, and each
\* level is laid out in bands of its own.  A flat drawing is one level.
Box == LET drawn == Drawn
       IN  [n \in drawn |-> IF nodes[n].parent \in drawn THEN nodes[n].parent ELSE NoNode]
\* under(): the node and what is drawn inside it.
Under(n, box) == Reach({n}, {<<box[s], s>> : s \in DOMAIN box})
Level(n, box) == {m \in DOMAIN box : box[m] = box[n]}
\* depsOf(): what a node, or a step inside it, waits on counts for the node of the
\* level that holds it.
OwnDepsOf(n, box, lifted) ==
    {h \in Level(n, box) \ {n} : \E e \in lifted : e[1] = n /\ e[2] \in Under(h, box)}
DepsOf(n, box, lifted) ==
    {h \in Level(n, box) \ {n} :
        \E e \in lifted : e[1] \in Under(n, box) /\ e[2] \in Under(h, box)}
\* `arrange' walks one level after another; no dependency leads from one level to
\* another, and the bands are those of one walk.
Arranged(box, lifted) ==
    Bands(DOMAIN box, UNION {{<<n, h>> : h \in DepsOf(n, box, lifted)} : n \in DOMAIN box})

\* renderGoal: a goal of which nothing is hidden and nothing is nested is drawn in
\* the server's bands.
AsServed == LET root == Root
                left == Left
                other == {m \in Known : Folded(m, fold) \/ m \in left \/ nodes[m].parent \in Known}
            IN  {n \in Known : \A m \in other : root[m] # root[n]}
DrawnDepth(box, lifted) ==
    LET served == AsServed
        depth == Depth
        arranged == Arranged(box, lifted)
    IN  [n \in DOMAIN box |-> IF n \in served THEN depth[n] ELSE arranged[n]]

ToggleFold(n) ==
    /\ nodes[n].breakdown.steps # {}
    /\ n \in DOMAIN fold \/ Cardinality(DOMAIN fold) < MaxChoices
    /\ n \in Drawn
    /\ fold' = [m \in DOMAIN fold \cup {n} |-> IF m = n THEN ~Folded(n, fold) ELSE fold[m]]
    /\ UNCHANGED <<nodes, edits, hide_done>>

ToggleHideDone ==
    /\ hide_done' = ~hide_done
    /\ UNCHANGED <<nodes, edits, fold>>

\* goToQuestion: open the way down to a node.
WayDownNearest(n) == {nodes[n].parent} \cap Known
WayDownUnchecked(n) == {h \in Ids \ {n} : h = nodes[n].parent \/ (h \in Known /\ n \in Part(h))}
WayDown(n) == {h \in Known \ {n} : n \in Part(h)}
GoToQuestion(n) ==
    /\ UNCHANGED <<nodes, edits, hide_done>>
    /\ LET way == WayDown(n) IN
         /\ Cardinality(DOMAIN fold \cup way) <= MaxChoices
         /\ fold' = [m \in DOMAIN fold \cup way |-> m \notin way /\ fold[m]]

-----------------------------------------------------------------------------
Next ==
    \/ NothingNew
    \/ Create
    \/ \E n \in Known :
         \/ \E s \in Status : SetStatus(n, s)
         \/ \E d \in Ids : AddBlockedBy(n, d) \/ AddBlocks(n, d)
         \/ \E p \in Ids \cup {NoNode} : SetParent(n, p)
         \/ \E label \in Labels : SetGoal(n, label)
         \/ ToggleFold(n)
         \/ GoToQuestion(n)
    \/ ToggleHideDone

Spec == Init /\ [][Next]_vars

-----------------------------------------------------------------------------
(* Properties *)

TypeOK ==
    /\ Len(nodes) <= MaxNodes
    /\ nodes \in Seq(Node)
    /\ hide_done \in BOOLEAN
    /\ edits \in 0 .. MaxEdits
    /\ DOMAIN fold \subseteq Known /\ fold \in [DOMAIN fold -> BOOLEAN]

\* `Independent goals are separate graphs', and a goal is one graph: two nodes
\* are drawn on one card just when edges, parents and labels tie them together.
GoalsAreTheTiedNodes ==
    LET root == Root
        sameLabel == UNION {{<<n, m>> : m \in {m \in Known : nodes[m].goal = nodes[n].goal}} :
                               n \in {n \in Known : nodes[n].goal # "none"}}
        oneWay == EdgeTies \cup ParentTies
        ties == oneWay \cup {<<e[2], e[1]>> : e \in oneWay} \cup sameLabel
    IN  \A n \in Known : {m \in Known : root[m] = root[n]} = Reach({n}, ties)

\* Two boxes of one level, of which one holds a node that waits on a node in the
\* other: a drawn edge leads from the one to the other, or into them.
BoxWaits(box, lifted) ==
    LET beside == UNION {{<<n, h>> : h \in Level(n, box) \ {n}} : n \in DOMAIN box}
    IN  {e \in beside : \E l \in lifted : l[1] \in Under(e[1], box) /\ l[2] \in Under(e[2], box)}
OnItself == {w \in Waits : w[1] = w[2]}

\* Every node is below what it waits on, in the server's bands; and in the drawing,
\* whatever is folded, hidden or nested, every edge leads downwards: of two boxes
\* side by side the one that waits, or has a step inside that waits, is the lower
\* one.  Left aside are nodes that wait on each other in a ring, and boxes that do
\* through their steps.  And a band that is not the first has one above it.
BandsFollowDependencies ==
    /\ BandsRespect(Depth, Waits)
    /\ \A box \in {Box}, lifted \in {Lifted} :
          BandsRespect(DrawnDepth(box, lifted), BoxWaits(box, lifted) \cup OnItself)

\* A node keeps the breakdown of steps that have left it when no other step has
\* come in their place; then the page folds away what is no longer under it.
Current == \A n \in Known : nodes[n].breakdown.steps = Steps(nodes, n)

\* `It is folded unless a node outside it has an edge to or from one of its
\* steps, since folding would then hide a dependency': as long as the viewer
\* has made no choice, no edge ends on a step that is folded away, but for those
\* among the steps of one drawn node and the node's own.
FoldingHidesNoDependency ==
    (Current /\ DOMAIN fold = {} /\ ~hide_done) =>
        LET shown == Shown
            drawn == Drawn
        IN  \A e \in EdgeTies : shown[e[1]] = shown[e[2]] \/ {e[1], e[2]} \subseteq drawn

\* No node vanishes: each is drawn, or under a node that is, unless the viewer
\* hides finished nodes and it belongs to one; no open node ever does (`a
\* finished node with a step that is still running stays').
NothingVanishes ==
    Current =>
        LET shown == Shown
        IN  \A n \in Known : shown[n] = NoNode =>
                nodes[n].view \in Finished /\ \E g \in Left : n \in Part(g)

\* `A red step still shows': the node that stands for a step folded away has at
\* least as urgent a colour, whatever the viewer folds or hides.
RedStepStillShows ==
    LET shown == Shown
    IN  \A n \in Known : (shown[n] \notin {n, NoNode} /\ nodes[n].status # "abandoned") =>
            Rank(nodes[shown[n]].breakdown.worst) <= Rank(nodes[n].view)

\* A tap on a question, or on a link, leads to a node that is drawn: every
\* breakdown on the way down to it is unfolded.
TheWayDownIsOpen ==
    [][\A n \in Known : (fold' # fold /\ GoToQuestion(n) /\ Current)
                             => n \notin HiddenBy(fold') \ Left]_fold
=============================================================================
