--------------------------- MODULE SessionLinks ---------------------------
(***************************************************************************)
(* How one poll ties work in one session to the node in another that       *)
(* handed it on: _link_sessions of state.py.  The sessions ss of a poll    *)
(* are a sequence of records whose `nodes' are the tasks 1, 2, ... in the  *)
(* order they were made; a node is named by the pair of its session and    *)
(* its number.  Titles and colours are left out of what a link tells.      *)
(***************************************************************************)
EXTENDS Integers, Sequences, FiniteSets, FiniteSetsExt

CONSTANT OneGoal   \* sessions whose nodes are one goal; elsewhere each node is one

NoRef == <<>>
NoSession == "none"
NoTask == 0
Statuses == {"in_progress", "completed", "abandoned"}
Plain == [status |-> "in_progress", parent |-> NoRef, session |-> NoSession]

NodesOf(ss) == UNION {{<<ss[i].id, t>> : t \in DOMAIN ss[i].nodes} : i \in DOMAIN ss}
IsShown(ss, id) == \E i \in DOMAIN ss : ss[i].id = id
Position(ss, id) == CHOOSE i \in DOMAIN ss : ss[i].id = id
Node(ss, k) == ss[Position(ss, k[1])].nodes[k[2]]

\* A goal is named by its first node.
GoalsOf(ss) == {k \in NodesOf(ss) : k[1] \in OneGoal => k[2] = 1}
Members(ss, goal) == IF goal[1] \in OneGoal THEN DOMAIN ss[Position(ss, goal[1])].nodes
                                            ELSE {goal[2]}

\* The order in which the goals and nodes of a picture are gone through.
IsBefore(ss, k, l) == LET i == Position(ss, k[1])
                          j == Position(ss, l[1])
                      IN  i < j \/ (i = j /\ k[2] < l[2])
Foremost(ss, K) == CHOOSE k \in K : \A l \in K \ {k} : IsBefore(ss, k, l)
Hindmost(ss, K) == CHOOSE k \in K : \A l \in K \ {k} : IsBefore(ss, l, k)

_summary(nodes, tasks) ==
    LET live == {t \in tasks : nodes[t].status # "abandoned"}
    IN  [done |-> Cardinality({t \in live : nodes[t].status = "completed"}),
         total |-> Cardinality(live)]

\* What the node shows of work done elsewhere.
Remote(ss, id, task, tasks) ==
    [to |-> id, node |-> task, summary |-> _summary(ss[Position(ss, id)].nodes, tasks)]

-----------------------------------------------------------------------------
(* _link_by_parent: the steps name the node, in another session *)

Refs(ss, goal) ==
    {Node(ss, <<goal[1], t>>).parent : t \in Members(ss, goal)} \ {NoRef}
NamedByParent(ss) == UNION {Refs(ss, goal) : goal \in GoalsOf(ss)}

\* The last goal that names a node is the one it shows.
RemoteByParent(ss) ==
    [k \in NamedByParent(ss) \cap NodesOf(ss) |->
        LET goal == Hindmost(ss, {goal \in GoalsOf(ss) : k \in Refs(ss, goal)})
        IN  Remote(ss, goal[1],
                   Min({t \in Members(ss, goal) : Node(ss, <<goal[1], t>>).parent = k}),
                   Members(ss, goal))]

Found(ss, goal) == Refs(ss, goal) \cap NodesOf(ss)

\* Of several nodes a goal names, which one it leads back to is a matter of how
\* they are spelt.
UpstreamByParent(ss) ==
    [goal \in {goal \in GoalsOf(ss) : Found(ss, goal) # {}} |->
        CHOOSE k \in Found(ss, goal) : TRUE]

BrokenByParent(ss) ==
    UNION {{goal} \X (Refs(ss, goal) \ NodesOf(ss)) : goal \in GoalsOf(ss)}

-----------------------------------------------------------------------------
(* _link_by_session: the node names the session that does its work *)

\* Nodes that name a session, but for those that show a link already.
HandedOn(ss, linked) == {k \in NodesOf(ss) : Node(ss, k).session # NoSession /\ k \notin linked}
HandedOver(ss, linked) == {k \in HandedOn(ss, linked) : IsShown(ss, Node(ss, k).session)}

RemoteByFirstGoal(ss, linked) ==
    [k \in HandedOver(ss, linked) |->
        LET id == Node(ss, k).session
        IN  Remote(ss, id, 1, IF <<id, 1>> \in NodesOf(ss) THEN Members(ss, <<id, 1>>) ELSE {})]
RemoteBySession(ss, linked) ==
    [k \in HandedOver(ss, linked) |->
        LET id == Node(ss, k).session
            work == DOMAIN ss[Position(ss, id)].nodes
        IN  Remote(ss, id, IF work = {} THEN NoTask ELSE 1, work)]

UpstreamBySession(ss, linked) ==
    LET serves(goal) == {k \in HandedOver(ss, linked) : Node(ss, k).session = goal[1]}
    IN  [goal \in {goal \in GoalsOf(ss) : goal[2] = 1 /\ serves(goal) # {}} |->
            Foremost(ss, serves(goal))]

BrokenBySession(ss, linked) ==
    {<<k, <<Node(ss, k).session>>>> : k \in HandedOn(ss, linked) \ HandedOver(ss, linked)}

-----------------------------------------------------------------------------
\* What f says, or g where f says nothing: the operator @@ of TLC, which the
\* provers do not know.
OrElse(f, g) == [x \in DOMAIN f \cup DOMAIN g |-> IF x \in DOMAIN f THEN f[x] ELSE g[x]]

ShowsOldFirst(byParent, kept) == OrElse(kept, byParent)
\* Nodes that outlive the poll still show the links `kept' of polls before.
Shows(byParent, kept) == OrElse(byParent, kept)

_link_sessions(ss, kept) ==
    LET shows == Shows(RemoteByParent(ss), kept)
        linked == DOMAIN shows
    IN  [remote |-> OrElse(shows, RemoteBySession(ss, linked)),
         upstream |-> OrElse(UpstreamByParent(ss), UpstreamBySession(ss, linked)),
         broken |-> BrokenByParent(ss) \cup BrokenBySession(ss, linked)]
=============================================================================
