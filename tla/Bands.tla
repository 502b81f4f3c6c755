------------------------------- MODULE Bands -------------------------------
(***************************************************************************)
(* The walks that the pictures share, over edges as a set of pairs: what   *)
(* can be reached, and the band each node is drawn in.  `_depths' is in    *)
(* state.py and, the same, in codex_plan.py; the page walks its drawing    *)
(* the same way.                                                           *)
(***************************************************************************)
EXTENDS Integers, FiniteSets, SequencesExt

\* Nothing leads out of T.
Closed(T, edges) == \A e \in edges : e[1] \in T => e[2] \in T

\* The nodes that can be reached from S along the edges: the least closed set
\* with S in it.
Reach(S, edges) ==
    LET next == {e[2] : e \in edges} \ S
        closed == {T \in SUBSET next : Closed(S \cup T, edges)}
    IN  S \cup {n \in next : \A T \in closed : n \in T}

On(id, edges) == {e[2] : e \in {e \in edges : e[1] = id}}

Unwalked == -1

\* walk goes on from where id waits.
Deeper(walk, d, found) ==
    LET w == walk[<<d, found.depth>>]
    IN  [depth |-> w.depth, value |-> Max({found.value, w.value + 1})]
Visited(walk, id, depth, edges) ==
    LET last == FoldSet(LAMBDA d, found : Deeper(walk, d, found),
                        [depth |-> depth, value |-> 0], On(id, edges))
    IN  [depth |-> [last.depth EXCEPT ![id] = last.value], value |-> last.value]

\* The walk from id, through the nodes seen, ends with the bands it has found so
\* far, and the one of id.  A node that is being walked through counts as the
\* first band.
Walk(ids, edges) ==
    LET walk[seen \in SUBSET ids] ==
          [at \in ids \X [ids -> Int] |->
             LET id == at[1]
                 depth == at[2]
             IN  IF depth[id] # Unwalked THEN [depth |-> depth, value |-> depth[id]]
                 ELSE IF id \in seen THEN [depth |-> depth, value |-> 0]
                 ELSE Visited(walk[seen \cup {id}], id, depth, edges)]
    IN  walk

Bands(ids, edges) ==
    LET walk == Walk(ids, edges)[{}]
    IN  FoldSet(LAMBDA id, depth : walk[<<id, depth>>].depth, [n \in ids |-> Unwalked], ids)

\* Whatever waits is below what it waits on, but for the nodes of a ring; and a
\* band that is not the first has one above it.
BandsRespect(depth, edges) ==
    \A n \in DOMAIN depth :
        LET on == On(n, edges) IN
        n \notin Reach(on, edges) =>
            /\ \A d \in on : depth[d] < depth[n]
            /\ depth[n] > 0 => \E d \in on : depth[d] = depth[n] - 1
=============================================================================
