----------------------------- MODULE Sessions -----------------------------
(***************************************************************************)
(* Which sessions a picture has, and what it says of them: build and       *)
(* _describe of state.py, over Claude Code's register, the processes of    *)
(* the machine, the transcripts and Codex, all of which change while a     *)
(* poll goes through them.  The links are those of module SessionLinks; a  *)
(* node of Claude Code outlives the poll and keeps the link it shows, one  *)
(* of Codex is made anew.                                                  *)
(*                                                                         *)
(* A session has a transcript from its first task on, and one question     *)
(* text.  Of `attention' only "ended" and "asking" are told apart, and     *)
(* one session is looked at in one step.                                   *)
(***************************************************************************)
EXTENDS SessionLinks, SequencesExt

CONSTANTS Claude, Codex,   \* sessions of each agent
          Pids,            \* process ids
          startedAt,       \* when each session began
          HandedBefore,    \* the tasks there may be when the viewer starts
          MaxTasks,        \* bound: tasks of a session
          MaxChanges       \* bound: changes to the world

All == Claude \cup Codex
Tasks == 1 .. MaxTasks
TaskLists == Seq([status : Statuses, parent : {NoRef} \cup (All \X Tasks),
                  session : {NoSession} \cup All])

ASSUME SessionsAssumption ==
    /\ IsFiniteSet(All) /\ IsFiniteSet(Pids)
    /\ Claude \cap Codex = {} /\ NoSession \notin All
    /\ startedAt \in [All -> Nat]
    /\ MaxTasks \in Nat /\ MaxChanges \in Nat
    /\ HandedBefore \subseteq [All -> TaskLists]
    /\ \A before \in HandedBefore : \A s \in All : Len(before[s]) <= MaxTasks

VARIABLES register,   \* the session each file of the register names
          procs,      \* processes on the machine
          nodes,      \* what each session's transcript, or plan, says of its tasks
          asks,       \* Claude Code sessions with a question waiting
          dismissed,  \* sessions whose question the user put away
          changes,    \* how often any of this has changed
          kept,       \* links that nodes of the readers show
          poll,       \* the poll that is under way, or none
          picture     \* the last picture

world == <<register, procs, nodes, asks, dismissed>>
vars == <<register, procs, nodes, asks, dismissed, changes, kept, poll, picture>>

NoPoll == [at |-> "none"]
NoLinks == [remote |-> <<>>, upstream |-> <<>>, broken |-> {}]
NoPicture == [sessions |-> <<>>, links |-> NoLinks, steady |-> FALSE]

Init ==
    /\ register \in [Pids -> Claude] /\ IsInjective(register)
    /\ procs = Pids
    /\ nodes \in HandedBefore
    /\ asks = {} /\ dismissed = {} /\ changes = 0
    /\ kept = <<>> /\ poll = NoPoll /\ picture = NoPicture

-----------------------------------------------------------------------------
(* The sessions and their users *)

Change ==
    /\ changes < MaxChanges
    /\ changes' = changes + 1
    /\ poll' = IF poll = NoPoll THEN poll ELSE [poll EXCEPT !.steady = FALSE]
    /\ picture' = [picture EXCEPT !.steady = FALSE]
    /\ UNCHANGED kept

\* A session starts, or is resumed, in a process.
Start(p, s) ==
    /\ p \notin procs
    /\ register' = [register EXCEPT ![p] = s] /\ procs' = procs \cup {p}
    /\ Change /\ UNCHANGED <<nodes, asks, dismissed>>
Quit(p) ==
    /\ p \in procs /\ register[p] # NoSession
    /\ register' = [register EXCEPT ![p] = NoSession] /\ procs' = procs \ {p}
    /\ Change /\ UNCHANGED <<nodes, asks, dismissed>>
\* The file stays; the process id may come to be another program's.
Crash(p) ==
    /\ p \in procs /\ procs' = procs \ {p}
    /\ Change /\ UNCHANGED <<register, nodes, asks, dismissed>>
Reuse(p) ==
    /\ p \notin procs /\ procs' = procs \cup {p}
    /\ Change /\ UNCHANGED <<register, nodes, asks, dismissed>>

Ask(s) ==
    /\ asks' = (asks \ {s}) \cup ({s} \ asks)
    /\ Change /\ UNCHANGED <<register, procs, nodes, dismissed>>
Dismiss(s) ==
    /\ s \in asks \ dismissed /\ dismissed' = dismissed \cup {s}
    /\ Change /\ UNCHANGED <<register, procs, nodes, asks>>

Task(s, tasks) ==
    /\ nodes' = [nodes EXCEPT ![s] = tasks]
    /\ Change /\ UNCHANGED <<register, procs, asks, dismissed>>
Create(s) == Len(nodes[s]) < MaxTasks /\ Task(s, Append(nodes[s], Plain))
SetStatus(s, t, status) ==
    nodes[s][t].status # status /\ Task(s, [nodes[s] EXCEPT ![t].status = status])
SetParent(s, t, ref) ==
    nodes[s][t].parent # ref /\ Task(s, [nodes[s] EXCEPT ![t].parent = ref])
SetSession(s, t, id) ==
    nodes[s][t].session # id /\ Task(s, [nodes[s] EXCEPT ![t].session = id])

World ==
    \/ \E p \in Pids : Quit(p) \/ Crash(p) \/ Reuse(p) \/ \E s \in Claude : Start(p, s)
    \/ \E s \in Claude : Ask(s) \/ Dismiss(s)
    \/ \E s \in All : Create(s)
    \/ \E s \in All : \E t \in DOMAIN nodes[s] : \E status \in Statuses : SetStatus(s, t, status)
    \/ \E s \in Claude : \E t \in DOMAIN nodes[s] :
          \/ \E ref \in All \X Tasks : ref[1] # s /\ SetParent(s, t, ref)
          \/ SetParent(s, t, NoRef)
          \/ \E id \in (All \ {s}) \cup {NoSession} : SetSession(s, t, id)

-----------------------------------------------------------------------------
(* A poll *)

_alive(p) == p \in procs

\* The register's files, in any order.
_sessions_on_disk ==
    {[i \in DOMAIN found |-> [id |-> register[found[i]], pid |-> found[i]]] :
        found \in SetToSeqs({p \in Pids : register[p] # NoSession})}

Begin ==
    /\ poll = NoPoll
    /\ \E files \in _sessions_on_disk :
          poll' = [at |-> "build", todo |-> files, seen |-> {}, dismissed |-> dismissed,
                   sessions |-> <<>>, steady |-> TRUE]
    /\ UNCHANGED <<world, changes, kept, picture>>

IsNewFile(info) == TRUE
IsNew(info) == info.id \notin poll.seen

_attention(alive, asking) ==
    IF ~alive THEN "ended" ELSE IF asking THEN "asking" ELSE "working"

_questions(info) == IF _alive(info.pid) THEN asks \cap {info.id} ELSE {}
_not_dismissed(asked) == asked \ poll.dismissed
_mark_dismissed(asked, waiting) == asked \ waiting # {}

_describe(info) ==
    LET asked == _questions(info)
        waiting == _not_dismissed(asked)
    IN  [id |-> info.id, nodes |-> nodes[info.id],
         askDismissed |-> _mark_dismissed(asked, waiting),
         attention |-> _attention(_alive(info.pid), waiting # {})]

_transcript_for(id) == nodes[id] # <<>>

\* A file of a session that was met already, or has no transcript, is passed over.
Describe ==
    /\ poll # NoPoll /\ poll.todo # <<>>
    /\ LET info == Head(poll.todo)
           here == IsNew(info) /\ _transcript_for(info.id)
       IN  poll' = [poll EXCEPT !.todo = Tail(@), !.seen = @ \cup {info.id},
                                !.sessions = IF here THEN Append(@, _describe(info)) ELSE @]
    /\ UNCHANGED <<world, changes, kept, picture>>

\* A session that raises ends the poll, and leaves the picture that was.
Raise ==
    /\ poll # NoPoll /\ poll.todo # <<>>
    /\ poll' = NoPoll
    /\ UNCHANGED <<world, changes, kept, picture>>

\* codex.build_sessions: every thread, or, when it raises, none.
CodexSessions ==
    {[i \in DOMAIN order |-> [id |-> order[i], nodes |-> nodes[order[i]],
                              askDismissed |-> FALSE, attention |-> "none"]] :
        order \in SetToSeqs(Codex)} \cup {<<>>}
CodexOrNothing(sessions, threads) ==
    IF threads = <<>> /\ Codex # {} THEN <<>> ELSE sessions \o threads
AfterCodex(sessions, threads) == sessions \o threads

\* One with a question first, one that has ended last, and of two alike the newer
\* one.  A thread of Codex is taken for one that works.
place(session) ==
    CASE session.attention = "asking" -> 1 [] session.attention = "ended" -> 3 [] OTHER -> 2
session_order(a, b) == \/ place(a) < place(b)
                       \/ place(a) = place(b) /\ startedAt[a.id] > startedAt[b.id]
\* The sort is stable.
InOrder(ss) ==
    {[i \in DOMAIN ss |-> ss[order[i]]] :
        order \in {o \in SetToSeqs(DOMAIN ss) : \A i, j \in DOMAIN ss : i < j =>
                     \/ session_order(ss[o[i]], ss[o[j]])
                     \/ ~session_order(ss[o[j]], ss[o[i]]) /\ o[i] < o[j]}}

Publish ==
    /\ poll # NoPoll /\ poll.todo = <<>>
    /\ \E threads \in CodexSessions :
         LET ss == AfterCodex(poll.sessions, threads)
             links == _link_sessions(ss, kept)
         IN  /\ \E sorted \in InOrder(ss) :
                  picture' = [sessions |-> sorted, links |-> links, steady |-> poll.steady]
             /\ kept' = [k \in {k \in DOMAIN links.remote : k[1] \in Claude} |-> links.remote[k]]
    /\ poll' = NoPoll
    /\ UNCHANGED <<world, changes>>

Build == Begin \/ Describe \/ Raise \/ Publish

Next == World \/ Build

Spec == Init /\ [][Next]_vars

-----------------------------------------------------------------------------
(* Properties *)

Shown == {picture.sessions[i].id : i \in DOMAIN picture.sessions}
Session(s) == picture.sessions[Position(picture.sessions, s)]
Goals == GoalsOf(picture.sessions)
Remotes == picture.links.remote
\* What the steps of a goal have come to, in the picture.
Progress(tasks, S) ==
    [done |-> Cardinality({t \in S : tasks[t].status = "completed"}),
     total |-> Cardinality({t \in S : tasks[t].status # "abandoned"})]
ProgressOf(goal) == Progress(Session(goal[1]).nodes, Members(picture.sessions, goal))

TypeOK ==
    /\ register \in [Pids -> Claude \cup {NoSession}]
    /\ procs \subseteq Pids /\ asks \subseteq Claude /\ dismissed \subseteq Claude
    /\ \A s \in All : Len(nodes[s]) \in 0 .. MaxTasks
    /\ changes \in 0 .. MaxChanges
    /\ \A k \in DOMAIN kept : k[1] \in Claude /\ kept[k].to \in All
    /\ poll # NoPoll => /\ poll.seen \subseteq Claude
                        /\ \A i \in DOMAIN poll.sessions : poll.sessions[i].id \in Claude
    /\ IsInjective([i \in DOMAIN picture.sessions |-> picture.sessions[i].id])
    /\ Len(picture.sessions) <= Cardinality(All)

\* A picture built while nothing changed has every session of the register that
\* has a transcript, whatever became of Codex, and a session of one file is in it
\* as it is: ended when its process is gone, asking when it runs and has a
\* question nobody put away.
PictureTellsTheWorld ==
    picture.steady =>
        /\ Shown \cap Claude = {s \in Claude : nodes[s] # <<>> /\ \E p \in Pids : register[p] = s}
        /\ \A s \in Shown \cap Claude : \A p \in Pids :
             (\A q \in Pids : register[q] = s <=> q = p) =>
                 /\ Session(s).attention = "ended" <=> p \notin procs
                 /\ Session(s).attention = "asking" <=> (p \in procs /\ s \in asks \ dismissed)
                 /\ Session(s).askDismissed <=> (p \in procs /\ s \in asks \cap dismissed)

\* `Either end is enough': a parent link from a goal in the picture to a node in
\* it shows at both ends, the node with the progress of a goal that names it
\* now, however long it has shown a link; one to a node or session that is not
\* there is on the goal's card as broken; and whatever leads back from a goal, by
\* either end, leads to a node in the picture that shows a link.
LinksAreCurrent ==
    /\ \A goal \in Goals : \A ref \in Refs(picture.sessions, goal) :
          IF ref \in NodesOf(picture.sessions)
          THEN /\ goal \in DOMAIN picture.links.upstream
               /\ ref \in DOMAIN Remotes
               /\ \E other \in Goals : /\ ref \in Refs(picture.sessions, other)
                                       /\ Remotes[ref].to = other[1]
                                       /\ Remotes[ref].summary = ProgressOf(other)
          ELSE <<goal, ref>> \in picture.links.broken
    /\ \A goal \in DOMAIN picture.links.upstream :
          picture.links.upstream[goal] \in NodesOf(picture.sessions) \cap DOMAIN Remotes

\* The first picture of a node that names a session in the picture, unless a goal
\* names the node, has its link lead to that session, with what has come of all
\* the work there, and the session's first goal lead back.
FirstLinkIsRight ==
    [][\A k \in NodesOf(picture'.sessions) \ DOMAIN kept :
         LET now == picture'.sessions
             id == Node(now, k).session
         IN  (IsShown(now, id) /\ k \notin NamedByParent(now)) =>
                 LET work == now[Position(now, id)].nodes
                 IN  /\ picture'.links.remote[k].to = id
                     /\ picture'.links.remote[k].summary = Progress(work, DOMAIN work)
                     /\ work # <<>> => <<id, 1>> \in DOMAIN picture'.links.upstream]_kept
=============================================================================
