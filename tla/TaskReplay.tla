----------------------------- MODULE TaskReplay -----------------------------
(***************************************************************************)
(* What the lines of one Claude Code transcript replay into: the fields of *)
(* TranscriptReader in state.py and the questions they leave waiting.      *)
(*                                                                         *)
(* Claude Code writes the lines: the user's prompts, the agent's texts, a  *)
(* tool call, and later that call's result.  The reader sees a line after  *)
(* it was written, each once and in order (module TranscriptReader), so    *)
(* writing a line and consuming it are one step here.  Beside the reader's *)
(* fields the module keeps what is really so - the calls without an answer *)
(* and Claude Code's own task list, which an answered call has changed -   *)
(* for the properties to compare with.                                     *)
(***************************************************************************)
EXTENDS Integers, Sequences, FiniteSets

CONSTANTS Calls,       \* ids of tool calls; an answered call's id is used again
          AgentCalls,  \* ids of Agent calls, each used once
          Questions,   \* texts a node's `ask' can have
          Files,       \* names of files the agent edits
          Dependencies,\* sets of task ids one update can name in addBlockedBy
          MAX_TRACKED, \* files and failures remembered of a node
          Parallel,    \* whether several task calls may be unanswered at once
          UpdatesFail, \* whether Claude Code may refuse a TaskUpdate
          MaxTasks,    \* bound: tasks created
          MaxUpdates   \* bound: TaskUpdate calls

TaskIds == 1 .. MaxTasks

ASSUME ReplayAssumption ==
    /\ Dependencies \subseteq SUBSET TaskIds
    /\ Calls \cap AgentCalls = {}
    /\ "none" \notin Questions
    /\ MAX_TRACKED \in Nat /\ MaxTasks \in Nat /\ MaxUpdates \in Nat
    /\ Parallel \in BOOLEAN /\ UpdatesFail \in BOOLEAN
    /\ "unsaid" \notin Questions

VARIABLES tasks,           \* task id -> node
          pending_creates, \* TaskCreate call -> its input
          active_node,     \* the node last set to in_progress, or NoTask
          open_asks,       \* AskUserQuestion calls
          pending_bash,    \* Bash calls
          spawns,          \* Agent call -> where it came from, whether it ended
          last_text        \* whether the agent's last text holds `needs input:'

reader == <<tasks, pending_creates, active_node, open_asks, pending_bash, spawns, last_text>>

VARIABLES calls,    \* the calls without an answer, with their inputs
          list,     \* Claude Code's task list: task id -> status and question
          asked,    \* whether the agent ended on `needs input:' and the user is to speak
          updates   \* TaskUpdate calls so far

vars == <<reader, calls, list, asked, updates>>

-----------------------------------------------------------------------------
NoTask == 0
Status == {"pending", "in_progress", "completed", "abandoned"}
Finished == {"completed", "abandoned"}
Asks == Questions \cup {"none"}

\* Metadata says nothing of the question, clears it, or asks one.
Meta == Asks \cup {"unsaid"}
CreateInput == [name : {"TaskCreate"}, ask : Meta]
UpdateInput == [name : {"TaskUpdate"}, task : TaskIds, ask : Meta, blockedBy : Dependencies,
                status : {"unsaid", "pending", "in_progress", "completed", "deleted"}]
BoxInput == [name : {"AskUserQuestion"}]
BashInput == [name : {"Bash"}]
AgentInput == [name : {"Agent"}]

Node == [status : Status, history : Seq(Status), ask : Asks, blockedBy : SUBSET TaskIds,
         started : BOOLEAN, ended : BOOLEAN, files : SUBSET Files, failures : 0 .. MAX_TRACKED]

\* A dictionary with one key set or removed.
Put(f, k, v) == [x \in DOMAIN f \cup {k} |-> IF x = k THEN v ELSE f[x]]
Without(f, k) == [x \in DOMAIN f \ {k} |-> f[x]]
\* f is a dictionary from some of the keys K to values in V.
IsDict(f, K, V) == DOMAIN f \subseteq K /\ f \in [DOMAIN f -> V]
Empty == [x \in {} |-> x]

-----------------------------------------------------------------------------
TypeOK ==
    /\ IsDict(tasks, TaskIds, Node)
    /\ IsDict(pending_creates, Calls, CreateInput)
    /\ active_node \in TaskIds \cup {NoTask}
    /\ open_asks \subseteq Calls
    /\ pending_bash \subseteq Calls
    /\ IsDict(spawns, AgentCalls, [node : TaskIds \cup {NoTask}, ended : BOOLEAN])
    /\ last_text \in BOOLEAN
    /\ IsDict(calls, Calls \cup AgentCalls,
              CreateInput \cup UpdateInput \cup BoxInput \cup BashInput \cup AgentInput)
    /\ IsDict(list, TaskIds, [status : Status, ask : Asks])
    /\ asked \in BOOLEAN
    /\ updates \in 0 .. MaxUpdates

Init ==
    /\ tasks = Empty
    /\ pending_creates = Empty
    /\ active_node = NoTask
    /\ open_asks = {}
    /\ pending_bash = {}
    /\ spawns = Empty
    /\ last_text = FALSE
    /\ calls = Empty
    /\ list = Empty
    /\ asked = FALSE
    /\ updates = 0

-----------------------------------------------------------------------------
(* The reader's helpers *)

\* _node: the node of a task id, made when first named.
NewNode == [status |-> "pending", history |-> <<>>, ask |-> "none", blockedBy |-> {},
            started |-> FALSE, ended |-> FALSE, files |-> {}, failures |-> 0]
NodeOf(id) == IF id \in DOMAIN tasks THEN tasks[id] ELSE NewNode

\* _apply_meta: a question is set or cleared; not said, it stays.
AskNeverCleared(old, meta) == IF meta \in {"unsaid", "none"} THEN old ELSE meta
AskAfter(old, meta) == IF meta = "unsaid" THEN old ELSE meta

\* _apply_create
Created(id, input) ==
    [NodeOf(id) EXCEPT !.ask = AskAfter(@, input.ask), !.history = Append(@, "pending")]

\* A deleted task is not gone: it is a branch that was dropped.
Shown(status) == IF status = "deleted" THEN "abandoned" ELSE status

\* What the history gets is what the node's status becomes.
HistoryAsGiven(history, status) == Append(history, status)
HistoryAfter(history, status) == Append(history, Shown(status))

\* _apply_update and _apply_status, on the node; edges the other way, goal, parent
\* and session are in Picture and Sessions.
Updated(u) ==
    LET named == [NodeOf(u.task) EXCEPT !.ask = AskAfter(@, u.ask),
                                        !.blockedBy = @ \cup u.blockedBy]
        s == Shown(u.status)
    IN  IF u.status = "unsaid" THEN named
        ELSE [named EXCEPT !.status = s,
                           !.history = HistoryAfter(@, u.status),
                           !.started = @ \/ s = "in_progress",
                           !.ended = @ \/ s \in Finished]

TasksWithoutDeleted(u) ==
    IF u.status = "deleted" THEN Without(tasks, u.task) ELSE Put(tasks, u.task, Updated(u))
TasksAfter(u) == Put(tasks, u.task, Updated(u))

\* _apply_status, on the active node
ActiveWhenDropped(u) ==
    CASE u.status = "in_progress" -> u.task
      [] u.status = "completed" /\ active_node = u.task -> NoTask
      [] OTHER -> active_node
ActiveAfter(u) ==
    CASE u.status = "in_progress" -> u.task
      [] u.status \in {"completed", "deleted"} /\ active_node = u.task -> NoTask
      [] OTHER -> active_node

\* A failed command is counted against the active node, up to MAX_TRACKED.
Failed(node) == IF node.failures < MAX_TRACKED THEN [node EXCEPT !.failures = @ + 1] ELSE node

-----------------------------------------------------------------------------
(* The user and the agent speak *)

\* _consume_prompt: a prompt answers what the agent asked; harness noise, meta
\* lines and bare tool results do not.
Prompt(noise) ==
    /\ last_text' = (noise /\ last_text)
    /\ asked' = (noise /\ asked)
    /\ UNCHANGED <<tasks, pending_creates, active_node, open_asks, pending_bash, spawns,
                   calls, list, updates>>

Text(needsInput) ==
    /\ last_text' = needsInput
    /\ asked' = needsInput
    /\ UNCHANGED <<tasks, pending_creates, active_node, open_asks, pending_bash, spawns,
                   calls, list, updates>>

-----------------------------------------------------------------------------
(* _consume_use: a tool call's line *)

Unanswered(name) == {c \in DOMAIN calls : calls[c].name = name}
TaskCalls == Unanswered("TaskCreate") \cup Unanswered("TaskUpdate")
\* Claude Code makes a task call beside another only in one batch.
MayCallTask == Parallel \/ TaskCalls = {}

Use(c, input) ==
    /\ c \notin DOMAIN calls
    /\ calls' = Put(calls, c, input)
    /\ UNCHANGED <<list, asked>>

UseCreate(c, input) ==
    /\ MayCallTask
    /\ Cardinality(DOMAIN list) < MaxTasks
    /\ Use(c, input)
    /\ pending_creates' = Put(pending_creates, c, input)
    /\ UNCHANGED <<tasks, active_node, open_asks, pending_bash, spawns, last_text, updates>>

UseUpdate(c, u) ==
    /\ MayCallTask
    /\ updates < MaxUpdates
    /\ \/ u.task \in DOMAIN list /\ list[u.task].status # "abandoned"
       \/ UpdatesFail
       \* In one batch the agent names the task it expects to get.
       \/ Parallel /\ Unanswered("TaskCreate") # {}
    /\ updates' = updates + 1
    /\ Use(c, u)
    /\ tasks' = TasksAfter(u)
    /\ active_node' = ActiveAfter(u)
    /\ UNCHANGED <<pending_creates, open_asks, pending_bash, spawns, last_text>>

UseBox(c) ==
    /\ Use(c, [name |-> "AskUserQuestion"])
    /\ open_asks' = open_asks \cup {c}
    /\ UNCHANGED <<tasks, pending_creates, active_node, pending_bash, spawns, last_text, updates>>

UseBash(c) ==
    /\ Use(c, [name |-> "Bash"])
    /\ pending_bash' = pending_bash \cup {c}
    /\ UNCHANGED <<tasks, pending_creates, active_node, open_asks, spawns, last_text, updates>>

UseAgent(c) ==
    /\ c \notin DOMAIN spawns
    /\ Use(c, [name |-> "Agent"])
    /\ spawns' = Put(spawns, c, [node |-> active_node, ended |-> FALSE])
    /\ UNCHANGED <<tasks, pending_creates, active_node, open_asks, pending_bash, last_text, updates>>

\* Edit, Write, NotebookEdit: the file's name, if there is a node to put it on.
UseEdit(f) ==
    /\ active_node \in DOMAIN tasks
    /\ f \notin tasks[active_node].files
    /\ Cardinality(tasks[active_node].files) < MAX_TRACKED
    /\ tasks' = [tasks EXCEPT ![active_node].files = @ \cup {f}]
    /\ UNCHANGED <<pending_creates, active_node, open_asks, pending_bash, spawns, last_text,
                   calls, list, asked, updates>>

-----------------------------------------------------------------------------
(* _consume_result: the line that answers a call *)

\* An answered question box is no longer waiting.
AsksKept(c) == open_asks
AsksAfter(c) == open_asks \ {c}

Answer(c) ==
    /\ c \in DOMAIN calls
    /\ calls' = Without(calls, c)
    /\ open_asks' = AsksAfter(c)
    /\ pending_bash' = pending_bash \ {c}
    /\ pending_creates' = Without(pending_creates, c)
    /\ spawns' = IF c \in DOMAIN spawns THEN [spawns EXCEPT ![c].ended = TRUE] ELSE spawns
    /\ UNCHANGED <<last_text, asked, updates>>

\* Claude Code numbers its tasks in the order it makes them.
NextTask == Cardinality(DOMAIN list) + 1

\* What Claude Code keeps of a field an input may leave out.
Said(old, new) == IF new = "unsaid" THEN old ELSE new

\* `Task #<id> created successfully'
ResultCreated(c) ==
    /\ Answer(c)
    /\ c \in DOMAIN pending_creates
    /\ NextTask \in TaskIds
    /\ tasks' = Put(tasks, NextTask, Created(NextTask, pending_creates[c]))
    /\ list' = Put(list, NextTask, [status |-> "pending", ask |-> Said("none", calls[c].ask)])
    /\ UNCHANGED active_node

\* Any other answer to a TaskCreate makes no node.
ResultNotCreated(c) ==
    /\ Answer(c)
    /\ c \in DOMAIN pending_creates
    /\ UNCHANGED <<tasks, active_node, list>>

\* The reader does not look at what came of an update.
ResultUpdate(c) ==
    /\ Answer(c)
    /\ calls[c].name = "TaskUpdate"
    /\ LET u == calls[c]
           exists == u.task \in DOMAIN list /\ list[u.task].status # "abandoned"
       IN  \/ /\ exists
              /\ list' = [list EXCEPT
                            ![u.task].status = IF u.status = "deleted" THEN "abandoned"
                                               ELSE Said(@, u.status),
                            ![u.task].ask = Said(@, u.ask)]
           \/ (UpdatesFail \/ ~exists) /\ UNCHANGED list
    /\ UNCHANGED <<tasks, active_node>>

ResultBash(c, is_error) ==
    /\ Answer(c)
    /\ c \in pending_bash
    /\ tasks' = IF is_error /\ active_node \in DOMAIN tasks
                THEN [tasks EXCEPT ![active_node] = Failed(@)]
                ELSE tasks
    /\ UNCHANGED <<active_node, list>>

ResultOther(c) ==
    /\ Answer(c)
    /\ calls[c].name \in {"AskUserQuestion", "Agent"}
    /\ UNCHANGED <<tasks, active_node, list>>

-----------------------------------------------------------------------------
Next ==
    \/ \E noise \in BOOLEAN : Prompt(noise)
    \/ \E needsInput \in BOOLEAN : Text(needsInput)
    \/ \E c \in Calls :
         \/ \E input \in CreateInput : UseCreate(c, input)
         \/ \E u \in UpdateInput : UseUpdate(c, u)
         \/ UseBox(c)
         \/ UseBash(c)
         \/ ResultCreated(c)
         \/ ResultNotCreated(c)
         \/ ResultUpdate(c)
         \/ \E is_error \in BOOLEAN : ResultBash(c, is_error)
    \/ \E c \in AgentCalls : UseAgent(c)
    \/ \E f \in Files : UseEdit(f)
    \/ \E c \in Calls \cup AgentCalls : ResultOther(c)

Spec == Init /\ [][Next]_vars

-----------------------------------------------------------------------------
(* The questions the session waits on the user to answer: _questions *)

StillAsksWhenDropped(node) == node.ask # "none" /\ node.status # "completed"
StillAsks(node) == node.ask # "none" /\ node.status \notin Finished

QuestionsWaiting(idle) ==
    {<<"box", c>> : c \in open_asks}
    \cup {<<"node", id, tasks[id].ask>> : id \in {i \in DOMAIN tasks : StillAsks(tasks[i])}}
    \cup (IF idle /\ last_text THEN {<<"needs-input">>} ELSE {})

\* The same from what is really so.
ReallyWaiting(idle) ==
    {<<"box", c>> : c \in Unanswered("AskUserQuestion")}
    \cup {<<"node", id, list[id].ask>> :
             id \in {i \in DOMAIN list : list[i].ask # "none" /\ list[i].status \notin Finished}}
    \cup (IF idle /\ asked THEN {<<"needs-input">>} ELSE {})

-----------------------------------------------------------------------------
(* Properties *)

\* Whenever no task call is under way, the nodes are Claude Code's tasks, with
\* the status and the question they have there: the calls were replayed into
\* the graph although their results were hardly looked at.
Mirrors ==
    TaskCalls = {} =>
        /\ DOMAIN tasks = DOMAIN list
        /\ \A id \in DOMAIN list :
             tasks[id].status = list[id].status /\ tasks[id].ask = list[id].ask

\* The reader waits for the answer of exactly the calls that have none.
BooksMatchCalls ==
    /\ DOMAIN pending_creates = Unanswered("TaskCreate")
    /\ \A c \in DOMAIN pending_creates : pending_creates[c] = calls[c]
    /\ open_asks = Unanswered("AskUserQuestion")
    /\ pending_bash = Unanswered("Bash")
    /\ {c \in DOMAIN spawns : ~spawns[c].ended} = Unanswered("Agent")

\* The node that work is attributed to exists and is not finished.
ActiveIsOpen ==
    active_node # NoTask => /\ active_node \in DOMAIN tasks
                            /\ tasks[active_node].status \notin Finished

\* A node's history ends in its status, so that the replay's last frame, which
\* is drawn from the histories, shows what the live picture shows.
HistoryTellsStatus ==
    \A id \in DOMAIN tasks :
        LET h == tasks[id].history IN h # <<>> /\ h[Len(h)] = tasks[id].status

\* What waits on the user is what is really unanswered: no question is lost,
\* and none stays after its answer, its node's end or the user's next word.
QuestionsAreReal ==
    TaskCalls = {} => \A idle \in BOOLEAN : QuestionsWaiting(idle) = ReallyWaiting(idle)

\* `An abandoned task is kept, not removed': no node disappears, no history is
\* rewritten, no start, end or dependency is taken back, and an agent that
\* finished does not run again.
NothingForgotten == [][
    /\ \A id \in DOMAIN tasks :
         /\ id \in DOMAIN tasks'
         /\ Len(tasks[id].history) <= Len(tasks'[id].history)
         /\ \A i \in 1 .. Len(tasks[id].history) : tasks'[id].history[i] = tasks[id].history[i]
         /\ tasks[id].blockedBy \subseteq tasks'[id].blockedBy
         /\ tasks[id].started => tasks'[id].started
         /\ tasks[id].ended => tasks'[id].ended
    /\ \A c \in DOMAIN spawns :
         /\ c \in DOMAIN spawns' /\ spawns'[c].node = spawns[c].node
         /\ spawns[c].ended => spawns'[c].ended ]_vars

\* Work done later is not put on a node that is finished.
FinishedKeepsItsRecord == [][
    \A id \in DOMAIN tasks :
        tasks[id].status \in Finished =>
            /\ tasks'[id].files = tasks[id].files
            /\ tasks'[id].failures = tasks[id].failures ]_vars
=============================================================================
