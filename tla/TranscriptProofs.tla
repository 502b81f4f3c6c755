-------------------------- MODULE TranscriptProofs --------------------------
(***************************************************************************)
(* What holds of every transcript.  Of its replay: whichever calls Claude  *)
(* Code makes at once and whichever of them it refuses.  Of its reading,   *)
(* at the end of the module: one reader at a time replays exactly the      *)
(* lines of the file, whatever a line can say and however long the file.   *)
(***************************************************************************)
EXTENDS TaskReplay, TranscriptReader, FiniteSetTheorems, TLAPS

IInv == TypeOK /\ BooksMatchCalls /\ ActiveIsOpen

-----------------------------------------------------------------------------
\* The node of an id is a node, the one in the dictionary if there is one.
LEMMA NodeOfType ==
    ASSUME ReplayAssumption, TypeOK, NEW id
    PROVE  /\ NodeOf(id) \in Node
           /\ id \in DOMAIN tasks => NodeOf(id) = tasks[id]
<1>1. NewNode \in Node
  BY DEF NewNode, Node, Asks, Status, ReplayAssumption
<1> QED
  BY <1>1 DEF NodeOf, TypeOK, IsDict

\* A created node is a node whose history has grown by `pending'.
LEMMA CreatedType ==
    ASSUME ReplayAssumption, TypeOK, NEW id, NEW input \in CreateInput
    PROVE  /\ Created(id, input) \in Node
           /\ Created(id, input) = [NodeOf(id) EXCEPT !.ask = Created(id, input).ask,
                                                      !.history = Append(@, "pending")]
<1> DEFINE n == NodeOf(id)
<1>1. n \in Node
  BY NodeOfType
<1>2. AskAfter(n.ask, input.ask) \in Asks
  BY <1>1 DEF AskAfter, CreateInput, Meta, Node
<1>3. Append(n.history, "pending") \in Seq(Status)
  BY <1>1 DEF Node, Status
<1> HIDE DEF n
<1> QED
  BY <1>1, <1>2, <1>3 DEF Created, Node, n

\* An updated node is a node; a status it was given is what it shows.
LEMMA UpdatedType ==
    ASSUME ReplayAssumption, TypeOK, NEW u \in UpdateInput
    PROVE  /\ Updated(u) \in Node
           /\ Updated(u).files = NodeOf(u.task).files
           /\ Updated(u).failures = NodeOf(u.task).failures
           /\ u.status = "unsaid" => Updated(u).status = NodeOf(u.task).status
           /\ u.status # "unsaid" => Updated(u).status = Shown(u.status)
<1> DEFINE n == NodeOf(u.task)
           named == [n EXCEPT !.ask = AskAfter(@, u.ask),
                              !.blockedBy = @ \cup u.blockedBy]
<1>1. n \in Node
  BY NodeOfType
<1>2. AskAfter(n.ask, u.ask) \in Asks
  BY <1>1 DEF AskAfter, UpdateInput, Meta, Node
<1>3. u.blockedBy \subseteq TaskIds
  BY DEF UpdateInput, ReplayAssumption
<1>4. named \in Node /\ named.status = n.status /\ named.files = n.files
      /\ named.failures = n.failures /\ named.history = n.history
  BY <1>1, <1>2, <1>3 DEF Node
<1>5. CASE u.status = "unsaid"
  BY <1>4, <1>5 DEF Updated
<1>6. CASE u.status # "unsaid"
  <2> DEFINE s == Shown(u.status)
  <2>1. s \in Status
    BY <1>6 DEF Shown, UpdateInput, Status
  <2>2. HistoryAfter(named.history, u.status) \in Seq(Status)
    <3>1. n.history \in Seq(Status) /\ named.history = n.history
      BY <1>1, <1>4 DEF Node
    <3> QED
      BY <2>1, <3>1 DEF HistoryAfter
  <2>3. Updated(u) = [named EXCEPT !.status = s,
                                   !.history = HistoryAfter(@, u.status),
                                   !.started = @ \/ s = "in_progress",
                                   !.ended = @ \/ s \in Finished]
    BY <1>6 DEF Updated
  <2> HIDE DEF named, s
  <2> QED
    BY <1>4, <1>6, <2>1, <2>2, <2>3 DEF Node, s
<1> QED
  BY <1>5, <1>6

\* The kinds of calls, told apart by their names.
LEMMA CallNames ==
    ASSUME TypeOK, NEW c \in DOMAIN calls
    PROVE  /\ calls[c].name = "TaskCreate" => calls[c] \in CreateInput
           /\ calls[c].name = "TaskUpdate" => calls[c] \in UpdateInput
           /\ c \in Calls \cup AgentCalls
BY DEF TypeOK, IsDict, CreateInput, UpdateInput, BoxInput, BashInput, AgentInput

AnyInput == CreateInput \cup UpdateInput \cup BoxInput \cup BashInput \cup AgentInput

\* What a call's line does to the calls without an answer.
LEMMA UseCalls ==
    ASSUME TypeOK, NEW c \in Calls \cup AgentCalls, NEW input \in AnyInput, Use(c, input)
    PROVE  /\ c \notin DOMAIN calls
           /\ IsDict(calls', Calls \cup AgentCalls, AnyInput)
           /\ calls'[c] = input
           /\ \A d \in DOMAIN calls : d # c /\ calls'[d] = calls[d]
           /\ \A n : Unanswered(n)' = Unanswered(n) \cup (IF input.name = n THEN {c} ELSE {})
           /\ UNCHANGED <<list, asked>>
<1>1. IsDict(calls, Calls \cup AgentCalls, AnyInput)
  BY DEF TypeOK, AnyInput
<1>2. c \notin DOMAIN calls /\ calls' = Put(calls, c, input) /\ UNCHANGED <<list, asked>>
  BY DEF Use
<1>3. /\ IsDict(calls', Calls \cup AgentCalls, AnyInput)
      /\ DOMAIN calls' = DOMAIN calls \cup {c}
      /\ calls'[c] = input
      /\ \A d \in DOMAIN calls : d # c => calls'[d] = calls[d]
  BY <1>1, <1>2 DEF Put, IsDict
<1>4. ASSUME NEW n
      PROVE  Unanswered(n)' = Unanswered(n) \cup (IF input.name = n THEN {c} ELSE {})
  BY <1>2, <1>3 DEF Unanswered
<1> QED
  BY <1>2, <1>3, <1>4

\* What a result's line does to the reader's books.
LEMMA AnswerBooks ==
    ASSUME ReplayAssumption, TypeOK, BooksMatchCalls, NEW c, Answer(c)
    PROVE  /\ BooksMatchCalls'
           /\ IsDict(calls', Calls \cup AgentCalls, AnyInput)
           /\ IsDict(pending_creates', Calls, CreateInput)
           /\ IsDict(spawns', AgentCalls, [node : TaskIds \cup {NoTask}, ended : BOOLEAN])
           /\ open_asks' \subseteq Calls /\ pending_bash' \subseteq Calls
           /\ DOMAIN spawns' = DOMAIN spawns
           /\ \A d \in DOMAIN spawns : /\ spawns'[d].node = spawns[d].node
                                       /\ spawns[d].ended => spawns'[d].ended
           /\ UNCHANGED <<last_text, asked, updates>>
<1>1. /\ c \in DOMAIN calls
      /\ calls' = Without(calls, c)
      /\ open_asks' = open_asks \ {c}
      /\ pending_bash' = pending_bash \ {c}
      /\ pending_creates' = Without(pending_creates, c)
      /\ spawns' = IF c \in DOMAIN spawns THEN [spawns EXCEPT ![c].ended = TRUE] ELSE spawns
      /\ UNCHANGED <<last_text, asked, updates>>
  BY DEF Answer, AsksAfter
<1>2. /\ IsDict(calls', Calls \cup AgentCalls, AnyInput)
      /\ DOMAIN calls' = DOMAIN calls \ {c}
      /\ \A d \in DOMAIN calls : d # c => calls'[d] = calls[d]
  <2>1. IsDict(calls, Calls \cup AgentCalls, AnyInput)
    BY DEF TypeOK, AnyInput
  <2> QED
    BY <1>1, <2>1 DEF Without, IsDict
<1>3. /\ IsDict(pending_creates', Calls, CreateInput)
      /\ DOMAIN pending_creates' = DOMAIN pending_creates \ {c}
      /\ \A d \in DOMAIN pending_creates : d # c => pending_creates'[d] = pending_creates[d]
  BY <1>1 DEF Without, IsDict, TypeOK
<1>4. \A n : Unanswered(n)' = Unanswered(n) \ {c}
  BY <1>2 DEF Unanswered
<1>5. /\ IsDict(spawns', AgentCalls, [node : TaskIds \cup {NoTask}, ended : BOOLEAN])
      /\ DOMAIN spawns' = DOMAIN spawns
      /\ \A d \in DOMAIN spawns : spawns'[d].node = spawns[d].node
      /\ \A d \in DOMAIN spawns : spawns'[d].ended <=> (spawns[d].ended \/ d = c)
  <2> DEFINE Spawn == [node : TaskIds \cup {NoTask}, ended : BOOLEAN]
  <2>1. /\ DOMAIN spawns \subseteq AgentCalls
        /\ spawns \in [DOMAIN spawns -> Spawn]
    BY DEF TypeOK, IsDict
  <2>2. CASE c \in DOMAIN spawns
    <3>1. /\ spawns[c] \in Spawn
          /\ spawns' = [spawns EXCEPT ![c] = [spawns[c] EXCEPT !.ended = TRUE]]
      BY <1>1, <2>1, <2>2
    <3>2. [spawns[c] EXCEPT !.ended = TRUE] \in Spawn
      BY <3>1
    <3> QED
      BY <2>1, <2>2, <3>1, <3>2 DEF IsDict
  <2>3. CASE c \notin DOMAIN spawns
    BY <1>1, <2>1, <2>3 DEF IsDict
  <2> QED
    BY <2>2, <2>3
<1>6. BooksMatchCalls'
  <2>1. DOMAIN pending_creates' = Unanswered("TaskCreate")'
    BY <1>3, <1>4 DEF BooksMatchCalls
  <2>2. \A d \in DOMAIN pending_creates' : pending_creates'[d] = calls'[d]
    BY <1>2, <1>3 DEF BooksMatchCalls, Unanswered
  <2>3. open_asks' = Unanswered("AskUserQuestion")' /\ pending_bash' = Unanswered("Bash")'
    BY <1>1, <1>4 DEF BooksMatchCalls
  <2>4. {d \in DOMAIN spawns' : ~spawns'[d].ended} = Unanswered("Agent")'
    BY <1>4, <1>5 DEF BooksMatchCalls
  <2> QED
    BY <2>1, <2>2, <2>3, <2>4 DEF BooksMatchCalls
<1> QED
  BY <1>1, <1>2, <1>3, <1>5, <1>6 DEF TypeOK

-----------------------------------------------------------------------------
\* What a node's change leaves alone: a task set to a node of the right type
\* whose status is not finished while it is active.
LEMMA PutTask ==
    ASSUME TypeOK, NEW id \in TaskIds, NEW node \in Node, tasks' = Put(tasks, id, node)
    PROVE  /\ IsDict(tasks', TaskIds, Node)
           /\ DOMAIN tasks' = DOMAIN tasks \cup {id}
           /\ tasks'[id] = node
           /\ \A x \in DOMAIN tasks : x # id => tasks'[x] = tasks[x]
BY DEF TypeOK, IsDict, Put

\* What each step does to the nodes: TypeOK and the two properties after it, and
\* that a finished node keeps its record.
StepGoal == /\ IInv'
            /\ \A id \in DOMAIN tasks :
                 /\ id \in DOMAIN tasks'
                 /\ tasks[id].status \in Finished =>
                      /\ tasks'[id].files = tasks[id].files
                      /\ tasks'[id].failures = tasks[id].failures

\* A prompt or a text changes no book and no node (_consume_prompt).
LEMMA SpeakStep ==
    ASSUME IInv, UNCHANGED <<tasks, pending_creates, active_node, open_asks, pending_bash,
                             spawns, calls, list, updates>>,
           last_text' \in BOOLEAN, asked' \in BOOLEAN
    PROVE  StepGoal
BY DEF IInv, StepGoal, TypeOK, BooksMatchCalls, ActiveIsOpen, Unanswered

\* A TaskCreate call is booked in pending_creates, and only there.
LEMMA UseCreateStep ==
    ASSUME ReplayAssumption, IInv, NEW c \in Calls, NEW input \in CreateInput, UseCreate(c, input)
    PROVE  StepGoal
<1>1. /\ Use(c, input) /\ pending_creates' = Put(pending_creates, c, input)
      /\ UNCHANGED <<tasks, active_node, open_asks, pending_bash, spawns, last_text, updates>>
  BY DEF UseCreate
<1>2. TypeOK /\ BooksMatchCalls /\ ActiveIsOpen /\ input \in AnyInput /\ c \in Calls \cup AgentCalls
  BY DEF IInv, AnyInput
<1>3. /\ c \notin DOMAIN calls
      /\ IsDict(calls', Calls \cup AgentCalls, AnyInput)
      /\ calls'[c] = input
      /\ \A d \in DOMAIN calls : d # c /\ calls'[d] = calls[d]
      /\ \A n : Unanswered(n)' = Unanswered(n) \cup (IF input.name = n THEN {c} ELSE {})
      /\ UNCHANGED <<list, asked>>
  BY <1>1, <1>2, UseCalls
<1>4. /\ IsDict(pending_creates', Calls, CreateInput)
      /\ DOMAIN pending_creates' = DOMAIN pending_creates \cup {c}
      /\ pending_creates'[c] = input
      /\ \A d \in DOMAIN pending_creates : d # c => pending_creates'[d] = pending_creates[d]
  BY <1>1, <1>2 DEF Put, IsDict, TypeOK
<1>5. TypeOK'
  BY <1>1, <1>2, <1>3, <1>4 DEF TypeOK, AnyInput
<1>6. input.name = "TaskCreate"
  BY DEF CreateInput
<1>7. BooksMatchCalls'
  <2>1. DOMAIN pending_creates' = Unanswered("TaskCreate")'
    BY <1>2, <1>3, <1>4, <1>6 DEF BooksMatchCalls
  <2>2. \A d \in DOMAIN pending_creates' : pending_creates'[d] = calls'[d]
    BY <1>2, <1>3, <1>4 DEF BooksMatchCalls, Unanswered
  <2>3. /\ open_asks' = Unanswered("AskUserQuestion")'
        /\ pending_bash' = Unanswered("Bash")'
        /\ {d \in DOMAIN spawns' : ~spawns'[d].ended} = Unanswered("Agent")'
    BY <1>1, <1>2, <1>3, <1>6 DEF BooksMatchCalls
  <2> QED
    BY <2>1, <2>2, <2>3 DEF BooksMatchCalls
<1>8. ActiveIsOpen'
  BY <1>1, <1>2 DEF ActiveIsOpen
<1> QED
  BY <1>1, <1>5, <1>7, <1>8 DEF IInv, StepGoal

\* A TaskUpdate call: the node it names exists afterwards, and the active node
\* is one that is not finished (_apply_update, _apply_status).
LEMMA UseUpdateStep ==
    ASSUME ReplayAssumption, IInv, NEW c \in Calls, NEW u \in UpdateInput, UseUpdate(c, u)
    PROVE  StepGoal
<1>1. /\ Use(c, u) /\ tasks' = Put(tasks, u.task, Updated(u)) /\ active_node' = ActiveAfter(u)
      /\ updates < MaxUpdates /\ updates' = updates + 1
      /\ UNCHANGED <<pending_creates, open_asks, pending_bash, spawns, last_text>>
  BY DEF UseUpdate, TasksAfter
<1>2. TypeOK /\ BooksMatchCalls /\ ActiveIsOpen /\ u \in AnyInput /\ c \in Calls \cup AgentCalls
  BY DEF IInv, AnyInput
<1>3. /\ c \notin DOMAIN calls
      /\ IsDict(calls', Calls \cup AgentCalls, AnyInput)
      /\ \A d \in DOMAIN calls : d # c /\ calls'[d] = calls[d]
      /\ \A n : Unanswered(n)' = Unanswered(n) \cup (IF u.name = n THEN {c} ELSE {})
      /\ UNCHANGED <<list, asked>>
  BY <1>1, <1>2, UseCalls
<1>4. u.task \in TaskIds /\ u.name = "TaskUpdate"
      /\ u.status \in {"unsaid", "pending", "in_progress", "completed", "deleted"}
  BY DEF UpdateInput
<1>5. /\ Updated(u) \in Node
      /\ Updated(u).files = NodeOf(u.task).files
      /\ Updated(u).failures = NodeOf(u.task).failures
      /\ u.status = "unsaid" => Updated(u).status = NodeOf(u.task).status
      /\ u.status # "unsaid" => Updated(u).status = Shown(u.status)
  BY <1>2, UpdatedType
<1>6. /\ IsDict(tasks', TaskIds, Node)
      /\ DOMAIN tasks' = DOMAIN tasks \cup {u.task}
      /\ tasks'[u.task] = Updated(u)
      /\ \A x \in DOMAIN tasks : x # u.task => tasks'[x] = tasks[x]
  BY <1>1, <1>2, <1>4, <1>5, PutTask
<1>7. u.task \in DOMAIN tasks => NodeOf(u.task) = tasks[u.task]
  BY DEF NodeOf
<1>8. TypeOK'
  <2>1. active_node' \in TaskIds \cup {NoTask}
    BY <1>1, <1>2, <1>4 DEF ActiveAfter, TypeOK
  <2>2. updates' \in 0 .. MaxUpdates
    BY <1>1, <1>2 DEF TypeOK, ReplayAssumption
  <2> QED
    BY <1>1, <1>2, <1>3, <1>6, <2>1, <2>2 DEF TypeOK, AnyInput
<1>9. BooksMatchCalls'
  <2>1. \A n \in {"TaskCreate", "AskUserQuestion", "Bash", "Agent"} : Unanswered(n)' = Unanswered(n)
    BY <1>3, <1>4
  <2>2. \A d \in DOMAIN pending_creates' : pending_creates'[d] = calls'[d]
    BY <1>1, <1>2, <1>3 DEF BooksMatchCalls, Unanswered
  <2> QED
    BY <1>1, <1>2, <2>1, <2>2 DEF BooksMatchCalls
<1>10. ActiveIsOpen'
  <2>1. CASE u.status = "in_progress"
    BY <1>1, <1>5, <1>6, <2>1 DEF ActiveAfter, ActiveIsOpen, Shown, Finished
  <2>2. CASE u.status \in {"completed", "deleted"}
    <3>1. active_node' = IF active_node = u.task THEN NoTask ELSE active_node
      BY <1>1, <2>2 DEF ActiveAfter
    <3> QED
      BY <1>2, <1>6, <3>1 DEF ActiveIsOpen
  <2>3. CASE u.status \in {"unsaid", "pending"}
    <3>1. active_node' = active_node
      BY <1>1, <2>3 DEF ActiveAfter
    <3> QED
      BY <1>2, <1>5, <1>6, <1>7, <2>3, <3>1 DEF ActiveIsOpen, Shown, Finished
  <2> QED
    BY <1>4, <2>1, <2>2, <2>3
<1> QED
  BY <1>5, <1>6, <1>7, <1>8, <1>9, <1>10 DEF IInv, StepGoal

\* A question box is booked in open_asks, and only there.
LEMMA UseBoxStep ==
    ASSUME ReplayAssumption, IInv, NEW c \in Calls, UseBox(c)
    PROVE  StepGoal
<1> DEFINE input == [name |-> "AskUserQuestion"]
<1>1. /\ Use(c, input)
      /\ open_asks' = open_asks \cup {c}
      /\ UNCHANGED <<tasks, pending_creates, active_node, pending_bash, spawns, last_text, updates>>
  BY DEF UseBox
<1>2. TypeOK /\ BooksMatchCalls /\ ActiveIsOpen /\ input \in AnyInput /\ c \in Calls \cup AgentCalls
  BY DEF IInv, AnyInput, BoxInput
<1>3. /\ c \notin DOMAIN calls
      /\ IsDict(calls', Calls \cup AgentCalls, AnyInput)
      /\ \A d \in DOMAIN calls : d # c /\ calls'[d] = calls[d]
      /\ \A n : Unanswered(n)' = Unanswered(n) \cup (IF input.name = n THEN {c} ELSE {})
      /\ UNCHANGED <<list, asked>>
  <2> HIDE DEF input
  <2> QED
    BY <1>1, <1>2, UseCalls
<1>4. /\ Unanswered("AskUserQuestion")' = Unanswered("AskUserQuestion") \cup {c}
      /\ \A n \in {"TaskCreate", "AskUserQuestion", "Bash", "Agent"} \ {"AskUserQuestion"} :
            Unanswered(n)' = Unanswered(n)
  BY <1>3
<1>5. \A d \in DOMAIN pending_creates : calls'[d] = calls[d]
  BY <1>2, <1>3 DEF BooksMatchCalls, Unanswered
<1>6. TypeOK'
  BY <1>1, <1>2, <1>3 DEF TypeOK, AnyInput
<1>7. BooksMatchCalls' /\ ActiveIsOpen'
  BY <1>1, <1>2, <1>4, <1>5 DEF BooksMatchCalls, ActiveIsOpen
<1> QED
  BY <1>1, <1>6, <1>7 DEF IInv, StepGoal

\* A command is booked in pending_bash, and only there.
LEMMA UseBashStep ==
    ASSUME ReplayAssumption, IInv, NEW c \in Calls, UseBash(c)
    PROVE  StepGoal
<1> DEFINE input == [name |-> "Bash"]
<1>1. /\ Use(c, input)
      /\ pending_bash' = pending_bash \cup {c}
      /\ UNCHANGED <<tasks, pending_creates, active_node, open_asks, spawns, last_text, updates>>
  BY DEF UseBash
<1>2. TypeOK /\ BooksMatchCalls /\ ActiveIsOpen /\ input \in AnyInput /\ c \in Calls \cup AgentCalls
  BY DEF IInv, AnyInput, BashInput
<1>3. /\ c \notin DOMAIN calls
      /\ IsDict(calls', Calls \cup AgentCalls, AnyInput)
      /\ \A d \in DOMAIN calls : d # c /\ calls'[d] = calls[d]
      /\ \A n : Unanswered(n)' = Unanswered(n) \cup (IF input.name = n THEN {c} ELSE {})
      /\ UNCHANGED <<list, asked>>
  <2> HIDE DEF input
  <2> QED
    BY <1>1, <1>2, UseCalls
<1>4. /\ Unanswered("Bash")' = Unanswered("Bash") \cup {c}
      /\ \A n \in {"TaskCreate", "AskUserQuestion", "Bash", "Agent"} \ {"Bash"} :
            Unanswered(n)' = Unanswered(n)
  BY <1>3
<1>5. \A d \in DOMAIN pending_creates : calls'[d] = calls[d]
  BY <1>2, <1>3 DEF BooksMatchCalls, Unanswered
<1>6. TypeOK'
  BY <1>1, <1>2, <1>3 DEF TypeOK, AnyInput
<1>7. BooksMatchCalls' /\ ActiveIsOpen'
  BY <1>1, <1>2, <1>4, <1>5 DEF BooksMatchCalls, ActiveIsOpen
<1> QED
  BY <1>1, <1>6, <1>7 DEF IInv, StepGoal

\* An Agent call is booked in spawns as running, and only there.
LEMMA UseAgentStep ==
    ASSUME ReplayAssumption, IInv, NEW c \in AgentCalls, UseAgent(c)
    PROVE  StepGoal
<1> DEFINE input == [name |-> "Agent"]
<1>1. /\ Use(c, input)
      /\ c \notin DOMAIN spawns /\ spawns' = Put(spawns, c, [node |-> active_node, ended |-> FALSE])
      /\ UNCHANGED <<tasks, pending_creates, active_node, open_asks, pending_bash, last_text, updates>>
  BY DEF UseAgent
<1>2. TypeOK /\ BooksMatchCalls /\ ActiveIsOpen /\ input \in AnyInput /\ c \in Calls \cup AgentCalls
  BY DEF IInv, AnyInput, AgentInput
<1>3. /\ c \notin DOMAIN calls
      /\ IsDict(calls', Calls \cup AgentCalls, AnyInput)
      /\ \A d \in DOMAIN calls : d # c /\ calls'[d] = calls[d]
      /\ \A n : Unanswered(n)' = Unanswered(n) \cup (IF input.name = n THEN {c} ELSE {})
      /\ UNCHANGED <<list, asked>>
  <2> HIDE DEF input
  <2> QED
    BY <1>1, <1>2, UseCalls
<1>4. /\ Unanswered("Agent")' = Unanswered("Agent") \cup {c}
      /\ \A n \in {"TaskCreate", "AskUserQuestion", "Bash", "Agent"} \ {"Agent"} :
            Unanswered(n)' = Unanswered(n)
  BY <1>3
<1>5. \A d \in DOMAIN pending_creates : calls'[d] = calls[d]
  BY <1>2, <1>3 DEF BooksMatchCalls, Unanswered
<1>6. /\ IsDict(spawns', AgentCalls, [node : TaskIds \cup {NoTask}, ended : BOOLEAN])
      /\ DOMAIN spawns' = DOMAIN spawns \cup {c}
      /\ spawns'[c] = [node |-> active_node, ended |-> FALSE]
      /\ \A d \in DOMAIN spawns : spawns'[d] = spawns[d]
  BY <1>1, <1>2 DEF Put, IsDict, TypeOK
<1>7. TypeOK'
  BY <1>1, <1>2, <1>3, <1>6 DEF TypeOK, AnyInput
<1>8. {d \in DOMAIN spawns' : ~spawns'[d].ended} = {d \in DOMAIN spawns : ~spawns[d].ended} \cup {c}
  <2>1. spawns'[c].ended = FALSE
    BY <1>6
  <2> QED
    BY <1>1, <1>6, <2>1
<1>9. BooksMatchCalls' /\ ActiveIsOpen'
  BY <1>1, <1>2, <1>4, <1>5, <1>8 DEF BooksMatchCalls, ActiveIsOpen
<1> QED
  BY <1>1, <1>7, <1>9 DEF IInv, StepGoal

\* An edit touches the files of the active node alone.
LEMMA UseEditStep ==
    ASSUME ReplayAssumption, IInv, NEW f \in Files, UseEdit(f)
    PROVE  StepGoal
<1> DEFINE id == active_node
           node == [tasks[id] EXCEPT !.files = @ \cup {f}]
<1>1. /\ id \in DOMAIN tasks /\ tasks' = [tasks EXCEPT ![id] = node]
      /\ UNCHANGED <<pending_creates, active_node, open_asks, pending_bash, spawns, last_text,
                     calls, list, asked, updates>>
  BY DEF UseEdit
<1>2. TypeOK /\ BooksMatchCalls /\ ActiveIsOpen
  BY DEF IInv
<1>3. id \in TaskIds /\ tasks[id] \in Node
  BY <1>1, <1>2 DEF TypeOK, IsDict
<1>4. node \in Node /\ node.status = tasks[id].status
  BY <1>3 DEF Node
<1> HIDE DEF node
<1>5. tasks[id].status \notin Finished
  BY <1>2, <1>3 DEF ActiveIsOpen, NoTask, TaskIds
<1>6. IsDict(tasks', TaskIds, Node)
  BY <1>1, <1>2, <1>4 DEF TypeOK, IsDict
<1>7. TypeOK' /\ BooksMatchCalls'
  BY <1>1, <1>2, <1>6 DEF TypeOK, BooksMatchCalls, Unanswered
<1>8. ActiveIsOpen'
  BY <1>1, <1>2, <1>4, <1>5 DEF ActiveIsOpen
<1> QED
  BY <1>1, <1>2, <1>5, <1>7, <1>8 DEF IInv, StepGoal

\* The answer that creates a task takes the call out of the books and makes or
\* completes its node (_consume_result, _apply_create).
LEMMA ResultCreatedStep ==
    ASSUME ReplayAssumption, IInv, NEW c \in Calls, ResultCreated(c)
    PROVE  StepGoal
<1> DEFINE id == NextTask
           node == Created(id, pending_creates[c])
<1>1. /\ Answer(c) /\ c \in DOMAIN pending_creates
      /\ tasks' = Put(tasks, id, node)
      /\ list' = Put(list, id, [status |-> "pending", ask |-> Said("none", calls[c].ask)])
      /\ UNCHANGED active_node
  BY DEF ResultCreated
<1>2. TypeOK /\ BooksMatchCalls /\ ActiveIsOpen
  BY DEF IInv
<1>3. /\ BooksMatchCalls'
      /\ IsDict(calls', Calls \cup AgentCalls, AnyInput)
      /\ IsDict(pending_creates', Calls, CreateInput)
      /\ IsDict(spawns', AgentCalls, [node : TaskIds \cup {NoTask}, ended : BOOLEAN])
      /\ open_asks' \subseteq Calls /\ pending_bash' \subseteq Calls
      /\ UNCHANGED <<last_text, asked, updates>>
  BY <1>1, <1>2, AnswerBooks
<1>4. pending_creates[c] \in CreateInput /\ calls[c] = pending_creates[c]
  BY <1>1, <1>2 DEF TypeOK, IsDict, BooksMatchCalls
<1>5. node \in Node /\ node = [NodeOf(id) EXCEPT !.ask = node.ask, !.history = Append(@, "pending")]
  BY <1>2, <1>4, CreatedType
<1>6. NodeOf(id) \in Node /\ (id \in DOMAIN tasks => NodeOf(id) = tasks[id])
  BY <1>2, NodeOfType
<1>7. /\ node.status = NodeOf(id).status
      /\ node.files = NodeOf(id).files
      /\ node.failures = NodeOf(id).failures
  BY <1>5, <1>6 DEF Node
<1>8. Said("none", calls[c].ask) \in Asks
  BY <1>4 DEF Said, CreateInput, Meta, Asks
<1> HIDE DEF node, id
<1> id \in TaskIds
  BY DEF id, ResultCreated
<1>9. /\ IsDict(tasks', TaskIds, Node)
      /\ DOMAIN tasks' = DOMAIN tasks \cup {id}
      /\ tasks'[id] = node
      /\ \A x \in DOMAIN tasks : x # id => tasks'[x] = tasks[x]
  BY <1>1, <1>2, <1>5, PutTask
<1>10. IsDict(list', TaskIds, [status : Status, ask : Asks])
  BY <1>1, <1>2, <1>8 DEF TypeOK, IsDict, Put, Status
<1>11. TypeOK'
  BY <1>1, <1>2, <1>3, <1>9, <1>10 DEF TypeOK, AnyInput
<1>12. ActiveIsOpen'
  BY <1>1, <1>2, <1>6, <1>7, <1>9 DEF ActiveIsOpen
<1> QED
  BY <1>3, <1>6, <1>7, <1>9, <1>11, <1>12 DEF IInv, StepGoal

\* An answer that leaves the nodes alone.
LEMMA PlainAnswerStep ==
    ASSUME ReplayAssumption, IInv, NEW c, Answer(c), UNCHANGED <<tasks, active_node>>,
           IsDict(list', TaskIds, [status : Status, ask : Asks])
    PROVE  StepGoal
<1>1. TypeOK /\ BooksMatchCalls /\ ActiveIsOpen
  BY DEF IInv
<1>2. /\ BooksMatchCalls'
      /\ IsDict(calls', Calls \cup AgentCalls, AnyInput)
      /\ IsDict(pending_creates', Calls, CreateInput)
      /\ IsDict(spawns', AgentCalls, [node : TaskIds \cup {NoTask}, ended : BOOLEAN])
      /\ open_asks' \subseteq Calls /\ pending_bash' \subseteq Calls
      /\ UNCHANGED <<last_text, asked, updates>>
  BY <1>1, AnswerBooks
<1>3. TypeOK'
  BY <1>1, <1>2 DEF TypeOK, AnyInput
<1>4. ActiveIsOpen'
  BY <1>1 DEF ActiveIsOpen
<1> QED
  BY <1>2, <1>3, <1>4 DEF IInv, StepGoal

\* The answer to an update changes Claude Code's list, and no node.
LEMMA ResultUpdateStep ==
    ASSUME ReplayAssumption, IInv, NEW c \in Calls, ResultUpdate(c)
    PROVE  StepGoal
<1> DEFINE u == calls[c]
<1>1. TypeOK /\ Answer(c) /\ c \in DOMAIN calls /\ u.name = "TaskUpdate"
      /\ UNCHANGED <<tasks, active_node>>
  BY DEF IInv, ResultUpdate, Answer
<1>2. u \in UpdateInput
  BY <1>1, CallNames
<1>3. IsDict(list', TaskIds, [status : Status, ask : Asks])
  <2> DEFINE status == IF u.status = "deleted" THEN "abandoned"
                       ELSE Said(list[u.task].status, u.status)
             ask == Said(list[u.task].ask, u.ask)
  <2>1. \/ list' = list
        \/ /\ u.task \in DOMAIN list
           /\ list' = [list EXCEPT ![u.task].status = status, ![u.task].ask = ask]
    BY DEF ResultUpdate
  <2>2. CASE list' = list
    BY <1>1, <2>2 DEF TypeOK
  <2>3. CASE /\ u.task \in DOMAIN list
             /\ list' = [list EXCEPT ![u.task].status = status, ![u.task].ask = ask]
    <3>1. list[u.task] \in [status : Status, ask : Asks]
      BY <1>1, <2>3 DEF TypeOK, IsDict
    <3>2. status \in Status /\ ask \in Asks
      BY <1>2, <3>1 DEF Said, UpdateInput, Meta, Asks, Status
    <3> HIDE DEF status, ask
    <3> QED
      BY <1>1, <2>3, <3>1, <3>2 DEF TypeOK, IsDict
  <2> QED
    BY <2>1, <2>2, <2>3
<1> QED
  BY <1>1, <1>3, PlainAnswerStep

\* The answer to a command counts a failure on the active node at most.
LEMMA ResultBashStep ==
    ASSUME ReplayAssumption, IInv, NEW c \in Calls, NEW is_error \in BOOLEAN, ResultBash(c, is_error)
    PROVE  StepGoal
<1> DEFINE id == active_node
<1>1. TypeOK /\ BooksMatchCalls /\ ActiveIsOpen
  BY DEF IInv
<1>2. Answer(c) /\ UNCHANGED <<active_node, list>>
  BY DEF ResultBash
<1>3. CASE is_error /\ id \in DOMAIN tasks
  <2> DEFINE node == Failed(tasks[id])
  <2>1. tasks' = [tasks EXCEPT ![id] = node]
    BY <1>3 DEF ResultBash
  <2>2. id \in TaskIds /\ tasks[id] \in Node
    BY <1>1, <1>3 DEF TypeOK, IsDict
  <2>3. node \in Node /\ node.status = tasks[id].status
    BY <2>2 DEF Failed, Node, ReplayAssumption
  <2>4. tasks[id].status \notin Finished
    BY <1>1, <2>2 DEF ActiveIsOpen, NoTask, TaskIds
  <2> HIDE DEF node
  <2>5. IsDict(tasks', TaskIds, Node)
    BY <1>1, <2>1, <2>3 DEF TypeOK, IsDict
  <2>6. /\ BooksMatchCalls'
        /\ IsDict(calls', Calls \cup AgentCalls, AnyInput)
        /\ IsDict(pending_creates', Calls, CreateInput)
        /\ IsDict(spawns', AgentCalls, [node : TaskIds \cup {NoTask}, ended : BOOLEAN])
        /\ open_asks' \subseteq Calls /\ pending_bash' \subseteq Calls
        /\ UNCHANGED <<last_text, asked, updates>>
    BY <1>1, <1>2, AnswerBooks
  <2>7. TypeOK'
    BY <1>1, <1>2, <2>5, <2>6 DEF TypeOK, AnyInput
  <2>8. ActiveIsOpen'
    BY <1>1, <1>2, <1>3, <2>1, <2>3, <2>4 DEF ActiveIsOpen
  <2> QED
    BY <1>1, <2>1, <2>4, <2>6, <2>7, <2>8 DEF IInv, StepGoal
<1>4. CASE ~(is_error /\ id \in DOMAIN tasks)
  <2>1. UNCHANGED tasks
    BY <1>4 DEF ResultBash
  <2> QED
    BY <1>1, <1>2, <2>1, PlainAnswerStep DEF TypeOK
<1> QED
  BY <1>3, <1>4

\* Every step keeps the invariant, and no step writes on a finished node.
LEMMA EveryStep ==
    ASSUME ReplayAssumption, IInv, Next
    PROVE  StepGoal
<1>1. ASSUME NEW noise \in BOOLEAN, Prompt(noise)
      PROVE  StepGoal
  <2>1. last_text' \in BOOLEAN /\ asked' \in BOOLEAN
    BY <1>1 DEF Prompt, IInv, TypeOK
  <2> QED
    BY <1>1, <2>1, SpeakStep DEF Prompt
<1>2. ASSUME NEW needsInput \in BOOLEAN, Text(needsInput)
      PROVE  StepGoal
  BY <1>2, SpeakStep DEF Text
<1>3. ASSUME NEW c \in Calls, ResultNotCreated(c)
      PROVE  StepGoal
  BY <1>3, PlainAnswerStep DEF ResultNotCreated, IInv, TypeOK
<1>4. ASSUME NEW c \in Calls \cup AgentCalls, ResultOther(c)
      PROVE  StepGoal
  BY <1>4, PlainAnswerStep DEF ResultOther, IInv, TypeOK
<1> QED
  BY <1>1, <1>2, <1>3, <1>4, UseCreateStep, UseUpdateStep, UseBoxStep, UseBashStep,
     UseAgentStep, UseEditStep, ResultCreatedStep, ResultUpdateStep, ResultBashStep
  DEF Next

\* An empty reader and no calls satisfy the invariant.
LEMMA InitIInv ==
    ASSUME ReplayAssumption, Init
    PROVE  IInv
<1>1. /\ tasks = Empty /\ pending_creates = Empty /\ spawns = Empty
      /\ calls = Empty /\ list = Empty /\ updates = 0 /\ active_node = NoTask
      /\ open_asks = {} /\ pending_bash = {} /\ last_text = FALSE /\ asked = FALSE
  BY DEF Init
<1>2. DOMAIN Empty = {} /\ \A K, V : IsDict(Empty, K, V)
  BY DEF Empty, IsDict
<1>3. 0 \in 0 .. MaxUpdates
  BY DEF ReplayAssumption
<1>4. TypeOK
  BY <1>1, <1>2, <1>3 DEF TypeOK
<1>5. BooksMatchCalls
  BY <1>1, <1>2 DEF BooksMatchCalls, Unanswered
<1>6. ActiveIsOpen
  BY <1>1 DEF ActiveIsOpen
<1> QED
  BY <1>4, <1>5, <1>6 DEF IInv

\* A step that changes nothing keeps the invariant.
LEMMA StutterIInv ==
    ASSUME IInv, UNCHANGED vars
    PROVE  IInv'
BY DEF IInv, vars, reader, TypeOK, BooksMatchCalls, Unanswered, ActiveIsOpen

-----------------------------------------------------------------------------
\* The inductive invariant of the replay.
THEOREM InductiveInvariant ==
    ASSUME ReplayAssumption
    PROVE  Spec => []IInv
<1>1. Init => IInv
  BY InitIInv
<1>2. IInv /\ [Next]_vars => IInv'
  BY EveryStep, StutterIInv DEF StepGoal
<1> QED
  BY <1>1, <1>2, PTL DEF Spec

\* The reader's fields keep their types, MAX_TRACKED included.
THEOREM TypesHold ==
    ASSUME ReplayAssumption
    PROVE  Spec => []TypeOK
<1>1. IInv => TypeOK
  BY DEF IInv
<1> QED
  BY <1>1, InductiveInvariant, PTL

\* The reader waits for the answers of exactly the calls that have none: a box
\* is shown as waiting if and only if it was not answered.
THEOREM BooksAreRight ==
    ASSUME ReplayAssumption
    PROVE  Spec => []BooksMatchCalls
<1>1. IInv => BooksMatchCalls
  BY DEF IInv
<1> QED
  BY <1>1, InductiveInvariant, PTL

\* Work is only ever attributed to a node that exists and is not finished.
THEOREM ActiveStaysOpen ==
    ASSUME ReplayAssumption
    PROVE  Spec => []ActiveIsOpen
<1>1. IInv => ActiveIsOpen
  BY DEF IInv
<1> QED
  BY <1>1, InductiveInvariant, PTL

\* A finished node's files and failures do not change while it is finished.
THEOREM FinishedRecordsStay ==
    ASSUME ReplayAssumption
    PROVE  Spec => FinishedKeepsItsRecord
<1> DEFINE Stays == \A id \in DOMAIN tasks :
                      tasks[id].status \in Finished =>
                          /\ tasks'[id].files = tasks[id].files
                          /\ tasks'[id].failures = tasks[id].failures
<1>1. IInv /\ [Next]_vars => [Stays]_vars
  BY EveryStep DEF StepGoal
<1> QED
  BY <1>1, InductiveInvariant, PTL DEF Spec, FinishedKeepsItsRecord

-----------------------------------------------------------------------------
(* One task call at a time, each accepted: the nodes mirror the task list *)

OneByOne == ~Parallel /\ ~UpdatesFail

\* The status that a task has once the update u of it is answered.
ListedStatus(u) == IF u.status = "deleted" THEN "abandoned" ELSE Said(list[u.task].status, u.status)
UnderWay(id) == \E c \in Unanswered("TaskUpdate") : calls[c].task = id
Agrees(id) == tasks[id].status = list[id].status /\ tasks[id].ask = list[id].ask

\* The ids are 1, 2, 3, ... so that a created task gets a node of its own; and
\* while an update waits for its answer, its node is ahead of the task list by it.
Numbered(ids) == \E n \in Nat : ids = 1 .. n
Ahead(u) == /\ u.task \in DOMAIN list /\ list[u.task].status # "abandoned"
            /\ tasks[u.task].status = ListedStatus(u)
            /\ tasks[u.task].ask = Said(list[u.task].ask, u.ask)
MirrorInv ==
    /\ DOMAIN tasks = DOMAIN list /\ Numbered(DOMAIN list)
    /\ \A c, d \in TaskCalls : c = d
    /\ \A id \in DOMAIN list : UnderWay(id) \/ Agrees(id)
    /\ \A c \in Unanswered("TaskUpdate") : Ahead(calls[c])
    /\ HistoryTellsStatus
    /\ last_text = asked

\* What an answer does to the calls without one.
LEMMA AnswerCalls ==
    ASSUME TypeOK, NEW c, Answer(c)
    PROVE  /\ c \in DOMAIN calls
           /\ \A d \in DOMAIN calls : d # c => calls'[d] = calls[d]
           /\ \A n : Unanswered(n)' = Unanswered(n) \ {c}
<1>1. c \in DOMAIN calls /\ calls' = Without(calls, c)
  BY DEF Answer
<1>2. DOMAIN calls' = DOMAIN calls \ {c} /\ \A d \in DOMAIN calls : d # c => calls'[d] = calls[d]
  BY <1>1 DEF Without
<1>3. \A n : Unanswered(n)' = Unanswered(n) \ {c}
  BY <1>2 DEF Unanswered
<1> QED
  BY <1>1, <1>2, <1>3

\* The nodes' names, questions and histories stay.
SameNodes ==
    /\ DOMAIN tasks' = DOMAIN tasks
    /\ \A id \in DOMAIN tasks : /\ tasks'[id].status = tasks[id].status
                                /\ tasks'[id].ask = tasks[id].ask
                                /\ tasks'[id].history = tasks[id].history

\* A step that neither makes nor answers an update.
LEMMA MirrorStays ==
    ASSUME MirrorInv, SameNodes, list' = list, last_text' = asked',
           \A c, d \in TaskCalls' : c = d,
           Unanswered("TaskUpdate")' = Unanswered("TaskUpdate"),
           \A c \in Unanswered("TaskUpdate") : calls'[c] = calls[c]
    PROVE  MirrorInv'
<1>1. \A id \in DOMAIN list : (UnderWay(id) => UnderWay(id)') /\ (Agrees(id) => Agrees(id)')
  BY DEF MirrorInv, UnderWay, Agrees, SameNodes
<1>2. (\A c \in Unanswered("TaskUpdate") : Ahead(calls[c]))'
  BY DEF MirrorInv, Ahead, ListedStatus, SameNodes
<1>3. HistoryTellsStatus'
  BY DEF MirrorInv, HistoryTellsStatus, SameNodes
<1>4. (DOMAIN tasks = DOMAIN list /\ Numbered(DOMAIN list))'
  BY DEF MirrorInv, SameNodes, Numbered
<1>5. (\A id \in DOMAIN list : UnderWay(id) \/ Agrees(id))'
  BY <1>1 DEF MirrorInv
<1> QED
  BY <1>2, <1>3, <1>4, <1>5 DEF MirrorInv

\* Whatever is used or answered beside the task calls.
LEMMA OtherUseMirrors ==
    ASSUME IInv, MirrorInv, UNCHANGED <<tasks, last_text>>, NEW c \in Calls \cup AgentCalls,
           NEW input \in BoxInput \cup BashInput \cup AgentInput, Use(c, input)
    PROVE  MirrorInv'
<1>1. TypeOK /\ input \in AnyInput /\ input.name \notin {"TaskCreate", "TaskUpdate"}
  BY DEF IInv, AnyInput, BoxInput, BashInput, AgentInput
<1>2. /\ c \notin DOMAIN calls
      /\ \A d \in DOMAIN calls : d # c /\ calls'[d] = calls[d]
      /\ \A n : Unanswered(n)' = Unanswered(n) \cup (IF input.name = n THEN {c} ELSE {})
      /\ UNCHANGED <<list, asked>>
  BY <1>1, UseCalls
<1>3. \A n \in {"TaskCreate", "TaskUpdate"} : Unanswered(n)' = Unanswered(n)
  BY <1>1, <1>2
<1>4. \A d \in Unanswered("TaskUpdate") : calls'[d] = calls[d]
  BY <1>2 DEF Unanswered
<1>5. SameNodes /\ last_text' = asked'
  BY <1>2 DEF SameNodes, MirrorInv
<1>6. \A d, e \in TaskCalls' : d = e
  BY <1>3 DEF MirrorInv, TaskCalls
<1> QED
  BY <1>2, <1>3, <1>4, <1>5, <1>6, MirrorStays
LEMMA OtherAnswerMirrors ==
    ASSUME IInv, MirrorInv, SameNodes, list' = list, NEW c, Answer(c),
           calls[c].name # "TaskUpdate"
    PROVE  MirrorInv'
<1>1. /\ c \in DOMAIN calls
      /\ \A d \in DOMAIN calls : d # c => calls'[d] = calls[d]
      /\ \A n : Unanswered(n)' = Unanswered(n) \ {c}
  BY AnswerCalls DEF IInv
<1>2. c \notin Unanswered("TaskUpdate")
  BY DEF Unanswered
<1>3. Unanswered("TaskUpdate")' = Unanswered("TaskUpdate")
  BY <1>1, <1>2
<1>4. \A d \in Unanswered("TaskUpdate") : calls'[d] = calls[d]
  BY <1>1, <1>2 DEF Unanswered
<1>5. \A d, e \in TaskCalls' : d = e
  BY <1>1 DEF MirrorInv, TaskCalls
<1>6. last_text' = asked'
  BY DEF Answer, MirrorInv
<1> QED
  BY <1>3, <1>4, <1>5, <1>6, MirrorStays

\* A call to create a task, which changes no node yet, and one that failed.
LEMMA UseCreateMirrors ==
    ASSUME OneByOne, IInv, MirrorInv, NEW c \in Calls, NEW input \in CreateInput, UseCreate(c, input)
    PROVE  MirrorInv'
<1>1. /\ Use(c, input) /\ TaskCalls = {} /\ UNCHANGED <<tasks, last_text>>
      /\ input \in AnyInput /\ input.name = "TaskCreate" /\ TypeOK
  BY DEF UseCreate, MayCallTask, OneByOne, AnyInput, CreateInput, IInv
<1>2. /\ \A d \in DOMAIN calls : d # c /\ calls'[d] = calls[d]
      /\ \A n : Unanswered(n)' = Unanswered(n) \cup (IF input.name = n THEN {c} ELSE {})
      /\ UNCHANGED <<list, asked>>
  BY <1>1, UseCalls
<1>3. Unanswered("TaskUpdate")' = {} /\ Unanswered("TaskUpdate") = {}
      /\ Unanswered("TaskCreate")' = {c}
  BY <1>1, <1>2 DEF TaskCalls
<1>4. SameNodes /\ last_text' = asked'
  BY <1>1, <1>2 DEF SameNodes, MirrorInv
<1>5. \A d, e \in TaskCalls' : d = e
  BY <1>3 DEF TaskCalls
<1> QED
  BY <1>2, <1>3, <1>4, <1>5, MirrorStays

\* What an update makes of a node: the status, the question, and a history that
\* ends in the status.
LEMMA UpdatedTells ==
    ASSUME ReplayAssumption, TypeOK, NEW u \in UpdateInput, u.task \in DOMAIN tasks,
           tasks[u.task].history # <<>>,
           tasks[u.task].history[Len(tasks[u.task].history)] = tasks[u.task].status
    PROVE  LET node == Updated(u) IN
           /\ node.ask = AskAfter(tasks[u.task].ask, u.ask)
           /\ node.status = IF u.status = "unsaid" THEN tasks[u.task].status ELSE Shown(u.status)
           /\ node.history # <<>> /\ node.history[Len(node.history)] = node.status
<1> DEFINE n == tasks[u.task]
           named == [n EXCEPT !.ask = AskAfter(@, u.ask), !.blockedBy = @ \cup u.blockedBy]
<1>1. n \in Node /\ NodeOf(u.task) = n
  BY DEF TypeOK, IsDict, NodeOf
<1>2. named.ask = AskAfter(n.ask, u.ask) /\ named.status = n.status /\ named.history = n.history
      /\ DOMAIN named = DOMAIN n
  BY <1>1 DEF Node
<1>3. CASE u.status = "unsaid"
  BY <1>1, <1>2, <1>3 DEF Updated
<1>4. CASE u.status # "unsaid"
  <2> DEFINE s == Shown(u.status)
             h == HistoryAfter(named.history, u.status)
  <2>1. Updated(u) = [named EXCEPT !.status = s, !.history = h,
                                   !.started = @ \/ s = "in_progress", !.ended = @ \/ s \in Finished]
    BY <1>1, <1>4 DEF Updated
  <2>2. n.history \in Seq(Status) /\ s \in Status
    BY <1>1, <1>4 DEF Node, Shown, UpdateInput, Status
  <2>3. h # <<>> /\ h[Len(h)] = s
    BY <1>2, <2>2 DEF HistoryAfter
  <2>4. DOMAIN n = {"status", "history", "ask", "blockedBy", "started", "ended", "files", "failures"}
    BY <1>1 DEF Node
  <2> HIDE DEF named, s, h, n
  <2>5. /\ Updated(u).ask = named.ask /\ Updated(u).status = s /\ Updated(u).history = h
    BY <1>2, <2>1, <2>4
  <2> QED
    BY <1>2, <1>4, <2>3, <2>5 DEF s, n
<1> QED
  BY <1>3, <1>4

\* An update's call changes its node before the task list.
LEMMA UseUpdateMirrors ==
    ASSUME ReplayAssumption, OneByOne, IInv, MirrorInv,
           NEW c \in Calls, NEW u \in UpdateInput, UseUpdate(c, u)
    PROVE  MirrorInv'
<1> DEFINE id == u.task
           node == Updated(u)
<1>1. /\ Use(c, u) /\ TaskCalls = {} /\ tasks' = Put(tasks, id, node) /\ last_text' = last_text
      /\ u \in AnyInput /\ u.name = "TaskUpdate" /\ TypeOK
      /\ id \in DOMAIN list /\ list[id].status # "abandoned"
  BY DEF UseUpdate, MayCallTask, OneByOne, TasksAfter, AnyInput, UpdateInput, IInv
<1>2. /\ calls'[c] = u
      /\ \A n : Unanswered(n)' = Unanswered(n) \cup (IF u.name = n THEN {c} ELSE {})
      /\ UNCHANGED <<list, asked>>
  BY <1>1, UseCalls
<1>3. Unanswered("TaskUpdate")' = {c} /\ Unanswered("TaskCreate")' = {} /\ Unanswered("TaskUpdate") = {}
  BY <1>1, <1>2 DEF TaskCalls
<1>4. id \in DOMAIN tasks /\ \A x \in DOMAIN list : Agrees(x)
  BY <1>1, <1>3 DEF MirrorInv, UnderWay
<1>5. /\ node.ask = AskAfter(tasks[id].ask, u.ask)
      /\ node.status = IF u.status = "unsaid" THEN tasks[id].status ELSE Shown(u.status)
      /\ node.history # <<>> /\ node.history[Len(node.history)] = node.status
  BY <1>1, <1>4, UpdatedTells DEF MirrorInv, HistoryTellsStatus
<1> HIDE DEF node
<1>6. /\ DOMAIN tasks' = DOMAIN tasks /\ tasks'[id] = node
      /\ \A x \in DOMAIN tasks : x # id => tasks'[x] = tasks[x]
  BY <1>1, <1>4 DEF Put
<1>7. Ahead(u)'
  BY <1>1, <1>2, <1>4, <1>5, <1>6 DEF Ahead, ListedStatus, Said, AskAfter, Shown, Agrees
<1>8. \A x \in DOMAIN list' : UnderWay(x)' \/ Agrees(x)'
  <2>1. UnderWay(id)'
    BY <1>2, <1>3 DEF UnderWay
  <2>2. \A x \in DOMAIN list : x # id => Agrees(x)'
    BY <1>2, <1>4, <1>6 DEF Agrees, MirrorInv
  <2> QED
    BY <1>2, <2>1, <2>2
<1>9. HistoryTellsStatus'
  BY <1>5, <1>6 DEF MirrorInv, HistoryTellsStatus
<1> QED
  BY <1>1, <1>2, <1>3, <1>6, <1>7, <1>8, <1>9 DEF MirrorInv, TaskCalls

\* Claude Code's answer to an update: the task list comes up with its node.
LEMMA ResultUpdateMirrors ==
    ASSUME OneByOne, IInv, MirrorInv, NEW c \in Calls, ResultUpdate(c)
    PROVE  MirrorInv'
<1> DEFINE u == calls[c]
           id == u.task
           status == IF u.status = "deleted" THEN "abandoned" ELSE Said(list[id].status, u.status)
           ask == Said(list[id].ask, u.ask)
<1>1. /\ c \in DOMAIN calls
      /\ \A n : Unanswered(n)' = Unanswered(n) \ {c}
      /\ c \in Unanswered("TaskUpdate") /\ tasks' = tasks /\ last_text' = asked'
  BY AnswerCalls DEF ResultUpdate, Answer, Unanswered, IInv, MirrorInv
<1>2. Unanswered("TaskUpdate") = {c} /\ TaskCalls' = {}
  BY <1>1 DEF MirrorInv, TaskCalls
<1>3. Ahead(u)
  BY <1>1 DEF MirrorInv
<1>4. list' = [list EXCEPT ![id].status = status, ![id].ask = ask]
  BY <1>3 DEF ResultUpdate, Ahead, OneByOne
<1>5. id \in DOMAIN list /\ list[id] \in [status : Status, ask : Asks]
      /\ list \in [DOMAIN list -> [status : Status, ask : Asks]]
  BY <1>3 DEF Ahead, IInv, TypeOK, IsDict
<1>6. tasks[id].status = status /\ tasks[id].ask = ask
  BY <1>3 DEF Ahead, ListedStatus
<1> HIDE DEF status, ask, u
<1>7. /\ DOMAIN list' = DOMAIN list
      /\ list'[id].status = status /\ list'[id].ask = ask
      /\ \A x \in DOMAIN list : x # id => list'[x] = list[x]
  BY <1>4, <1>5
<1>8. \A x \in DOMAIN list : x # id => Agrees(x)
  BY <1>2 DEF MirrorInv, UnderWay, u
<1>9. (\A x \in DOMAIN list : UnderWay(x) \/ Agrees(x))'
  BY <1>1, <1>6, <1>7, <1>8 DEF Agrees
<1>10. (DOMAIN tasks = DOMAIN list /\ Numbered(DOMAIN list) /\ HistoryTellsStatus)'
  BY <1>1, <1>7 DEF MirrorInv, Numbered, HistoryTellsStatus
<1> QED
  BY <1>1, <1>2, <1>9, <1>10 DEF MirrorInv, TaskCalls

\* The task that is created is the next number, and its node is new.
LEMMA ResultCreatedMirrors ==
    ASSUME ReplayAssumption, OneByOne, IInv, MirrorInv, NEW c \in Calls, ResultCreated(c)
    PROVE  MirrorInv'
<1>0. PICK id : id = NextTask
  OBVIOUS
<1> DEFINE node == Created(id, pending_creates[c])
           task == [status |-> "pending", ask |-> Said("none", calls[c].ask)]
<1>1. /\ Answer(c) /\ c \in DOMAIN pending_creates
      /\ tasks' = Put(tasks, id, node) /\ list' = Put(list, id, task)
      /\ c \in DOMAIN calls
      /\ \A n : Unanswered(n)' = Unanswered(n) \ {c}
      /\ last_text' = asked'
  BY <1>0, AnswerCalls DEF ResultCreated, Answer, IInv, MirrorInv
<1>2. c \in Unanswered("TaskCreate") /\ pending_creates[c] = calls[c] /\ calls[c] \in CreateInput
  BY <1>1 DEF IInv, BooksMatchCalls, TypeOK, IsDict
<1>3. Unanswered("TaskUpdate") = {} /\ TaskCalls' = {}
  <2>1. \A d \in TaskCalls : d = c
    BY <1>2 DEF MirrorInv, TaskCalls
  <2>2. c \notin Unanswered("TaskUpdate")
    BY <1>2 DEF Unanswered
  <2> QED
    BY <1>1, <2>1, <2>2 DEF TaskCalls
<1>4. PICK n \in Nat : DOMAIN list = 1 .. n
  BY DEF MirrorInv, Numbered
<1>5. id = n + 1
  <2>1. Cardinality(1 .. n) = n
    BY FS_Interval
  <2> QED
    BY <1>0, <1>4, <2>1 DEF NextTask
<1>6. id \notin DOMAIN list /\ DOMAIN list \cup {id} = 1 .. (n + 1)
  BY <1>4, <1>5
<1>7. NodeOf(id) = NewNode
  BY <1>6 DEF NodeOf, MirrorInv
<1>8. /\ node.status = "pending" /\ node.ask = AskAfter("none", calls[c].ask)
      /\ node.history = <<"pending">>
  BY <1>2, <1>7 DEF Created, NewNode
<1>9. task.status = "pending" /\ task.ask = Said("none", calls[c].ask)
  OBVIOUS
<1> HIDE DEF node, task
<1>10. /\ DOMAIN tasks' = DOMAIN tasks \cup {id} /\ DOMAIN list' = DOMAIN list \cup {id}
       /\ tasks'[id] = node /\ list'[id] = task
       /\ \A x \in DOMAIN list : x # id /\ tasks'[x] = tasks[x] /\ list'[x] = list[x]
  BY <1>1, <1>6 DEF Put, MirrorInv
<1>11. (\A x \in DOMAIN list : UnderWay(x) \/ Agrees(x))'
  <2>1. \A x \in DOMAIN list : Agrees(x)
    BY <1>3 DEF MirrorInv, UnderWay
  <2>2. Agrees(id)'
    BY <1>8, <1>9, <1>10 DEF Agrees, AskAfter, Said
  <2>3. \A x \in DOMAIN list : Agrees(x)'
    BY <1>10, <2>1 DEF Agrees
  <2> QED
    BY <1>10, <2>2, <2>3
<1>12. HistoryTellsStatus'
  <2>1. node.history # <<>> /\ node.history[Len(node.history)] = node.status
    BY <1>8
  <2> QED
    BY <1>10, <2>1 DEF HistoryTellsStatus, MirrorInv
<1>13. (DOMAIN tasks = DOMAIN list /\ Numbered(DOMAIN list))'
  BY <1>5, <1>6, <1>10 DEF MirrorInv, Numbered
<1> QED
  BY <1>1, <1>3, <1>11, <1>12, <1>13 DEF MirrorInv, TaskCalls

\* An edit and a failed command are put on a node, whose status they leave.
LEMMA WorkMirrors ==
    ASSUME IInv, (\E f \in Files : UseEdit(f)) \/ \E c \in Calls, e \in BOOLEAN : ResultBash(c, e)
    PROVE  SameNodes
<1> DEFINE id == active_node
<1>1. tasks \in [DOMAIN tasks -> Node]
  BY DEF IInv, TypeOK, IsDict
<1>2. ASSUME NEW node, id \in DOMAIN tasks, tasks' = [tasks EXCEPT ![id] = node],
             node.status = tasks[id].status, node.ask = tasks[id].ask,
             node.history = tasks[id].history
      PROVE  SameNodes
  BY <1>1, <1>2 DEF SameNodes
<1>3. ASSUME NEW f \in Files, UseEdit(f) PROVE SameNodes
  <2> DEFINE node == [tasks[id] EXCEPT !.files = @ \cup {f}]
  <2>1. id \in DOMAIN tasks /\ tasks' = [tasks EXCEPT ![id] = node]
    BY <1>3 DEF UseEdit
  <2>2. node.status = tasks[id].status /\ node.ask = tasks[id].ask /\ node.history = tasks[id].history
    BY <1>1, <2>1 DEF Node
  <2> HIDE DEF node
  <2> QED
    BY <1>2, <2>1, <2>2
<1>4. ASSUME NEW c \in Calls, NEW e \in BOOLEAN, ResultBash(c, e) PROVE SameNodes
  <2> DEFINE node == Failed(tasks[id])
  <2>1. \/ tasks' = tasks
        \/ id \in DOMAIN tasks /\ tasks' = [tasks EXCEPT ![id] = node]
    BY <1>4 DEF ResultBash
  <2>2. CASE tasks' = tasks
    BY <2>2 DEF SameNodes
  <2>3. CASE id \in DOMAIN tasks /\ tasks' = [tasks EXCEPT ![id] = node]
    <3>1. node.status = tasks[id].status /\ node.ask = tasks[id].ask
          /\ node.history = tasks[id].history
      BY <1>1, <2>3 DEF Failed, Node
    <3> HIDE DEF node
    <3> QED
      BY <1>2, <2>3, <3>1
  <2> QED
    BY <2>1, <2>2, <2>3
<1> QED
  BY <1>3, <1>4

\* Every step.
LEMMA NextMirrors ==
    ASSUME ReplayAssumption, OneByOne, IInv, MirrorInv, [Next]_vars
    PROVE  MirrorInv'
<1>1. ASSUME SameNodes, UNCHANGED <<calls, list>>, last_text' = asked'
      PROVE  MirrorInv'
  <2>1. \A n : Unanswered(n)' = Unanswered(n)
    BY <1>1 DEF Unanswered
  <2>2. \A c, d \in TaskCalls' : c = d
    BY <2>1 DEF MirrorInv, TaskCalls
  <2> QED
    BY <1>1, <2>1, <2>2, MirrorStays
<1>2. CASE UNCHANGED vars
  BY <1>1, <1>2 DEF vars, reader, SameNodes, MirrorInv
<1>3. CASE (\E noise \in BOOLEAN : Prompt(noise)) \/ \E needs \in BOOLEAN : Text(needs)
  BY <1>1, <1>3 DEF Prompt, Text, SameNodes, MirrorInv
<1>4. CASE \E f \in Files : UseEdit(f)
  BY <1>1, <1>4, WorkMirrors DEF UseEdit, MirrorInv
<1>5. CASE \E c \in Calls \cup AgentCalls : UseBox(c) \/ UseBash(c) \/ UseAgent(c)
  <2>1. PICK c \in Calls \cup AgentCalls, input \in BoxInput \cup BashInput \cup AgentInput :
           Use(c, input) /\ UNCHANGED <<tasks, last_text>>
    BY <1>5 DEF UseBox, UseBash, UseAgent, BoxInput, BashInput, AgentInput
  <2> QED
    BY <2>1, OtherUseMirrors
<1>6. ASSUME NEW c \in Calls \cup AgentCalls, ResultNotCreated(c) \/ ResultOther(c)
      PROVE  MirrorInv'
  <2>1. Answer(c) /\ list' = list /\ SameNodes
    BY <1>6 DEF ResultNotCreated, ResultOther, SameNodes
  <2>2. calls[c].name # "TaskUpdate"
    BY <1>6 DEF ResultNotCreated, ResultOther, IInv, BooksMatchCalls, Unanswered
  <2> QED
    BY <2>1, <2>2, OtherAnswerMirrors
<1>7. ASSUME NEW c \in Calls, NEW e \in BOOLEAN, ResultBash(c, e)
      PROVE  MirrorInv'
  <2>1. Answer(c) /\ list' = list /\ SameNodes
    BY <1>7, WorkMirrors DEF ResultBash
  <2>2. calls[c].name # "TaskUpdate"
    BY <1>7 DEF ResultBash, IInv, BooksMatchCalls, Unanswered
  <2> QED
    BY <2>1, <2>2, OtherAnswerMirrors
<1>8. CASE \E c \in Calls : \/ \E input \in CreateInput : UseCreate(c, input)
                            \/ \E u \in UpdateInput : UseUpdate(c, u)
                            \/ ResultCreated(c) \/ ResultUpdate(c)
  BY <1>8, UseCreateMirrors, UseUpdateMirrors, ResultUpdateMirrors, ResultCreatedMirrors
<1> QED
  BY <1>2, <1>3, <1>4, <1>5, <1>6, <1>7, <1>8 DEF Next

LEMMA InitMirrors == Init => MirrorInv
<1> SUFFICES ASSUME Init PROVE MirrorInv
  OBVIOUS
<1>1. DOMAIN tasks = {} /\ DOMAIN list = {} /\ DOMAIN calls = {} /\ last_text = asked
  BY DEF Init, Empty
<1>2. Numbered({})
  <2>1. {} = 1 .. 0
    OBVIOUS
  <2> QED
    BY <2>1 DEF Numbered
<1> QED
  BY <1>1, <1>2 DEF MirrorInv, TaskCalls, Unanswered, HistoryTellsStatus

\* The inductive invariant of a transcript whose task calls come one by one and
\* are all accepted.
THEOREM MirrorInvariant ==
    ASSUME ReplayAssumption, OneByOne
    PROVE  Spec => [](IInv /\ MirrorInv)
<1>1. Init => IInv /\ MirrorInv
  BY InitIInv, InitMirrors
<1>2. IInv /\ MirrorInv /\ [Next]_vars => IInv' /\ MirrorInv'
  BY EveryStep, StutterIInv, NextMirrors DEF StepGoal
<1> QED
  BY <1>1, <1>2, PTL DEF Spec

\* With no update under way every node agrees with its task.
LEMMA AllAgree ==
    ASSUME MirrorInv, TaskCalls = {}
    PROVE  DOMAIN tasks = DOMAIN list /\ \A id \in DOMAIN list : Agrees(id)
BY DEF MirrorInv, UnderWay, TaskCalls

\* For any number of tasks and calls: the nodes are Claude Code's tasks, with the
\* status and the question they have there.
THEOREM NodesMirrorTheList ==
    ASSUME ReplayAssumption, OneByOne
    PROVE  Spec => []Mirrors
<1>1. IInv /\ MirrorInv => Mirrors
  BY AllAgree DEF Mirrors, Agrees
<1> QED
  BY <1>1, MirrorInvariant, PTL

\* The replay's last frame shows every node as the live picture does.
THEOREM HistoriesEndInTheStatus ==
    ASSUME ReplayAssumption, OneByOne
    PROVE  Spec => []HistoryTellsStatus
<1>1. IInv /\ MirrorInv => HistoryTellsStatus
  BY DEF MirrorInv
<1> QED
  BY <1>1, MirrorInvariant, PTL

\* What waits on the user is what is really unanswered: boxes, the questions of
\* tasks that are not finished, and an agent that ended on `needs input:'.
THEOREM QuestionsAreTheRealOnes ==
    ASSUME ReplayAssumption, OneByOne
    PROVE  Spec => []QuestionsAreReal
<1>1. IInv /\ MirrorInv => QuestionsAreReal
  <2> SUFFICES ASSUME IInv, MirrorInv, TaskCalls = {}, NEW idle \in BOOLEAN
               PROVE  QuestionsWaiting(idle) = ReallyWaiting(idle)
    BY DEF QuestionsAreReal
  <2>1. open_asks = Unanswered("AskUserQuestion") /\ last_text = asked
    BY DEF IInv, BooksMatchCalls, MirrorInv
  <2>2. DOMAIN tasks = DOMAIN list /\ \A id \in DOMAIN list : Agrees(id)
    BY AllAgree
  <2>3. {<<"node", id, tasks[id].ask>> : id \in {i \in DOMAIN tasks : StillAsks(tasks[i])}}
        = {<<"node", id, list[id].ask>> :
              id \in {i \in DOMAIN list : list[i].ask # "none" /\ list[i].status \notin Finished}}
    BY <2>2 DEF Agrees, StillAsks
  <2> QED
    BY <2>1, <2>3 DEF QuestionsWaiting, ReallyWaiting
<1> QED
  BY <1>1, MirrorInvariant, PTL

-----------------------------------------------------------------------------
(* Nothing is forgotten, whichever calls are made at once and refused *)

\* What a node may become.
Grows(old, new) ==
    /\ Len(old.history) <= Len(new.history)
    /\ \A i \in 1 .. Len(old.history) : new.history[i] = old.history[i]
    /\ old.blockedBy \subseteq new.blockedBy
    /\ old.started => new.started
    /\ old.ended => new.ended
NodesGrow == \A id \in DOMAIN tasks : id \in DOMAIN tasks' /\ Grows(tasks[id], tasks'[id])
AgentsStay ==
    \A c \in DOMAIN spawns : /\ c \in DOMAIN spawns' /\ spawns'[c].node = spawns[c].node
                             /\ spawns[c].ended => spawns'[c].ended

\* A history that one status is appended to.
LEMMA AppendGrows ==
    ASSUME NEW h \in Seq(Status), NEW s \in Status
    PROVE  /\ Append(h, s) \in Seq(Status) /\ Len(h) <= Len(Append(h, s))
           /\ \A i \in 1 .. Len(h) : Append(h, s)[i] = h[i]
OBVIOUS

\* A created and an updated node have grown.
LEMMA CreatedGrows ==
    ASSUME NEW node \in Node, NEW ask
    PROVE  Grows(node, [node EXCEPT !.ask = ask, !.history = Append(@, "pending")])
<1>1. node.history \in Seq(Status) /\ "pending" \in Status
  BY DEF Node, Status
<1> DEFINE h == Append(node.history, "pending")
<1>2. Len(node.history) <= Len(h) /\ \A i \in 1 .. Len(node.history) : h[i] = node.history[i]
  BY <1>1, AppendGrows
<1> HIDE DEF h
<1>3. Grows(node, [node EXCEPT !.ask = ask, !.history = h])
  BY <1>2 DEF Grows, Node
<1> QED
  BY <1>3 DEF h
LEMMA UpdatedGrows ==
    ASSUME ReplayAssumption, TypeOK, NEW u \in UpdateInput
    PROVE  Grows(NodeOf(u.task), Updated(u))
<1> DEFINE n == NodeOf(u.task)
           named == [n EXCEPT !.ask = AskAfter(@, u.ask), !.blockedBy = @ \cup u.blockedBy]
           s == Shown(u.status)
           h == HistoryAfter(n.history, u.status)
<1>1. n \in Node
  BY NodeOfType
<1>2. /\ named.history = n.history /\ named.started = n.started /\ named.ended = n.ended
      /\ n.blockedBy \subseteq named.blockedBy /\ DOMAIN named = DOMAIN n
  BY <1>1 DEF Node
<1>3. n.history \in Seq(Status)
  BY <1>1 DEF Node
<1>4. DOMAIN n = {"status", "history", "ask", "blockedBy", "started", "ended", "files", "failures"}
  BY <1>1 DEF Node
<1>5. CASE u.status = "unsaid"
  <2>1. Updated(u) = named
    BY <1>5 DEF Updated
  <2> HIDE DEF named, n
  <2>2. Len(n.history) <= Len(n.history)
    BY <1>3
  <2> QED
    BY <1>2, <2>1, <2>2 DEF Grows, n
<1>6. CASE u.status # "unsaid"
  <2>1. Updated(u) = [named EXCEPT !.status = s, !.history = h,
                                   !.started = @ \/ s = "in_progress", !.ended = @ \/ s \in Finished]
    BY <1>2, <1>6 DEF Updated
  <2>2. s \in Status /\ h = Append(n.history, s)
    BY <1>6 DEF Shown, UpdateInput, Status, HistoryAfter
  <2>3. Len(n.history) <= Len(h) /\ \A i \in 1 .. Len(n.history) : h[i] = n.history[i]
    BY <1>3, <2>2, AppendGrows
  <2> HIDE DEF named, s, h, n
  <2>4. /\ Updated(u).history = h /\ Updated(u).blockedBy = named.blockedBy
        /\ Updated(u).started = (named.started \/ s = "in_progress")
        /\ Updated(u).ended = (named.ended \/ s \in Finished)
    BY <1>2, <1>4, <2>1
  <2> QED
    BY <1>2, <2>3, <2>4 DEF Grows, n
<1> QED
  BY <1>5, <1>6

\* A task that gets a node that has grown from the one of its id.
LEMMA PutGrows ==
    ASSUME TypeOK, NEW id, NEW node, Grows(NodeOf(id), node), tasks' = Put(tasks, id, node)
    PROVE  NodesGrow
<1>1. /\ DOMAIN tasks' = DOMAIN tasks \cup {id} /\ tasks'[id] = node
      /\ \A x \in DOMAIN tasks : x # id => tasks'[x] = tasks[x]
  BY DEF Put
<1>2. \A x \in DOMAIN tasks : Grows(tasks[x], tasks[x])
  BY DEF Grows, TypeOK, IsDict, Node
<1> QED
  BY <1>1, <1>2 DEF NodesGrow, NodeOf

\* A step that leaves the nodes alone, or writes on one what happened there.
LEMMA SameGrow ==
    ASSUME TypeOK,
           \/ tasks' = tasks
           \/ \E f \in Files : UseEdit(f)
           \/ \E c \in Calls, e \in BOOLEAN : ResultBash(c, e)
    PROVE  NodesGrow
<1> DEFINE id == active_node
<1>1. \A x \in DOMAIN tasks : tasks[x] \in Node /\ Grows(tasks[x], tasks[x])
  BY DEF Grows, TypeOK, IsDict, Node
<1>2. tasks \in [DOMAIN tasks -> Node]
  BY DEF TypeOK, IsDict
<1>3. ASSUME NEW node, id \in DOMAIN tasks, tasks' = [tasks EXCEPT ![id] = node],
             Grows(tasks[id], node)
      PROVE  NodesGrow
  BY <1>1, <1>2, <1>3 DEF NodesGrow
<1>4. CASE tasks' = tasks
  BY <1>1, <1>4 DEF NodesGrow
<1>5. ASSUME NEW f \in Files, UseEdit(f) PROVE NodesGrow
  <2> DEFINE node == [tasks[id] EXCEPT !.files = @ \cup {f}]
  <2>1. id \in DOMAIN tasks /\ tasks' = [tasks EXCEPT ![id] = node]
    BY <1>5 DEF UseEdit
  <2>2. Grows(tasks[id], node)
    BY <1>1, <2>1 DEF Grows, Node
  <2> HIDE DEF node
  <2> QED
    BY <1>3, <2>1, <2>2
<1>6. ASSUME NEW c \in Calls, NEW e \in BOOLEAN, ResultBash(c, e) PROVE NodesGrow
  <2> DEFINE node == Failed(tasks[id])
  <2>1. tasks' = tasks \/ (id \in DOMAIN tasks /\ tasks' = [tasks EXCEPT ![id] = node])
    BY <1>6 DEF ResultBash
  <2>2. id \in DOMAIN tasks => Grows(tasks[id], node)
    BY <1>1 DEF Failed, Grows, Node
  <2> HIDE DEF node
  <2> QED
    BY <1>3, <1>4, <2>1, <2>2
<1> QED
  BY <1>4, <1>5, <1>6

\* Every step.
LEMMA NextGrows == ASSUME ReplayAssumption, IInv, Next PROVE NodesGrow /\ AgentsStay
<1>1. TypeOK /\ BooksMatchCalls
  BY DEF IInv
<1>2. NodesGrow
  <2>1. ASSUME NEW c \in Calls, NEW u \in UpdateInput, UseUpdate(c, u) PROVE NodesGrow
    <3>1. tasks' = Put(tasks, u.task, Updated(u))
      BY <2>1 DEF UseUpdate, TasksAfter
    <3> QED
      BY <1>1, <3>1, UpdatedGrows, PutGrows
  <2>2. ASSUME NEW c \in Calls, ResultCreated(c) PROVE NodesGrow
    <3> DEFINE id == NextTask
               node == Created(id, pending_creates[c])
    <3>1. tasks' = Put(tasks, id, node) /\ pending_creates[c] \in CreateInput
      BY <1>1, <2>2 DEF ResultCreated, TypeOK, IsDict
    <3>2. /\ NodeOf(id) \in Node
          /\ node = [NodeOf(id) EXCEPT !.ask = node.ask, !.history = Append(@, "pending")]
      BY <1>1, <3>1, NodeOfType, CreatedType
    <3>3. Grows(NodeOf(id), node)
      BY <3>2, CreatedGrows
    <3> QED
      BY <1>1, <3>1, <3>3, PutGrows
  <2>3. \/ \E c \in Calls : ResultCreated(c) \/ \E u \in UpdateInput : UseUpdate(c, u)
        \/ tasks' = tasks
        \/ \E f \in Files : UseEdit(f)
        \/ \E c \in Calls, e \in BOOLEAN : ResultBash(c, e)
    BY DEF Next, Prompt, Text, UseCreate, UseBox, UseBash, UseAgent, ResultNotCreated,
           ResultUpdate, ResultOther
  <2> QED
    BY <1>1, <2>1, <2>2, <2>3, SameGrow
<1>3. AgentsStay
  <2>1. CASE \E c : Answer(c)
    <3>1. PICK c : Answer(c)
      BY <2>1
    <3>2. /\ DOMAIN spawns' = DOMAIN spawns
          /\ \A d \in DOMAIN spawns : /\ spawns'[d].node = spawns[d].node
                                      /\ spawns[d].ended => spawns'[d].ended
      BY <1>1, <3>1, AnswerBooks
    <3> QED
      BY <3>2 DEF AgentsStay
  <2>2. CASE spawns' = spawns
    BY <2>2 DEF AgentsStay
  <2>3. CASE \E c \in AgentCalls : UseAgent(c)
    <3>1. PICK c : c \notin DOMAIN spawns /\ spawns' = Put(spawns, c, [node |-> active_node, ended |-> FALSE])
      BY <2>3 DEF UseAgent
    <3> QED
      BY <3>1 DEF AgentsStay, Put
  <2> QED
    BY <2>1, <2>2, <2>3 DEF Next, Prompt, Text, UseCreate, UseUpdate, UseBox, UseBash, UseEdit,
       ResultCreated, ResultNotCreated, ResultUpdate, ResultBash, ResultOther
<1> QED
  BY <1>2, <1>3

\* `An abandoned task is kept, not removed': no node disappears, and of its
\* history, its start, its end and its dependencies nothing is taken back; nor
\* does an agent that finished run again.
THEOREM NothingIsForgotten ==
    ASSUME ReplayAssumption
    PROVE  Spec => NothingForgotten
<1> DEFINE Stays ==
      /\ \A id \in DOMAIN tasks :
           /\ id \in DOMAIN tasks'
           /\ Len(tasks[id].history) <= Len(tasks'[id].history)
           /\ \A i \in 1 .. Len(tasks[id].history) : tasks'[id].history[i] = tasks[id].history[i]
           /\ tasks[id].blockedBy \subseteq tasks'[id].blockedBy
           /\ tasks[id].started => tasks'[id].started
           /\ tasks[id].ended => tasks'[id].ended
      /\ \A c \in DOMAIN spawns :
           /\ c \in DOMAIN spawns' /\ spawns'[c].node = spawns[c].node
           /\ spawns[c].ended => spawns'[c].ended
<1>1. ASSUME IInv, Next PROVE Stays
  BY <1>1, NextGrows DEF NodesGrow, AgentsStay, Grows
<1>2. IInv /\ [Next]_vars => [Stays]_vars
  BY <1>1
<1> QED
  BY <1>2, InductiveInvariant, PTL DEF Spec, NothingForgotten

-----------------------------------------------------------------------------
(* The reading of the transcript *)

\* The conditions under which the transcript is read: only the watcher reads,
\* every byte decodes, and a rewritten file is shorter until a poll saw it.
AloneAndDecodable == Handlers = {} /\ Undecodable = {} /\ Rewrites # "any"

\* The lines of the file are pairs of pieces, the second with the newline.
Paired == \A i \in 1 .. Len(file) :
             /\ file[i].end <=> i % 2 = 0
             /\ i % 2 = 0 => file[i].e = file[i - 1].e

\* Between stat() and the comparison, a size below the offset is a cut file's.
SizeIsTrue == pc[Watcher] = "check" =>
                (size[Watcher] < offset => Shrunk /\ rewrites > 0)

\* The handle stands where the reader counted to.
HandleAtOffset == pc[Watcher] = "read" => pos[Watcher] = offset

ReaderInv == ReaderTypeOK /\ Paired /\ PrefixRead /\ SizeIsTrue /\ HandleAtOffset

-----------------------------------------------------------------------------
\* The bounds are numbers, and zero is within them.
LEMMA Bounds ==
    ASSUME ReaderAssumption
    PROVE  MaxPieces \in Nat /\ MaxLines \in Nat /\ 0 \in 0 .. MaxPieces /\ 0 \in 0 .. MaxRewrites
BY DEF ReaderAssumption, MaxPieces

\* What FileOf builds from lines is a file of pairs that holds them.
LEMMA FileOfLines ==
    ASSUME ReaderAssumption, NEW s \in LineSeqs
    PROVE  /\ s \in Seq(Entries)
           /\ FileOf(s) \in Seq(Piece)
           /\ Len(FileOf(s)) = 2 * Len(s)
           /\ Len(FileOf(s)) <= MaxPieces
           /\ \A i \in 1 .. Len(FileOf(s)) :
                /\ FileOf(s)[i].end <=> i % 2 = 0
                /\ i % 2 = 0 => FileOf(s)[i].e = FileOf(s)[i - 1].e
<1>1. PICK n \in 0 .. MaxLines : s \in [1 .. n -> Entries]
  BY DEF LineSeqs
<1>2. n \in Nat /\ 2 * n <= MaxPieces
  BY DEF ReaderAssumption, MaxPieces
<1>3. s \in Seq(Entries) /\ Len(s) = n
  BY <1>1, <1>2
<1>4. ASSUME NEW i \in 1 .. 2 * n
      PROVE  /\ (i + 1) \div 2 \in 1 .. n
             /\ i % 2 = 0 => (i + 1) \div 2 = i \div 2 /\ i - 1 \in 1 .. 2 * n /\ ((i - 1) + 1) \div 2 = i \div 2
  BY <1>2
<1>5. FileOf(s) \in [1 .. 2 * n -> Piece]
  BY <1>1, <1>3, <1>4 DEF FileOf, Piece
<1>6. FileOf(s) \in Seq(Piece) /\ Len(FileOf(s)) = 2 * n
  BY <1>2, <1>5
<1>7. ASSUME NEW i \in 1 .. 2 * n
      PROVE  /\ FileOf(s)[i].end <=> i % 2 = 0
             /\ i % 2 = 0 => FileOf(s)[i].e = FileOf(s)[i - 1].e
  BY <1>3, <1>4 DEF FileOf
<1> QED
  BY <1>2, <1>3, <1>6, <1>7

\* From a line boundary the next newline is two pieces on, if there is one.
LEMMA NextLine ==
    ASSUME ReaderTypeOK, Paired, Undecodable = {}, NEW n \in Nat, Newlines(2 * n) # {}
    PROVE  /\ 2 * n + 2 <= Len(file)
           /\ LineEnd(2 * n) = 2 * n + 2
           /\ CountedLength(2 * n) = 2
           /\ Parses(2 * n)
<1> DEFINE p == 2 * n
<1>1. Len(file) \in Nat
  BY DEF ReaderTypeOK
<1>2. p \in Nat /\ (p + 1) % 2 = 1 /\ (p + 2) % 2 = 0
  OBVIOUS
<1>3. PICK i \in p + 1 .. Len(file) : file[i].end
  BY DEF Newlines, PiecesAfter
<1>4. i # p + 1
  BY <1>1, <1>2, <1>3 DEF Paired
<1>5. p + 2 \in p + 1 .. Len(file) /\ p + 2 \in 1 .. Len(file)
  BY <1>1, <1>2, <1>3, <1>4
<1>6. file[p + 2].end
  BY <1>2, <1>5 DEF Paired
<1>7. p + 2 \in Newlines(p)
  BY <1>5, <1>6 DEF Newlines, PiecesAfter
<1>8. \A j \in Newlines(p) : j \in Int /\ p + 2 <= j
  <2> SUFFICES ASSUME NEW j \in Newlines(p) PROVE j \in Int /\ p + 2 <= j
    OBVIOUS
  <2>1. j \in p + 1 .. Len(file) /\ file[j].end
    BY DEF Newlines, PiecesAfter
  <2>2. p + 1 \in 1 .. Len(file) => ~file[p + 1].end
    BY <1>1, <1>2 DEF Paired
  <2>3. j # p + 1
    BY <1>1, <1>2, <2>1, <2>2
  <2> QED
    BY <1>1, <1>2, <2>1, <2>3
<1>9. LineEnd(p) = p + 2
  <2> DEFINE e == LineEnd(p)
  <2>1. e \in Newlines(p) /\ \A j \in Newlines(p) : e <= j
    BY <1>7, <1>8 DEF LineEnd
  <2> HIDE DEF e
  <2> QED
    BY <1>2, <1>7, <1>8, <2>1 DEF e
<1> QED
  BY <1>2, <1>5, <1>9 DEF CountedLength, Parses

-----------------------------------------------------------------------------
\* A reader that has read nothing, over any file of whole lines.
LEMMA ReaderStarts ==
    ASSUME ReaderAssumption, ReaderInit
    PROVE  ReaderInv
<1>1. PICK s \in LineSeqs : file = FileOf(s)
  BY DEF ReaderInit
<1>2. ReaderTypeOK
  <2>1. file \in Seq(Piece) /\ Len(file) <= MaxPieces
    BY <1>1, FileOfLines
  <2>2. consumed \in Seq(Entries) /\ Len(consumed) <= MaxLines
    BY DEF ReaderInit, ReaderAssumption
  <2> QED
    BY <2>1, <2>2, Bounds DEF ReaderInit, ReaderTypeOK
<1>3. Paired
  BY <1>1, FileOfLines DEF Paired
<1>4. PrefixRead
  BY <1>2 DEF ReaderInit, PrefixRead, ReaderTypeOK
<1>5. SizeIsTrue /\ HandleAtOffset
  BY DEF ReaderInit, SizeIsTrue, HandleAtOffset, Threads
<1> QED
  BY <1>2, <1>3, <1>4, <1>5 DEF ReaderInv

\* Claude Code writes: what was read stays a prefix of the file, or the file is
\* shorter than the offset.
LEMMA ReaderAndWrites ==
    ASSUME ReaderAssumption, AloneAndDecodable, ReaderInv, Write
    PROVE  ReaderInv'
<1> USE DEF ReaderInv
<1> Watcher \in Threads
  BY DEF Threads
<1>1. ASSUME NEW e \in Entries, WriteHalf(e)
      PROVE  ReaderInv'
  <2>1. ReaderTypeOK'
    <3>1. [e |-> e, end |-> FALSE] \in Piece /\ Len(file) \in Nat
      BY DEF Piece, ReaderTypeOK
    <3>2. file' \in Seq(Piece) /\ Len(file') <= MaxPieces
      BY <1>1, <3>1, Bounds DEF WriteHalf, ReaderTypeOK
    <3> QED
      BY <1>1, <3>2 DEF WriteHalf, ReaderTypeOK
  <2> DEFINE n == Len(file)
  <2>2. n \in Nat /\ n % 2 = 0 /\ (n + 1) % 2 = 1
    <3>1. n \in Nat
      BY DEF ReaderTypeOK
    <3>2. n = 0 \/ n \in 1 .. n
      BY <3>1
    <3>3. n = 0 \/ file[n].end
      BY <1>1, <3>1 DEF WriteHalf, HalfWritten
    <3>4. n = 0 \/ n % 2 = 0
      BY <3>2, <3>3 DEF Paired
    <3> QED
      BY <3>1, <3>4
  <2>3. Paired'
    <3>1. Len(file') = n + 1 /\ file'[n + 1].end = FALSE
      BY <1>1, <2>2 DEF WriteHalf, ReaderTypeOK
    <3>2. \A i \in 1 .. n : file'[i] = file[i]
      BY <1>1, <2>2 DEF WriteHalf, ReaderTypeOK
    <3>3. ASSUME NEW i \in 1 .. n + 1
          PROVE  /\ file'[i].end <=> i % 2 = 0
                 /\ i % 2 = 0 => file'[i].e = file'[i - 1].e
      <4>1. CASE i = n + 1
        BY <2>2, <3>1, <4>1
      <4>2. CASE i # n + 1
        <5>1. i \in 1 .. n /\ (i % 2 = 0 => i - 1 \in 1 .. n)
          BY <2>2, <4>2
        <5> QED
          BY <3>2, <5>1 DEF Paired
      <4> QED
        BY <4>1, <4>2
    <3> QED
      BY <3>1, <3>3 DEF Paired
  <2>4. ~Shrunk /\ ~Shrunk'
    BY <1>1 DEF WriteHalf, MayGrow, AloneAndDecodable, Shrunk, ReaderTypeOK
  <2>5. PrefixRead'
    BY <1>1, <2>4 DEF WriteHalf, PrefixRead, ReaderTypeOK, Shrunk
  <2>6. SizeIsTrue' /\ HandleAtOffset'
    BY <1>1, <2>4 DEF WriteHalf, SizeIsTrue, HandleAtOffset
  <2> QED
    BY <2>1, <2>3, <2>5, <2>6
<1>2. ASSUME WriteRest
      PROVE  ReaderInv'
  <2> DEFINE n == Len(file)
  <2>1. n \in 1 .. n /\ n % 2 = 1 /\ (n + 1) % 2 = 0
    <3>1. n \in Nat /\ n > 0 /\ ~file[n].end
      BY <1>2 DEF WriteRest, HalfWritten, ReaderTypeOK
    <3>2. n \in 1 .. n
      BY <3>1
    <3>3. n % 2 # 0
      BY <3>1, <3>2 DEF Paired
    <3> QED
      BY <3>1, <3>2, <3>3
  <2>2. /\ file[n] \in Piece
        /\ file' = Append(file, [e |-> file[n].e, end |-> TRUE])
        /\ Len(file') = n + 1
    BY <1>2, <2>1 DEF WriteRest, ReaderTypeOK
  <2>3. n + 1 <= MaxPieces
    <3>1. n \in Nat /\ n <= 2 * MaxLines
      BY DEF ReaderTypeOK, MaxPieces
    <3>2. n < 2 * MaxLines
      BY <2>1, <3>1, Bounds
    <3> QED
      BY <3>1, <3>2, Bounds DEF MaxPieces
  <2>4. ReaderTypeOK'
    BY <1>2, <2>2, <2>3 DEF WriteRest, ReaderTypeOK, Piece
  <2>5. Paired'
    BY <2>1, <2>2 DEF Paired, ReaderTypeOK
  <2>6. ~Shrunk /\ ~Shrunk'
    BY <1>2, <2>2 DEF WriteRest, MayGrow, AloneAndDecodable, Shrunk, ReaderTypeOK
  <2>7. PrefixRead'
    BY <1>2, <2>2, <2>6 DEF WriteRest, PrefixRead, ReaderTypeOK, Shrunk
  <2>8. SizeIsTrue' /\ HandleAtOffset'
    BY <1>2, <2>6 DEF WriteRest, SizeIsTrue, HandleAtOffset
  <2> QED
    BY <2>4, <2>5, <2>7, <2>8
<1>3. ASSUME NEW s \in LineSeqs, Rewrite(s)
      PROVE  ReaderInv'
  <2>1. ReaderTypeOK'
    BY <1>3, FileOfLines DEF Rewrite, ReaderTypeOK, ReaderAssumption
  <2>2. Paired'
    BY <1>3, FileOfLines DEF Rewrite, Paired
  <2>3. Len(file') < offset \/ offset = 0
    BY <1>3, FileOfLines DEF Rewrite, MayRewrite, AloneAndDecodable
  <2>4. rewrites' > 0
    BY <1>3 DEF Rewrite, ReaderTypeOK
  <2>5. PrefixRead'
    BY <1>3, <2>1, <2>3, <2>4 DEF Rewrite, PrefixRead, Shrunk, ReaderTypeOK
  <2>6. SizeIsTrue' /\ HandleAtOffset'
    BY <1>3, <2>1, <2>3, <2>4 DEF Rewrite, SizeIsTrue, HandleAtOffset, Shrunk, ReaderTypeOK
  <2> QED
    BY <2>1, <2>2, <2>5, <2>6
<1>4. ASSUME Vanish
      PROVE  ReaderInv'
  <2>1. ReaderTypeOK'
    <3>1. file' \in Seq(Piece) /\ Len(file') <= MaxPieces
      BY <1>4, Bounds DEF Vanish
    <3>2. rewrites' \in 0 .. MaxRewrites
      BY <1>4 DEF Vanish, ReaderTypeOK, ReaderAssumption
    <3> QED
      BY <1>4, <3>1, <3>2 DEF Vanish, ReaderTypeOK
  <2>2. Paired'
    BY <1>4 DEF Vanish, Paired
  <2>3. Len(file') = 0 /\ rewrites' > 0
    BY <1>4 DEF Vanish, ReaderTypeOK
  <2>4. PrefixRead'
    BY <1>4, <2>1, <2>3 DEF Vanish, PrefixRead, Shrunk, ReaderTypeOK
  <2>5. SizeIsTrue' /\ HandleAtOffset'
    BY <1>4, <2>1, <2>3 DEF Vanish, SizeIsTrue, HandleAtOffset, Shrunk, ReaderTypeOK
  <2> QED
    BY <2>1, <2>2, <2>4, <2>5
<1> QED
  BY <1>1, <1>2, <1>3, <1>4 DEF Write

\* A step of read() keeps the invariant, and moves the offset back only when
\* the file was cut.
LEMMA ReaderSteps ==
    ASSUME ReaderAssumption, AloneAndDecodable, ReaderInv, Step(Watcher)
    PROVE  ReaderInv' /\ (offset' < offset => Shrunk /\ rewrites > 0)
<1> USE DEF ReaderInv
<1> DEFINE t == Watcher
           Goal == ReaderInv' /\ (offset' < offset => Shrunk /\ rewrites > 0)
<1> t \in Threads /\ Threads = {t}
  BY DEF Threads, AloneAndDecodable
<1>1. ASSUME Begin(t)
      PROVE  Goal
  <2>1. ReaderTypeOK' /\ pc'[t] = "stat"
    BY <1>1 DEF Begin, ReaderTypeOK
  <2>2. Paired' /\ PrefixRead'
    BY <1>1 DEF Begin, Paired, PrefixRead, Shrunk
  <2>3. SizeIsTrue' /\ HandleAtOffset'
    BY <2>1 DEF SizeIsTrue, HandleAtOffset
  <2>4. offset' = offset /\ offset \in Int
    BY <1>1 DEF Begin, ReaderTypeOK, ReaderAssumption
  <2> QED
    BY <2>1, <2>2, <2>3, <2>4
<1>2. ASSUME Stat(t)
      PROVE  Goal
  <2>1. ReaderTypeOK' /\ pc'[t] = "check" /\ size'[t] = Len(file)
    BY <1>2 DEF Stat, ReaderTypeOK
  <2> QED
    BY <1>2, <2>1 DEF Stat, Paired, PrefixRead, SizeIsTrue, HandleAtOffset, Shrunk, ReaderTypeOK
<1>3. ASSUME StatMissing(t) \/ OpenMissing(t) \/ EndOfFile(t)
      PROVE  Goal
  <2>1. /\ pc' = [pc EXCEPT ![t] = "idle"] /\ published' \in BOOLEAN
        /\ UNCHANGED <<file, present, rewrites, offset, consumed, size, pos>>
    BY <1>3 DEF StatMissing, OpenMissing, EndOfFile, Finish, Fail, After, ReaderTypeOK
  <2>2. ReaderTypeOK' /\ pc'[t] = "idle"
    BY <2>1 DEF ReaderTypeOK
  <2> QED
    BY <2>1, <2>2 DEF Paired, PrefixRead, SizeIsTrue, HandleAtOffset, Shrunk, ReaderTypeOK
<1>4. ASSUME Check(t)
      PROVE  Goal
  <2>1. /\ pc' \in [Threads -> {"idle", "open"}] /\ published' \in BOOLEAN
        /\ UNCHANGED <<file, present, rewrites, size, pos>>
    BY <1>4 DEF Check, Finish, After, ReaderTypeOK
  <2>2. CASE StartOver(t)
    <3>1. offset' = 0 /\ consumed' = <<>> /\ Shrunk /\ rewrites > 0
      BY <1>4, <2>2 DEF Check, Kept, StartOver, SizeIsTrue
    <3>2. ReaderTypeOK'
      BY <2>1, <3>1, Bounds DEF ReaderTypeOK
    <3> QED
      BY <2>1, <3>1, <3>2 DEF Paired, PrefixRead, SizeIsTrue, HandleAtOffset, ReaderTypeOK
  <2>3. CASE ~StartOver(t)
    <3>1. offset' = offset /\ consumed' = consumed
      BY <1>4, <2>3 DEF Check, Kept
    <3>2. ReaderTypeOK'
      BY <2>1, <3>1 DEF ReaderTypeOK
    <3> QED
      BY <2>1, <3>1, <3>2 DEF Paired, PrefixRead, SizeIsTrue, HandleAtOffset, Shrunk, ReaderTypeOK
  <2> QED
    BY <2>2, <2>3
<1>5. ASSUME Open(t)
      PROVE  Goal
  <2>1. ReaderTypeOK' /\ pc'[t] = "read" /\ pos'[t] = offset
    BY <1>5 DEF Open, ReaderTypeOK
  <2> QED
    BY <1>5, <2>1 DEF Open, Paired, PrefixRead, SizeIsTrue, HandleAtOffset, Shrunk, ReaderTypeOK
<1>6. ASSUME ReadLine(t)
      PROVE  Goal
  <2> DEFINE n == Len(consumed)
             entry == file[2 * n + 2].e
  <2>1. n \in Nat /\ pos[t] = 2 * n /\ offset = 2 * n /\ Newlines(2 * n) # {}
    BY <1>6 DEF ReadLine, HandleAtOffset, PrefixRead, ReaderTypeOK
  <2>2. /\ 2 * n + 2 <= Len(file)
        /\ LineEnd(2 * n) = 2 * n + 2
        /\ CountedLength(2 * n) = 2
        /\ Parses(2 * n)
    BY <2>1, NextLine DEF AloneAndDecodable
  <2>3. entry \in Entries
    <3>1. 2 * n + 2 \in 1 .. Len(file)
      BY <2>1, <2>2 DEF ReaderTypeOK
    <3>2. file[2 * n + 2] \in Piece
      BY <3>1 DEF ReaderTypeOK
    <3> QED
      BY <3>2 DEF Piece
  <2>4. /\ offset' = 2 * n + 2
        /\ pos' = [pos EXCEPT ![t] = 2 * n + 2]
        /\ consumed' = Append(consumed, entry)
        /\ UNCHANGED <<file, present, rewrites, size>>
    BY <1>6, <2>1, <2>2 DEF ReadLine
  <2>5. /\ pc' \in [Threads -> {"idle", "read"}]
        /\ published' = published
    BY <1>6 DEF ReadLine, Fail, After, ReaderTypeOK
  <2>6. ReaderTypeOK'
    <3>1. Len(file) <= MaxPieces
      BY DEF ReaderTypeOK
    <3>2. 2 * n + 2 \in 0 .. MaxPieces /\ n + 1 <= MaxLines
      BY <2>1, <2>2, <3>1 DEF ReaderAssumption, MaxPieces, ReaderTypeOK
    <3>3. consumed' \in Seq(Entries) /\ Len(consumed') = n + 1
      BY <2>3, <2>4 DEF ReaderTypeOK
    <3> QED
      BY <2>4, <2>5, <3>2, <3>3 DEF ReaderTypeOK
  <2>7. PrefixRead'
    <3>1. Len(consumed') = n + 1
      BY <2>3, <2>4 DEF ReaderTypeOK
    <3>2. ~Shrunk
      BY <2>1, <2>2 DEF Shrunk, ReaderTypeOK
    <3>3. ASSUME NEW k \in 1 .. n + 1
          PROVE  consumed'[k] = file[2 * k].e
      <4>1. CASE k = n + 1
        BY <2>1, <2>3, <2>4, <4>1 DEF ReaderTypeOK
      <4>2. CASE k # n + 1
        <5>1. k \in 1 .. n /\ consumed'[k] = consumed[k]
          BY <2>1, <2>3, <2>4, <4>2 DEF ReaderTypeOK
        <5> QED
          BY <3>2, <5>1 DEF PrefixRead
      <4> QED
        BY <4>1, <4>2
    <3> QED
      BY <2>1, <2>2, <2>4, <3>1, <3>3 DEF PrefixRead
  <2>8. Paired' /\ SizeIsTrue' /\ HandleAtOffset'
    BY <2>4, <2>5 DEF Paired, SizeIsTrue, HandleAtOffset, ReaderTypeOK
  <2> QED
    BY <2>1, <2>4, <2>6, <2>7, <2>8
<1> QED
  BY <1>1, <1>2, <1>3, <1>4, <1>5, <1>6 DEF Step

\* A step that changes nothing keeps the invariant.
LEMMA ReaderStutters ==
    ASSUME ReaderInv, UNCHANGED readerVars
    PROVE  ReaderInv'
BY DEF ReaderInv, readerVars, ReaderTypeOK, Paired, PrefixRead, SizeIsTrue, HandleAtOffset, Shrunk

-----------------------------------------------------------------------------
\* The invariant the run checks, with its strengthening, of every behaviour in
\* which the watcher alone reads decodable lines.
THEOREM ReaderInvariant ==
    ASSUME ReaderAssumption, AloneAndDecodable
    PROVE  ReaderSpec => []ReaderInv
<1>1. ReaderInit => ReaderInv
  BY ReaderStarts
<1>2. ReaderInv /\ [ReaderNext]_readerVars => ReaderInv'
  <2>1. ASSUME ReaderInv, ReaderNext
        PROVE  ReaderInv'
    BY <2>1, ReaderAndWrites, ReaderSteps DEF ReaderNext, Threads, AloneAndDecodable
  <2> QED
    BY <2>1, ReaderStutters
<1> QED
  BY <1>1, <1>2, PTL DEF ReaderSpec

\* The picture is built from a prefix of the file: `read forward from a
\* remembered byte offset', `a half written line is left for next time'.
THEOREM ReadsAPrefix ==
    ASSUME ReaderAssumption, AloneAndDecodable
    PROVE  ReaderSpec => []PrefixRead
<1>1. ReaderInv => PrefixRead
  BY DEF ReaderInv
<1> QED
  BY <1>1, ReaderInvariant, PTL

\* The types of the reader's state, of which no run needs more.
THEOREM ReaderTypesHold ==
    ASSUME ReaderAssumption, AloneAndDecodable
    PROVE  ReaderSpec => []ReaderTypeOK
<1>1. ReaderInv => ReaderTypeOK
  BY DEF ReaderInv
<1> QED
  BY <1>1, ReaderInvariant, PTL

\* The offset goes back only when the file was cut: `never re-parsed'.
THEOREM ReadsForward ==
    ASSUME ReaderAssumption, AloneAndDecodable
    PROVE  ReaderSpec => NeverReparsed
<1>1. ASSUME ReaderInv, [ReaderNext]_readerVars
      PROVE  [offset' < offset => Shrunk /\ rewrites > 0]_readerVars
  <2>1. ASSUME Write
        PROVE  offset' = offset
    BY <2>1 DEF Write, WriteHalf, WriteRest, Rewrite, Vanish
  <2>2. offset \in Int
    BY <1>1 DEF ReaderInv, ReaderTypeOK, ReaderAssumption
  <2>3. ASSUME Step(Watcher)
        PROVE  offset' < offset => Shrunk /\ rewrites > 0
    BY <1>1, <2>3, ReaderSteps
  <2> QED
    BY <1>1, <2>1, <2>2, <2>3 DEF ReaderNext, Threads, AloneAndDecodable
<1> QED
  BY <1>1, ReaderInvariant, PTL DEF ReaderSpec, NeverReparsed
=============================================================================
