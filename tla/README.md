# session-tree in TLA+

session-tree watches the coding-agent sessions of one user (Claude Code, Codex),
draws what each of them does as a graph in the browser, and tells the user's
phone when a session asks something. This directory holds TLA+ specifications of
its parts, TLC configurations that check them on small instances, and TLAPS
proofs of what matters most. Paths below are relative to the repository.

    tlasany M.tla                        parse a module
    tlc -workers 2 -config X.cfg M       check module M with X.cfg
    tlapm M.tla                          check the proofs of module M

## The system

    Claude Code ──writes──> transcripts ──> TranscriptReader (one per session)
                └─writes──> register ─────┐    │ nodes, asks, work
    Codex ───────writes──> databases ─────┤    │
                 hook ───> plans ─────────┤    │
                          dismissed.json ─┴─> build(): the sessions, their links
                                               │
          watch() thread ──> _latest ──> do_GET            notify.Notifier
                │        └─> _broadcast ─> a queue per /events stream ─> page
                └──────────────────────────────────────────────> phone
          POST /api/dismiss ─> add_dismissal ─> dismissed.json
          session-tree start, stop, restart / deploy_local.py ─> the processes

One process runs `watch()` on a daemon thread and each HTTP request on a thread of
its own (`ThreadingHTTPServer`). Several such processes may run, one per address;
they share the transcripts, `dismissed.json` and the notifier's lock file.

| component | state it keeps | operations | what is hard | what makes it correct |
|---|---|---|---|---|
| Transcript reader (`state.py` 138-185, 303-311) | `offset`, what has been replayed | `read` on every poll | the writer is met in the middle of a line; the file is cut, replaced or removed between a `stat` and an `open`; a line raises; several threads on one reader; offsets counted from decoded text | what is replayed is the complete lines up to the offset, once each, in order; never re-read without cause; it catches up |
| Task replay (`state.py` 138-165, 187-392, 810-834) | `tasks`, `pending_creates`, `active_node`, `open_asks`, `pending_bash`, `spawns`, `last_text` | one per kind of line | calls and answers interleave and come in batches; an update may be refused; tasks are named before they are made, dropped, reopened | the nodes mirror the agent's list; work goes to open nodes; a question waits exactly while it is unanswered |
| Dismissals (`state.py` 837-861, `server.py` 134-159) | `dismissed.json`, `dismissed.tmp` | `add_dismissal`, `load_dismissed` | concurrent requests, a crash between two steps, one shared temporary name | a reader never sees half a file; no acknowledged dismissal is lost |
| Live stream (`server.py` 43-109, 178-207) | `_latest`, `_clients`, a bounded queue per stream | `watch`, `_broadcast`, `_stream` | joining in the middle of a push, full queues, browsers that vanish | no silent gap, no leaked stream, every page that stays becomes current |
| Phone notifier (`notify.py`) | `seen`, the lock file | `look`, `_leads`, `_send`, `post` | two servers with pictures of different age, takeover, restart | a new question is sent, once; an old one never |
| Picture of a session (`state.py` 497-669, 748-773) | `view`, `breakdown` on nodes that outlive the poll | `_group`, `_depths`, `_components`, `_hold_breakdowns`, `_apply_views` | rings of dependencies, steps of steps, edges across breakdowns, steps that move | goals are the connected parts, bands respect dependencies, folding hides no dependency and no urgent colour |
| Sessions of a picture (`state.py` 421-428, 487-494, 776-989) | `_readers`; the register and the processes are others' | `build`, `_describe`, `_attention` | the register, the processes and the transcripts change in the middle of a poll; files that name one session twice; one part that fails | who is there, running and asking, as it was; Codex failing hides nothing else |
| Links between sessions (`state.py` 672-745) | `remote` on nodes that outlive the poll | `_link_sessions` | either end may name the other, change its mind, or go | a link shows at both ends, or as broken; a node shows what its link leads to now |
| Codex threads (`codex.py`) | none | `build_sessions` | tables written while they are read one after another, errors half way, databases of several versions | what was there before is shown, nothing is invented |
| Codex plans (`codex_plan.py`) | none | `goals_from_plan` | dependencies are text a model wrote: rings, steps that are not there, said twice | what was said is an edge or reported, and the plan can be followed |
| Plan hook (`hooks/codex-capture-plan.py`) | plan files | `main`, `write_atomically` | cut short anywhere | a reader never sees half a plan, nor an older one than before |
| Command line (`cli.py`) and deploying (`scripts/deploy_local.py`) | pid file, the clone, the processes | `start`, `stop`, `restart`; `main` | stale pids, servers that come up late, crash, or are started meanwhile; being cut short | restart brings the new code, stop ends the server, a deploy leaves no server behind |
| Rule mutations (`scripts/mutate.py`) | the source file, the recovery record | `repair`, `restore`, `main` | killed, interrupted or overtaken by an edit between any two writes | nobody's work is lost; one rule is off at a time |
| Codex set-up (`install_codex.py`) | two configuration files and their backups | `install` | | installing twice changes nothing |
| Page (`index.html`) | fold state, replay position, `endret` marks, dismissals under way | drawing, gestures, `connect` | pushes during a replay or a tap | what the page shows follows from the last picture |
| HTTP routes, `summary.py`, the other scripts | none | | | |

## Modules

### TranscriptReader

`TranscriptReader.read`, one step per look at the file or at the reader: `Begin`
(a poll, or a request before the first picture is there), `Stat`/`StatMissing`,
`Check` (the comparison of size and offset, and `reset`), `Open`/`OpenMissing`,
`ReadLine`, `EndOfFile`. The file is a sequence of pieces, two to a line, the
second with the newline, so `WriteHalf` and `WriteRest` let a reader meet half a
line; a byte offset is a number of pieces. `consumed` stands for everything the
lines are replayed into. Claude Code is the environment: it appends, rewrites and
removes. `Rewrites = "noticed"` is the environment in which the size tells of a
rewrite: the new file is shorter than what was read, and does not grow before a
poll has met it. A line of `Poison` raises (in the code: a line whose JSON has not
the expected shape); the offset has moved by then. A line of `Undecodable` holds
a byte that is not UTF-8, for which `len(line.encode())` counts more than was read.

### TaskReplay

`_consume` and everything below it. Each action is one line of the transcript,
written and consumed in one step (the delay between the two is TranscriptReader's):
`Prompt`, `Text`, `UseCreate`, `UseUpdate`, `UseBox`, `UseBash`, `UseAgent`,
`UseEdit`, and the answers `ResultCreated`, `ResultNotCreated`, `ResultUpdate`,
`ResultBash`, `ResultOther`. The module also keeps what is really so: `calls`, the
calls without an answer, and `list`, Claude Code's own tasks, changed when a call
is answered. `Parallel` says whether task calls come in batches, `UpdatesFail`
whether an update may be refused. Titles, times, event texts and the turn count
are left out; `started` and `ended` say whether a time is set. `QuestionsWaiting`
is `_questions`; whether the session is idle is its parameter.

### Dismissals, DismissalStore

`add_dismissal`, one step per system call, over inodes and two names. `write_text`
opens the temporary file (`OpenTemporary`: a new inode, or the one that has the
name, emptied) and writes it (`WriteList`; over a longer list of another writer
the tail may stay: `Torn`). `Replace` finds the file moved already when requests
overlap, as they do in `dismissals_lost`. `Die` is a request cut short between any two steps.
`DismissalsInit` has whatever an earlier server may have left. DismissalStore is what a
caller is promised: a set that grows by one dismissal at a time, and nothing
acknowledged that is not in it. `Dismissals!Store` instantiates it with
`kept <- Load(target)`.

### LiveStream

`watch()` in five steps (`Build`, `Publish`, `Compare`, `CopyTargets`, `Put` per
stream), since HTTP threads run between any two of them; `_stream` as `Connect`
(the queue is registered), `TakeFirst`, `SendFirst`, `SendNext` and `End`. A
picture is the number of the state it shows, clocks left out: as `_stable` does.
`due` is `REFRESH_SECONDS` having passed. A browser leaves at any moment and the
handler learns of it when it writes; heartbeats are part of that.

### Notifier

`look` of every server in its steps: `Build` (a picture), `Look` (`fresh`, then
`seen` moved on), `Lead` (`_leads`), `Send` (a thread per message), then `Deliver`
or `PostFails` on that thread. `Ask` and `Settle` are the sessions and the user,
`Start` and `Stop` the servers; the lock goes with the process that holds it.
`old` and `changes` are history, for the properties.

### Picture

One session's nodes, each with the fields the picture is made of, and the page in
front of them. A poll is one step, `Poll`: it finds a change the agent made
(`Create`, `SetStatus`, `AddBlockedBy`, `AddBlocks`, `SetParent`, `SetGoal`) or none
(`NothingNew`), and writes views and breakdowns into the nodes (`Built`:
`_apply_views`, `_hold_breakdowns`), a quiet transcript or not. The nodes stay between
polls, so a breakdown stays where it is not written again. What is computed and kept
nowhere is an operator of the nodes: `Root` (`_group`) and `Depth` (`_depths`). `Forest` is
`_DisjointSet` as the code has it, a node above each node: `Find` walks up two steps at a
time, `Halved` is what the walk leaves, and `Union` hangs one root under the other.

The page is `fold`, `hide_done` and `ToggleFold`, `ToggleHideDone`, `GoToQuestion`;
`HiddenBy`, `Shown` and `Lifted` are `hiddenBy` and `liftEdges`. What is drawn of a node's
steps is drawn inside it (`Box`, `Under`: `layoutNested`), and each level is laid out in
bands of its own, by what the nodes on it, and the steps inside them, wait on (`DepsOf`,
`Arranged`); a goal without boxes is one level. `DrawnDepth` is the band that
`renderGoal` gives a node on its level: of a goal of which nothing is hidden or nested, the
server's. Ids may be named before they exist. The
page's walks up from a node do not end in a ring of parents, so `SetParent` makes
none. A goal is what is tied together, so breakdowns are computed over all nodes at
once: no edge or parent leads out of a goal. Titles, order, times and agents are left
out.

### Bands

The walks of `Picture` and `CodexGoals`: `Reach` (`_steps_below`) and `Bands` (`_depths`,
which `state.py` and `codex_plan.py` both have). `Reach` is the least set that holds the
start and that no edge leads out of. `Walk` is the walk with its memory of the bands it
has found, `depth`, and the nodes it is walking through, `seen`: a function on the sets of
nodes seen, as the recursion ends when all of them are.

### SessionLinks, Sessions

SessionLinks is `_link_sessions` as operators on the sessions of one poll:
`RemoteByParent` and `UpstreamByParent` (`_link_by_parent`), then `RemoteBySession` and
`UpstreamBySession` (`_link_by_session`) for nodes that do not show a link yet. The
code goes through goals and nodes in order and overwrites or keeps what it finds; here
that is `Hindmost` and `Foremost`. A node is a pair of session and number; `OneGoal`
says which sessions are one goal.

Sessions is `build()`: `Begin` reads the register (in any order: a glob) and the
dismissals, `Describe` looks at one session, `Publish` adds Codex or, when that raises,
nothing, links the sessions and sorts them (a question first, what has ended last, and
of two alike the one that began later, by `startedAt`); `Raise` is a session that
raises. Between any two steps the world changes: `Start`, `Quit`, `Crash`, `Reuse` (a
process id that comes to be another program's), `Ask`, `Dismiss`, `Create`, `SetStatus`,
`SetParent`, `SetSession`. `kept` holds the `remote` of nodes that outlive the poll: Claude Code's,
in `_readers`; those of Codex are made anew. `steady` is history: nothing changed
since the poll began. Of `attention` only ended and asking are told apart; ages,
titles and branches are left out; what makes a question wait is TaskReplay's.

### CodexPlan, CodexGoals, Codex

CodexPlan goes from a call of `update_plan` (`steps_of`, `Caught`) to the steps, their
views and what they wait on; CodexGoals adds the bands and is the goal that is drawn
(`goals_from_plan`). What the regular
expressions match is given as clauses, a step's number and the numbers after the arrow,
`Unclear` for what is no number.

Codex is `build_sessions` in its steps - `ReadThreads`, `ReadTurns`, `ReadItems`,
`ReadPlans`, or `ThreadsFail` and `HistoryFails` where SQLite raises - beside Codex,
which adds rows to its newest databases and may move to a newer version (`Upgrade`
leaves the old file), and beside the hooks (`Call`, `Dump`, `Replace`, `CutShort`),
which are `write_atomically` step by step. `_newest` compares names as text. One SELECT
sees one state of a table, as SQLite has it. `before` is history: what was in the
newest databases when the poll began; `calls` too: every call of `update_plan` and the
thread that made it, so that a plan can be traced to the call it comes from.

### Servers

The processes, the pid file, the code on main and in the clone, and two shells, the
user's and the deploy's. `start` is `Ping`, `Spawn`, `Save`, `Wait` or `GiveUp`; `stop`
is `Kill`, `Unlink`, `Stopped`; the deploy is `Merge`, `List`, then `Replace` and `start`
for each server, `Check`. A server comes up later than it is spawned (`Bind`), and ends
when its address is taken. `Crash`, `Comes` (another program takes the process id) and
`CutShort` happen at any time. Code is a number of commits that touch Python. `tidy`
and `behind` are history: one address and one command at a time, none cut short or
given up; a deploy that did not reach its end.

### RuleRun

`mutate.py`, a step per look at or write of the file and its record: `repair` (`Start`,
`RepairOpen`, `RepairWrite`, `Repaired`), then for each rule `Read`, `OpenRecord`,
`WriteRecord`, `OpenFile`, `WriteMutated`, `Stand`, `SuiteEnds`, `Restore`, `Reopen`,
`Rewrite`, `Clear`, and the `finally` (`UnlinkRecord`, or `Restore` once more). Writing a file
is two steps, since opening it empties it. `KillRun` ends the script where it is,
`Interrupt` runs the `finally`, `Edit` is somebody who saves the file. `KillAt`,
`InterruptAt` and `EditAt` say where: `RuleRunAssumption` leaves out the points at
which the script cannot keep its promise, listed below.

## What the runs check

| run | bounds | what it shows |
|---|---|---|
| `reader` | 3 lines, 2 rewrites, one line kind that raises, the watcher alone | `PrefixRead`, `NeverReparsed`, `EventuallyCaughtUp` |
| `replay_tasks` | 2 tasks, 3 updates, 2 call ids, one call at a time | `Mirrors`, `HistoryTellsStatus`, `QuestionsAreReal` |
| `replay_work` | 1 task, 2 updates, batches, refusals, an agent, a file | `BooksMatchCalls`, `NothingForgotten`, `FinishedKeepsItsRecord` |
| `dismissals_serial` | 3 questions, 2 requests in turn, any of them cut short | `NeverTorn`, `ImplementsStore` |
| `dismissals_lost` (violated) | 2 questions, 2 requests at once | one dismissal is dropped |
| `live_stream` | 2 pages, queues of 2, 3 states | `NoSilentGap`, `QueuesInOrder`, `RegisteredAreServed`, `PagesBecomeCurrent` |
| `notifier` | 2 servers, 2 questions, each asked once after the start | `SentOnce`, `NothingOldIsFresh`, `NewIsSent` |
| `picture` | 4 tasks and a change, or 3 and two, on top of any breakdowns at the start; one label; 2 choices of the viewer | `GoalsAreTheTiedNodes`, `BandsFollowDependencies`, `FoldingHidesNoDependency`, `NothingVanishes`, `RedStepStillShows`, `TheWayDownIsOpen` |
| `sessions` | 2 sessions of Claude Code in 2 processes and 1 of Codex, up to 2 tasks each, 2 changes at any moment | `PictureTellsTheWorld`, `LinksAreCurrent`, `FirstLinkIsRight` |
| `codex` | 2 threads, 1 turn each, 2 versions, 4 writes, 2 of them calls of `update_plan` with one of 5 checklists | `NothingFromBeforeIsMissing`, `NothingIsInvented`, `SaidIsDrawnOrReported`, `PlanCanBeFollowed`, `PlansOnlyMoveOn` |
| `servers` | 2 addresses, 3 processes, 1 commit, 4 commands and deploys, 1 crash or other program | `DeployedIsLive`, `CommandsKeepTheirWord` |
| `rules` | 3 rules, 3 edits, any number of runs, kills and interrupts | `NothingIsLost`, `OneRuleIsOff` |

The type invariants that say more than types, those of LiveStream, Picture, Sessions and
Servers, are checked in their runs and proved. A passing run
explores its whole state space. Deadlock is checked everywhere but in `servers`, where
the state after the last command may be one that nobody leaves; elsewhere no
specification has such a state.

Why these bounds are enough. A reader has one offset and one file: three lines
give a line before it, at it and after it, and two rewrites a rewrite of a
rewritten file. Two tasks give a node that depends on another, is dropped while
another is active and is reopened; three updates reach every pair of changes of
status after an `in_progress`. The disk protocol has two names, and two requests
meet at every pair of steps. A queue of two is full, half full and empty, with
three states a page can be two behind; the code's depth only lengthens the wait.
Two servers are the least that race for the lock, and a third one's part in it is
that of the second; two questions let one ride on the other's message. Four tasks
are a node, its step, that step's step and a task outside; two changes are an edge
and a status, or two edges; two choices open or close both breakdowns. A link has two
ends and a third session may compete for one of them; with links that may be there at
the start, two changes move or cut both ends, or put a change before a poll and one in
its middle. Four writes are a thread, its turn, the turn's item and an upgrade or a
call; the checklists are a chain, a fork, two rings, and numbers that are not there.
Three processes are two servers and the one that replaces one of them, or another
program; four commands are two starts, a deploy and a restart. Three rules have one
before and one after. `MaxLines`, `MaxRewrites`, `MaxTasks`, `MaxUpdates`, `MaxVersion`,
`MaxAsks`, `MaxNodes`, `MaxSize` (tasks and changes to them, together), `MaxChoices`,
`MaxChanges`, `MaxCalls`, `MaxWrites`, `MaxCommits`, `MaxCommands`, `MaxMishaps` and
`MaxEdits` are bounds of the models; `CLIENT_QUEUE_DEPTH`, `MAX_TRACKED` and `MAX_STEPS`
are constants of the code (8, 30 and 200), taken small.

### Fairness

Liveness is stated with weak fairness only, and only for threads of the program:
`watch()` loops for ever and catches every exception ("the thread must never
die"), so its steps are fair; a handler thread that has something to write writes
it; a clock ticks. Nothing is assumed of Claude Code, of the user, of browsers or
of servers starting and stopping. TaskReplay, Dismissals and Picture have no liveness
property: they answer to calls, and nothing obliges anybody to call. Nor have
Sessions, Codex, Servers and RuleRun: what they promise is about what a poll, a command
or a run has done when it ends, and that it ends is in the hands of Codex, of the
operating system and of whoever may cut it short.

## What is proved

The proofs hold for every value of the constants under the assumptions each
theorem names. Each one finds an inductive invariant, one lemma or step per action.
ServingProofs is about two modules, LiveStream and Dismissals, and so is ScriptsProofs,
about Servers and RuleRun: what two modules would call alike has the component's name in
one of them (`DismissalsSpec`, `RuleSpec`), as in TaskReplay and TranscriptReader.

* **TranscriptProofs**, of the reading: `ReadsAPrefix` (`PrefixRead`),
  `ReadsForward` (`NeverReparsed`) and `ReaderTypesHold`, for one reader, decodable text
  and rewrites that the size tells of - the list below shows
  that each of these is needed. The module is about the two modules of the one class
  `TranscriptReader`, so those of the reading have names of their own
  (`ReaderSpec`). The invariant `ReaderInv` adds to `PrefixRead` how the file is laid
  out, that the handle of a reading thread stands at the offset, and what the size seen
  by `Stat` still says when `Check` uses it.
* **TranscriptProofs**, of the replay: `BooksAreRight` (`BooksMatchCalls`), `ActiveStaysOpen`,
  `FinishedRecordsStay` and `TypesHold`, for any calls in any order, batches and
  refused updates included. `ActiveIsOpen` needs that the answer of a `TaskCreate` leaves
  the status of a node alone, and is what keeps work off finished nodes.
  `NothingIsForgotten` (`NothingForgotten`) holds as widely. `NodesMirrorTheList`
  (`Mirrors`), `HistoriesEndInTheStatus` (`HistoryTellsStatus`) and
  `QuestionsAreTheRealOnes` (`QuestionsAreReal`) are for `OneByOne`: one task call at a
  time and no update refused, since the list below shows that batches break them. The
  reader applies an update when it is called, Claude Code when it is answered: the
  invariant `MirrorInv` says that each node agrees with its task, or differs from it by
  the one update under way, and that ids are handed out without gaps.
* **ServingProofs**, of dismissals: `NeverHalfAFile` (`NeverTorn`), `AckedIsStored`
  (`SettledKeepsAcked`) and `StoreIsImplemented` (`ImplementsStore`), for one request
  at a time, cut short anywhere: the invariant says what the temporary file and the
  open handle hold at each step, and that what a request will write is what the file
  holds and one dismissal more. `DismissalsTypesHold` needs no such assumption:
  it is for any number of requests at the same time, cut short anywhere.
* **NotifierProofs.** `OldIsNeverSent` (`NothingOldIsFresh`), in every behaviour:
  what has waited since a server's first picture is in each later picture and in
  `seen`. `AtMostOnePerAsking` (`SentOnce`), for any number of servers that start
  when they will, until one stops. Its invariant `SendInv` says that only the
  holder of the lock has messages on their way, and that every message sent, on
  its way, or still to be sent by a server that leads or may come to lead, has an
  asking of its own. `TypesHold` rests on it as well: that a thread's messages stay
  within the bound is not a matter of types.
* **ScriptsProofs**, of the rule mutations: `NothingIsEverLost` (`NothingIsLost`), `TestsRunOnWhatWasSaved`
  (`OneRuleIsOff`) and `TypeCorrect`, for any number of rules and edits, and any points
  at which `RuleRunAssumption` lets the script be killed, interrupted or overtaken by an
  edit. The invariant says, for every point the script can be at, what the file, the
  record and the text it has read are to each other and to what was last saved.
* **ScriptsProofs**, of commands and deploys: `DeployLeavesNoneBehind` (`DeployedIsLive`), for any number of
  processes, addresses, commands and mishaps, and with no assumption on the constants.
  `DeployedIsLive` speaks of the end of a deploy only; the invariant says where servers
  with old code may be before that: nowhere until the merge, on the list of those still
  to be replaced while there is one, nowhere at the check. It holds whatever the user's
  shell does meanwhile, as a server is always spawned on what the clone has.
  `TypesHold`, with at most one server to an address. `WordIsKept`
  (`CommandsKeepTheirWord`) rests on `TidyInv`, which says of each step of `start`,
  `stop`, `restart` and of the deploy what servers there may be: while none of them is
  under way, one at most, and the pid file names it; on the way, none but the one that
  is being ended or has just been spawned.
* **ServingProofs**, of the live stream: `NoGapWhenJoining` (`NoSilentGap`), `PicturesInOrder`
  (`QueuesInOrder`), `ServedAreRegistered` (`RegisteredAreServed`) and `TypesHold`, for
  any number of pages and pictures. The invariant orders the watcher's pictures
  (`previous <= latest <= built <= version`) and states `NoSilentGap` from the moment a
  stream has its first picture in hand: what makes it hold is that the stream is
  registered before it takes that picture.
* **CodexProofs.** `OnlyWhatWasWritten` (`NothingIsInvented`), for databases of any
  versions: no row is taken back and the newest database has the rows of the older ones,
  so what a poll has read stays true, from whichever database; and a plan, in its file, on
  its way there or in a picture, is what the hook caught of a call that its thread made
  (`HookInv`). `WholePicturesMissNothing`
  (`NothingFromBeforeIsMissing`) needs `NamesInOrder` besides: the versions sort as text
  as they do as numbers, as those with equally many digits do (`EquallyManyDigits`); 9
  and 10 do not, as the list below shows. Its invariant says of each table that was read
  that it has what the poll found at its beginning. `PlansNeverGoBack` (`PlansOnlyMoveOn`)
  with no assumption: a plan on its way into the file is of a later call than the one
  there. `NothingSaidIsDropped` (`SaidIsDrawnOrReported`) for every plan.
  `PlansCanBeFollowed` (`PlanCanBeFollowed`) needs that a checklist is a list
  (`ChecklistsAreLists`), and that a plan in a picture is of some call. Of the open steps, take one from which the fewest others can be
  reached: each that it waits on reaches fewer, or leads back to it and is in its ring.
* **SessionsProofs.** `PicturesAreTrue` (`PictureTellsTheWorld`), `LinksHold`
  (`LinksAreCurrent`), `FirstLinksHold` (`FirstLinkIsRight`) and `TypesHold`, for any
  sessions, processes and tasks, under `SessionsAssumption`: there are finitely many
  sessions and processes, and no session is one of both agents. The invariant
  `PollKnows` says how far a poll has come while nothing changed: each file of the
  register is of a session that was met or is still to be, and what was described is
  still so. The links are a matter of one poll (`LinksMade`): whatever a node shows from
  polls before, a goal that names it now comes first. `EndsOf` is the ground it
  rests on, that `Foremost` and `Hindmost` are one of the nodes they choose from;
  `OrderDoesNotMatter` takes the links over the sort.
* **BandsProofs.** `BandsAreInOrder`: for every finite graph `Bands` is a band for each
  node, and `BandsRespect` holds. The walk is a recursive function on the sets of nodes
  seen. That there is such a function (`RecursionOnSubsets`) is shown over the size of the
  set, written out, as are folds; that a walk goes well (`WalkGoesWell`), by taking the most
  nodes seen for which it would not. It goes well when every band it adds is right for the
  edges of its node, and no band found is changed; a node that is met while it is being
  walked through leads back to itself, so what counts as the first band there is of a ring,
  of which `BandsRespect` says nothing.
  `FoldKeeps` says of `FoldSet` what these proofs need of it: what each step preserves, the
  fold preserves. The rest is about least sets: what `Reach` holds, and that a path may be
  cut and joined.
* **PictureProofs.** `TypesHold`, `GoalsAreTied` (`GoalsAreTheTiedNodes`),
  `BandsFollowWaits` (`BandsFollowDependencies`), `NoDependencyIsHidden`
  (`FoldingHidesNoDependency`), `NoNodeVanishes` (`NothingVanishes`), `RedStepsShow`
  (`RedStepStillShows`) and `WaysDownAreOpen` (`TheWayDownIsOpen`), for any number of nodes,
  edges and changes, under `PictureAssumption`. The invariant `IInv` is of the nodes only:
  they have no ring of parents, and their views and breakdowns are all written by one poll
  (`OfOnePoll`), but for the breakdown of a node that has no steps any more. What the page draws follows from it,
  whatever is folded. `GoalsAreTied` rests on the disjoint sets being a forest (`IsForest`)
  that halving leaves one, with the same roots, and giving what is tied so far the same
  root, tie by tie; `BandsFollowWaits` on the levels being laid out apart: no dependency
  leads from one level to another, so their walks are one walk over all of them; `NoNodeVanishes` on there being a topmost node among those
  that hide one, which no other hides; `RedStepsShow` on the node that stands for a step
  having that step below it, and so among those that colour it.

Only model-checked: the liveness properties, `EventuallyCaughtUp`, `PagesBecomeCurrent` and
`NewIsSent`, which rest on fairness, and so on ENABLED, which is beyond TLAPS.

## Where the code and what is said of it differ

Shown by a run:

* `dismissals_lost`: two requests load the same list; the later write drops the
  other's dismissal (`decisions/ADR-ST-006`: left out "from then on").

Seen in the models with other values of the constants, or with a condition taken out
of a property, and not among the runs:

* TranscriptReader with an HTTP handler among the readers: before the first picture is
  published, `do_GET` and `_stream` call `snapshot()` beside the watcher, on the same
  readers. Two threads count the same lines, the offset passes the end of the file, and
  the transcript is read again; `state.py:12` says "never re-parsed".
* TranscriptReader with `Rewrites = "any"`: a transcript replaced by one that is not
  shorter is read on from the middle; `state.py:174` says "truncated or replaced: start
  over". With `Undecodable` not empty: a byte that is not UTF-8 makes the offset drift
  past the end of the file, and every poll starts over.
* TaskReplay with `Parallel = TRUE`: an update of a task in the batch that creates it is
  replayed before the create's answer appends `pending` to the history, so the last
  frame of a replay differs from the live picture (`tests/test_replay.py:109`).
* Dismissals with two requests at a time (`Overlap = TRUE`): `NeverTorn` fails. They share
  one temporary name, and one moves the file into place that the other has emptied to write
  (`state.py:855`: "so a reader never sees half a file").
* Notifier, `NewIsSent` while servers start and stop: a server without the lock has
  moved `seen` on when it asks for it (`notify.py:122`); if the holder took the question
  for an old one, or stops, nobody sends it (`notify.py:76` says "Sends each question
  once"). `SentOnce` after a stop: a server that takes the lock over sends a question
  again that its predecessor sent before this one met it.
* Picture without the condition `Current` in three of its properties: a node whose
  steps have all been given another parent keeps its breakdown (`state.py:662` writes
  one only for nodes that have steps), and the page goes on leaving them out, though they
  are no longer under it (`index.html:747`: "those under a folded node, and theirs"). They
  vanish, and no tap leads to them.
* Picture, `BandsFollowDependencies` with rings of boxes not left aside: 1 waits on 2, and 2
  on a step of 1. No node waits on itself, but the two boxes wait on each other, and 2 is
  drawn above the box with the step it waits on. `index.html:644` says that an edge counts
  for whichever box holds the step, "so the box sits below what it waits on"; here one of
  the two edges must lead upwards.
* Picture with rings of parents: their nodes fold each other away, and the `while` of
  `index.html:769` does not end.
* Sessions: a `session:` link is drawn once (`"remote" in n`, `state.py:709`). From then
  on the node shows the progress of that first picture, also when it names another
  session, and when the session is gone it is not listed as broken, as
  `_link_sessions` says (`state.py:741`). `FirstLinkIsRight` is stated to that.
* Codex with `Versions = {9, 10}`: `NothingFromBeforeIsMissing` fails. The names are
  sorted as text, so `state_9` comes after `state_10`; `codex.py:41` says
  "highest-versioned" (`tests/test_codex.py:161` tries 5 and 6).
* CodexPlan: only the first `deps:` line of an explanation is read, and a dependency *of*
  a step that is not there is dropped without a word; `codex_plan.py:9` says that a
  reference to a step that does not exist is reported. `SaidIsDrawnOrReported` is stated
  to that.
* Servers without `behind`: after a deploy that failed or was cut short past the merge,
  the next one finds nothing to merge, restarts nothing and returns 0 over servers that
  run the old code.
* Servers without `tidy`: one pid file stands for servers on every address, so `stop` and
  `restart` end the last one started; and a start that gave up, or lost a race for the
  address, leaves the id of a process that is not the server.
* RuleRun with any of the points that `RuleRunAssumption` leaves out: killed between
  opening the file and writing it, the next run finds that it "has since changed" and
  deletes the record (`mutate.py:83`, `145`, `69`); interrupted between the write and
  `standing`, `finally` deletes the record and leaves the rule switched off
  (`mutate.py:145`-`146`); and an edit between the look at the file and the write is lost
  (`mutate.py:78`-`83`). A record cut short in the writing makes every later run raise
  until somebody removes it; `RepairRaises` is that.

## What is not modelled

* The order and titles of goals, a node's agents, the stateful parts of the page that
  the plan lists.
* HTTP routes, `summary.py`, `install_codex.py`, `demo_fixture.py`, `review_shots.py`,
  `imperative.py`, `readable.py`: no state between calls, or tools run by hand that
  write their result in one pass.
* Rows of Codex databases beyond who they belong to; wording, layout, drawing.
* In the modelled parts: times other than set or not, and so what stalls or is idle; the
  settings and the HTTP exchange of a push message; a failure of the lock file's
  directory; which tests `mutate.py` counts as evidence.
* TranscriptReader reads the file as it is at each line; the code reads through a buffer
  from the inode it opened, so of a file replaced meanwhile it still gets the old lines. Line
  ends other than a newline.
* LiveStream: a build that raises leaves the watcher as it was (`server.py:100`), as a poll
  that has not begun does, so it is no step of its own; that the watcher's steps are fair
  says that builds do not fail for ever.
* TaskReplay: what an update says of edges the other way (`addBlocks`), of goal, parent and
  session. Picture and Sessions have them, as changes of a node's fields.
* Sessions: a session has one file in the register, and runs while its process id is taken:
  the code looks at no more (`state.py:492`), so neither can tell a process id that was
  taken over by another program.
* Codex: one hook at a time on a thread, since Codex waits for it.
* Servers: only a deploy moves the clone. After a `git pull` in it by hand the next
  deploy finds nothing to merge, and restarts nothing. What becomes of servers started
  elsewhere than in the clone is in the model, but `DeployedIsLive` does not speak of them.

## Plan

In the order in which they matter:

1. PageState: `index.html`'s replay, `endret` marks and dismissals under way, composed
   with pushes.
2. The order of goals, and of sessions that are idle or stalled.
