------------------------------- MODULE Codex -------------------------------
(***************************************************************************)
(* Codex as the viewer sees it: codex.build_sessions reads threads, then   *)
(* their turns, then the items of these, then each thread's plan, while    *)
(* Codex writes all of them, moves to databases of a newer version, and    *)
(* starts the hook that catches its plans.                                 *)
(*                                                                         *)
(* A turn has at most one item, the files it changed.  What a row says     *)
(* beyond that, its times and its place in the order are left out.  Codex  *)
(* waits for the hook, or kills it: a thread has one hook at a time.       *)
(***************************************************************************)
EXTENDS CodexPlan

CONSTANTS Threads,
          Turns,       \* numbers of the turns of a thread
          Versions,    \* versions of the databases' schema
          Calls,       \* what update_plan may be called with
          MaxCalls,    \* bound: calls of update_plan
          MaxWrites    \* bound: rows written, upgrades and calls, together

ASSUME CodexAssumption ==
    /\ Versions # {} /\ Versions \subseteq 0 .. 99
    /\ MaxCalls \in Nat /\ MaxWrites \in Nat

ASSUME ChecklistsAreLists ==
    \A call \in Calls : Len(call.plan) \in Nat /\ DOMAIN call.plan = 1 .. Len(call.plan)

VARIABLES state,     \* state_*.sqlite: the threads in each version there is
          history,   \* thread_history_*.sqlite: turns, those that ended, items
          plans,     \* the plan file of each thread
          hook,      \* the hook of each thread
          calls,     \* the calls of update_plan so far, and the thread of each
          writes,    \* rows written and upgrades so far
          read,      \* what the poll under way has read
          picture    \* what the last poll returned

codex == <<state, history, plans, hook, calls, writes>>
vars == <<state, history, plans, hook, calls, writes, read, picture>>

TurnIds == Threads \X Turns
Nothing == [turns |-> {}, ended |-> {}, items |-> {}]
NoPlan == [nr |-> 0]
Torn == [nr |-> -1]
NoHook == [at |-> "none"]
NotReading == [at |-> "none"]
NoPicture == [threads |-> {}, whole |-> FALSE]

Init ==
    /\ state = [v \in {Min(Versions)} |-> {}] /\ history = [v \in {Min(Versions)} |-> Nothing]
    /\ plans = [t \in Threads |-> NoPlan] /\ hook = [t \in Threads |-> NoHook]
    /\ calls = <<>> /\ writes = 0
    /\ read = NotReading /\ picture = NoPicture

-----------------------------------------------------------------------------
(* Codex and its databases *)

Newest(db) == Max(DOMAIN db)

Write ==
    /\ Len(calls) + writes < MaxWrites
    /\ writes' = writes + 1
    /\ UNCHANGED <<plans, hook, calls, read, picture>>

WriteThread(t) ==
    /\ t \notin state[Newest(state)]
    /\ state' = [state EXCEPT ![Newest(state)] = @ \cup {t}]
    /\ Write /\ UNCHANGED history
History(new) ==
    /\ new # history[Newest(history)]
    /\ history' = [history EXCEPT ![Newest(history)] = new]
    /\ Write /\ UNCHANGED state
WriteTurn(u) ==
    LET now == history[Newest(history)] IN History([now EXCEPT !.turns = @ \cup {u}])
EndTurn(u) ==
    LET now == history[Newest(history)]
    IN  u \in now.turns /\ History([now EXCEPT !.ended = @ \cup {u}])
WriteItem(u) ==
    LET now == history[Newest(history)] IN History([now EXCEPT !.items = @ \cup {u}])
\* The old file stays in place.
Upgraded(db, v) == [w \in DOMAIN db \cup {v} |-> IF w = v THEN db[Newest(db)] ELSE db[w]]
Upgrade(v) ==
    /\ v > Newest(state)
    /\ state' = Upgraded(state, v) /\ history' = Upgraded(history, v)
    /\ Write

-----------------------------------------------------------------------------
(* The hook *)

OpenedInPlace(plan) == Torn
\* mkstemp: the plan file is left alone while the new one is written.
Opened(plan) == plan

Hook(t, step) ==
    /\ hook' = [hook EXCEPT ![t] = step]
    /\ UNCHANGED <<state, history, writes, read, picture>>

Call(t, call) ==
    /\ hook[t] = NoHook /\ Len(calls) < MaxCalls /\ Len(calls) + writes < MaxWrites
    /\ calls' = Append(calls, [thread |-> t, call |-> call])
    /\ IF steps_of(call) = <<>> THEN Hook(t, NoHook) /\ UNCHANGED plans
       ELSE /\ Hook(t, [at |-> "opened", plan |-> [nr |-> Len(calls'), plan |-> Caught(call)]])
            /\ plans' = [plans EXCEPT ![t] = Opened(@)]
Dump(t) ==
    /\ hook[t].at = "opened"
    /\ Hook(t, [hook[t] EXCEPT !.at = "written"]) /\ UNCHANGED <<plans, calls>>
Replace(t) ==
    /\ hook[t].at = "written"
    /\ plans' = [plans EXCEPT ![t] = hook[t].plan]
    /\ Hook(t, NoHook) /\ UNCHANGED calls
\* Killed, out of time, or out of room.
CutShort(t) ==
    /\ hook[t] # NoHook
    /\ Hook(t, NoHook) /\ UNCHANGED <<plans, calls>>

-----------------------------------------------------------------------------
(* A poll *)

Text(n) == IF n < 10 THEN <<n>> ELSE <<n \div 10, n % 10>>
TextBefore(m, n) == \/ Head(Text(m)) < Head(Text(n))
                    \/ Head(Text(m)) = Head(Text(n)) /\ m < n
_oldest(versions) == CHOOSE v \in versions : \A w \in versions \ {v} : TextBefore(v, w)
\* The names are sorted as text.
_newest(versions) == CHOOSE v \in versions : \A w \in versions \ {v} : TextBefore(w, v)

ReadThreads ==
    /\ read = NotReading
    /\ read' = [at |-> "turns", threads |-> state[_newest(DOMAIN state)],
                history |-> _newest(DOMAIN history), turns |-> {}, ended |-> {},
                items |-> {}, whole |-> TRUE,
                before |-> [threads |-> state[Newest(state)], rows |-> history[Newest(history)]]]
    /\ UNCHANGED <<codex, picture>>

OfAnyThread(S) == S
OfThreads(S) == {u \in S : u[1] \in read.threads}

\* _load_turns; rows of threads that are not known yet are passed over.
ReadTurns ==
    /\ read.at = "turns"
    /\ LET now == history[read.history]
       IN  read' = [read EXCEPT !.at = "items", !.turns = OfThreads(now.turns),
                                !.ended = OfThreads(now.ended)]
    /\ UNCHANGED <<codex, picture>>
ReadItems ==
    /\ read.at = "items"
    /\ read' = [read EXCEPT !.at = "plans", !.items = OfThreads(history[read.history].items)]
    /\ UNCHANGED <<codex, picture>>
\* What an SQLite error leaves: no picture of Codex at all, or what was read so far.
ThreadsFail ==
    /\ read = NotReading
    /\ picture' = NoPicture
    /\ UNCHANGED <<codex, read>>
HistoryFails ==
    /\ read.at \in {"turns", "items"}
    /\ \E some \in SUBSET OfThreads(history[read.history][read.at]) :
         read' = IF read.at = "turns"
                 THEN [read EXCEPT !.at = "plans", !.whole = FALSE, !.turns = some,
                                   !.ended = some \cap history[read.history].ended]
                 ELSE [read EXCEPT !.at = "plans", !.whole = FALSE, !.items = some]
    /\ UNCHANGED <<codex, picture>>

\* read_plan: a file that is not there or not whole is no plan.
read_plan(file) == IF file = Torn THEN NoPlan ELSE file

\* An item is an event of its thread, and goes to its turn if that was read.
_record_item == {"files"} \X read.items
_on_file_change == read.items \cap read.turns
\* The end of a turn is an event as well.
_turn_events == {"turn"} \X read.ended

Shown(plan) ==
    [threads |-> read.threads, turns |-> read.turns, whole |-> read.whole,
     before |-> read.before, events |-> _record_item \cup _turn_events,
     files |-> _on_file_change, plan |-> plan]
\* A thread without a plan of its own is shown with what the loop last read.
PlanLeftOver(t) ==
    IF read_plan(plans[t]) # NoPlan THEN read_plan(plans[t])
    ELSE LET others == {s \in read.threads : read_plan(plans[s]) # NoPlan}
         IN  IF others = {} THEN NoPlan ELSE plans[CHOOSE s \in others : TRUE]
PlanOf(t) == read_plan(plans[t])
ReadPlans ==
    /\ read.at = "plans"
    /\ picture' = Shown([t \in read.threads |-> PlanOf(t)])
    /\ read' = NotReading
    /\ UNCHANGED codex

Next ==
    \/ \E t \in Threads : WriteThread(t) \/ Dump(t) \/ Replace(t) \/ CutShort(t)
    \/ \E t \in Threads : \E call \in Calls : Call(t, call)
    \/ \E u \in TurnIds : WriteTurn(u) \/ EndTurn(u) \/ WriteItem(u)
    \/ \E v \in Versions : Upgrade(v)
    \/ ReadThreads \/ ReadTurns \/ ReadItems \/ ReadPlans \/ ThreadsFail \/ HistoryFails

Spec == Init /\ [][Next]_vars

-----------------------------------------------------------------------------
(* Properties *)

\* Codex writes while it is read, and the tables are read one after another:
\* what was in its newest databases before the poll began is in the picture,
\* an item on its turn, as long as no error cut the reading short.
NothingFromBeforeIsMissing ==
    picture.whole =>
        LET ours(S) == {u \in S : u[1] \in picture.threads}
            rows == picture.before.rows
        IN  /\ picture.before.threads \subseteq picture.threads
            /\ ours(rows.turns) \subseteq picture.turns
            /\ ({"files"} \X ours(rows.items)) \cup ({"turn"} \X ours(rows.ended))
                  \subseteq picture.events
            /\ ours(rows.items \cap rows.turns) \subseteq picture.files

\* The plan is what the hook caught of a call that the thread made.
MadeIn(all, t, plan) ==
    \E nr \in DOMAIN all :
        all[nr].thread = t /\ plan = [nr |-> nr, plan |-> Caught(all[nr].call)]

\* Nothing is invented: a picture has only rows that the databases have, of
\* threads that are in it, and of each thread no plan but one the hook caught of
\* a call that this thread made.
NothingIsInvented ==
    LET rows == history[Newest(history)] IN
    picture.threads # {} =>
        /\ picture.threads \subseteq state[Newest(state)]
        /\ picture.files \subseteq picture.turns \cap rows.items
        /\ picture.turns \subseteq rows.turns
        /\ \A e \in picture.events : e[2] \in rows.items \cup rows.ended /\ e[2][1] \in picture.threads
        /\ \A t \in picture.threads :
              picture.plan[t] = NoPlan \/ MadeIn(calls, t, picture.plan[t])

\* `The file is replaced atomically so a reader never sees half of one': whoever
\* reads a thread's plan, whenever, with hooks killed anywhere, never finds that
\* it has gone, nor one older than there was.
PlansOnlyMoveOn ==
    [][\A t \in Threads : read_plan(plans[t]).nr <= read_plan(plans'[t]).nr]_plans

PlansShown == {picture.plan[t].plan : t \in {t \in picture.threads : picture.plan[t] # NoPlan}}

\* `A reference to a step that does not exist is kept and reported rather than
\* dropped': what the model said a step waits on, in the explanation or on the
\* step, is an edge, or reported; only a step on itself is neither.
SaidIsDrawnOrReported ==
    \A plan \in PlansShown :
        LET clauses == (IF plan.explanation = <<>> THEN {} ELSE Head(plan.explanation))
                         \cup UNION {plan.steps[i].prefix : i \in DOMAIN plan.steps}
        IN  \A c \in clauses : \A d \in c.parents \ {Unclear, c.child} :
                c.child \in DOMAIN plan.steps =>
                    d \in BlockedBy(plan)[c.child] \/ <<c.child, d>> \in Dangling(plan)
=============================================================================
