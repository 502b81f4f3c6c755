---------------------------- MODULE CodexProofs ----------------------------
(***************************************************************************)
(* For any number of threads, turns, calls and writes, and databases of    *)
(* any versions: what a picture of Codex may be counted on for while Codex *)
(* goes on writing.  It all rests on one fact about the databases: no row  *)
(* is taken back, and the newest has every row of the older ones, so what  *)
(* a poll has read stays true until it is shown.                           *)
(***************************************************************************)
EXTENDS CodexGoals, BandsProofs, SequenceTheorems

Known == state[Newest(state)]
Rows == history[Newest(history)]

RowSets == [turns : SUBSET TurnIds, ended : SUBSET TurnIds, items : SUBSET TurnIds]
Within(some, all) ==
    some.turns \subseteq all.turns /\ some.ended \subseteq all.ended /\ some.items \subseteq all.items

\* The databases: the newest one exists and has the rows of the others, and of
\* their names one is the last, as text.
HasLast(versions) == \E v \in versions : \A w \in versions \ {v} : TextBefore(w, v)
DbTypes ==
    /\ state \in [DOMAIN state -> SUBSET Threads]
    /\ history \in [DOMAIN state -> RowSets]
    /\ DOMAIN state \subseteq Versions
DbInv ==
    /\ DbTypes
    /\ Newest(state) \in DOMAIN state /\ \A v \in DOMAIN state : v <= Newest(state)
    /\ \A v \in DOMAIN state : state[v] \subseteq Known /\ Within(history[v], Rows)
    /\ HasLast(DOMAIN state)

Befores == [threads : SUBSET Threads, rows : RowSets]
Polls == [at : {"turns", "items", "plans"}, threads : SUBSET Threads, history : Versions,
          turns : SUBSET TurnIds, ended : SUBSET TurnIds, items : SUBSET TurnIds,
          whole : BOOLEAN, before : Befores]
OfOurs(u) == u[1] \in read.threads
PollInv ==
    read # NotReading =>
        /\ read \in Polls /\ read.history \in DOMAIN history
        /\ read.threads \subseteq Known /\ Within(read, Rows)
        /\ \A u \in read.turns \cup read.ended \cup read.items : OfOurs(u)

-----------------------------------------------------------------------------
(* The databases *)

\* The newest database is the one of the highest number.
LEMMA NewestIs ==
    ASSUME NEW db, NEW v \in DOMAIN db, DOMAIN db \subseteq Int, \A w \in DOMAIN db : w <= v
    PROVE  Newest(db) = v
  <1>1. \A w \in DOMAIN db : v >= w
    OBVIOUS
  <1>2. \A x \in DOMAIN db : (\A w \in DOMAIN db : x >= w) => x = v
    OBVIOUS
  <1> QED BY <1>1, <1>2 DEF Newest, Max

\* There is a lowest version.
LEMMA LowestVersion == ASSUME CodexAssumption PROVE Min(Versions) \in Versions
  <1>1. \E v \in Versions : \A w \in Versions : v <= w
    <2>1. Versions \subseteq Nat /\ Versions # {}
      BY DEF CodexAssumption
    <2> DEFINE Less == OpToRel(<, Nat)
    <2>2. \A m, n \in Nat : <<m, n>> \in Less <=> m < n
      BY DEF OpToRel
    <2>3. IsWellFoundedOn(Less, Nat)
      BY NatLessThanWellFounded
    <2> HIDE DEF Less
    <2>4. PICK v \in Versions : \A w \in Versions : ~ (<<w, v>> \in Less)
      BY <2>1, <2>3, WFMin
    <2>5. ASSUME NEW w \in Versions PROVE v <= w
      <3>1. v \in Nat /\ w \in Nat /\ ~ (w < v)
        BY <2>1, <2>2, <2>4
      <3> QED BY <3>1
    <2> QED BY <2>5
  <1> QED BY <1>1 DEF Min

\* The order of the names is an order of the versions.
LEMMA NamesAreOrdered ==
    ASSUME CodexAssumption
    PROVE  /\ \A m, n \in Versions : m = n \/ TextBefore(m, n) \/ TextBefore(n, m)
           /\ \A m, n \in Versions : ~ (TextBefore(m, n) /\ TextBefore(n, m))
           /\ \A m, n, k \in Versions : TextBefore(m, n) /\ TextBefore(n, k) => TextBefore(m, k)
  <1> DEFINE first(n) == Head(Text(n))
  <1>1. \A n \in Versions : n \in Int /\ first(n) \in Int
    BY DEF CodexAssumption, Text
  <1>2. \A m, n : TextBefore(m, n) <=> first(m) < first(n) \/ (first(m) = first(n) /\ m < n)
    BY DEF TextBefore
  <1> HIDE DEF first
  <1> QED BY <1>1, <1>2

\* One name of the databases is the last, also after an upgrade.
LEMMA LastNameStays ==
    ASSUME CodexAssumption, NEW S, S \subseteq Versions, NEW v \in Versions, HasLast(S)
    PROVE  HasLast(S \cup {v})
  <1>1. PICK x \in S : \A w \in S \ {x} : TextBefore(w, x)
    BY DEF HasLast
  <1>2. CASE v = x \/ TextBefore(v, x)
    BY <1>1, <1>2 DEF HasLast
  <1>3. CASE TextBefore(x, v)
    <2>1. \A w \in S : TextBefore(w, v)
      BY <1>1, <1>3, NamesAreOrdered
    <2> QED BY <2>1 DEF HasLast
  <1> QED BY <1>2, <1>3, NamesAreOrdered

\* What Codex's steps do to the databases.
Grown == /\ Known \subseteq Known' /\ Within(Rows, Rows')
         /\ \A v \in DOMAIN history : v \in DOMAIN history' /\ Within(history[v], history'[v])

\* Every set of rows has itself.
LEMMA WithinItself == \A rows : Within(rows, rows)
    BY DEF Within

\* Rows of any database but those of the newest are left alone; the newest grow.
LEMMA RowsWritten ==
    ASSUME CodexAssumption, DbInv, NEW known, NEW rows \in RowSets,
           known \in SUBSET Threads, Known \subseteq known, Within(Rows, rows),
           state' = [state EXCEPT ![Newest(state)] = known],
           history' = [history EXCEPT ![Newest(history)] = rows]
    PROVE  DbInv' /\ Grown
  <1> DEFINE n == Newest(state)
  <1>1. /\ n \in DOMAIN state /\ Newest(history) = n
        /\ DOMAIN state' = DOMAIN state /\ DOMAIN history' = DOMAIN state
        /\ DOMAIN history = DOMAIN state
    BY DEF DbInv, DbTypes, Newest
  <1>2. Newest(state') = n /\ Newest(history') = n
    BY <1>1 DEF Newest
  <1> HIDE DEF n
  <1>3. /\ state'[n] = known /\ \A v \in DOMAIN state : v # n => state'[v] = state[v]
        /\ history'[n] = rows /\ \A v \in DOMAIN state : v # n => history'[v] = history[v]
    BY <1>1 DEF n, DbInv, DbTypes
  <1>4. Known' = known /\ Rows' = rows
    BY <1>2, <1>3 DEF Known, Rows
  <1>5. DbTypes'
    BY <1>1, <1>3 DEF DbInv, DbTypes
  <1>6. ASSUME NEW v \in DOMAIN state PROVE state'[v] \subseteq known /\ Within(history'[v], rows)
    <2>1. state[v] \subseteq Known /\ Within(history[v], Rows)
      BY DEF DbInv
    <2> QED BY <1>3, <2>1, WithinItself DEF Within
  <1>7. DbInv'
    BY <1>1, <1>2, <1>4, <1>5, <1>6 DEF DbInv, n
  <1>8. Grown
    BY <1>1, <1>3, <1>4, WithinItself DEF Grown, Rows
  <1> QED BY <1>7, <1>8

\* A newer version starts with all that the newest has.
LEMMA UpgradeGrows ==
    ASSUME CodexAssumption, DbInv, NEW v \in Versions, Upgrade(v)
    PROVE  DbInv' /\ Grown
  <1> DEFINE n == Newest(state)
  <1>1. /\ n \in DOMAIN state /\ Newest(history) = n /\ DOMAIN history = DOMAIN state
        /\ \A w \in DOMAIN state : w <= n
        /\ DOMAIN state \subseteq Int /\ v \in Int /\ v > n
    BY DEF DbInv, DbTypes, Newest, Upgrade, CodexAssumption
  <1>2. v \notin DOMAIN state
    BY <1>1
  <1>3. /\ DOMAIN state' = DOMAIN state \cup {v} /\ DOMAIN history' = DOMAIN state \cup {v}
        /\ state'[v] = Known /\ history'[v] = Rows
        /\ \A w \in DOMAIN state : state'[w] = state[w] /\ history'[w] = history[w]
    BY <1>1, <1>2 DEF Upgrade, Upgraded, Known, Rows
  <1> HIDE DEF n
  <1>4. \A w \in DOMAIN state' : w <= v
    BY <1>1, <1>3
  <1>5. Newest(state') = v /\ Newest(history') = v
    BY <1>1, <1>3, <1>4, NewestIs
  <1>6. Known' = Known /\ Rows' = Rows
    BY <1>3, <1>5 DEF Known, Rows
  <1>7. Known \in SUBSET Threads /\ Rows \in RowSets
    BY <1>1 DEF DbInv, DbTypes, Known, Rows
  <1>8. DbTypes'
    BY <1>3, <1>7, <1>1 DEF DbInv, DbTypes, Upgrade, Upgraded
  <1>9. \A w \in DOMAIN state' : state'[w] \subseteq Known /\ Within(history'[w], Rows)
    BY <1>3, WithinItself DEF DbInv
  <1>10. HasLast(DOMAIN state')
    BY <1>3, LastNameStays DEF DbInv, DbTypes
  <1>11. DbInv'
    BY <1>3, <1>4, <1>5, <1>6, <1>8, <1>9, <1>10 DEF DbInv
  <1>12. Grown
    BY <1>1, <1>3, <1>6, WithinItself DEF Grown
  <1> QED BY <1>11, <1>12

\* Codex's own steps, and those that leave its databases alone.
Writes == \/ \E t \in Threads : WriteThread(t)
          \/ \E u \in TurnIds : WriteTurn(u) \/ EndTurn(u) \/ WriteItem(u)
          \/ \E v \in Versions : Upgrade(v)
LEMMA DbUnread == ASSUME DbInv, UNCHANGED <<state, history>> PROVE DbInv' /\ Grown
  <1>1. UNCHANGED <<Known, Rows>>
    BY DEF Known, Rows, Newest
  <1>2. DbInv'
    BY <1>1 DEF DbInv, DbTypes, Newest, HasLast
  <1>3. Grown
    BY <1>1, WithinItself DEF Grown
  <1> QED BY <1>2, <1>3
LEMMA DbWritten == ASSUME CodexAssumption, DbInv, Writes PROVE DbInv' /\ Grown
  <1>1. /\ Newest(state) \in DOMAIN state /\ Newest(history) \in DOMAIN history
        /\ Newest(history) = Newest(state)
        /\ Known \in SUBSET Threads /\ Rows \in RowSets
    BY DEF DbInv, DbTypes, Newest, Known, Rows
  <1>2. state = [state EXCEPT ![Newest(state)] = Known]
        /\ history = [history EXCEPT ![Newest(history)] = Rows]
    BY <1>1 DEF DbInv, DbTypes, Known, Rows
  <1>3. ASSUME NEW t \in Threads, WriteThread(t) PROVE DbInv' /\ Grown
    <2> DEFINE known == Known \cup {t}
    <2>1. state' = [state EXCEPT ![Newest(state)] = known] /\ history' = history
      BY <1>3 DEF WriteThread, Known
    <2>2. known \in SUBSET Threads /\ Known \subseteq known
      BY <1>1
    <2> HIDE DEF known
    <2> QED BY <1>1, <1>2, <2>1, <2>2, RowsWritten, WithinItself
  <1>4. ASSUME NEW u \in TurnIds, WriteTurn(u) \/ EndTurn(u) \/ WriteItem(u) PROVE DbInv' /\ Grown
    <2>1. PICK rows \in {[Rows EXCEPT !.turns = @ \cup {u}], [Rows EXCEPT !.ended = @ \cup {u}],
                         [Rows EXCEPT !.items = @ \cup {u}]} :
             history' = [history EXCEPT ![Newest(history)] = rows]
      BY <1>4 DEF WriteTurn, EndTurn, WriteItem, History, Rows
    <2>2. state' = state
      BY <1>4 DEF WriteTurn, EndTurn, WriteItem, History
    <2>3. rows \in RowSets /\ Within(Rows, rows)
      BY <1>1 DEF RowSets, Within
    <2> QED BY <1>1, <1>2, <2>1, <2>2, <2>3, RowsWritten
  <1> QED BY <1>3, <1>4, UpgradeGrows DEF Writes
LEMMA DbStep == ASSUME CodexAssumption, DbInv, [Next]_vars PROVE DbInv' /\ Grown
  <1>1. CASE Writes
    BY <1>1, DbWritten
  <1>2. CASE ~Writes
    <2>1. UNCHANGED <<state, history>>
      BY <1>2 DEF Next, Writes, vars, codex, Dump, Replace, CutShort, Call, Hook, ReadThreads,
         ReadTurns, ReadItems, ReadPlans, ThreadsFail, HistoryFails
    <2> QED BY <2>1, DbUnread
  <1> QED BY <1>1, <1>2

-----------------------------------------------------------------------------
(* The poll *)

\* What was read stays true while Codex writes.
LEMMA PollWaits ==
    ASSUME PollInv, Grown, read' = read PROVE PollInv'
    BY DEF PollInv, Grown, Within, OfOurs

\* NotReading is no poll.
LEMMA PollsRead == \A poll \in Polls : poll # NotReading /\ poll.at # "none"
    BY DEF Polls, NotReading

\* The first step: the threads.
LEMMA ThreadsRead ==
    ASSUME CodexAssumption, DbInv, ReadThreads
    PROVE  PollInv'
  <1> DEFINE v == _newest(DOMAIN state)
             poll == [at |-> "turns", threads |-> state[v], history |-> v,
                      turns |-> {}, ended |-> {}, items |-> {}, whole |-> TRUE,
                      before |-> [threads |-> Known, rows |-> Rows]]
  <1>1. v \in DOMAIN state /\ DOMAIN history = DOMAIN state
    BY DEF _newest, DbInv, DbTypes, HasLast
  <1>2. read' = poll
    BY <1>1 DEF ReadThreads, Known, Rows
  <1>3. Known \in SUBSET Threads /\ Rows \in RowSets /\ state[v] \in SUBSET Threads /\ v \in Versions
        /\ state[v] \subseteq Known
    BY <1>1 DEF DbInv, DbTypes, Known, Rows, Newest
  <1> HIDE DEF v
  <1>4. poll \in Polls
    BY <1>3 DEF Polls, Befores
  <1>5. /\ poll.history = v /\ poll.threads = state[v]
        /\ poll.turns = {} /\ poll.ended = {} /\ poll.items = {}
    OBVIOUS
  <1> HIDE DEF poll
  <1>6. UNCHANGED <<Known, Rows, history>>
    BY DEF ReadThreads, codex, Known, Rows, Newest
  <1> QED BY <1>1, <1>2, <1>3, <1>4, <1>5, <1>6 DEF PollInv, Within, OfOurs

\* The other steps, as one: what they read is rows of the poll's threads, and
\* what they leave is what was read before.
Rest == ReadTurns \/ ReadItems \/ HistoryFails
LEMMA RestReads ==
    ASSUME DbInv, PollInv, Rest
    PROVE  LET now == history[read.history] IN
           /\ read \in Polls /\ read' \in Polls /\ read # NotReading /\ now \in RowSets
           /\ read'.threads = read.threads /\ read'.history = read.history
           /\ read'.before = read.before
           /\ read'.turns \subseteq read.turns \cup OfThreads(now.turns)
           /\ read'.ended \subseteq read.ended \cup OfThreads(now.ended)
           /\ read'.items \subseteq read.items \cup OfThreads(now.items)
           /\ \/ /\ ReadTurns /\ read'.at = "items"
                 /\ read'.turns = OfThreads(now.turns) /\ read'.ended = OfThreads(now.ended)
              \/ /\ ReadItems /\ read'.at = "plans" /\ read'.items = OfThreads(now.items)
                 /\ read'.turns = read.turns /\ read'.ended = read.ended /\ read'.whole = read.whole
              \/ HistoryFails /\ read'.whole = FALSE
           /\ UNCHANGED <<state, history, picture>>
  <1> DEFINE now == history[read.history]
  <1>1. read # NotReading /\ UNCHANGED <<state, history, picture>>
    <2>1. read.at \in {"turns", "items"}
      BY DEF Rest, ReadTurns, ReadItems, HistoryFails
    <2>2. NotReading.at = "none"
      BY DEF NotReading
    <2>3. UNCHANGED <<codex, picture>>
      BY DEF Rest, ReadTurns, ReadItems, HistoryFails
    <2> QED BY <2>1, <2>2, <2>3 DEF codex
  <1>2. read \in Polls /\ now \in RowSets
    BY <1>1 DEF PollInv, DbInv, DbTypes
  <1>3. /\ OfThreads(now.turns) \in SUBSET TurnIds /\ OfThreads(now.ended) \in SUBSET TurnIds
        /\ OfThreads(now.items) \in SUBSET TurnIds
    BY <1>2 DEF RowSets, OfThreads
  <1> HIDE DEF now
  <1>4. CASE ReadTurns
    <2>1. read' = [read EXCEPT !.at = "items", !.turns = OfThreads(now.turns),
                               !.ended = OfThreads(now.ended)]
      BY <1>4 DEF ReadTurns, now
    <2> QED BY <1>1, <1>2, <1>3, <1>4, <2>1 DEF Polls, now
  <1>5. CASE ReadItems
    <2>1. read' = [read EXCEPT !.at = "plans", !.items = OfThreads(now.items)]
      BY <1>5 DEF ReadItems, now
    <2> QED BY <1>1, <1>2, <1>3, <1>5, <2>1 DEF Polls, now
  <1>6. CASE HistoryFails
    <2>1. CASE read.at = "turns"
      <3>1. PICK some \in SUBSET OfThreads(now.turns) :
               read' = [read EXCEPT !.at = "plans", !.whole = FALSE, !.turns = some,
                                    !.ended = some \cap now.ended]
        BY <1>6, <2>1 DEF HistoryFails, now
      <3>2. some \cap now.ended \in SUBSET TurnIds /\ some \in SUBSET TurnIds
            /\ some \cap now.ended \subseteq OfThreads(now.ended)
        BY <1>3, <3>1 DEF OfThreads
      <3> QED BY <1>1, <1>2, <1>6, <3>1, <3>2 DEF Polls, now
    <2>2. CASE read.at # "turns"
      <3>1. PICK some \in SUBSET OfThreads(now.items) :
               read' = [read EXCEPT !.at = "plans", !.whole = FALSE, !.items = some]
        BY <1>6, <2>2 DEF HistoryFails, now
      <3>2. some \in SUBSET TurnIds
        BY <1>3, <3>1
      <3> QED BY <1>1, <1>2, <1>6, <3>1, <3>2 DEF Polls, now
    <2> QED BY <2>1, <2>2
  <1> QED BY <1>4, <1>5, <1>6 DEF Rest
LEMMA RestKeeps == ASSUME DbInv, PollInv, Rest PROVE PollInv'
  <1> DEFINE now == history[read.history]
  <1>1. /\ read \in Polls /\ read' \in Polls /\ read # NotReading /\ now \in RowSets
        /\ read'.threads = read.threads /\ read'.history = read.history
        /\ read'.turns \subseteq read.turns \cup OfThreads(now.turns)
        /\ read'.ended \subseteq read.ended \cup OfThreads(now.ended)
        /\ read'.items \subseteq read.items \cup OfThreads(now.items)
        /\ UNCHANGED <<state, history>>
    BY RestReads
  <1>2. /\ read.history \in DOMAIN history /\ read.threads \subseteq Known /\ Within(read, Rows)
        /\ \A u \in read.turns \cup read.ended \cup read.items : OfOurs(u)
    BY <1>1 DEF PollInv
  <1>3. Within(now, Rows) /\ UNCHANGED <<Known, Rows>>
    BY <1>1, <1>2 DEF DbInv, DbTypes, Known, Rows, Newest
  <1> HIDE DEF now
  <1>4. Within(read', Rows)
    BY <1>1, <1>2, <1>3 DEF Within, OfThreads
  <1>5. \A u \in read'.turns \cup read'.ended \cup read'.items : OfOurs(u)'
    BY <1>1, <1>2 DEF OfOurs, OfThreads
  <1> QED BY <1>1, <1>2, <1>3, <1>4, <1>5 DEF PollInv

\* What is shown is what was read.
LEMMA ShownIsRead ==
    ASSUME DbInv, PollInv, ReadPlans
    PROVE  /\ picture'.threads = read.threads /\ picture'.turns = read.turns
           /\ picture'.files = read.items \cap read.turns
           /\ picture'.events = ({"files"} \X read.items) \cup ({"turn"} \X read.ended)
           /\ picture'.whole = read.whole /\ picture'.before = read.before
           /\ read # NotReading /\ read' = NotReading /\ UNCHANGED <<state, history>>
    BY DEF ReadPlans, Shown, _record_item, _turn_events, _on_file_change, codex, NotReading

\* Every step.
LEMMA PollStep == ASSUME CodexAssumption, DbInv, PollInv, [Next]_vars PROVE PollInv'
  <1>1. Grown
    BY DbStep
  <1>2. CASE read' = read
    BY <1>1, <1>2, PollWaits
  <1>3. CASE read' = NotReading
    BY <1>3 DEF PollInv
  <1>4. CASE ReadThreads
    BY <1>4, ThreadsRead
  <1>5. CASE Rest
    BY <1>5, RestKeeps
  <1> QED BY <1>2, <1>3, <1>4, <1>5 DEF Rest, Next, vars, codex, Write, WriteThread, WriteTurn,
     EndTurn, WriteItem, History, Upgrade, Dump, Replace, CutShort, Call, Hook, ReadPlans,
     ThreadsFail

-----------------------------------------------------------------------------
(* The hook *)

\* A plan file has a plan of a call that its thread made, never a torn one, and
\* the plan that a hook is about to put there is of a later call.
CalledFor(all, t, plan) ==
    plan.nr \in 0 .. Len(all) /\ (plan = NoPlan \/ MadeIn(all, t, plan))
HookInv ==
    /\ calls \in Seq([thread : Threads, call : Calls])
    /\ plans = [t \in Threads |-> plans[t]] /\ hook = [t \in Threads |-> hook[t]]
    /\ \A t \in Threads :
         /\ CalledFor(calls, t, plans[t])
         /\ hook[t] # NoHook =>
              /\ hook[t] = [at |-> hook[t].at, plan |-> hook[t].plan]
              /\ CalledFor(calls, t, hook[t].plan) /\ plans[t].nr < hook[t].plan.nr

\* Who called, and with what.
LEMMA CallsAreCalls ==
    ASSUME NEW all, all \in Seq([thread : Threads, call : Calls]), NEW nr \in DOMAIN all
    PROVE  all[nr].thread \in Threads /\ all[nr].call \in Calls
  <1>1. nr \in 1 .. Len(all)
    OBVIOUS
  <1>2. all[nr] \in [thread : Threads, call : Calls]
    BY <1>1, ElementOfSeq
  <1> QED BY <1>2

\* A call that was made stays made; the next one is of its thread.
LEMMA MadeStays ==
    ASSUME NEW all, all \in Seq([thread : Threads, call : Calls]),
           NEW t \in Threads, NEW call \in Calls
    PROVE  LET new == Append(all, [thread |-> t, call |-> call]) IN
           /\ new \in Seq([thread : Threads, call : Calls]) /\ Len(new) = Len(all) + 1
           /\ \A s, plan : MadeIn(all, s, plan) => MadeIn(new, s, plan)
           /\ \A s, plan : CalledFor(all, s, plan) => CalledFor(new, s, plan)
           /\ CalledFor(new, t, [nr |-> Len(new), plan |-> Caught(call)])
  <1> DEFINE made == [thread |-> t, call |-> call]
             new == Append(all, made)
  <1>1. made \in [thread : Threads, call : Calls] /\ made.thread = t /\ made.call = call
    OBVIOUS
  <1> HIDE DEF made
  <1>2. /\ Len(all) \in Nat /\ DOMAIN all = 1 .. Len(all)
        /\ new \in Seq([thread : Threads, call : Calls]) /\ Len(new) = Len(all) + 1
        /\ DOMAIN new = 1 .. Len(new) /\ new[Len(new)] = made
        /\ \A nr \in DOMAIN all : nr \in DOMAIN new /\ new[nr] = all[nr]
    BY <1>1
  <1> HIDE DEF new
  <1>3. \A s, plan : MadeIn(all, s, plan) => MadeIn(new, s, plan)
    BY <1>2 DEF MadeIn
  <1>4. \A s, plan : CalledFor(all, s, plan) => CalledFor(new, s, plan)
    BY <1>2, <1>3 DEF CalledFor
  <1>5. CalledFor(new, t, [nr |-> Len(new), plan |-> Caught(call)])
    <2>1. Len(new) \in DOMAIN new /\ Len(new) \in 0 .. Len(new)
      BY <1>2
    <2>2. MadeIn(new, t, [nr |-> Len(new), plan |-> Caught(call)])
      BY <1>1, <1>2, <2>1 DEF MadeIn
    <2> QED BY <2>1, <2>2 DEF CalledFor
  <1> QED BY <1>2, <1>3, <1>4, <1>5 DEF new, made

\* No step of a hook, wherever it is cut short, breaks this or takes a plan back.
LEMMA HookStep ==
    ASSUME HookInv, [Next]_vars
    PROVE  HookInv' /\ \A t \in Threads : plans[t].nr <= plans'[t].nr
  <1>1. /\ Len(calls) \in Nat /\ \A t \in Threads : plans[t].nr \in Nat /\ plans[t].nr <= Len(calls)
        /\ \A t \in Threads : hook[t] # NoHook => hook[t].plan.nr \in Nat
    BY DEF HookInv, CalledFor
  <1>2. CASE UNCHANGED <<plans, hook, calls>>
    BY <1>1, <1>2 DEF HookInv, CalledFor
  <1>3. ASSUME NEW t \in Threads, NEW call \in Calls, Call(t, call)
        PROVE  HookInv' /\ plans' = plans
    <2> DEFINE new == Append(calls, [thread |-> t, call |-> call])
               caught == [nr |-> Len(new), plan |-> Caught(call)]
               opened == [at |-> "opened", plan |-> caught]
    <2>1. /\ calls' = new /\ plans' = plans
          /\ \/ hook' = [hook EXCEPT ![t] = NoHook]
             \/ hook' = [hook EXCEPT ![t] = opened]
      BY <1>3 DEF Call, Hook, Opened, HookInv
    <2>2. /\ new \in Seq([thread : Threads, call : Calls]) /\ Len(new) = Len(calls) + 1
          /\ \A s, plan : CalledFor(calls, s, plan) => CalledFor(new, s, plan)
          /\ CalledFor(new, t, caught)
      BY MadeStays DEF HookInv
    <2>3. opened = [at |-> opened.at, plan |-> opened.plan] /\ opened.plan = caught
          /\ caught.nr = Len(new)
      OBVIOUS
    <2> HIDE DEF opened, caught, new
    <2> QED BY <1>1, <2>1, <2>2, <2>3 DEF HookInv
  <1>4. ASSUME NEW t \in Threads, Dump(t)
        PROVE  HookInv' /\ plans' = plans
    <2>1. hook[t] # NoHook /\ UNCHANGED <<plans, calls>>
      BY <1>4 DEF Dump, NoHook
    <2>2. PICK plan : plan = hook[t].plan
      OBVIOUS
    <2>3. hook[t] = [at |-> hook[t].at, plan |-> plan]
      BY <2>1, <2>2 DEF HookInv
    <2> DEFINE written == [at |-> "written", plan |-> plan]
    <2>4. [hook[t] EXCEPT !.at = "written"] = written
      BY <2>3
    <2>5. hook' = [hook EXCEPT ![t] = written]
      BY <1>4, <2>4 DEF Dump, Hook
    <2>6. written = [at |-> written.at, plan |-> written.plan] /\ written.plan = hook[t].plan
      BY <2>2
    <2> HIDE DEF written
    <2> QED BY <2>1, <2>5, <2>6 DEF HookInv, CalledFor
  <1>5. ASSUME NEW t \in Threads, Replace(t)
        PROVE  HookInv' /\ plans[t].nr <= plans'[t].nr
               /\ \A s \in Threads \ {t} : plans'[s] = plans[s]
    <2>1. hook[t] # NoHook /\ calls' = calls
      BY <1>5 DEF Replace, NoHook
    <2>2. plans' = [plans EXCEPT ![t] = hook[t].plan] /\ hook' = [hook EXCEPT ![t] = NoHook]
      BY <1>5 DEF Replace, Hook
    <2>3. /\ plans'[t] = hook[t].plan /\ hook'[t] = NoHook
          /\ \A s \in Threads \ {t} : plans'[s] = plans[s] /\ hook'[s] = hook[s]
      BY <2>2 DEF HookInv
    <2>4. plans' = [s \in Threads |-> plans'[s]] /\ hook' = [s \in Threads |-> hook'[s]]
      BY <2>2 DEF HookInv
    <2>5. CalledFor(calls, t, hook[t].plan) /\ plans[t].nr < hook[t].plan.nr
      BY <2>1 DEF HookInv
    <2> QED BY <1>1, <2>1, <2>3, <2>4, <2>5 DEF HookInv
  <1>6. ASSUME NEW t \in Threads, CutShort(t)
        PROVE  HookInv' /\ plans' = plans
    <2>1. hook' = [hook EXCEPT ![t] = NoHook] /\ UNCHANGED <<plans, calls>>
      BY <1>6 DEF CutShort, Hook
    <2> QED BY <2>1 DEF HookInv, CalledFor
  <1>7. \A s \in Threads : plans' = plans => plans[s].nr <= plans'[s].nr
    BY <1>1
  <1>8. CASE \E t \in Threads : Dump(t) \/ Replace(t) \/ CutShort(t) \/ \E call \in Calls : Call(t, call)
    BY <1>1, <1>3, <1>4, <1>5, <1>6, <1>7, <1>8
  <1> QED BY <1>2, <1>7, <1>8 DEF Next, vars, codex, Write, WriteThread, WriteTurn, EndTurn, WriteItem,
     History, Upgrade, ReadThreads, ReadTurns, ReadItems, HistoryFails, ThreadsFail, ReadPlans

\* No step takes a call back, and what is read of a plan is what is in its file.
LEMMA CallsStay ==
    ASSUME HookInv, [Next]_vars
    PROVE  \A t, plan : MadeIn(calls, t, plan) => MadeIn(calls', t, plan)
  <1>1. CASE calls' = calls
    BY <1>1
  <1>2. CASE \E t \in Threads : \E call \in Calls : Call(t, call)
    <2>1. PICK t \in Threads, call \in Calls : calls' = Append(calls, [thread |-> t, call |-> call])
      BY <1>2 DEF Call
    <2> DEFINE new == Append(calls, [thread |-> t, call |-> call])
    <2>2. \A s, plan : MadeIn(calls, s, plan) => MadeIn(new, s, plan)
      BY MadeStays DEF HookInv
    <2> HIDE DEF new
    <2> QED BY <2>1, <2>2 DEF new
  <1> QED BY <1>1, <1>2 DEF Next, vars, codex, Write, WriteThread, WriteTurn, EndTurn, WriteItem,
     History, Upgrade, Dump, Replace, CutShort, ReadThreads, ReadTurns, ReadItems, HistoryFails,
     ThreadsFail, ReadPlans
LEMMA PlansAreWhole == ASSUME HookInv, NEW t \in Threads PROVE PlanOf(t) = plans[t]
  <1>1. plans[t].nr >= 0
    BY DEF HookInv, CalledFor
  <1>2. Torn.nr = -1
    BY DEF Torn
  <1> QED BY <1>1, <1>2 DEF PlanOf, read_plan

-----------------------------------------------------------------------------
(* The picture *)

\* A picture stays as true as it was.
LEMMA InventedStep ==
    ASSUME CodexAssumption, DbInv, PollInv, HookInv, NothingIsInvented, [Next]_vars
    PROVE  NothingIsInvented'
  <1>1. Grown
    BY DbStep
  <1>2. CASE picture' = picture
    BY <1>1, <1>2, CallsStay DEF NothingIsInvented, Grown, Within, Known, Rows
  <1>3. CASE picture' = NoPicture
    BY <1>3 DEF NothingIsInvented, NoPicture
  <1>4. CASE ReadPlans
    <2>1. /\ picture'.threads = read.threads /\ picture'.turns = read.turns
          /\ picture'.files = read.items \cap read.turns
          /\ picture'.events = ({"files"} \X read.items) \cup ({"turn"} \X read.ended)
          /\ read # NotReading /\ UNCHANGED <<state, history>>
      BY <1>4, ShownIsRead
    <2>2. /\ read.threads \subseteq Known /\ Within(read, Rows)
          /\ \A u \in read.turns \cup read.ended \cup read.items : OfOurs(u)
      BY <2>1 DEF PollInv
    <2>3. UNCHANGED <<Known, Rows>>
      BY <2>1 DEF Known, Rows, Newest
    <2>4. /\ picture'.threads \subseteq Known'
          /\ picture'.files \subseteq picture'.turns \cap Rows'.items
          /\ picture'.turns \subseteq Rows'.turns
      BY <2>1, <2>2, <2>3 DEF Within
    <2>5. \A e \in picture'.events : e[2] \in Rows'.items \cup Rows'.ended /\ e[2][1] \in picture'.threads
      BY <2>1, <2>2, <2>3 DEF Within, OfOurs
    <2>6. \A t \in picture'.threads : picture'.plan[t] = NoPlan \/ MadeIn(calls', t, picture'.plan[t])
      <3>1. picture'.plan = [t \in read.threads |-> PlanOf(t)] /\ calls' = calls
        BY <1>4 DEF ReadPlans, Shown, codex
      <3>2. \A t \in read.threads : t \in Threads /\ CalledFor(calls, t, plans[t])
        BY <2>1 DEF PollInv, Polls, HookInv
      <3> QED BY <2>1, <3>1, <3>2, PlansAreWhole DEF CalledFor
    <2> QED BY <2>4, <2>5, <2>6 DEF NothingIsInvented, Known, Rows
  <1> QED BY <1>2, <1>3, <1>4 DEF Next, vars, codex, Write, WriteThread, WriteTurn,
     EndTurn, WriteItem, History, Upgrade, Dump, Replace, CutShort, Call, Hook, ReadThreads,
     ReadTurns, ReadItems, HistoryFails, ThreadsFail

-----------------------------------------------------------------------------
LEMMA InitDb == ASSUME CodexAssumption, Init PROVE DbInv
  <1> DEFINE v == Min(Versions)
  <1>0. v \in Versions
    BY LowestVersion
  <1> HIDE DEF v
  <1>1. v \in Versions /\ v \in Int
    BY <1>0 DEF CodexAssumption
  <1>2. state = [w \in {v} |-> {}] /\ history = [w \in {v} |-> Nothing]
    BY DEF Init, v
  <1>3. Nothing \in RowSets
    BY DEF Nothing, RowSets
  <1>4. Newest(state) = v /\ Newest(history) = v
    BY <1>1, <1>2, NewestIs
  <1>5. DbTypes
    BY <1>1, <1>2, <1>3 DEF DbTypes
  <1>6. \A w \in DOMAIN state : state[w] \subseteq Known /\ Within(history[w], Rows)
    BY <1>2, <1>4, WithinItself DEF Known, Rows
  <1> QED BY <1>1, <1>2, <1>4, <1>5, <1>6 DEF DbInv, HasLast

LEMMA InitHook == ASSUME Init PROVE HookInv
    BY DEF Init, HookInv, CalledFor, NoPlan, NoHook

\* The inductive invariant of the reading.
IInv == DbInv /\ PollInv /\ HookInv /\ NothingIsInvented
THEOREM InductiveInvariant == ASSUME CodexAssumption PROVE Spec => []IInv
  <1>1. Init => IInv
    <2> SUFFICES ASSUME Init PROVE IInv
      OBVIOUS
    <2>1. read = NotReading /\ picture.threads = {}
      BY DEF Init, NoPicture
    <2>2. PollInv /\ NothingIsInvented
      BY <2>1 DEF PollInv, NothingIsInvented
    <2> QED BY <2>2, InitDb, InitHook DEF IInv
  <1>2. IInv /\ [Next]_vars => IInv'
    BY DbStep, PollStep, HookStep, InventedStep DEF IInv
  <1> QED BY <1>1, <1>2, PTL DEF Spec

\* Whatever versions the databases have and wherever a reading is cut short: a
\* picture has only threads, turns, files and ends of turns that Codex wrote,
\* those of threads that are in it, and of each thread no plan but one that the
\* hook caught of a call this thread made.
THEOREM OnlyWhatWasWritten == ASSUME CodexAssumption PROVE Spec => []NothingIsInvented
  <1>1. IInv => NothingIsInvented
    BY DEF IInv
  <1> QED BY <1>1, InductiveInvariant, PTL

-----------------------------------------------------------------------------
(* Whole pictures *)

\* The names of the versions sort as their numbers do: so the database that is
\* read is the newest.
NamesInOrder == \A m, n \in Versions : m < n => TextBefore(m, n)

\* So they do for as long as the versions have equally many digits.
LEMMA EquallyManyDigits ==
    ASSUME Versions \subseteq 0 .. 9 \/ Versions \subseteq 10 .. 99
    PROVE  NamesInOrder
  <1>1. CASE Versions \subseteq 0 .. 9
    <2>1. \A m, n \in 0 .. 9 : m < n => TextBefore(m, n)
      BY DEF TextBefore, Text
    <2> QED BY <1>1, <2>1 DEF NamesInOrder
  <1>2. CASE Versions \subseteq 10 .. 99
    <2>1. \A n \in 10 .. 99 : Head(Text(n)) = n \div 10
      BY DEF Text
    <2>2. \A m, n \in 10 .. 99 : m < n => m \div 10 < n \div 10 \/ m \div 10 = n \div 10
      OBVIOUS
    <2>3. \A m, n \in 10 .. 99 : m < n => TextBefore(m, n)
      BY <2>1, <2>2 DEF TextBefore
    <2> QED BY <1>2, <2>3 DEF NamesInOrder
  <1> QED BY <1>1, <1>2

\* What a poll has read of what there was when it began.
Covered(some, threads, all) == \A u \in some : u[1] \in threads => u \in all
WholeInv ==
    read # NotReading =>
        LET rows == read.before.rows IN
        /\ read.before.threads \subseteq read.threads
        /\ Within(rows, history[read.history])
        /\ read.whole /\ read.at \in {"items", "plans"} =>
              Covered(rows.turns, read.threads, read.turns) /\ Covered(rows.ended, read.threads, read.ended)
        /\ read.whole /\ read.at = "plans" => Covered(rows.items, read.threads, read.items)

\* The last name is that of the newest version.
LEMMA LastIsNewest ==
    ASSUME CodexAssumption, NamesInOrder, DbInv
    PROVE  _newest(DOMAIN state) = Newest(state)
  <1> DEFINE n == Newest(state)
             IsLast(v) == \A w \in DOMAIN state \ {v} : TextBefore(w, v)
  <1>1. n \in DOMAIN state /\ DOMAIN state \subseteq Versions /\ \A v \in DOMAIN state : v <= n
    BY DEF DbInv, DbTypes
  <1>2. Versions \subseteq Int
    BY DEF CodexAssumption
  <1>3. IsLast(n)
    <2> SUFFICES ASSUME NEW w \in DOMAIN state \ {n} PROVE TextBefore(w, n)
      OBVIOUS
    <2>1. w \in Versions /\ n \in Versions /\ w <= n /\ w # n
      BY <1>1
    <2> HIDE DEF n
    <2>2. w < n
      BY <2>1, <1>2
    <2> QED BY <2>1, <2>2 DEF NamesInOrder
  <1>4. ASSUME NEW v \in DOMAIN state, IsLast(v) PROVE v = n
    BY <1>1, <1>3, <1>4, NamesAreOrdered
  <1>5. _newest(DOMAIN state) = CHOOSE v \in DOMAIN state : IsLast(v)
    BY DEF _newest
  <1> QED BY <1>1, <1>3, <1>4, <1>5

\* No step loses what there was when the poll began.
LEMMA WholeStarts ==
    ASSUME CodexAssumption, NamesInOrder, DbInv, ReadThreads PROVE WholeInv'
  <1>1. _newest(DOMAIN state) = Newest(state) /\ DOMAIN history = DOMAIN state
    BY LastIsNewest DEF DbInv, DbTypes
  <1>2. read' = [at |-> "turns", threads |-> Known, history |-> Newest(history),
                 turns |-> {}, ended |-> {}, items |-> {}, whole |-> TRUE,
                 before |-> [threads |-> Known, rows |-> Rows]]
    BY <1>1 DEF ReadThreads, Known, Rows, Newest
  <1>3. /\ read'.at = "turns" /\ read'.before.threads = read'.threads
        /\ read'.before.rows = Rows /\ read'.history = Newest(history)
    BY <1>2
  <1>4. history' = history
    BY DEF ReadThreads, codex
  <1> QED BY <1>3, <1>4, WithinItself DEF WholeInv, Rows
LEMMA WholeGoesOn ==
    ASSUME DbInv, PollInv, WholeInv, Rest PROVE WholeInv'
  <1> DEFINE now == history[read.history]
             rows == read.before.rows
  <1>1. /\ read # NotReading /\ read'.threads = read.threads /\ read'.history = read.history
        /\ read'.before = read.before /\ history' = history
        /\ \/ /\ ReadTurns /\ read'.at = "items"
              /\ read'.turns = OfThreads(now.turns) /\ read'.ended = OfThreads(now.ended)
           \/ /\ ReadItems /\ read'.at = "plans" /\ read'.items = OfThreads(now.items)
              /\ read'.turns = read.turns /\ read'.ended = read.ended /\ read'.whole = read.whole
           \/ HistoryFails /\ read'.whole = FALSE
    BY RestReads
  <1>2. rows.turns \subseteq now.turns /\ rows.ended \subseteq now.ended /\ rows.items \subseteq now.items
    BY <1>1 DEF WholeInv, Within
  <1>3. \A some, all : some \subseteq all => Covered(some, read.threads, OfThreads(all))
    BY DEF Covered, OfThreads
  <1>4. read'.before.threads \subseteq read'.threads /\ Within(read'.before.rows, history'[read'.history])
    BY <1>1 DEF WholeInv
  <1>5. CASE ReadTurns /\ read'.at = "items" /\ read'.turns = OfThreads(now.turns)
             /\ read'.ended = OfThreads(now.ended)
    <2>1. Covered(rows.turns, read.threads, read'.turns) /\ Covered(rows.ended, read.threads, read'.ended)
      BY <1>2, <1>3, <1>5
    <2> QED BY <1>1, <1>4, <1>5, <2>1 DEF WholeInv
  <1>6. CASE ReadItems /\ read'.at = "plans" /\ read'.items = OfThreads(now.items)
             /\ read'.turns = read.turns /\ read'.ended = read.ended /\ read'.whole = read.whole
    <2>1. Covered(rows.items, read.threads, read'.items)
      BY <1>2, <1>3, <1>6
    <2>2. read.at = "items"
      BY <1>6 DEF ReadItems
    <2>3. read.whole => Covered(rows.turns, read.threads, read.turns)
                        /\ Covered(rows.ended, read.threads, read.ended)
      BY <1>1, <2>2 DEF WholeInv
    <2> QED BY <1>1, <1>4, <1>6, <2>1, <2>3 DEF WholeInv
  <1>7. CASE read'.whole = FALSE
    BY <1>4, <1>7 DEF WholeInv
  <1> QED BY <1>1, <1>5, <1>6, <1>7
LEMMA WholeStep ==
    ASSUME CodexAssumption, NamesInOrder, DbInv, PollInv, WholeInv, [Next]_vars PROVE WholeInv'
  <1>1. Grown
    BY DbStep
  <1>2. CASE read' = read
    <2>1. ASSUME read # NotReading
          PROVE  Within(read.before.rows, history[read.history])
                 /\ Within(history[read.history], history'[read.history])
      BY <1>1, <2>1 DEF WholeInv, PollInv, Grown
    <2>2. read # NotReading => Within(read.before.rows, history'[read.history])
      BY <2>1 DEF Within
    <2> QED BY <1>2, <2>2 DEF WholeInv
  <1>3. CASE read' = NotReading
    BY <1>3 DEF WholeInv
  <1>4. CASE ReadThreads
    BY <1>4, WholeStarts
  <1>5. CASE Rest
    BY <1>5, WholeGoesOn
  <1> QED BY <1>2, <1>3, <1>4, <1>5 DEF Rest, Next, vars, codex, Write, WriteThread, WriteTurn,
     EndTurn, WriteItem, History, Upgrade, Dump, Replace, CutShort, Call, Hook, ReadPlans,
     ThreadsFail

\* What was read is what is shown.
LEMMA MissingStep ==
    ASSUME DbInv, PollInv, WholeInv, NothingFromBeforeIsMissing, [Next]_vars
    PROVE  NothingFromBeforeIsMissing'
  <1>1. CASE picture' = picture
    BY <1>1 DEF NothingFromBeforeIsMissing
  <1>2. CASE picture' = NoPicture
    BY <1>2 DEF NothingFromBeforeIsMissing, NoPicture
  <1>3. CASE ReadPlans
    <2> DEFINE rows == read.before.rows
    <2>1. /\ picture'.threads = read.threads /\ picture'.turns = read.turns
          /\ picture'.files = read.items \cap read.turns
          /\ picture'.events = ({"files"} \X read.items) \cup ({"turn"} \X read.ended)
          /\ picture'.whole = read.whole /\ picture'.before = read.before /\ read # NotReading
      BY <1>3, ShownIsRead
    <2>2. read.at = "plans"
      BY <1>3 DEF ReadPlans
    <2>3. ASSUME read.whole
          PROVE  /\ read.before.threads \subseteq read.threads
                 /\ \A u \in rows.turns : u[1] \in read.threads => u \in read.turns
                 /\ \A u \in rows.ended : u[1] \in read.threads => u \in read.ended
                 /\ \A u \in rows.items : u[1] \in read.threads => u \in read.items
      BY <2>1, <2>2, <2>3 DEF WholeInv, Covered
    <2> QED BY <2>1, <2>3 DEF NothingFromBeforeIsMissing
  <1> QED BY <1>1, <1>2, <1>3 DEF Next, vars, codex, Write, WriteThread, WriteTurn,
     EndTurn, WriteItem, History, Upgrade, Dump, Replace, CutShort, Call, Hook, ReadThreads,
     ReadTurns, ReadItems, HistoryFails, ThreadsFail

\* While the names of the versions sort as their numbers do, whatever Codex
\* writes or moves meanwhile: a picture that no error cut short has every
\* thread, every turn and its end, and every file that was in the newest
\* databases before the poll began.
THEOREM WholePicturesMissNothing ==
    ASSUME CodexAssumption, NamesInOrder PROVE Spec => []NothingFromBeforeIsMissing
  <1>1. Init => WholeInv /\ NothingFromBeforeIsMissing
    BY DEF Init, WholeInv, NothingFromBeforeIsMissing, NoPicture
  <1>2. IInv /\ WholeInv /\ NothingFromBeforeIsMissing /\ [Next]_vars
           => WholeInv' /\ NothingFromBeforeIsMissing'
    BY WholeStep, MissingStep DEF IInv
  <1> QED BY <1>1, <1>2, InductiveInvariant, PTL DEF Spec

-----------------------------------------------------------------------------
(* Plans *)

\* With any number of threads and calls, and a hook killed at any step: whoever
\* reads a plan file never finds half of a plan, that the plan has gone, or an
\* older plan than there was.
THEOREM PlansNeverGoBack == Spec => PlansOnlyMoveOn
  <1>1. Init => HookInv
    BY InitHook
  <1>2. HookInv /\ [Next]_vars => HookInv'
    BY HookStep
  <1>3. HookInv /\ HookInv' /\ [Next]_vars
           => [\A t \in Threads : read_plan(plans[t]).nr <= read_plan(plans'[t]).nr]_plans
    <2> SUFFICES ASSUME HookInv, HookInv', [Next]_vars
                 PROVE  \A t \in Threads : read_plan(plans[t]).nr <= read_plan(plans'[t]).nr
      OBVIOUS
    <2>1. Torn.nr = -1 /\ \A t \in Threads : plans[t].nr >= 0 /\ plans'[t].nr >= 0
      BY DEF HookInv, CalledFor, Torn
    <2>2. \A t \in Threads : read_plan(plans[t]) = plans[t] /\ read_plan(plans'[t]) = plans'[t]
      BY <2>1 DEF read_plan
    <2> QED BY <2>2, HookStep
  <1> QED BY <1>1, <1>2, <1>3, PTL DEF Spec, PlansOnlyMoveOn

\* What a clause of a plan says its step waits on is an edge or a dangling one.
Clauses(plan) ==
    (IF plan.explanation = <<>> THEN {} ELSE Head(plan.explanation))
      \cup UNION {plan.steps[i].prefix : i \in DOMAIN plan.steps}
LEMMA ClausesAreSaid ==
    ASSUME NEW plan, NEW c \in Clauses(plan), NEW d \in c.parents \ {Unclear}
    PROVE  <<c.child, d>> \in Said(plan)
  <1>1. \A clauses : c \in clauses => <<c.child, d>> \in Edges(clauses)
    BY DEF Edges, _ids
  <1>2. CASE plan.explanation # <<>> /\ c \in Head(plan.explanation)
    BY <1>1, <1>2 DEF Said, _from_explanation
  <1>3. CASE \E i \in DOMAIN plan.steps : c \in plan.steps[i].prefix
    BY <1>1, <1>3 DEF Said, _from_prefixes
  <1> QED BY <1>2, <1>3 DEF Clauses
LEMMA SaidIsKept ==
    ASSUME NEW plan, NEW n \in DOMAIN plan.steps, NEW d, d # n, <<n, d>> \in Said(plan)
    PROVE  d \in BlockedBy(plan)[n] \/ <<n, d>> \in Dangling(plan)
  <1>1. d \in Wanted(plan, n)
    BY DEF Wanted
  <1>2. CASE d \in KnownSteps(plan.steps)
    BY <1>1, <1>2 DEF BlockedBy
  <1>3. CASE d \notin KnownSteps(plan.steps)
    BY <1>1, <1>3 DEF Dangling
  <1> QED BY <1>2, <1>3

\* Of every plan that is shown, however long and whatever it says: a step the
\* model said another waits on, in the explanation or on the step, is drawn as
\* such or reported as missing.
THEOREM NothingSaidIsDropped == Spec => []SaidIsDrawnOrReported
  <1>1. SaidIsDrawnOrReported
    <2>1. ASSUME NEW plan, NEW c \in Clauses(plan), NEW d \in c.parents \ {Unclear, c.child},
                 c.child \in DOMAIN plan.steps
          PROVE  d \in BlockedBy(plan)[c.child] \/ <<c.child, d>> \in Dangling(plan)
      BY <2>1, ClausesAreSaid, SaidIsKept
    <2> QED BY <2>1 DEF SaidIsDrawnOrReported, Clauses
  <1> QED BY <1>1, PTL
-----------------------------------------------------------------------------
(* The goal of a plan *)

\* The steps of a plan and what each waits on are a graph.
LEMMA StepsAreAGraph ==
    ASSUME NEW plan, IsFiniteSet(DOMAIN plan.steps)
    PROVE  /\ IsGraph(DOMAIN plan.steps, DependsOn(plan))
           /\ \A n \in DOMAIN plan.steps : On(n, DependsOn(plan)) = BlockedBy(plan)[n]
  <1> DEFINE steps == DOMAIN plan.steps
             on == BlockedBy(plan)
  <1>1. \A n \in steps : on[n] \in SUBSET steps
    BY DEF BlockedBy, KnownSteps
  <1> HIDE DEF on
  <1>2. \A e : e \in DependsOn(plan) <=> \E n \in steps : \E d \in on[n] : e = <<n, d>>
    BY DEF DependsOn, on
  <1>3. DependsOn(plan) \in SUBSET (steps \X steps)
    BY <1>1, <1>2
  <1>4. IsGraph(steps, DependsOn(plan))
    BY <1>3 DEF IsGraph
  <1>5. ASSUME NEW n \in steps PROVE On(n, DependsOn(plan)) = on[n]
    <2>1. \A d : <<n, d>> \in DependsOn(plan) <=> d \in on[n]
      BY <1>2
    <2>2. \A d : d \in On(n, DependsOn(plan)) <=> <<n, d>> \in DependsOn(plan)
      BY <1>4, OnIs
    <2> QED BY <2>1, <2>2
  <1> QED BY <1>4, <1>5 DEF on

\* What is open and neither waits nor is blocked can be worked on; what does, waits
\* on a step that is open.
LEMMA ViewsTell ==
    ASSUME NEW plan, NEW n \in DOMAIN plan.steps
    PROVE  /\ StatusOf(plan.steps[n]) \in Open => StepView(plan, n) # "completed"
           /\ StepView(plan, n) \in Open \cup {"completed"} \/ StillOpen(plan, BlockedBy(plan)[n]) # {}
  <1>1. StatusOf(plan.steps[n]) \in {"completed", "in_progress", "pending"}
    BY DEF StatusOf, STATUS_VIEW
  <1> QED BY <1>1 DEF StepView, Open

\* Of the open steps that wait, take one from which the fewest can be reached: the
\* open step it waits on leads back to it.
LEMMA OneCanBeWorkedOn ==
    ASSUME NEW plan, IsFiniteSet(DOMAIN plan.steps),
           NEW open, open = {n \in DOMAIN plan.steps : StepView(plan, n) # "completed"}, open # {}
    PROVE  \E n \in open : StepView(plan, n) \in Open \/ n \in Reach(BlockedBy(plan)[n], DependsOn(plan))
  <1> SUFFICES ASSUME \A n \in open : StepView(plan, n) \notin Open,
                      \A n \in open : n \notin Reach(BlockedBy(plan)[n], DependsOn(plan))
               PROVE  FALSE
    OBVIOUS
  <1> PICK steps : steps = DOMAIN plan.steps
    OBVIOUS
  <1> PICK edges : edges = DependsOn(plan)
    OBVIOUS
  <1> DEFINE Reached == {Reach({n}, edges) : n \in open}
  <1>1. IsGraph(steps, edges) /\ \A n \in steps : On(n, edges) = BlockedBy(plan)[n]
    BY StepsAreAGraph
  <1>2. Closed(steps, edges)
    BY <1>1 DEF Closed, IsGraph
  <1>3. \A n \in steps : Reach({n}, edges) \subseteq steps
    BY <1>2, ReachIs
  <1>4. open \subseteq steps
    OBVIOUS
  <1>5. Reached \in SUBSET (SUBSET steps) /\ Reached # {}
    <2>1. \A X \in Reached : X \subseteq steps
      BY <1>3, <1>4
    <2>2. PICK m : m \in open
      OBVIOUS
    <2>3. Reach({m}, edges) \in Reached
      BY <2>2
    <2> HIDE DEF Reached
    <2> QED BY <2>1, <2>3
  <1>6. PICK n \in open : \A m \in open : Reach({m}, edges) \subseteq Reach({n}, edges)
                                            => Reach({m}, edges) = Reach({n}, edges)
    <2>1. \A m \in open : Reach({m}, edges) \in Reached
      OBVIOUS
    <2>2. \A X \in Reached : \E m \in open : X = Reach({m}, edges)
      OBVIOUS
    <2> HIDE DEF Reached
    <2>3. PICK X \in Reached : \A Y \in Reached : Y \subseteq X => Y = X
      BY <1>1, <1>5, LeastOfSets DEF IsGraph
    <2>4. PICK n \in open : X = Reach({n}, edges)
      BY <2>2
    <2>5. \A m \in open : Reach({m}, edges) \subseteq Reach({n}, edges) => Reach({m}, edges) = Reach({n}, edges)
      BY <2>1, <2>3, <2>4
    <2> QED BY <2>4, <2>5
  <1>7. PICK d \in BlockedBy(plan)[n] : StatusOf(plan.steps[d]) \in Open
    BY <1>4, ViewsTell DEF StillOpen
  <1>8. d \in On(n, edges) /\ d \in steps /\ <<n, d>> \in edges
    BY <1>1, <1>4, <1>7, OnIs
  <1>9. d \in open
    BY <1>7, <1>8, ViewsTell
  <1>10. d \in Reach({n}, edges)
    <2>1. n \in Reach({n}, edges) /\ Closed(Reach({n}, edges), edges)
      BY ReachIs
    <2>2. <<n, d>>[1] = n /\ <<n, d>>[2] = d
      OBVIOUS
    <2> QED BY <1>8, <2>1, <2>2 DEF Closed
  <1>11. Reach({d}, edges) \subseteq Reach({n}, edges)
    BY <1>10, ReachOn
  <1>12. n \in Reach({d}, edges)
    <2>1. n \in Reach({n}, edges)
      BY ReachIs
    <2> QED BY <1>6, <1>9, <1>11, <2>1
  <1>13. Reach({d}, edges) \subseteq Reach(BlockedBy(plan)[n], edges)
    <2>1. {d} \subseteq Reach(BlockedBy(plan)[n], edges)
      BY <1>7, ReachIs
    <2> QED BY <2>1, ReachOn
  <1> QED BY <1>12, <1>13

LEMMA GoalsCanBeFollowed ==
    ASSUME \A plan \in PlansShown : IsFiniteSet(DOMAIN plan.steps) PROVE PlanCanBeFollowed
  <1> SUFFICES ASSUME NEW plan \in PlansShown, NEW goal \in goals_from_plan(plan)
               PROVE  LET open == {n \in DOMAIN goal.views : goal.views[n] # "completed"}
                          inRing(n) == n \in Reach(goal.blockedBy[n], DependsOn(plan))
                      IN  /\ BandsRespect(goal.depth, DependsOn(plan))
                          /\ open # {} => \E n \in open : goal.views[n] \in Open \/ inRing(n)
    BY DEF PlanCanBeFollowed
  <1> DEFINE open == {n \in DOMAIN goal.views : goal.views[n] # "completed"}
  <1>1. /\ goal.views = [n \in DOMAIN plan.steps |-> StepView(plan, n)]
        /\ goal.blockedBy = BlockedBy(plan) /\ goal.depth = PlanDepth(plan)
    BY DEF goals_from_plan
  <1>2. open = {n \in DOMAIN plan.steps : StepView(plan, n) # "completed"}
        /\ \A n \in open : goal.views[n] = StepView(plan, n)
    BY <1>1
  <1>3. BandsRespect(goal.depth, DependsOn(plan))
    BY <1>1, StepsAreAGraph, BandsAreInOrder DEF PlanDepth
  <1> HIDE DEF open
  <1>4. open # {} => \E n \in open : goal.views[n] \in Open \/ n \in Reach(goal.blockedBy[n], DependsOn(plan))
    BY <1>1, <1>2, OneCanBeWorkedOn
  <1> QED BY <1>3, <1>4 DEF open

\* What the hook kept of a checklist is a list.
IsList(plan) == IsFiniteSet(DOMAIN plan.steps)
LEMMA CaughtIsList == ASSUME ChecklistsAreLists, NEW call \in Calls PROVE IsList(Caught(call))
  <1>1. IsFiniteSet(Kept(call))
    <2>1. Len(call.plan) \in Nat /\ DOMAIN call.plan = 1 .. Len(call.plan)
      BY DEF ChecklistsAreLists
    <2>2. 1 \in Int /\ Len(call.plan) \in Int
      BY <2>1
    <2>3. IsFiniteSet(1 .. Len(call.plan))
      BY <2>2, FS_Interval
    <2>4. IsFiniteSet(DOMAIN call.plan)
      BY <2>1, <2>3
    <2> QED BY <2>4, FS_Subset DEF Kept
  <1>2. 1 \in Int /\ Cardinality(Kept(call)) \in Int
    BY <1>1, FS_CardinalityType
  <1>3. IsFiniteSet(1 .. Cardinality(Kept(call)))
    BY <1>2, FS_Interval
  <1>4. Caught(call).steps = steps_of(call)
    BY DEF Caught
  <1>5. DOMAIN steps_of(call) = 1 .. Cardinality(Kept(call))
    BY DEF steps_of
  <1> QED BY <1>3, <1>4, <1>5 DEF IsList

\* Of every plan that is shown, however long and whatever rings there are in it:
\* each step is drawn below what it waits on, and of the open steps one can be
\* worked on, if they are not in a ring.
THEOREM PlansCanBeFollowed ==
    ASSUME CodexAssumption, ChecklistsAreLists PROVE Spec => []PlanCanBeFollowed
  <1>1. IInv => PlanCanBeFollowed
    <2> SUFFICES ASSUME IInv PROVE PlanCanBeFollowed
      OBVIOUS
    <2>1. ASSUME NEW nr \in DOMAIN calls PROVE calls[nr].call \in Calls
      BY <2>1, CallsAreCalls DEF IInv, HookInv
    <2>2. ASSUME NEW plan \in PlansShown PROVE \E nr \in DOMAIN calls : plan = Caught(calls[nr].call)
      <3>1. PICK t \in picture.threads : picture.plan[t] # NoPlan /\ plan = picture.plan[t].plan
        BY DEF PlansShown
      <3>2. MadeIn(calls, t, picture.plan[t])
        BY <3>1 DEF IInv, NothingIsInvented
      <3>3. PICK nr \in DOMAIN calls : picture.plan[t] = [nr |-> nr, plan |-> Caught(calls[nr].call)]
        BY <3>2 DEF MadeIn
      <3> QED BY <3>1, <3>3
    <2>3. \A plan \in PlansShown : IsFiniteSet(DOMAIN plan.steps)
      BY <2>1, <2>2, CaughtIsList DEF IsList
    <2> QED BY <2>3, GoalsCanBeFollowed
  <1> QED BY <1>1, InductiveInvariant, PTL
=============================================================================
