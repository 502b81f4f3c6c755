----------------------------- MODULE Dismissals -----------------------------
(***************************************************************************)
(* How dismissals are kept in dismissed.json: add_dismissal of state.py,   *)
(* run by the HTTP handler threads of one or more servers, each step of it *)
(* that touches the disk a step here.  The disk is inodes and two names;   *)
(* an open file stays the same inode when its name is moved.               *)
(***************************************************************************)
EXTENDS Integers, FiniteSets

CONSTANTS Handlers,   \* handler threads that serve POST /api/dismiss
          Questions,  \* the questions there are, as their dismissal keys
          Inodes,     \* the inodes the two names and open files can have
          Overlap,    \* whether two requests may be served at the same time
          MayDie      \* whether a request may be cut short

NoFile == 0

ASSUME DismissalsAssumption ==
    /\ Overlap \in BOOLEAN /\ MayDie \in BOOLEAN
    /\ Questions # {}
    /\ NoFile \notin Inodes

VARIABLES target,     \* the inode named dismissed.json, or NoFile
          temporary,  \* the inode named dismissed.tmp, or NoFile
          data,       \* what each inode holds
          pc, question, kept, handle,  \* per handler: where it is, its question,
                                       \* the set it will write, its open file
          acked       \* the questions whose request was answered

dismissalsVars == <<target, temporary, data, pc, question, kept, handle, acked>>

-----------------------------------------------------------------------------
\* A file holds a whole JSON list of keys, or something json.loads refuses:
\* nothing yet, or two lists written over each other.
Content == [kind : {"list", "empty", "torn"}, keys : SUBSET Questions]
List(S) == [kind |-> "list", keys |-> S]
Nothing == [kind |-> "empty", keys |-> {}]
Torn == [kind |-> "torn", keys |-> {}]
Whole(inode) == data[inode].kind = "list"

\* load_dismissed: a missing or unreadable file dismisses nothing.
Load(inode) == IF inode # NoFile /\ Whole(inode) THEN data[inode].keys ELSE {}

InFlight == {h \in Handlers : pc[h] \in {"load", "open", "write", "replace", "answer"}}
Free == {i \in Inodes : /\ i # target /\ i # temporary
                        /\ \A h \in Handlers : handle[h] # i}

DismissalsTypeOK ==
    /\ target \in Inodes \cup {NoFile}
    /\ temporary \in Inodes \cup {NoFile}
    /\ target = temporary => target = NoFile
    /\ data \in [Inodes -> Content]
    /\ pc \in [Handlers -> {"idle", "load", "open", "write", "replace", "answer"}]
    /\ question \in [Handlers -> Questions]
    /\ kept \in [Handlers -> SUBSET Questions]
    /\ handle \in [Handlers -> Inodes \cup {NoFile}]
    /\ acked \subseteq Questions

\* Some dismissals may have been kept before, and a server that died may have
\* left a temporary file.
DismissalsInit ==
    /\ target \in Inodes \cup {NoFile}
    /\ temporary \in Inodes \cup {NoFile}
    /\ target # NoFile => target # temporary
    /\ data \in [Inodes -> {Nothing} \cup {List(S) : S \in SUBSET Questions}]
    /\ target # NoFile => Whole(target)
    /\ \A i \in Inodes : i # target => data[i] = Nothing
    /\ pc = [h \in Handlers |-> "idle"]
    /\ question = [h \in Handlers |-> CHOOSE q \in Questions : TRUE]
    /\ kept = [h \in Handlers |-> {}]
    /\ handle = [h \in Handlers |-> NoFile]
    /\ acked = {}

-----------------------------------------------------------------------------
Goto(h, step) == pc' = [pc EXCEPT ![h] = step]

\* A request arrives.
Post(h, q) ==
    /\ pc[h] = "idle"
    /\ Overlap \/ InFlight = {}
    /\ question' = [question EXCEPT ![h] = q]
    /\ Goto(h, "load")
    /\ UNCHANGED <<target, temporary, data, kept, handle, acked>>

\* kept = load_dismissed(path); kept.add(...)
KeptOnlyNew(h) == {question[h]}
KeptWith(h) == Load(target) \cup {question[h]}
LoadKept(h) ==
    /\ pc[h] = "load"
    /\ kept' = [kept EXCEPT ![h] = KeptWith(h)]
    /\ Goto(h, "open")
    /\ UNCHANGED <<target, temporary, data, question, handle, acked>>

\* write_text opens the temporary file: a new inode, or the one that has the
\* name already, emptied.
OpenableInPlace == IF target = NoFile THEN Free ELSE {target}
Openable == IF temporary = NoFile THEN Free ELSE {temporary}
OpenTemporary(h) ==
    /\ pc[h] = "open"
    /\ \E i \in Openable :
         /\ temporary' = i
         /\ handle' = [handle EXCEPT ![h] = i]
         /\ data' = [data EXCEPT ![i] = Nothing]
    /\ Goto(h, "write")
    /\ UNCHANGED <<target, question, kept, acked>>

\* ... and writes and closes it.  Over another's list, the longer one's tail
\* may stay behind.
Written(h) ==
    {List(kept[h])} \cup (IF data[handle[h]] \in {Nothing, List(kept[h])} THEN {} ELSE {Torn})
WriteList(h) ==
    /\ pc[h] = "write"
    /\ \E content \in Written(h) : data' = [data EXCEPT ![handle[h]] = content]
    /\ handle' = [handle EXCEPT ![h] = NoFile]
    /\ Goto(h, "replace")
    /\ UNCHANGED <<target, temporary, question, kept, acked>>

\* temporary.replace(path).  If another request has moved it, this one ends in
\* FileNotFoundError and without an answer.
Replace(h) ==
    /\ pc[h] = "replace"
    /\ IF temporary = NoFile
       THEN Goto(h, "idle") /\ UNCHANGED <<target, temporary>>
       ELSE Goto(h, "answer") /\ target' = temporary /\ temporary' = NoFile
    /\ UNCHANGED <<data, question, kept, handle, acked>>

\* 204 No Content
Respond(h) ==
    /\ pc[h] = "answer"
    /\ acked' = acked \cup {question[h]}
    /\ Goto(h, "idle")
    /\ UNCHANGED <<target, temporary, data, question, kept, handle>>

\* The server is killed, or the disk refuses.
Die(h) ==
    /\ MayDie
    /\ h \in InFlight
    /\ handle' = [handle EXCEPT ![h] = NoFile]
    /\ Goto(h, "idle")
    /\ UNCHANGED <<target, temporary, data, question, kept, acked>>

Step(h) == \/ LoadKept(h) \/ OpenTemporary(h) \/ WriteList(h)
           \/ Replace(h) \/ Respond(h)

DismissalsNext ==
    \E h \in Handlers :
       \/ \E q \in Questions : Post(h, q)
       \/ Step(h)
       \/ Die(h)

DismissalsSpec == DismissalsInit /\ [][DismissalsNext]_dismissalsVars

-----------------------------------------------------------------------------
(* Properties *)

\* `Written whole so a reader never sees half a file': whenever the watcher
\* looks, dismissed.json is not there yet or is a whole list.
NeverTorn == target # NoFile => Whole(target)

\* When no request is under way, every dismissal the page was told is stored
\* is in the file: it `stays cleared on every device'.
SettledKeepsAcked == InFlight = {} => acked \subseteq Load(target)

\* One request at a time, the file is a store of dismissals.
Store == INSTANCE DismissalStore WITH kept <- Load(target)
ImplementsStore == Store!Spec
=============================================================================
