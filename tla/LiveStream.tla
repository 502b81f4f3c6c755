----------------------------- MODULE LiveStream -----------------------------
(***************************************************************************)
(* How the picture reaches the open pages: server.py's watcher thread,     *)
(* the queue of every connected stream and the handler thread that empties *)
(* it.  A picture is the number of the state it shows, clocks left out: as *)
(* _stable does, so that two pictures are the same when only clocks moved. *)
(***************************************************************************)
EXTENDS Integers, Sequences

CONSTANTS Clients,             \* connections to /events; one that ended is used again
          CLIENT_QUEUE_DEPTH,  \* pictures a stream's queue holds
          MaxVersion           \* bound: states of the sessions

ASSUME StreamAssumption ==
    /\ CLIENT_QUEUE_DEPTH \in Nat \ {0}
    /\ MaxVersion \in Nat \ {0}

NoPicture == 0

VARIABLES version,   \* the state the sessions are in
          latest,    \* _latest["payload"]
          previous,  \* what watch() compares with: the picture last pushed
          due,       \* whether REFRESH_SECONDS have passed since that push
          wpc,       \* where watch() is
          built,     \* the picture it has built
          targets,   \* the streams _broadcast still has to serve
          clients,   \* _clients: the streams that are registered
          conn,      \* per connection: none, joined, greeted, open, or broken
          first,     \* the picture its handler has taken to send first
          sink,      \* its queue
          shown,     \* the picture its page shows
          behind     \* whether the last picture put to it was dropped

watcher == <<latest, previous, wpc, built, targets>>
streams == <<clients, conn, first, sink, shown, behind>>
vars == <<version, due, watcher, streams>>

Pictures == 1 .. MaxVersion

TypeOK ==
    /\ version \in Pictures
    /\ {latest, previous, built} \subseteq Pictures \cup {NoPicture}
    /\ due \in BOOLEAN
    /\ wpc \in {"build", "publish", "compare", "copy", "put"}
    /\ targets \subseteq Clients /\ clients \subseteq Clients
    /\ conn \in [Clients -> {"none", "joined", "greeted", "open", "broken"}]
    /\ first \in [Clients -> Pictures \cup {NoPicture}]
    /\ sink \in [Clients -> Seq(Pictures)]
    /\ \A c \in Clients : Len(sink[c]) <= CLIENT_QUEUE_DEPTH
    /\ shown \in [Clients -> Pictures \cup {NoPicture}]
    /\ behind \in [Clients -> BOOLEAN]

Init ==
    /\ version = 1
    /\ latest = NoPicture /\ previous = NoPicture /\ built = NoPicture
    /\ due = TRUE
    /\ wpc = "build"
    /\ targets = {} /\ clients = {}
    /\ conn = [c \in Clients |-> "none"]
    /\ first = [c \in Clients |-> NoPicture]
    /\ sink = [c \in Clients |-> <<>>]
    /\ shown = [c \in Clients |-> NoPicture]
    /\ behind = [c \in Clients |-> FALSE]

-----------------------------------------------------------------------------
\* Something happens in a session.
Change ==
    /\ version < MaxVersion
    /\ version' = version + 1
    /\ UNCHANGED <<due, watcher, streams>>

\* REFRESH_SECONDS after the last push.
Tick ==
    /\ ~due
    /\ due' = TRUE
    /\ UNCHANGED <<version, watcher, streams>>

-----------------------------------------------------------------------------
(* watch() *)

\* build().  When it raises, the loop begins again with all as it was: no step.
Build ==
    /\ wpc = "build"
    /\ built' = version
    /\ wpc' = "publish"
    /\ UNCHANGED <<version, due, latest, previous, targets, streams>>

Publish ==
    /\ wpc = "publish"
    /\ latest' = built
    /\ wpc' = "compare"
    /\ UNCHANGED <<version, due, previous, built, targets, streams>>

WorthPushingOnlyChanges == built # previous
WorthPushing == built # previous \/ due

Compare ==
    /\ wpc = "compare"
    /\ IF WorthPushing
       THEN previous' = built /\ due' = FALSE /\ wpc' = "copy"
       ELSE UNCHANGED <<previous, due>> /\ wpc' = "build"
    /\ UNCHANGED <<version, latest, built, targets, streams>>

\* _broadcast copies the list of streams under its lock ...
RecipientsOpen == {c \in clients : conn[c] = "open"}
Recipients == clients
CopyTargets ==
    /\ wpc = "copy"
    /\ targets' = Recipients
    /\ wpc' = "put"
    /\ UNCHANGED <<version, due, latest, previous, built, streams>>

\* ... and puts the picture to one after the other; a full queue drops it.
HasRoomForOneMore(c) == Len(sink[c]) <= CLIENT_QUEUE_DEPTH
HasRoom(c) == Len(sink[c]) < CLIENT_QUEUE_DEPTH
QueuedInFront(c) == <<built>> \o sink[c]
Queued(c) == Append(sink[c], built)
Put(c) ==
    /\ wpc = "put"
    /\ c \in targets
    /\ targets' = targets \ {c}
    /\ \/ /\ conn[c] = "none"   \* its queue is nobody's any more
          /\ UNCHANGED <<sink, behind>>
       \/ /\ conn[c] # "none" /\ HasRoom(c)
          /\ sink' = [sink EXCEPT ![c] = Queued(c)]
          /\ behind' = [behind EXCEPT ![c] = FALSE]
       \/ /\ conn[c] # "none" /\ ~HasRoom(c)
          /\ behind' = [behind EXCEPT ![c] = TRUE]
          /\ UNCHANGED sink
    /\ UNCHANGED <<version, due, latest, previous, built, wpc, clients, conn, first, shown>>

BroadcastDone ==
    /\ wpc = "put"
    /\ targets = {}
    /\ wpc' = "build"
    /\ UNCHANGED <<version, due, latest, previous, built, targets, streams>>

Watch == Build \/ Publish \/ Compare \/ CopyTargets \/ (\E c \in Clients : Put(c)) \/ BroadcastDone

-----------------------------------------------------------------------------
(* _stream(), one handler thread per connection *)

\* The queue is registered before the first picture is sent.
Connect(c) ==
    /\ conn[c] = "none"
    /\ c \notin targets
    /\ conn' = [conn EXCEPT ![c] = "joined"]
    /\ clients' = clients \cup {c}
    /\ UNCHANGED <<version, due, watcher, first, sink, shown, behind>>

\* `_latest["payload"] or snapshot()': before the first poll, a picture of its own.
FirstPicture == IF latest = NoPicture THEN version ELSE latest
TakeFirst(c) ==
    /\ conn[c] = "joined"
    /\ first' = [first EXCEPT ![c] = FirstPicture]
    /\ conn' = [conn EXCEPT ![c] = "greeted"]
    /\ UNCHANGED <<version, due, watcher, clients, sink, shown, behind>>

SendFirst(c) ==
    /\ conn[c] = "greeted"
    /\ shown' = [shown EXCEPT ![c] = first[c]]
    /\ first' = [first EXCEPT ![c] = NoPicture]
    /\ conn' = [conn EXCEPT ![c] = "open"]
    /\ UNCHANGED <<version, due, watcher, clients, sink, behind>>

SendNext(c) ==
    /\ conn[c] = "open"
    /\ sink[c] # <<>>
    /\ shown' = [shown EXCEPT ![c] = Head(sink[c])]
    /\ sink' = [sink EXCEPT ![c] = Tail(@)]
    /\ UNCHANGED <<version, due, watcher, clients, conn, first, behind>>

\* The browser goes away; the handler learns of it when it next writes.
Disconnect(c) ==
    /\ conn[c] \in {"joined", "greeted", "open"}
    /\ conn' = [conn EXCEPT ![c] = "broken"]
    /\ UNCHANGED <<version, due, watcher, clients, first, sink, shown, behind>>

\* A picture or a heartbeat cannot be written: the stream ends.
StillRegistered(c) == clients
Remaining(c) == clients \ {c}
End(c) ==
    /\ conn[c] = "broken"
    /\ conn' = [conn EXCEPT ![c] = "none"]
    /\ clients' = Remaining(c)
    /\ first' = [first EXCEPT ![c] = NoPicture]
    /\ sink' = [sink EXCEPT ![c] = <<>>]
    /\ shown' = [shown EXCEPT ![c] = NoPicture]
    /\ behind' = [behind EXCEPT ![c] = FALSE]
    /\ UNCHANGED <<version, due, watcher>>

Serve(c) == TakeFirst(c) \/ SendFirst(c) \/ SendNext(c) \/ End(c)

Next == \/ Change \/ Tick \/ Watch
        \/ \E c \in Clients : Connect(c) \/ Serve(c) \/ Disconnect(c)

\* The watcher loops for ever, time passes, and the handler threads run; the
\* sessions and the browsers do as they like.
Fairness == WF_vars(Watch) /\ WF_vars(Tick) /\ \A c \in Clients : WF_vars(Serve(c))

Spec == Init /\ [][Next]_vars /\ Fairness

-----------------------------------------------------------------------------
(* Properties *)

\* The newest picture on its way to an open page.
Newest(c) == IF sink[c] = <<>> THEN shown[c] ELSE sink[c][Len(sink[c])]

\* Every open page has, or is about to get, the picture that was last pushed,
\* unless its queue was full; joining in the middle of a push leaves no gap.
NoSilentGap ==
    \A c \in Clients :
        conn[c] = "open" /\ wpc # "copy" /\ c \notin targets /\ ~behind[c]
            => Newest(c) >= previous

\* No page is shown, and no queue holds, a picture newer than the sessions, and
\* what a queue holds gets newer from front to back.
QueuesInOrder ==
    \A c \in Clients :
        /\ shown[c] <= version
        /\ \A i, j \in 1 .. Len(sink[c]) : i <= j => sink[c][i] <= sink[c][j]

\* Only streams that are being served are registered, all of them.
RegisteredAreServed == clients = {c \in Clients : conn[c] # "none"}

\* A page that stays connected ends up showing the current state, also when
\* its queue was full when that state was pushed (`a browser that cannot keep
\* up simply gets the next one').
PagesBecomeCurrent ==
    \A c \in Clients : <>[](conn[c] = "open") => <>[](shown[c] = version)
=============================================================================
