------------------------------ MODULE Notifier ------------------------------
(***************************************************************************)
(* How a new question reaches the phone: the Notifier of notify.py in each *)
(* of the servers that watch the same sessions, one per address.  A server *)
(* that meets a question it did not meet in its last picture sends it, if  *)
(* it holds the lock file; each message goes out on a thread of its own.   *)
(***************************************************************************)
EXTENDS Integers, FiniteSets

CONSTANTS Servers,    \* the servers there can be
          Questions,  \* what can wait, as dismissal keys
          MaxAsks     \* bound: how often a question is asked

Nobody == "nobody"

ASSUME NotifierAssumption ==
    /\ Nobody \notin Servers
    /\ MaxAsks \in Nat \ {0}

VARIABLES waiting,  \* the questions that wait on the user
          asked,    \* how often each was asked since the first server started
          running,  \* the servers that run
          pc,       \* where each server's watch() is
          picture,  \* the questions in the picture it has built
          looked,   \* whether it has shown its notifier a picture
          seen,     \* Notifier.seen
          fresh,    \* the questions it is about to send
          old,      \* the questions that have waited ever since its first picture
          holder,   \* who holds the lock file
          posting,  \* messages handed to a thread and not out yet
          received, \* messages the phone got
          changes   \* whether a server has started, or stopped, since the first ones

server == <<running, pc, picture, looked, seen, fresh, holder>>
vars == <<waiting, asked, old, server, posting, received, changes>>

TypeOK ==
    /\ waiting \subseteq Questions
    /\ asked \in [Questions -> 0 .. MaxAsks]
    /\ running \subseteq Servers
    /\ pc \in [Servers -> {"build", "look", "lead", "send"}]
    /\ picture \in [Servers -> SUBSET Questions]
    /\ looked \in [Servers -> BOOLEAN]
    /\ seen \in [Servers -> SUBSET Questions]
    /\ fresh \in [Servers -> SUBSET Questions]
    /\ holder \in Servers \cup {Nobody}
    /\ old \in [Servers -> SUBSET Questions]
    /\ posting \in [Servers -> [Questions -> 0 .. MaxAsks]]
    /\ received \in [Questions -> Nat]
    /\ changes \subseteq {"start", "stop"}

Init ==
    /\ waiting \in SUBSET Questions
    /\ asked = [q \in Questions |-> 0]
    /\ running \in SUBSET Servers
    /\ pc = [s \in Servers |-> "build"]
    /\ picture = [s \in Servers |-> {}]
    /\ looked = [s \in Servers |-> FALSE]
    /\ seen = [s \in Servers |-> {}]
    /\ fresh = [s \in Servers |-> {}]
    /\ holder = Nobody
    /\ old = [s \in Servers |-> {}]
    /\ posting = [s \in Servers |-> [q \in Questions |-> 0]]
    /\ received = [q \in Questions |-> 0]
    /\ changes = {}

-----------------------------------------------------------------------------
(* The sessions and the user *)

Ask(q) ==
    /\ q \notin waiting
    /\ asked[q] < MaxAsks
    /\ waiting' = waiting \cup {q}
    /\ asked' = [asked EXCEPT ![q] = @ + 1]
    /\ UNCHANGED <<old, server, posting, received, changes>>

\* Answered or dismissed.
Settle(q) ==
    /\ q \in waiting
    /\ waiting' = waiting \ {q}
    /\ old' = [s \in Servers |-> old[s] \ {q}]
    /\ UNCHANGED <<asked, server, posting, received, changes>>

-----------------------------------------------------------------------------
(* A server's watch(): build(), then look() *)

Goto(s, step) == pc' = [pc EXCEPT ![s] = step]

Build(s) ==
    /\ s \in running /\ pc[s] = "build"
    /\ picture' = [picture EXCEPT ![s] = waiting]
    /\ Goto(s, "look")
    /\ UNCHANGED <<waiting, asked, running, looked, seen, fresh, holder, old, posting, received, changes>>

\* Questions waiting at start up are not sent.
BeforeNothing(s) == seen[s]
Before(s) == IF looked[s] THEN seen[s] ELSE picture[s]

\* What was seen before is forgotten: a question that comes back is sent again.
SeenEver(s) == seen[s] \cup picture[s]
SeenAfter(s) == picture[s]

Look(s) ==
    /\ s \in running /\ pc[s] = "look"
    /\ fresh' = [fresh EXCEPT ![s] = picture[s] \ Before(s)]
    /\ seen' = [seen EXCEPT ![s] = SeenAfter(s)]
    /\ looked' = [looked EXCEPT ![s] = TRUE]
    /\ old' = IF looked[s] THEN old ELSE [old EXCEPT ![s] = picture[s] \cap waiting]
    /\ Goto(s, IF fresh'[s] = {} THEN "build" ELSE "lead")
    /\ UNCHANGED <<waiting, asked, running, picture, holder, posting, received, changes>>

\* _leads: hold the lock, or take it when nobody does; else what was fresh is
\* for the holder to send.
AnybodyLeads(s) == TRUE
MayLead(s) == holder \in {s, Nobody}

Lead(s) ==
    /\ s \in running /\ pc[s] = "lead"
    /\ IF MayLead(s)
       THEN holder' = s /\ Goto(s, "send") /\ UNCHANGED fresh
       ELSE fresh' = [fresh EXCEPT ![s] = {}] /\ Goto(s, "build") /\ UNCHANGED holder
    /\ UNCHANGED <<waiting, asked, running, picture, looked, seen, old, posting, received, changes>>

\* _send hands one message to a thread.
Send(s, q) ==
    /\ s \in running /\ pc[s] = "send"
    /\ q \in fresh[s]
    /\ fresh' = [fresh EXCEPT ![s] = @ \ {q}]
    /\ posting' = [posting EXCEPT ![s][q] = @ + 1]
    /\ Goto(s, IF fresh'[s] = {} THEN "build" ELSE "send")
    /\ UNCHANGED <<waiting, asked, running, picture, looked, seen, holder, old, received, changes>>

Step(s) == Build(s) \/ Look(s) \/ Lead(s) \/ \E q \in Questions : Send(s, q)

-----------------------------------------------------------------------------
(* post(), on its own thread *)

Sent(s, q) == posting' = [posting EXCEPT ![s][q] = @ - 1]

Deliver(s, q) ==
    /\ posting[s][q] > 0
    /\ Sent(s, q)
    /\ received' = [received EXCEPT ![q] = @ + 1]
    /\ UNCHANGED <<waiting, asked, old, server, changes>>

\* A failure is reported, and the message is not tried again.
PostFails(s, q) ==
    /\ posting[s][q] > 0
    /\ Sent(s, q)
    /\ UNCHANGED <<waiting, asked, old, server, received, changes>>

-----------------------------------------------------------------------------
(* Servers come and go; the lock goes with the one that holds it *)

Start(s) ==
    /\ s \notin running
    /\ running' = running \cup {s}
    /\ changes' = changes \cup {"start"}
    /\ UNCHANGED <<waiting, asked, pc, picture, looked, seen, fresh, holder, old, posting, received>>

\* Everything it had in memory goes with the process, and the threads that are
\* posting end with it.
Stop(s) ==
    /\ s \in running
    /\ running' = running \ {s}
    /\ changes' = changes \cup {"stop"}
    /\ holder' = IF holder = s THEN Nobody ELSE holder
    /\ Goto(s, "build")
    /\ picture' = [picture EXCEPT ![s] = {}]
    /\ looked' = [looked EXCEPT ![s] = FALSE]
    /\ seen' = [seen EXCEPT ![s] = {}]
    /\ fresh' = [fresh EXCEPT ![s] = {}]
    /\ old' = [old EXCEPT ![s] = {}]
    /\ posting' = [posting EXCEPT ![s] = [q \in Questions |-> 0]]
    /\ UNCHANGED <<waiting, asked, received>>

Next == \/ \E q \in Questions : Ask(q) \/ Settle(q)
        \/ \E s \in Servers : \/ Step(s)
                              \/ \E q \in Questions : Deliver(s, q) \/ PostFails(s, q)
                              \/ Start(s) \/ Stop(s)

\* Each server that runs polls for ever.
Spec == Init /\ [][Next]_vars /\ \A s \in Servers : WF_vars(Step(s))

-----------------------------------------------------------------------------
(* Properties *)

\* `Each one is sent once, even with a server on each address': the phone gets
\* no more messages for a question than the times it was asked, and none for
\* one that was waiting when the first server started - until a server stops,
\* since the one that takes over may meet what was already sent as new.
SentOnce == "stop" \in changes \/ \A q \in Questions : received[q] <= asked[q]

\* `The questions already waiting when the server starts are not sent, so a
\* restart does not bring a burst of old messages'.
NothingOldIsFresh == \A s \in running : fresh[s] \cap old[s] = {}

\* A question that waits, and that was missing in the picture every running
\* server built last.
New(q) == /\ q \in waiting
          /\ running # {}
          /\ \A s \in running : looked[s] /\ q \notin picture[s]
\* The server that holds the lock is handing it to a thread.
BeingSent(q) == \E s \in running : holder = s /\ pc[s] = "send" /\ q \in fresh[s]

\* A new question is sent, by one server or the other, unless it is settled
\* first, as long as no server starts or stops.
NewIsSent ==
    \A q \in Questions : New(q) ~> (BeingSent(q) \/ q \notin waiting \/ changes # {})
=============================================================================
