--------------------------- MODULE NotifierProofs ---------------------------
(***************************************************************************)
(* Until a server stops, each question is sent at most once per asking,    *)
(* for any number of servers, whenever they start; and no server ever      *)
(* sends what waited when it started.                                      *)
(***************************************************************************)
EXTENDS Notifier, TLAPS

-----------------------------------------------------------------------------
(* What waited at start up *)

\* The questions that have waited ever since a server's first picture wait
\* still, are in every picture it builds, and are among those it has seen.
OldIsSeen ==
    /\ old \in [Servers -> SUBSET Questions]
    /\ fresh \in [Servers -> SUBSET Questions]
    /\ seen \in [Servers -> SUBSET Questions]
    /\ picture \in [Servers -> SUBSET Questions]
    /\ pc \in [Servers -> {"build", "look", "lead", "send"}]
    /\ looked \in [Servers -> BOOLEAN]
    /\ waiting \subseteq Questions /\ running \subseteq Servers
    /\ \A s \in Servers :
         /\ old[s] \subseteq waiting
         /\ fresh[s] \cap old[s] = {}
         /\ s \notin running => old[s] = {}
         /\ ~looked[s] => old[s] = {}
         /\ looked[s] => old[s] \subseteq seen[s]
         /\ pc[s] = "look" => old[s] \subseteq picture[s]

\* Every step keeps it, whoever starts or stops.
LEMMA OldIsSeenStep ==
    ASSUME OldIsSeen, Next
    PROVE  OldIsSeen'
<1> USE DEF OldIsSeen, server
<1>1. ASSUME NEW q \in Questions, Ask(q)
      PROVE  OldIsSeen'
  BY <1>1 DEF Ask
<1>2. ASSUME NEW q \in Questions, Settle(q)
      PROVE  OldIsSeen'
  BY <1>2 DEF Settle
<1>3. ASSUME NEW s \in Servers, Build(s)
      PROVE  OldIsSeen'
  BY <1>3 DEF Build, Goto
<1>4. ASSUME NEW s \in Servers, Look(s)
      PROVE  OldIsSeen'
  <2>1. /\ fresh' \in [Servers -> SUBSET Questions]
        /\ seen' \in [Servers -> SUBSET Questions]
        /\ looked' \in [Servers -> BOOLEAN]
        /\ pc' \in [Servers -> {"build", "look", "lead", "send"}]
        /\ old' \in [Servers -> SUBSET Questions]
    BY <1>4 DEF Look, Goto, Before, SeenAfter
  <2>2. ASSUME NEW r \in Servers, r # s
        PROVE  /\ old'[r] = old[r] /\ fresh'[r] = fresh[r] /\ looked'[r] = looked[r]
               /\ seen'[r] = seen[r] /\ pc'[r] = pc[r]
    BY <1>4, <2>2 DEF Look, Goto
  <2>3. /\ seen'[s] = picture[s] /\ looked'[s] = TRUE /\ pc'[s] # "look"
        /\ fresh'[s] = picture[s] \ Before(s)
        /\ old'[s] = IF looked[s] THEN old[s] ELSE picture[s] \cap waiting
    BY <1>4 DEF Look, Goto, SeenAfter
  <2>4. /\ pc[s] = "look" /\ s \in running
        /\ UNCHANGED <<waiting, running, picture>>
    BY <1>4 DEF Look
  <2>5. fresh'[s] \cap old'[s] = {} /\ old'[s] \subseteq seen'[s] /\ old'[s] \subseteq waiting
    BY <2>3, <2>4 DEF Before
  <2> QED
    BY <2>1, <2>2, <2>3, <2>4, <2>5
<1>5. ASSUME NEW s \in Servers, Lead(s)
      PROVE  OldIsSeen'
  BY <1>5 DEF Lead, Goto
<1>6. ASSUME NEW s \in Servers, NEW q \in Questions, Send(s, q)
      PROVE  OldIsSeen'
  BY <1>6 DEF Send, Goto
<1>7. ASSUME NEW s \in Servers, NEW q \in Questions, Deliver(s, q) \/ PostFails(s, q)
      PROVE  OldIsSeen'
  BY <1>7 DEF Deliver, PostFails
<1>8. ASSUME NEW s \in Servers, Start(s)
      PROVE  OldIsSeen'
  BY <1>8 DEF Start
<1>9. ASSUME NEW s \in Servers, Stop(s)
      PROVE  OldIsSeen'
  BY <1>9 DEF Stop, Goto
<1> QED
  BY <1>1, <1>2, <1>3, <1>4, <1>5, <1>6, <1>7, <1>8, <1>9 DEF Next, Step

\* A restart brings no burst of old messages, in every behaviour: a server
\* never has a question to send that has waited since its first picture.
THEOREM OldIsNeverSent == Spec => []NothingOldIsFresh
<1>1. Init => OldIsSeen
  BY DEF Init, OldIsSeen
<1>2. OldIsSeen /\ [Next]_vars => OldIsSeen'
  <2>1. ASSUME OldIsSeen, UNCHANGED vars
        PROVE  OldIsSeen'
    BY <2>1 DEF OldIsSeen, vars, server
  <2> QED
    BY <2>1, OldIsSeenStep
<1>3. OldIsSeen => NothingOldIsFresh
  <2>1. ASSUME OldIsSeen
        PROVE  NothingOldIsFresh
    BY <2>1 DEF OldIsSeen, NothingOldIsFresh
  <2> QED
    BY <2>1
<1> QED
  BY <1>1, <1>2, <1>3, PTL DEF Spec
-----------------------------------------------------------------------------
(* At most one message per asking *)

\* Server s has yet to send q, for what it knows and for what its next
\* pictures will tell it of the askings so far.
Unsent(s, q) ==
    \/ q \in fresh[s]
    \/ /\ looked[s] /\ q \notin seen[s]
       /\ q \in waiting \/ (pc[s] = "look" /\ q \in picture[s])
    \/ pc[s] = "look" /\ q \notin picture[s] /\ q \in waiting

\* A server that does not run remembers nothing, and what is to be sent has
\* been seen.
Memory == \A s \in Servers :
            /\ fresh[s] \subseteq seen[s]
            /\ pc[s] \in {"build", "look"} => fresh[s] = {}
            /\ s \notin running => pc[s] = "build" /\ ~looked[s]

\* What one server has on its way, and has yet to send, was asked for.
AskedOfEach ==
    \A s \in Servers, q \in Questions :
        /\ posting[s][q] <= asked[q]
        /\ Unsent(s, q) => posting[s][q] < asked[q]

\* Nobody but the holder of the lock has anything on its way.
OneSender ==
    /\ \A s \in Servers : s # holder =>
         pc[s] # "send" /\ \A q \in Questions : posting[s][q] = 0
    /\ holder = Nobody => \A q \in Questions : received[q] = 0

\* The messages for q that are out or on their way; only the holder sends.
Total(q) == received[q] + (IF holder = Nobody THEN 0 ELSE posting[holder][q])

\* Each message, and each one a server that leads or may come to lead has yet
\* to send, has an asking of its own.
AskedOfAll ==
    \A q \in Questions :
        /\ Total(q) <= asked[q]
        /\ \A s \in Servers :
             holder \in {s, Nobody} /\ Unsent(s, q) => Total(q) < asked[q]

SendInv == /\ TypeOK
           /\ Memory
           /\ AskedOfEach
           /\ "stop" \notin changes => OneSender /\ AskedOfAll

\* Messages and askings are counted in numbers.
LEMMA Numbers ==
    ASSUME NotifierAssumption, TypeOK, NEW q \in Questions
    PROVE  /\ Total(q) \in Int /\ asked[q] \in Int /\ received[q] \in Nat
           /\ \A s \in Servers : posting[s][q] \in Nat
BY DEF TypeOK, Total, NotifierAssumption

\* A step that sends and receives nothing, and leaves no server more to send
\* than it had, keeps what was asked for: unless a question was asked, which
\* makes room for one more.
LEMMA QuietStep ==
    ASSUME NotifierAssumption, SendInv, TypeOK', Memory',
           UNCHANGED <<posting, received, changes>>,
           \A q \in Questions : asked'[q] \in {asked[q], asked[q] + 1},
           \A s \in Servers, q \in Questions :
               Unsent(s, q)' => Unsent(s, q) \/ asked'[q] = asked[q] + 1,
           holder' = holder \/ (holder = Nobody /\ holder' \in Servers),
           "stop" \notin changes => \A s \in Servers : s # holder' => pc'[s] # "send"
    PROVE  SendInv'
<1> USE DEF SendInv
<1>1. AskedOfEach'
  <2> SUFFICES ASSUME NEW s \in Servers, NEW q \in Questions
               PROVE  /\ posting[s][q] <= asked'[q]
                      /\ Unsent(s, q)' => posting[s][q] < asked'[q]
    BY DEF AskedOfEach
  <2> QED
    BY Numbers DEF AskedOfEach
<1>2. ASSUME "stop" \notin changes
      PROVE  OneSender' /\ AskedOfAll'
  <2>1. OneSender'
    <3>1. CASE holder' = holder
      BY <1>2, <3>1 DEF OneSender
    <3>2. CASE holder = Nobody /\ holder' \in Servers
      <4>1. \A s \in Servers, q \in Questions : posting[s][q] = 0
        BY <1>2, <3>2 DEF OneSender, NotifierAssumption
      <4> QED
        BY <1>2, <3>2, <4>1 DEF OneSender, NotifierAssumption
    <3> QED
      BY <3>1, <3>2
  <2>2. ASSUME NEW q \in Questions
        PROVE  Total(q)' = Total(q)
    BY <1>2 DEF Total, OneSender, TypeOK, NotifierAssumption
  <2>3. ASSUME NEW s \in Servers, holder' \in {s, Nobody}
        PROVE  holder \in {s, Nobody}
    BY <2>3 DEF NotifierAssumption
  <2>4. AskedOfAll'
    <3> SUFFICES ASSUME NEW q \in Questions
                 PROVE  /\ Total(q) <= asked'[q]
                        /\ \A s \in Servers :
                             holder' \in {s, Nobody} /\ Unsent(s, q)' => Total(q) < asked'[q]
      BY <2>2 DEF AskedOfAll
    <3>1. Total(q) <= asked[q] /\ Total(q) \in Int /\ asked[q] \in Int
      BY <1>2, Numbers DEF AskedOfAll
    <3>2. ASSUME NEW s \in Servers, holder' \in {s, Nobody}, Unsent(s, q)'
          PROVE  Total(q) < asked'[q]
      BY <1>2, <2>3, <3>1, <3>2 DEF AskedOfAll
    <3> QED
      BY <3>1, <3>2
  <2> QED
    BY <2>1, <2>4
<1> QED
  BY <1>1, <1>2

\* The sessions ask and settle: only an asking gives a server more to send.
LEMMA UserStep ==
    ASSUME NotifierAssumption, SendInv, NEW q \in Questions, Ask(q) \/ Settle(q)
    PROVE  SendInv'
<1> USE DEF server
<1>0. TypeOK /\ Memory /\ ("stop" \notin changes => OneSender)
  BY DEF SendInv
<1>1. CASE Ask(q)
  <2>1. TypeOK' /\ Memory'
    BY <1>0, <1>1 DEF Ask, TypeOK, Memory, NotifierAssumption
  <2>2. \A r \in Questions : asked'[r] = IF r = q THEN asked[r] + 1 ELSE asked[r]
    BY <1>0, <1>1 DEF Ask, TypeOK
  <2>3. ASSUME NEW t \in Servers, NEW r \in Questions, Unsent(t, r)'
        PROVE  Unsent(t, r) \/ asked'[r] = asked[r] + 1
    BY <1>1, <2>2, <2>3 DEF Ask, Unsent
  <2>4. UNCHANGED <<posting, received, changes, holder, pc>>
    BY <1>0, <1>1 DEF Ask
  <2>5. "stop" \notin changes => \A t \in Servers : t # holder' => pc'[t] # "send"
    BY <1>0, <2>4 DEF OneSender
  <2>6. /\ UNCHANGED <<posting, received, changes>>
        /\ holder' = holder \/ (holder = Nobody /\ holder' \in Servers)
        /\ \A r \in Questions : asked'[r] \in {asked[r], asked[r] + 1}
    BY <2>2, <2>4
  <2> QED
    BY <1>0, <2>1, <2>2, <2>3, <2>4, <2>5, <2>6, QuietStep
<1>2. CASE Settle(q)
  <2>1. TypeOK' /\ Memory'
    BY <1>0, <1>2 DEF Settle, TypeOK, Memory
  <2>2. ASSUME NEW t \in Servers, NEW r \in Questions, Unsent(t, r)'
        PROVE  Unsent(t, r)
    BY <1>0, <1>2, <2>2 DEF Settle, Unsent
  <2>3. UNCHANGED <<asked, posting, received, changes, holder, pc>>
    BY <1>0, <1>2 DEF Settle
  <2>4. "stop" \notin changes => \A t \in Servers : t # holder' => pc'[t] # "send"
    BY <1>0, <2>3 DEF OneSender
  <2>5. /\ UNCHANGED <<posting, received, changes>>
        /\ holder' = holder \/ (holder = Nobody /\ holder' \in Servers)
        /\ \A r \in Questions : asked'[r] \in {asked[r], asked[r] + 1}
    BY <2>3
  <2> QED
    BY <1>0, <2>1, <2>2, <2>3, <2>4, <2>5, QuietStep
<1> QED
  BY <1>1, <1>2

\* A server builds, looks, leads or starts: nothing is sent, and it has no more
\* to send than before.
LEMMA WatchStep ==
    ASSUME NotifierAssumption, SendInv, NEW s \in Servers,
           Build(s) \/ Look(s) \/ Lead(s) \/ Start(s)
    PROVE  SendInv'
<1> USE DEF server
<1>0. TypeOK /\ Memory /\ ("stop" \notin changes => OneSender)
  BY DEF SendInv
<1>1. CASE Build(s)
  <2>1. TypeOK' /\ Memory'
    BY <1>0, <1>1 DEF Build, Goto, TypeOK, Memory
  <2>2. ASSUME NEW t \in Servers, NEW r \in Questions, Unsent(t, r)'
        PROVE  Unsent(t, r)
    BY <1>0, <1>1, <2>2 DEF Build, Goto, Unsent, TypeOK
  <2>3. UNCHANGED <<asked, posting, received, changes, holder>>
    BY <1>0, <1>1 DEF Build
  <2>4. "stop" \notin changes => \A t \in Servers : t # holder' => pc'[t] # "send"
    BY <1>0, <1>1, <2>3 DEF Build, Goto, TypeOK, OneSender
  <2>5. /\ UNCHANGED <<posting, received, changes>>
        /\ holder' = holder \/ (holder = Nobody /\ holder' \in Servers)
        /\ \A r \in Questions : asked'[r] \in {asked[r], asked[r] + 1}
    BY <2>3
  <2> QED
    BY <1>0, <2>1, <2>2, <2>3, <2>4, <2>5, QuietStep
<1>2. CASE Look(s)
  <2>1. /\ pc' \in [Servers -> {"build", "look", "lead", "send"}]
        /\ pc'[s] = IF fresh'[s] = {} THEN "build" ELSE "lead"
        /\ fresh'[s] = picture[s] \ Before(s) /\ seen'[s] = picture[s] /\ looked'[s]
        /\ \A t \in Servers : t # s =>
             /\ pc'[t] = pc[t] /\ fresh'[t] = fresh[t]
             /\ seen'[t] = seen[t] /\ looked'[t] = looked[t]
    BY <1>0, <1>2 DEF Look, Goto, TypeOK, SeenAfter, Before
  <2>2. TypeOK'
    BY <1>0, <1>2, <2>1 DEF Look, TypeOK, SeenAfter, Before
  <2>3. Memory'
    BY <1>0, <1>2, <2>1 DEF Look, Memory
  <2>4. ASSUME NEW t \in Servers, NEW r \in Questions, Unsent(t, r)'
        PROVE  Unsent(t, r)
    BY <1>0, <1>2, <2>1, <2>4 DEF Look, Unsent, Before
  <2>5. UNCHANGED <<asked, posting, received, changes, holder>>
    BY <1>0, <1>2 DEF Look
  <2>6. "stop" \notin changes => \A t \in Servers : t # holder' => pc'[t] # "send"
    BY <1>0, <2>1, <2>5 DEF OneSender
  <2>7. /\ UNCHANGED <<posting, received, changes>>
        /\ holder' = holder \/ (holder = Nobody /\ holder' \in Servers)
        /\ \A r \in Questions : asked'[r] \in {asked[r], asked[r] + 1}
    BY <2>5
  <2> QED
    BY <1>0, <2>2, <2>3, <2>4, <2>5, <2>6, <2>7, QuietStep
<1>3. CASE Lead(s)
  <2>1. TypeOK'
    BY <1>0, <1>3 DEF Lead, Goto, TypeOK
  <2>2. Memory'
    BY <1>0, <1>3 DEF Lead, Goto, TypeOK, Memory
  <2>3. ASSUME NEW t \in Servers, NEW r \in Questions, Unsent(t, r)'
        PROVE  Unsent(t, r)
    BY <1>0, <1>3, <2>3 DEF Lead, Goto, Unsent, TypeOK
  <2>4. UNCHANGED <<asked, posting, received, changes>>
    BY <1>0, <1>3 DEF Lead
  <2>5. holder' = holder \/ (holder = Nobody /\ holder' \in Servers)
    BY <1>0, <1>3 DEF Lead, MayLead, TypeOK
  <2>6. "stop" \notin changes => \A t \in Servers : t # holder' => pc'[t] # "send"
    <3>1. CASE MayLead(s)
      <4>1. holder' = s /\ \A t \in Servers : t # s => pc'[t] = pc[t] /\ t # holder
        BY <1>0, <1>3, <3>1 DEF Lead, Goto, MayLead, TypeOK, NotifierAssumption
      <4> QED
        BY <1>0, <4>1 DEF OneSender
    <3>2. CASE ~MayLead(s)
      <4>1. holder' = holder /\ \A t \in Servers : pc'[t] \in {pc[t], "build"}
        BY <1>0, <1>3, <3>2 DEF Lead, Goto, TypeOK
      <4> QED
        BY <1>0, <4>1 DEF OneSender
    <3> QED
      BY <3>1, <3>2
  <2> QED
    BY <2>1, <2>2, <2>3, <2>4, <2>5, <2>6, QuietStep
<1>4. CASE Start(s)
  <2>1. TypeOK' /\ Memory'
    BY <1>0, <1>4 DEF Start, TypeOK, Memory
  <2>2. ASSUME NEW t \in Servers, NEW r \in Questions
        PROVE  Unsent(t, r)' <=> Unsent(t, r)
    BY <1>0, <1>4 DEF Start, Unsent
  <2>3. UNCHANGED <<asked, posting, received, holder, pc>>
    BY <1>0, <1>4 DEF Start
  <2>4. AskedOfEach'
    BY <2>2, <2>3 DEF SendInv, AskedOfEach
  <2>5. "stop" \notin changes' => OneSender' /\ AskedOfAll'
    BY <1>4, <2>2, <2>3 DEF SendInv, Start, OneSender, AskedOfAll, Total
  <2> QED
    BY <2>1, <2>4, <2>5 DEF SendInv
<1> QED
  BY <1>1, <1>2, <1>3, <1>4

\* A message uses up its asking.
LEMMA SendStep ==
    ASSUME NotifierAssumption, SendInv, NEW s \in Servers, NEW q \in Questions, Send(s, q)
    PROVE  SendInv'
<1> USE DEF SendInv
<1>1. /\ posting' \in [Servers -> [Questions -> Int]]
      /\ \A t \in Servers, r \in Questions :
           posting'[t][r] = IF t = s /\ r = q THEN posting[t][r] + 1 ELSE posting[t][r]
  BY DEF Send, TypeOK
<1>2. /\ pc[s] = "send" /\ pc'[s] # "look" /\ pc'[s] \in {"build", "send"}
      /\ pc' \in [Servers -> {"build", "look", "lead", "send"}]
      /\ fresh'[s] = fresh[s] \ {q} /\ q \in fresh[s] /\ q \in seen[s]
      /\ \A t \in Servers : t # s => pc'[t] = pc[t] /\ fresh'[t] = fresh[t]
  BY DEF Send, Goto, TypeOK, Memory
<1>3. UNCHANGED <<waiting, asked, running, picture, looked, seen, holder, old, received, changes>>
  BY DEF Send
<1>4. posting[s][q] < asked[q] /\ asked[q] \in 0 .. MaxAsks /\ posting[s][q] \in Nat
  BY <1>2 DEF AskedOfEach, Unsent, TypeOK
<1>5. \A t \in Servers, r \in Questions : posting'[t][r] \in 0 .. MaxAsks
  <2> SUFFICES ASSUME NEW t \in Servers, NEW r \in Questions
               PROVE  posting'[t][r] \in 0 .. MaxAsks
    OBVIOUS
  <2>1. CASE t = s /\ r = q
    BY <2>1, <1>1, <1>4 DEF NotifierAssumption
  <2>2. CASE ~(t = s /\ r = q)
    BY <2>2, <1>1 DEF TypeOK
  <2> QED
    BY <2>1, <2>2
<1>6. TypeOK'
  <2>1. posting' \in [Servers -> [Questions -> 0 .. MaxAsks]]
    BY <1>1, <1>5
  <2>2. fresh' \in [Servers -> SUBSET Questions]
    BY DEF Send, TypeOK
  <2> QED
    BY <1>2, <1>3, <2>1, <2>2 DEF TypeOK
<1>7. Memory'
  BY <1>2, <1>3 DEF Memory, Send, Goto
<1>8. ASSUME NEW t \in Servers, NEW r \in Questions, Unsent(t, r)'
      PROVE  Unsent(t, r) /\ ~(t = s /\ r = q)
  BY <1>8, <1>2, <1>3 DEF Unsent
<1>9. AskedOfEach'
  <2> SUFFICES ASSUME NEW t \in Servers, NEW r \in Questions
               PROVE  /\ posting'[t][r] <= asked[r]
                      /\ Unsent(t, r)' => posting'[t][r] < asked[r]
    BY <1>3 DEF AskedOfEach
  <2>1. CASE t = s /\ r = q
    BY <2>1, <1>1, <1>4, <1>8
  <2>2. CASE ~(t = s /\ r = q)
    BY <2>2, <1>1, <1>8 DEF AskedOfEach
  <2> QED
    BY <2>1, <2>2
<1>10. ASSUME "stop" \notin changes
       PROVE  OneSender' /\ AskedOfAll'
  <2>1. s = holder /\ s # Nobody
    BY <1>2, <1>10 DEF OneSender, NotifierAssumption
  <2>2. OneSender'
    BY <1>1, <1>2, <1>3, <1>10, <2>1 DEF OneSender
  <2>3. ASSUME NEW r \in Questions
        PROVE  /\ Total(r)' = (IF r = q THEN Total(r) + 1 ELSE Total(r))
               /\ Total(r) \in Int /\ asked[r] \in Int
    <3>1. /\ received[r] \in Nat /\ posting[s][r] \in Nat
          /\ Total(r) \in Int /\ asked[r] \in Int
      BY Numbers
    <3>2. Total(r) = received[r] + posting[s][r] /\ Total(r)' = received[r] + posting'[s][r]
      BY <1>3, <2>1 DEF Total
    <3>3. posting'[s][r] = IF r = q THEN posting[s][r] + 1 ELSE posting[s][r]
      BY <1>1
    <3> QED
      BY <3>1, <3>2, <3>3
  <2>4. Total(q) < asked[q]
    BY <1>2, <1>10, <2>1 DEF AskedOfAll, Unsent
  <2>5. AskedOfAll'
    <3> SUFFICES ASSUME NEW r \in Questions
                 PROVE  /\ Total(r)' <= asked[r]
                        /\ \A t \in Servers :
                             holder \in {t, Nobody} /\ Unsent(t, r)' => Total(r)' < asked[r]
      BY <1>3 DEF AskedOfAll
    <3>1. CASE r = q
      BY <3>1, <1>8, <2>1, <2>3, <2>4
    <3>2. CASE r # q
      BY <3>2, <1>8, <1>10, <2>3 DEF AskedOfAll
    <3> QED
      BY <3>1, <3>2
  <2> QED
    BY <2>2, <2>5
<1> QED
  BY <1>3, <1>6, <1>7, <1>9, <1>10

\* A message that goes out, or fails, was on its way.
LEMMA PostStep ==
    ASSUME NotifierAssumption, SendInv, NEW s \in Servers, NEW q \in Questions,
           Deliver(s, q) \/ PostFails(s, q)
    PROVE  SendInv'
<1>0. TypeOK /\ Memory /\ AskedOfEach /\ ("stop" \notin changes => OneSender /\ AskedOfAll)
  BY DEF SendInv
<1>1. /\ \A t \in Servers, r \in Questions :
           posting'[t][r] = IF t = s /\ r = q THEN posting[t][r] - 1 ELSE posting[t][r]
      /\ posting[s][q] > 0
  BY <1>0 DEF Deliver, PostFails, Sent, TypeOK
<1>2. /\ UNCHANGED <<waiting, asked, old, server, changes>>
      /\ \A r \in Questions : received'[r] \in Nat
      /\ \A r \in Questions : r # q => received'[r] = received[r]
      /\ received'[q] \in {received[q], received[q] + 1}
  BY <1>0 DEF Deliver, PostFails, TypeOK
<1>3. UNCHANGED <<running, pc, picture, looked, seen, fresh, holder>>
  BY <1>2 DEF server
<1>4. TypeOK'
  <2>1. received' \in [Questions -> Nat]
    BY <1>0, <1>2 DEF Deliver, PostFails, TypeOK
  <2>2. posting[s][q] - 1 \in 0 .. MaxAsks
    BY <1>0, <1>1 DEF TypeOK, NotifierAssumption
  <2>3. posting' \in [Servers -> [Questions -> 0 .. MaxAsks]]
    <3>1. posting \in [Servers -> [Questions -> 0 .. MaxAsks]]
      BY <1>0 DEF TypeOK
    <3>2. Sent(s, q)
      BY DEF Deliver, PostFails
    <3> QED
      BY <2>2, <3>1, <3>2 DEF Sent
  <2> QED
    BY <1>0, <1>2, <1>3, <2>1, <2>3 DEF TypeOK
<1>5. Memory'
  BY <1>0, <1>3 DEF Memory
<1>6. ASSUME NEW t \in Servers, NEW r \in Questions
      PROVE  Unsent(t, r)' <=> Unsent(t, r)
  BY <1>2, <1>3 DEF Unsent
<1>7. AskedOfEach'
  <2> SUFFICES ASSUME NEW t \in Servers, NEW r \in Questions
               PROVE  /\ posting'[t][r] <= asked[r]
                      /\ Unsent(t, r) => posting'[t][r] < asked[r]
    BY <1>2, <1>6 DEF AskedOfEach
  <2>1. posting[t][r] \in Int /\ asked[r] \in Int
    BY <1>0, Numbers
  <2>2. posting'[t][r] = posting[t][r] \/ posting'[t][r] = posting[t][r] - 1
    BY <1>1
  <2> QED
    BY <1>0, <2>1, <2>2 DEF AskedOfEach
<1>8. ASSUME "stop" \notin changes
      PROVE  OneSender' /\ AskedOfAll'
  <2>1. s = holder /\ s # Nobody
    BY <1>0, <1>1, <1>8 DEF OneSender, NotifierAssumption
  <2>2. OneSender'
    BY <1>0, <1>1, <1>3, <1>8, <2>1 DEF OneSender
  <2>3. ASSUME NEW r \in Questions
        PROVE  Total(r) \in Int /\ asked[r] \in Int /\ Total(r)' \in Int /\ Total(r)' <= Total(r)
    <3>1. /\ received[r] \in Nat /\ posting[s][r] \in Nat
          /\ Total(r) \in Int /\ asked[r] \in Int
      BY <1>0, Numbers
    <3>2. Total(r) = received[r] + posting[s][r] /\ Total(r)' = received'[r] + posting'[s][r]
      BY <1>3, <2>1 DEF Total
    <3>3. CASE r = q
      BY <3>1, <3>2, <3>3, <1>1, <1>2
    <3>4. CASE r # q
      BY <3>1, <3>2, <3>4, <1>1, <1>2
    <3> QED
      BY <3>1, <3>3, <3>4
  <2>4. AskedOfAll'
    <3> SUFFICES ASSUME NEW r \in Questions
                 PROVE  /\ Total(r)' <= asked[r]
                        /\ \A t \in Servers :
                             holder \in {t, Nobody} /\ Unsent(t, r) => Total(r)' < asked[r]
      BY <1>2, <1>3, <1>6 DEF AskedOfAll
    <3>1. /\ Total(r) <= asked[r]
          /\ \A t \in Servers :
               holder \in {t, Nobody} /\ Unsent(t, r) => Total(r) < asked[r]
      BY <1>0, <1>8 DEF AskedOfAll
    <3> QED
      BY <2>3, <3>1
  <2> QED
    BY <2>2, <2>4
<1> QED
  BY <1>2, <1>4, <1>5, <1>7, <1>8 DEF SendInv

\* A server that stops forgets what it had to send; what it had on its way is
\* lost.
LEMMA StopStep ==
    ASSUME NotifierAssumption, SendInv, NEW s \in Servers, Stop(s)
    PROVE  SendInv'
<1>0. TypeOK /\ Memory /\ AskedOfEach
  BY DEF SendInv
<1>1. TypeOK'
  <2>1. [q \in Questions |-> 0] \in [Questions -> 0 .. MaxAsks]
    BY DEF NotifierAssumption
  <2>2. posting' \in [Servers -> [Questions -> 0 .. MaxAsks]]
    BY <1>0, <2>1 DEF Stop, TypeOK
  <2> QED
    BY <1>0, <2>2 DEF Stop, Goto, TypeOK
<1>2. /\ pc'[s] = "build" /\ ~looked'[s] /\ fresh'[s] = {} /\ seen'[s] = {}
      /\ \A q \in Questions : posting'[s][q] = 0
      /\ \A t \in Servers : t # s =>
           /\ pc'[t] = pc[t] /\ looked'[t] = looked[t] /\ fresh'[t] = fresh[t]
           /\ seen'[t] = seen[t] /\ picture'[t] = picture[t] /\ posting'[t] = posting[t]
      /\ UNCHANGED <<waiting, asked, received>>
      /\ running' = running \ {s} /\ "stop" \in changes'
  BY <1>0 DEF Stop, Goto, TypeOK
<1>3. Memory'
  BY <1>0, <1>2 DEF Memory
<1>4. ASSUME NEW t \in Servers, NEW q \in Questions, Unsent(t, q)'
      PROVE  Unsent(t, q) /\ t # s
  BY <1>2, <1>4 DEF Unsent
<1>5. AskedOfEach'
  <2> SUFFICES ASSUME NEW t \in Servers, NEW q \in Questions
               PROVE  /\ posting'[t][q] <= asked[q]
                      /\ Unsent(t, q)' => posting'[t][q] < asked[q]
    BY <1>2 DEF AskedOfEach
  <2>1. CASE t = s
    BY <1>0, <1>2, <1>4, <2>1 DEF TypeOK
  <2>2. CASE t # s
    BY <1>0, <1>2, <1>4, <2>2 DEF AskedOfEach
  <2> QED
    BY <2>1, <2>2
<1> QED
  BY <1>1, <1>2, <1>3, <1>5 DEF SendInv

\* Every step keeps the invariant.
THEOREM SendInvHolds == NotifierAssumption => (Spec => []SendInv)
<1> SUFFICES ASSUME NotifierAssumption
             PROVE  Spec => []SendInv
  OBVIOUS
<1>1. ASSUME Init
      PROVE  SendInv
  <2>1. TypeOK /\ Memory
    BY <1>1 DEF Init, TypeOK, Memory, NotifierAssumption
  <2>2. \A s \in Servers, q \in Questions : ~Unsent(s, q) /\ posting[s][q] = 0
    BY <1>1 DEF Init, Unsent
  <2>3. \A q \in Questions : Total(q) = 0 /\ asked[q] = 0
    BY <1>1 DEF Init, Total
  <2> QED
    BY <1>1, <2>1, <2>2, <2>3 DEF Init, SendInv, AskedOfEach, OneSender, AskedOfAll
<1>2. ASSUME SendInv, [Next]_vars
      PROVE  SendInv'
  <2>1. CASE UNCHANGED vars
    <3>1. TypeOK' /\ Memory'
      BY <1>2, <2>1 DEF SendInv, TypeOK, Memory, vars, server
    <3>2. AskedOfEach'
      BY <1>2, <2>1 DEF SendInv, AskedOfEach, Unsent, vars, server
    <3>3. "stop" \notin changes' => OneSender' /\ AskedOfAll'
      BY <1>2, <2>1 DEF SendInv, OneSender, AskedOfAll, Total, Unsent, vars, server
    <3> QED
      BY <3>1, <3>2, <3>3 DEF SendInv
  <2>2. ASSUME NEW q \in Questions, Ask(q) \/ Settle(q)
        PROVE  SendInv'
    BY <1>2, <2>2, UserStep
  <2>3. ASSUME NEW s \in Servers, Step(s) \/ Start(s)
        PROVE  SendInv'
    BY <1>2, <2>3, WatchStep, SendStep DEF Step
  <2>4. ASSUME NEW s \in Servers, NEW q \in Questions, Deliver(s, q) \/ PostFails(s, q)
        PROVE  SendInv'
    BY <1>2, <2>4, PostStep
  <2>5. ASSUME NEW s \in Servers, Stop(s)
        PROVE  SendInv'
    BY <1>2, <2>5, StopStep
  <2> QED
    BY <1>2, <2>1, <2>2, <2>3, <2>4, <2>5 DEF Next
<1> QED
  BY <1>1, <1>2, PTL DEF Spec

\* Every variable keeps its type.
THEOREM TypesHold == NotifierAssumption => (Spec => []TypeOK)
<1>1. SendInv => TypeOK
  BY DEF SendInv
<1> QED
  BY <1>1, SendInvHolds, PTL

\* Until a server stops, the phone gets no more messages for a question than
\* the times it was asked, with any number of servers that start when they will.
THEOREM AtMostOnePerAsking == NotifierAssumption => (Spec => []SentOnce)
<1> SUFFICES ASSUME NotifierAssumption
             PROVE  Spec => []SentOnce
  OBVIOUS
<1>1. SendInv => SentOnce
  <2> SUFFICES ASSUME SendInv, "stop" \notin changes, NEW q \in Questions
               PROVE  received[q] <= asked[q]
    BY DEF SentOnce
  <2>1. TypeOK /\ Total(q) <= asked[q]
    BY DEF SendInv, AskedOfAll
  <2>2. Total(q) >= received[q]
    BY <2>1, Numbers DEF Total, TypeOK
  <2> QED
    BY <2>1, <2>2, Numbers
<1> QED
  BY <1>1, SendInvHolds, PTL
=============================================================================
