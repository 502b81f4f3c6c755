--------------------------- MODULE ServingProofs ---------------------------
(***************************************************************************)
(* What the server promises the pages, for any number of them, of          *)
(* questions, of threads and of pictures, and any depth of the queues.     *)
(*                                                                         *)
(* The live stream: what a page is sent gets newer and newer, and no page  *)
(* misses the picture that was last pushed unless its queue was full.      *)
(*                                                                         *)
(* Dismissals: served one request at a time, dismissed.json is a store of  *)
(* them, wherever a request is cut short.                                  *)
(***************************************************************************)
EXTENDS LiveStream, Dismissals, SequenceTheorems, TLAPS

-----------------------------------------------------------------------------
(* The live stream *)

Sorted(q) == \A i, j \in 1 .. Len(q) : i <= j => q[i] <= q[j]
UpTo(q, newest) == \A i \in 1 .. Len(q) : q[i] <= newest

\* The watcher's pictures: each is at least as new as the one it passes it to.
PicturesInv ==
    /\ previous <= latest /\ latest <= built /\ built <= version
    /\ wpc # "build" => built # NoPicture
    /\ wpc \in {"compare", "copy", "put"} => latest = built
    /\ wpc \in {"copy", "put"} => previous = built

\* What a connection has, and is sent next, is no newer than the sessions, and
\* what waits in its queue no newer than the watcher's picture.
OrderInv(c) ==
    /\ shown[c] <= version /\ first[c] <= version
    /\ UpTo(sink[c], built) /\ Sorted(sink[c])
    /\ conn[c] = "none" => sink[c] = <<>>

\* The newest picture that a connection has or will be sent, and whether the
\* push under way, if there is one, is done with it.
OnItsWay(c) == IF sink[c] # <<>> THEN sink[c][Len(sink[c])]
               ELSE IF conn[c] = "open" THEN shown[c] ELSE first[c]
Settled(c) == wpc # "copy" /\ c \notin targets /\ ~behind[c]

\* NoSilentGap already from the moment a stream has its first picture in hand,
\* or anything in its queue: that it is registered before is what is needed.
GapInv(c) ==
    /\ conn[c] \in {"greeted", "open"} \/ (conn[c] = "joined" /\ sink[c] # <<>>)
    /\ Settled(c)
    => OnItsWay(c) >= previous

IInv ==
    /\ TypeOK
    /\ RegisteredAreServed
    /\ PicturesInv
    /\ \A c \in Clients : OrderInv(c) /\ GapInv(c)

-----------------------------------------------------------------------------
(* Queues *)

\* A picture no older than those in a queue, put at its end.
LEMMA PutAtTheEnd ==
    ASSUME StreamAssumption, NEW q \in Seq(Pictures), NEW picture \in Pictures, Sorted(q), UpTo(q, picture)
    PROVE  LET longer == Append(q, picture)
           IN  /\ longer \in Seq(Pictures) /\ Len(longer) = Len(q) + 1 /\ longer # <<>>
               /\ longer[Len(longer)] = picture
               /\ Sorted(longer) /\ UpTo(longer, picture)
  <1> DEFINE longer == Append(q, picture)
  <1>1. /\ longer \in Seq(Pictures) /\ longer # <<>> /\ Len(longer) = Len(q) + 1
        /\ \A i \in 1 .. Len(q) : longer[i] = q[i]
        /\ longer[Len(q) + 1] = picture
    BY AppendProperties
  <1>2. Len(q) \in Nat /\ \A i \in 1 .. Len(q) : q[i] \in Int
    BY LenProperties DEF Pictures, StreamAssumption
  <1>3. picture \in Int
    BY DEF Pictures
  <1> HIDE DEF longer
  <1>4. UpTo(longer, picture)
    BY <1>1, <1>2, <1>3 DEF UpTo
  <1>5. Sorted(longer)
    BY <1>1, <1>2, <1>3 DEF Sorted, UpTo
  <1> QED BY <1>1, <1>4, <1>5 DEF longer

\* The first picture of a queue, taken off it.
LEMMA TakeOff ==
    ASSUME StreamAssumption, NEW q \in Seq(Pictures), q # <<>>, NEW newest, Sorted(q), UpTo(q, newest)
    PROVE  /\ Tail(q) \in Seq(Pictures) /\ Len(Tail(q)) = Len(q) - 1
           /\ Head(q) \in Pictures /\ Head(q) <= newest
           /\ Sorted(Tail(q)) /\ UpTo(Tail(q), newest)
           /\ Tail(q) # <<>> => Tail(q)[Len(Tail(q))] = q[Len(q)]
           /\ Tail(q) = <<>> => Head(q) = q[Len(q)]
  <1> DEFINE rest == Tail(q)
  <1>1. /\ Head(q) \in Pictures /\ rest \in Seq(Pictures) /\ Len(rest) = Len(q) - 1
        /\ \A i \in 1 .. Len(rest) : rest[i] = q[i + 1]
    BY HeadTailProperties
  <1>2. Head(q) = q[1] /\ Len(q) \in Nat \ {0} /\ Len(rest) \in Nat
    BY <1>1, EmptySeq, LenProperties
  <1>3. (rest = <<>>) <=> Len(rest) = 0
    BY <1>1, EmptySeq
  <1> HIDE DEF rest
  <1>4. UpTo(rest, newest) /\ Sorted(rest) /\ q[1] <= newest
    BY <1>1, <1>2 DEF UpTo, Sorted
  <1>5. rest # <<>> => rest[Len(rest)] = q[Len(q)]
    BY <1>1, <1>2, <1>3
  <1>6. rest = <<>> => q[1] = q[Len(q)]
    <2>1. Len(rest) = 0 => Len(q) = 1
      BY <1>1, <1>2
    <2> QED BY <1>3, <2>1
  <1> QED BY <1>1, <1>2, <1>4, <1>5, <1>6 DEF rest

-----------------------------------------------------------------------------
\* Nobody is connected and nothing is built.
LEMMA InitIInv == ASSUME StreamAssumption, Init PROVE IInv
  <1>1. <<>> \in Seq(Pictures) /\ Len(<<>>) = 0
    BY EmptySeq
  <1>2. TypeOK
    BY <1>1 DEF Init, TypeOK, StreamAssumption, Pictures, NoPicture
  <1>3. RegisteredAreServed /\ PicturesInv
    BY DEF Init, RegisteredAreServed, PicturesInv, NoPicture
  <1>4. ASSUME NEW c \in Clients PROVE OrderInv(c) /\ GapInv(c)
    <2>1. /\ sink[c] = <<>> /\ conn[c] = "none"
          /\ shown[c] = 0 /\ first[c] = 0 /\ version = 1
      BY DEF Init, NoPicture
    <2>2. UpTo(sink[c], built) /\ Sorted(sink[c])
      BY <1>1, <2>1 DEF UpTo, Sorted
    <2> QED BY <2>1, <2>2 DEF OrderInv, GapInv
  <1> QED BY <1>2, <1>3, <1>4 DEF IInv

\* The sessions change, time passes: pictures get older, not queues.
LEMMA WorldIInv == ASSUME StreamAssumption, IInv, Change \/ Tick PROVE IInv'
  <1>1. /\ version' \in Pictures /\ version <= version' /\ due' \in BOOLEAN
        /\ UNCHANGED <<latest, previous, built, wpc, targets>>
        /\ UNCHANGED <<clients, conn, first, sink, shown, behind>>
    <2>1. CASE Change
      BY <2>1 DEF IInv, TypeOK, Change, Pictures, StreamAssumption, watcher, streams
    <2>2. CASE Tick
      BY <2>2 DEF IInv, TypeOK, Tick, Pictures, StreamAssumption, watcher, streams
    <2> QED BY <2>1, <2>2
  <1>2. TypeOK' /\ RegisteredAreServed'
    BY <1>1 DEF IInv, TypeOK, RegisteredAreServed, Pictures
  <1>3. PicturesInv'
    BY <1>1 DEF IInv, TypeOK, PicturesInv, Pictures, NoPicture
  <1>4. ASSUME NEW c \in Clients PROVE OrderInv(c)' /\ GapInv(c)'
    <2>1. OrderInv(c) /\ GapInv(c) /\ shown[c] \in Int /\ first[c] \in Int /\ {version, version'} \subseteq Int
      BY <1>1 DEF IInv, TypeOK, Pictures, NoPicture
    <2>2. OrderInv(c)'
      BY <1>1, <2>1 DEF OrderInv, UpTo, Sorted
    <2>3. GapInv(c)'
      BY <1>1, <2>1 DEF GapInv, OnItsWay, Settled
    <2> QED BY <2>2, <2>3
  <1> QED BY <1>2, <1>3, <1>4 DEF IInv

-----------------------------------------------------------------------------
(* watch() *)

\* The watcher's pictures are numbers, and so are those of the pages.
LEMMA Numbers ==
    ASSUME StreamAssumption, IInv
    PROVE  /\ {version, latest, previous, built} \subseteq Nat
           /\ \A c \in Clients : shown[c] \in Nat /\ first[c] \in Nat /\ sink[c] \in Seq(Pictures)
    BY DEF IInv, TypeOK, Pictures, NoPicture, StreamAssumption

\* Steps that build, publish and compare a picture touch no stream.
LEMMA PictureIInv ==
    ASSUME StreamAssumption, IInv, Build \/ Publish \/ Compare
    PROVE  IInv'
  <1>1. /\ UNCHANGED <<version, targets>> /\ built <= built' /\ previous <= previous'
        /\ UNCHANGED <<clients, conn, first, sink, shown, behind>>
        /\ wpc # "copy" /\ (wpc' # "copy" => previous' = previous)
    <2>1. CASE Build
      BY <2>1, Numbers DEF Build, streams, IInv, PicturesInv
    <2>2. CASE Publish
      BY <2>2, Numbers DEF Publish, streams
    <2>3. CASE Compare
      BY <2>3, Numbers DEF Compare, streams, IInv, PicturesInv
    <2> QED BY <2>1, <2>2, <2>3
  <1>2. TypeOK'
    <2>1. UNCHANGED <<clients, conn, first, sink, shown, behind>>
      BY <1>1
    <2>2. CASE Build
      BY <2>1, <2>2 DEF Build, IInv, TypeOK, Pictures
    <2>3. CASE Publish
      BY <2>1, <2>3 DEF Publish, IInv, TypeOK, Pictures
    <2>4. CASE Compare
      BY <2>1, <2>4 DEF Compare, IInv, TypeOK, Pictures
    <2> QED BY <2>2, <2>3, <2>4
  <1>3. RegisteredAreServed'
    BY <1>1 DEF IInv, RegisteredAreServed
  <1>4. PicturesInv'
    <2>1. CASE Build
      BY <2>1, Numbers DEF Build, IInv, TypeOK, PicturesInv, Pictures, NoPicture
    <2>2. CASE Publish
      BY <2>2, Numbers DEF Publish, IInv, PicturesInv
    <2>3. CASE Compare
      BY <2>3, Numbers DEF Compare, IInv, PicturesInv
    <2> QED BY <2>1, <2>2, <2>3
  <1>5. ASSUME NEW c \in Clients PROVE OrderInv(c)' /\ GapInv(c)'
    <2>1. OrderInv(c) /\ GapInv(c) /\ sink[c] \in Seq(Pictures) /\ built \in Nat /\ built' \in Nat
      BY <1>2, Numbers DEF IInv, TypeOK, Pictures, NoPicture
    <2>2. \A i \in 1 .. Len(sink[c]) : sink[c][i] \in Nat
      BY <2>1, LenProperties DEF Pictures, StreamAssumption
    <2>3. OrderInv(c)'
      <3>1. UNCHANGED <<shown, first, conn, sink, version>>
        BY <1>1
      <3>2. UpTo(sink[c], built) /\ built <= built'
        BY <1>1, <2>1 DEF OrderInv
      <3>3. UpTo(sink[c], built')
        BY <2>1, <2>2, <3>2 DEF UpTo
      <3>4. UpTo(sink[c], built)' /\ Sorted(sink[c])'
        BY <2>1, <3>1, <3>3 DEF OrderInv, UpTo, Sorted
      <3> QED BY <2>1, <3>1, <3>4 DEF OrderInv
    <2>4. GapInv(c)'
      BY <1>1, <2>1 DEF GapInv, OnItsWay, Settled
    <2> QED BY <2>3, <2>4
  <1> QED BY <1>2, <1>3, <1>4, <1>5 DEF IInv

\* Every stream there is gets onto the list of a push.
LEMMA CopyTargetsIInv == ASSUME StreamAssumption, IInv, CopyTargets PROVE IInv'
  <1>1. /\ UNCHANGED <<version, latest, previous, built>> /\ targets' = clients
        /\ UNCHANGED <<clients, conn, first, sink, shown, behind>>
        /\ wpc = "copy" /\ wpc' = "put"
    BY DEF CopyTargets, streams, Recipients
  <1>2. TypeOK' /\ UNCHANGED due
    BY <1>1 DEF IInv, TypeOK, CopyTargets
  <1>3. RegisteredAreServed' /\ PicturesInv'
    BY <1>1 DEF IInv, RegisteredAreServed, PicturesInv
  <1>4. ASSUME NEW c \in Clients PROVE OrderInv(c)' /\ GapInv(c)'
    <2>1. OrderInv(c)'
      BY <1>1 DEF IInv, OrderInv, UpTo, Sorted
    <2>2. conn'[c] # "none" => c \in targets'
      BY <1>1 DEF IInv, RegisteredAreServed
    <2> QED BY <2>1, <2>2 DEF GapInv, Settled
  <1> QED BY <1>2, <1>3, <1>4 DEF IInv

\* The end of a push: nobody is left to be served.
LEMMA BroadcastDoneIInv == ASSUME StreamAssumption, IInv, BroadcastDone PROVE IInv'
  <1>1. /\ UNCHANGED <<version, due, latest, previous, built, targets>>
        /\ UNCHANGED <<clients, conn, first, sink, shown, behind>>
        /\ wpc = "put" /\ wpc' = "build"
    BY DEF BroadcastDone, streams
  <1>2. TypeOK' /\ RegisteredAreServed' /\ PicturesInv'
    BY <1>1 DEF IInv, TypeOK, RegisteredAreServed, PicturesInv
  <1>3. \A c \in Clients : OrderInv(c)' /\ GapInv(c)'
    BY <1>1 DEF IInv, OrderInv, UpTo, Sorted, GapInv, OnItsWay, Settled
  <1> QED BY <1>2, <1>3 DEF IInv

\* What a step does not touch of a stream stays in order and without a gap.
Same(c) == /\ conn'[c] = conn[c] /\ first'[c] = first[c] /\ sink'[c] = sink[c]
           /\ shown'[c] = shown[c] /\ behind'[c] = behind[c]
LEMMA OthersKeep ==
    ASSUME IInv, UNCHANGED <<version, previous, built, wpc>>,
           NEW c \in Clients, Same(c), c \in targets' <=> c \in targets
    PROVE  OrderInv(c)' /\ GapInv(c)'
  <1>1. OrderInv(c)'
    BY DEF IInv, Same, OrderInv, UpTo, Sorted
  <1>2. GapInv(c)'
    BY DEF IInv, Same, GapInv, OnItsWay, Settled
  <1> QED BY <1>1, <1>2

\* One stream is served: its queue takes the picture, or drops it and says so.
LEMMA PutIInv == ASSUME StreamAssumption, IInv, NEW c \in Clients, Put(c) PROVE IInv'
  <1>1. /\ UNCHANGED <<version, due, latest, previous, built, wpc, clients, conn, first, shown>>
        /\ wpc = "put" /\ targets' = targets \ {c}
    BY DEF Put
  <1>2. /\ sink' = [d \in Clients |-> IF d = c THEN sink'[c] ELSE sink[d]]
        /\ behind' = [d \in Clients |-> IF d = c THEN behind'[c] ELSE behind[d]]
        /\ \/ conn[c] = "none" /\ sink'[c] = sink[c] /\ behind'[c] = behind[c]
           \/ /\ conn[c] # "none" /\ Len(sink[c]) < CLIENT_QUEUE_DEPTH
              /\ sink'[c] = Append(sink[c], built) /\ behind'[c] = FALSE
           \/ sink'[c] = sink[c] /\ behind'[c] = TRUE
    BY DEF Put, IInv, TypeOK, HasRoom, Queued
  <1>3. /\ sink[c] \in Seq(Pictures) /\ Len(sink[c]) \in Nat /\ built \in Pictures
        /\ previous = built /\ OrderInv(c) /\ GapInv(c)
    BY <1>1, LenProperties DEF IInv, TypeOK, PicturesInv
  <1>4. /\ sink'[c] \in Seq(Pictures) /\ Len(sink'[c]) <= CLIENT_QUEUE_DEPTH
        /\ UpTo(sink'[c], built) /\ Sorted(sink'[c])
        /\ \/ conn[c] = "none"
           \/ behind'[c] = TRUE
           \/ sink'[c] # <<>> /\ sink'[c][Len(sink'[c])] = built
        /\ conn[c] = "none" => sink'[c] = <<>>
    <2>1. CASE sink'[c] = Append(sink[c], built) /\ Len(sink[c]) < CLIENT_QUEUE_DEPTH
               /\ conn[c] # "none"
      <3>1. Sorted(sink[c]) /\ UpTo(sink[c], built)
        BY <1>3 DEF OrderInv
      <3>2. /\ sink'[c] \in Seq(Pictures) /\ Len(sink'[c]) = Len(sink[c]) + 1 /\ sink'[c] # <<>>
            /\ sink'[c][Len(sink'[c])] = built
            /\ Sorted(sink'[c]) /\ UpTo(sink'[c], built)
        BY <1>3, <2>1, <3>1, PutAtTheEnd
      <3>3. Len(sink'[c]) <= CLIENT_QUEUE_DEPTH
        BY <1>3, <2>1, <3>2 DEF StreamAssumption
      <3> QED BY <2>1, <3>2, <3>3
    <2>2. CASE sink'[c] = sink[c] /\ (behind'[c] = TRUE \/ conn[c] = "none")
      BY <1>3, <2>2 DEF OrderInv, IInv, TypeOK
    <2> QED BY <1>2, <2>1, <2>2
  <1>5. behind'[c] \in BOOLEAN
    BY <1>2 DEF IInv, TypeOK
  <1>6. TypeOK'
    BY <1>1, <1>2, <1>4, <1>5 DEF IInv, TypeOK
  <1>7. RegisteredAreServed' /\ PicturesInv'
    BY <1>1 DEF IInv, RegisteredAreServed, PicturesInv
  <1>8. ASSUME NEW d \in Clients PROVE OrderInv(d)' /\ GapInv(d)'
    <2>1. CASE d # c
      BY <1>1, <1>2, <2>1, OthersKeep DEF Same
    <2>2. CASE d = c
      <3>1. OrderInv(c)'
        BY <1>1, <1>3, <1>4 DEF OrderInv
      <3>2. GapInv(c)'
        BY <1>1, <1>3, <1>4, Numbers DEF GapInv, OnItsWay, Settled
      <3> QED BY <2>2, <3>1, <3>2
    <2> QED BY <2>1, <2>2
  <1> QED BY <1>6, <1>7, <1>8 DEF IInv

-----------------------------------------------------------------------------
(* _stream() *)

\* A step of one stream's handler or browser leaves the watcher and the other
\* streams alone; what is left to show is about that stream.
OnlyStream(c) ==
    /\ UNCHANGED <<version, due, latest, previous, built, wpc, targets>>
    /\ \A d \in Clients \ {c} : Same(d)
LEMMA StreamMoves ==
    ASSUME IInv, NEW c \in Clients, OnlyStream(c), TypeOK', RegisteredAreServed',
           OrderInv(c)', GapInv(c)'
    PROVE  IInv'
  <1>1. PicturesInv'
    BY DEF OnlyStream, IInv, PicturesInv
  <1>2. \A d \in Clients \ {c} : OrderInv(d)' /\ GapInv(d)'
    BY OthersKeep DEF OnlyStream
  <1> QED BY <1>1, <1>2 DEF IInv

\* Registering comes first: nothing is on its way yet, and no push leaves it out.
LEMMA ConnectIInv == ASSUME StreamAssumption, IInv, NEW c \in Clients, Connect(c) PROVE IInv'
  <1>1. /\ conn' = [conn EXCEPT ![c] = "joined"] /\ clients' = clients \cup {c}
        /\ UNCHANGED <<version, due, latest, previous, built, wpc, targets>>
        /\ UNCHANGED <<first, sink, shown, behind>>
    BY DEF Connect, watcher
  <1>2. TypeOK' /\ RegisteredAreServed' /\ OnlyStream(c) /\ conn'[c] = "joined"
    BY <1>1 DEF IInv, TypeOK, RegisteredAreServed, OnlyStream, Same
  <1>3. sink[c] = <<>>
    BY DEF Connect, IInv, OrderInv
  <1>4. OrderInv(c)' /\ GapInv(c)'
    BY <1>1, <1>2, <1>3 DEF IInv, OrderInv, UpTo, Sorted, GapInv
  <1> QED BY <1>2, <1>4, StreamMoves

\* The first picture is at least as new as the one last pushed.
LEMMA TakeFirstIInv == ASSUME StreamAssumption, IInv, NEW c \in Clients, TakeFirst(c) PROVE IInv'
  <1>1. /\ first' = [first EXCEPT ![c] = FirstPicture]
        /\ conn' = [conn EXCEPT ![c] = "greeted"] /\ conn[c] = "joined"
        /\ UNCHANGED <<version, due, latest, previous, built, wpc, targets>>
        /\ UNCHANGED <<clients, sink, shown, behind>>
    BY DEF TakeFirst, watcher
  <1>2. /\ FirstPicture \in Pictures /\ FirstPicture <= version /\ FirstPicture >= previous
    BY Numbers DEF FirstPicture, IInv, TypeOK, PicturesInv, Pictures, NoPicture
  <1>3. TypeOK' /\ RegisteredAreServed' /\ OnlyStream(c)
    BY <1>1, <1>2 DEF IInv, TypeOK, RegisteredAreServed, OnlyStream, Same
  <1>4. first'[c] = FirstPicture /\ conn'[c] = "greeted"
    BY <1>1 DEF IInv, TypeOK
  <1>5. OrderInv(c)'
    BY <1>1, <1>2, <1>4 DEF IInv, OrderInv, UpTo, Sorted
  <1>6. GapInv(c)'
    BY <1>1, <1>2, <1>4 DEF IInv, GapInv, OnItsWay, Settled
  <1> QED BY <1>3, <1>5, <1>6, StreamMoves

\* The page shows its first picture, whatever has been queued meanwhile.
LEMMA SendFirstIInv == ASSUME StreamAssumption, IInv, NEW c \in Clients, SendFirst(c) PROVE IInv'
  <1>1. /\ shown' = [shown EXCEPT ![c] = first[c]] /\ first' = [first EXCEPT ![c] = NoPicture]
        /\ conn' = [conn EXCEPT ![c] = "open"] /\ conn[c] = "greeted"
        /\ UNCHANGED <<version, due, latest, previous, built, wpc, targets>>
        /\ UNCHANGED <<clients, sink, behind>>
    BY DEF SendFirst, watcher
  <1>2. TypeOK' /\ RegisteredAreServed' /\ OnlyStream(c)
    BY <1>1 DEF IInv, TypeOK, RegisteredAreServed, OnlyStream, Same
  <1>3. shown'[c] = first[c] /\ first'[c] = 0 /\ conn'[c] = "open"
    BY <1>1 DEF IInv, TypeOK, NoPicture
  <1>4. OrderInv(c)'
    BY <1>1, <1>3, Numbers DEF IInv, OrderInv, UpTo, Sorted
  <1>5. GapInv(c)'
    BY <1>1, <1>3 DEF IInv, GapInv, OnItsWay, Settled
  <1> QED BY <1>2, <1>4, <1>5, StreamMoves

\* The page shows the next picture of its queue, the newest if it is the last.
LEMMA SendNextIInv == ASSUME StreamAssumption, IInv, NEW c \in Clients, SendNext(c) PROVE IInv'
  <1>1. /\ shown' = [shown EXCEPT ![c] = Head(sink[c])] /\ sink' = [sink EXCEPT ![c] = Tail(@)]
        /\ conn[c] = "open" /\ sink[c] # <<>>
        /\ UNCHANGED <<version, due, latest, previous, built, wpc, targets>>
        /\ UNCHANGED <<clients, conn, first, behind>>
    BY DEF SendNext, watcher
  <1>2. /\ sink[c] \in Seq(Pictures) /\ Len(sink[c]) <= CLIENT_QUEUE_DEPTH
        /\ UpTo(sink[c], built) /\ Sorted(sink[c]) /\ GapInv(c)
    BY DEF IInv, TypeOK, OrderInv
  <1>3. /\ Tail(sink[c]) \in Seq(Pictures) /\ Len(Tail(sink[c])) = Len(sink[c]) - 1
        /\ Head(sink[c]) \in Pictures /\ Head(sink[c]) <= built
        /\ Sorted(Tail(sink[c])) /\ UpTo(Tail(sink[c]), built)
        /\ Tail(sink[c]) # <<>> => Tail(sink[c])[Len(Tail(sink[c]))] = sink[c][Len(sink[c])]
        /\ Tail(sink[c]) = <<>> => Head(sink[c]) = sink[c][Len(sink[c])]
    BY <1>1, <1>2, TakeOff
  <1>4. Len(Tail(sink[c])) <= CLIENT_QUEUE_DEPTH
    BY <1>2, <1>3, LenProperties DEF StreamAssumption
  <1>5. TypeOK' /\ RegisteredAreServed' /\ OnlyStream(c)
    BY <1>1, <1>3, <1>4 DEF IInv, TypeOK, RegisteredAreServed, OnlyStream, Same
  <1>6. shown'[c] = Head(sink[c]) /\ sink'[c] = Tail(sink[c])
    BY <1>1 DEF IInv, TypeOK
  <1>7. OrderInv(c)'
    <2>1. Head(sink[c]) <= version
      BY <1>3, Numbers DEF IInv, PicturesInv, Pictures, StreamAssumption
    <2> QED BY <1>1, <1>3, <1>6, <2>1 DEF IInv, OrderInv
  <1>8. GapInv(c)'
    BY <1>1, <1>2, <1>3, <1>6 DEF GapInv, OnItsWay, Settled
  <1> QED BY <1>5, <1>7, <1>8, StreamMoves

\* A browser that goes away, and the handler that notices.
LEMMA EndIInv ==
    ASSUME StreamAssumption, IInv, NEW c \in Clients, Disconnect(c) \/ End(c)
    PROVE  IInv'
  <1>1. CASE Disconnect(c)
    <2>1. /\ conn' = [conn EXCEPT ![c] = "broken"] /\ conn[c] # "none"
          /\ UNCHANGED <<version, due, latest, previous, built, wpc, targets>>
          /\ UNCHANGED <<clients, first, sink, shown, behind>>
      BY <1>1 DEF Disconnect, watcher
    <2>2. TypeOK' /\ RegisteredAreServed' /\ OnlyStream(c) /\ conn'[c] = "broken"
      BY <2>1 DEF IInv, TypeOK, RegisteredAreServed, OnlyStream, Same
    <2>3. OrderInv(c)' /\ GapInv(c)'
      BY <2>1, <2>2 DEF IInv, OrderInv, UpTo, Sorted, GapInv
    <2> QED BY <2>2, <2>3, StreamMoves
  <1>2. CASE End(c)
    <2>1. /\ conn' = [conn EXCEPT ![c] = "none"] /\ clients' = clients \ {c}
          /\ first' = [first EXCEPT ![c] = NoPicture] /\ sink' = [sink EXCEPT ![c] = <<>>]
          /\ shown' = [shown EXCEPT ![c] = NoPicture] /\ behind' = [behind EXCEPT ![c] = FALSE]
          /\ UNCHANGED <<version, due, latest, previous, built, wpc, targets>>
      BY <1>2 DEF End, watcher, Remaining
    <2>2. <<>> \in Seq(Pictures) /\ Len(<<>>) = 0
      BY EmptySeq
    <2>3. TypeOK'
      BY <2>1, <2>2 DEF IInv, TypeOK, StreamAssumption
    <2>4. RegisteredAreServed' /\ OnlyStream(c)
      BY <2>1 DEF IInv, TypeOK, RegisteredAreServed, OnlyStream, Same
    <2>5. conn'[c] = "none" /\ shown'[c] = 0 /\ first'[c] = 0 /\ sink'[c] = <<>>
      BY <2>1 DEF IInv, TypeOK, NoPicture
    <2>6. UpTo(<<>>, built') /\ Sorted(<<>>)
      BY <2>2 DEF UpTo, Sorted
    <2>7. OrderInv(c)' /\ GapInv(c)'
      BY <2>1, <2>5, <2>6, Numbers DEF OrderInv, GapInv
    <2> QED BY <2>3, <2>4, <2>7, StreamMoves
  <1> QED BY <1>1, <1>2

\* Every step.
LEMMA NextIInv == ASSUME StreamAssumption, IInv, [Next]_vars PROVE IInv'
  <1>1. CASE UNCHANGED vars
    BY <1>1 DEF vars, watcher, streams, IInv, TypeOK, RegisteredAreServed, PicturesInv,
                OrderInv, UpTo, Sorted, GapInv, OnItsWay, Settled
  <1>2. CASE Change \/ Tick
    BY <1>2, WorldIInv
  <1>3. CASE Watch
    BY <1>3, PictureIInv, CopyTargetsIInv, PutIInv, BroadcastDoneIInv DEF Watch
  <1>4. CASE \E c \in Clients : Connect(c) \/ Serve(c) \/ Disconnect(c)
    BY <1>4, ConnectIInv, TakeFirstIInv, SendFirstIInv, SendNextIInv, EndIInv DEF Serve
  <1> QED BY <1>1, <1>2, <1>3, <1>4 DEF Next

-----------------------------------------------------------------------------
\* The inductive invariant of the stream.
THEOREM InductiveInvariant == ASSUME StreamAssumption PROVE Spec => []IInv
  <1>1. Init => IInv
    BY InitIInv
  <1>2. IInv /\ [Next]_vars => IInv'
    BY NextIInv
  <1> QED BY <1>1, <1>2, PTL DEF Spec

\* No queue holds more pictures than CLIENT_QUEUE_DEPTH, whoever joins and goes.
THEOREM TypesHold == ASSUME StreamAssumption PROVE Spec => []TypeOK
  <1>1. IInv => TypeOK
    BY DEF IInv
  <1> QED BY <1>1, InductiveInvariant, PTL

\* Exactly the streams that are being served are registered with the watcher.
THEOREM ServedAreRegistered == ASSUME StreamAssumption PROVE Spec => []RegisteredAreServed
  <1>1. IInv => RegisteredAreServed
    BY DEF IInv
  <1> QED BY <1>1, InductiveInvariant, PTL

\* What a queue holds gets newer from front to back, and no page shows a picture
\* from the future.
THEOREM PicturesInOrder == ASSUME StreamAssumption PROVE Spec => []QueuesInOrder
  <1>1. IInv => QueuesInOrder
    BY DEF IInv, OrderInv, Sorted, QueuesInOrder
  <1> QED BY <1>1, InductiveInvariant, PTL

\* However a page's first picture, the watcher's pushes and the registering of
\* streams interleave: an open page has, or is about to get, the picture last
\* pushed, unless its queue was full when that came.
THEOREM NoGapWhenJoining == ASSUME StreamAssumption PROVE Spec => []NoSilentGap
  <1>1. IInv => NoSilentGap
    BY DEF IInv, GapInv, Settled, OnItsWay, NoSilentGap, Newest
  <1> QED BY <1>1, InductiveInvariant, PTL

-----------------------------------------------------------------------------
(* Dismissals *)

\* At most one request is under way.
Alone == \A g, h \in InFlight : g = h

\* What a request has done so far: it will write what the file holds and its
\* question, into an inode of its own that no reader sees.
Progress(h) ==
    /\ handle[h] # NoFile <=> pc[h] = "write"
    /\ pc[h] \in {"open", "write", "replace"} => kept[h] = Load(target) \cup {question[h]}
    /\ pc[h] = "write" => handle[h] = temporary /\ data[temporary] = Nothing
    /\ pc[h] = "replace" => temporary # NoFile /\ data[temporary] = List(kept[h])
    /\ pc[h] = "answer" => question[h] \in Load(target)

Apart == temporary # NoFile => temporary # target

DismissalsInv ==
    /\ DismissalsTypeOK
    /\ Alone
    /\ \A h \in Handlers : Progress(h)
    /\ Apart
    /\ NeverTorn
    /\ acked \subseteq Load(target)

-----------------------------------------------------------------------------
\* The strengthened invariant holds of the disk a server finds at its start.
LEMMA DismissalsInitInv ==
    ASSUME DismissalsAssumption, DismissalsInit
    PROVE  DismissalsInv /\ Store!Init
<1>1. DismissalsTypeOK
  <2>1. \A S \in SUBSET Questions : List(S) \in Content
    BY DEF List, Content
  <2>2. Nothing \in Content
    BY DEF Nothing, Content
  <2>3. (CHOOSE q \in Questions : TRUE) \in Questions
    BY DEF DismissalsAssumption
  <2> QED
    BY <2>1, <2>2, <2>3 DEF DismissalsInit, DismissalsTypeOK
<1>2. InFlight = {}
  BY DEF DismissalsInit, InFlight
<1>3. \A h \in Handlers : Progress(h)
  BY DEF DismissalsInit, Progress
<1>4. Load(target) \in SUBSET Questions
  BY <1>1 DEF DismissalsTypeOK, Load, Content
<1> QED
  BY <1>1, <1>2, <1>3, <1>4 DEF DismissalsInit, DismissalsInv, Alone, Apart, NeverTorn, Store!Init

\* A step by a request under way, with the store's step it is.
LEMMA StepOfOne ==
    ASSUME DismissalsAssumption, DismissalsInv, NEW h \in InFlight, Step(h) \/ Die(h)
    PROVE  /\ DismissalsInv'
           /\ \/ Store!Keep(question[h])
              \/ Store!Acknowledge(question[h])
              \/ UNCHANGED Store!vars
<1> USE DEF DismissalsInv, Goto
<1> h \in Handlers
  BY DEF InFlight
<1>a. /\ DismissalsTypeOK /\ Apart /\ NeverTorn /\ acked \subseteq Load(target)
      /\ question[h] \in Questions /\ kept[h] \in SUBSET Questions
      /\ Load(target) \in SUBSET Questions
      /\ Progress(h)
  BY DEF DismissalsTypeOK, Load, Content
<1>b. \A g \in Handlers : g # h => pc[g] = "idle" /\ handle[g] = NoFile
  BY DEF Alone, InFlight, Progress, DismissalsTypeOK
<1>c. ASSUME NEW s \in {"idle", "load", "open", "write", "replace", "answer"},
             pc' = [pc EXCEPT ![h] = s]
      PROVE  /\ pc' \in [Handlers -> {"idle", "load", "open", "write", "replace", "answer"}]
             /\ pc'[h] = s
             /\ \A g \in Handlers : g # h => pc'[g] = "idle"
             /\ Alone'
  BY <1>b, <1>c DEF DismissalsTypeOK, Alone, InFlight
<1>1. ASSUME LoadKept(h)
      PROVE  DismissalsInv' /\ UNCHANGED Store!vars
  <2>1. /\ pc[h] = "load" /\ pc' = [pc EXCEPT ![h] = "open"]
        /\ kept' = [kept EXCEPT ![h] = Load(target) \cup {question[h]}]
        /\ UNCHANGED <<target, temporary, data, question, handle, acked>>
    BY <1>1 DEF LoadKept, KeptWith
  <2>2. DismissalsTypeOK' /\ Load(target)' = Load(target)
    BY <1>a, <1>c, <2>1 DEF DismissalsTypeOK, Load, Whole
  <2>3. \A g \in Handlers : Progress(g)'
    BY <1>a, <1>b, <1>c, <2>1, <2>2 DEF Progress, DismissalsTypeOK
  <2> QED
    BY <1>a, <1>c, <2>1, <2>2, <2>3 DEF Apart, NeverTorn, Whole, Store!vars
<1>2. ASSUME OpenTemporary(h)
      PROVE  DismissalsInv' /\ UNCHANGED Store!vars
  <2>1. PICK i \in Openable :
            /\ temporary' = i
            /\ handle' = [handle EXCEPT ![h] = i]
            /\ data' = [data EXCEPT ![i] = Nothing]
    BY <1>2 DEF OpenTemporary
  <2>2. /\ pc[h] = "open" /\ pc' = [pc EXCEPT ![h] = "write"]
        /\ UNCHANGED <<target, question, kept, acked>>
    BY <1>2 DEF OpenTemporary
  <2>3. i \in Inodes /\ i # target /\ i # NoFile
    BY <1>a DEF Openable, Free, DismissalsTypeOK, Apart, DismissalsAssumption
  <2>4. data' \in [Inodes -> Content] /\ data'[i] = Nothing
    BY <1>a, <2>1, <2>3 DEF DismissalsTypeOK, Nothing, Content
  <2>5. target # NoFile => data'[target] = data[target]
    BY <1>a, <2>1, <2>3 DEF DismissalsTypeOK
  <2>6. DismissalsTypeOK' /\ Load(target)' = Load(target)
    BY <1>a, <1>c, <2>1, <2>2, <2>3, <2>4, <2>5 DEF DismissalsTypeOK, Load, Whole
  <2>7. \A g \in Handlers : Progress(g)'
    BY <1>a, <1>b, <1>c, <2>1, <2>2, <2>3, <2>4, <2>6 DEF Progress, DismissalsTypeOK
  <2> QED
    BY <1>a, <1>c, <2>1, <2>2, <2>3, <2>5, <2>6, <2>7 DEF Apart, NeverTorn, Whole, Store!vars
<1>3. ASSUME WriteList(h)
      PROVE  DismissalsInv' /\ UNCHANGED Store!vars
  <2> DEFINE i == temporary
  <2>1. pc[h] = "write" /\ handle[h] = i /\ i \in Inodes /\ i # target /\ data[i] = Nothing
    BY <1>3, <1>a DEF WriteList, Progress, DismissalsTypeOK, Apart
  <2>0. Written(h) = {List(kept[h])}
    BY <2>1 DEF Written
  <2>2. /\ data' = [data EXCEPT ![i] = List(kept[h])]
        /\ handle' = [handle EXCEPT ![h] = NoFile]
        /\ pc' = [pc EXCEPT ![h] = "replace"]
        /\ UNCHANGED <<target, temporary, question, kept, acked>>
    BY <1>3, <2>0, <2>1 DEF WriteList
  <2>3. data' \in [Inodes -> Content] /\ data'[i] = List(kept[h])
    BY <1>a, <2>1, <2>2 DEF DismissalsTypeOK, List, Content
  <2>4. target # NoFile => data'[target] = data[target]
    BY <1>a, <2>1, <2>2 DEF DismissalsTypeOK
  <2>5. DismissalsTypeOK' /\ Load(target)' = Load(target)
    BY <1>a, <1>c, <2>2, <2>3, <2>4 DEF DismissalsTypeOK, Load, Whole
  <2>6. \A g \in Handlers : Progress(g)'
    BY <1>a, <1>b, <1>c, <2>1, <2>2, <2>3, <2>5 DEF Progress, DismissalsTypeOK, DismissalsAssumption
  <2> QED
    BY <1>a, <1>c, <2>2, <2>4, <2>5, <2>6 DEF Apart, NeverTorn, Whole, Store!vars
<1>4. ASSUME Replace(h)
      PROVE  DismissalsInv' /\ Store!Keep(question[h])
  <2>0. pc[h] = "replace" /\ temporary # NoFile
    BY <1>4, <1>a DEF Replace, Progress
  <2>1. /\ pc[h] = "replace" /\ temporary # NoFile /\ target' = temporary /\ temporary' = NoFile
        /\ pc' = [pc EXCEPT ![h] = "answer"]
        /\ UNCHANGED <<data, question, kept, handle, acked>>
    BY <1>4, <2>0 DEF Replace
  <2>2. data[temporary] = List(kept[h]) /\ kept[h] = Load(target) \cup {question[h]}
    BY <1>a, <2>1 DEF Progress
  <2>3. Load(target)' = Load(target) \cup {question[h]} /\ Whole(target)'
    BY <2>1, <2>2 DEF Load, Whole, List
  <2>4. DismissalsTypeOK'
    BY <1>a, <1>c, <2>1 DEF DismissalsTypeOK
  <2>5. \A g \in Handlers : Progress(g)'
    BY <1>a, <1>b, <1>c, <2>1, <2>3 DEF Progress, DismissalsTypeOK
  <2> QED
    BY <1>a, <1>c, <2>1, <2>3, <2>4, <2>5 DEF Apart, NeverTorn, Store!Keep
<1>5. ASSUME Die(h)
      PROVE  DismissalsInv' /\ UNCHANGED Store!vars
  <2>1. /\ pc' = [pc EXCEPT ![h] = "idle"]
        /\ UNCHANGED <<target, temporary, data, question, kept, acked>>
        /\ handle' \in [Handlers -> Inodes \cup {NoFile}]
        /\ \A g \in Handlers : handle'[g] = NoFile
    BY <1>5, <1>a, <1>b DEF Die, Progress, DismissalsTypeOK
  <2>2. DismissalsTypeOK' /\ Load(target)' = Load(target)
    BY <1>a, <1>c, <2>1 DEF DismissalsTypeOK, Load, Whole
  <2>3. \A g \in Handlers : Progress(g)'
    BY <1>c, <2>1 DEF Progress
  <2> QED
    BY <1>a, <1>c, <2>1, <2>2, <2>3 DEF Apart, NeverTorn, Whole, Store!vars
<1>6. ASSUME Respond(h)
      PROVE  DismissalsInv' /\ Store!Acknowledge(question[h])
  <2>1. /\ pc[h] = "answer" /\ acked' = acked \cup {question[h]}
        /\ pc' = [pc EXCEPT ![h] = "idle"]
        /\ UNCHANGED <<target, temporary, data, question, kept, handle>>
    BY <1>6 DEF Respond
  <2>2. question[h] \in Load(target)
    BY <1>a, <2>1 DEF Progress
  <2>3. DismissalsTypeOK' /\ Load(target)' = Load(target)
    BY <1>a, <1>c, <2>1 DEF DismissalsTypeOK, Load, Whole
  <2>4. \A g \in Handlers : Progress(g)'
    BY <1>a, <1>b, <1>c, <2>1 DEF Progress
  <2> QED
    BY <1>a, <1>c, <2>1, <2>2, <2>3, <2>4 DEF Apart, NeverTorn, Whole, Store!Acknowledge
<1> QED
  BY <1>1, <1>2, <1>3, <1>4, <1>5, <1>6 DEF Step

\* A request that arrives disturbs neither the files nor the invariant.
LEMMA PostStep ==
    ASSUME DismissalsAssumption, ~Overlap, DismissalsInv, NEW h \in Handlers, NEW q \in Questions, Post(h, q)
    PROVE  DismissalsInv' /\ UNCHANGED Store!vars
<1> USE DEF DismissalsInv, Goto
<1>1. /\ InFlight = {} /\ question' = [question EXCEPT ![h] = q]
      /\ pc' = [pc EXCEPT ![h] = "load"]
      /\ UNCHANGED <<target, temporary, data, kept, handle, acked>>
  BY DEF Post
<1>2. \A g \in Handlers : pc[g] = "idle" /\ handle[g] = NoFile
  BY <1>1 DEF InFlight, Progress, DismissalsTypeOK
<1>3. DismissalsTypeOK' /\ Load(target)' = Load(target)
  BY <1>1 DEF DismissalsTypeOK, Load, Whole
<1>4. Alone'
  BY <1>1, <1>2 DEF Alone, InFlight, DismissalsTypeOK
<1>5. \A g \in Handlers : Progress(g)'
  BY <1>1, <1>2 DEF Progress, DismissalsTypeOK
<1> QED
  BY <1>1, <1>3, <1>4, <1>5 DEF Apart, NeverTorn, Whole, Store!vars

\* Every step of the specification keeps the invariant and is a step of the
\* abstract store, or none.
LEMMA EveryStep ==
    ASSUME DismissalsAssumption, ~Overlap, DismissalsInv, DismissalsNext
    PROVE  DismissalsInv' /\ [Store!Next]_(Store!vars)
<1>1. PICK h \in Handlers : (\E q \in Questions : Post(h, q)) \/ Step(h) \/ Die(h)
  BY DEF DismissalsNext
<1>2. CASE \E q \in Questions : Post(h, q)
  BY <1>2, PostStep
<1>3. CASE Step(h) \/ Die(h)
  <2>1. h \in InFlight
    BY <1>3 DEF Step, Die, InFlight, LoadKept, OpenTemporary, WriteList, Replace, Respond
  <2>2. question[h] \in Questions
    BY DEF DismissalsInv, DismissalsTypeOK
  <2> QED
    BY <1>3, <2>1, <2>2, StepOfOne DEF Store!Next
<1> QED
  BY <1>1, <1>2, <1>3

\* A step that changes nothing keeps the invariant.
LEMMA DismissalsStutter ==
    ASSUME DismissalsInv, UNCHANGED dismissalsVars
    PROVE  DismissalsInv' /\ UNCHANGED Store!vars
<1>1. Load(target)' = Load(target)
  BY DEF dismissalsVars, Load, Whole
<1>2. \A h \in Handlers : Progress(h)'
  BY <1>1 DEF DismissalsInv, dismissalsVars, Progress
<1> QED
  BY <1>1, <1>2 DEF DismissalsInv, dismissalsVars, DismissalsTypeOK, Alone, InFlight, Apart, NeverTorn, Whole, Store!vars

-----------------------------------------------------------------------------
\* The inductive invariant of requests served one at a time.
THEOREM DismissalsInvHolds ==
    ASSUME DismissalsAssumption, ~Overlap
    PROVE  DismissalsSpec => []DismissalsInv
<1>1. DismissalsInit => DismissalsInv
  BY DismissalsInitInv
<1>2. DismissalsInv /\ [DismissalsNext]_dismissalsVars => DismissalsInv'
  BY EveryStep, DismissalsStutter
<1> QED
  BY <1>1, <1>2, PTL DEF DismissalsSpec

\* A request of any thread keeps the types, whatever the others are at.
LEMMA RequestKeepsTypes ==
    ASSUME DismissalsAssumption, DismissalsTypeOK, NEW h \in Handlers, NEW q \in Questions,
           Post(h, q) \/ Step(h) \/ Die(h)
    PROVE  DismissalsTypeOK'
<1>1. CASE Post(h, q)
  BY <1>1 DEF Post, Goto, DismissalsTypeOK
<1>2. CASE LoadKept(h)
  <2>1. KeptWith(h) \subseteq Questions
    BY DEF KeptWith, Load, DismissalsTypeOK, Content
  <2> QED BY <1>2, <2>1 DEF LoadKept, Goto, DismissalsTypeOK
<1>3. CASE OpenTemporary(h)
  <2>1. PICK i \in Openable : /\ temporary' = i
                              /\ handle' = [handle EXCEPT ![h] = i]
                              /\ data' = [data EXCEPT ![i] = Nothing]
    BY <1>3 DEF OpenTemporary
  <2>2. i \in Inodes /\ i # target
    BY DEF Openable, Free, DismissalsTypeOK, DismissalsAssumption
  <2>3. Nothing \in Content
    BY DEF Nothing, Content
  <2> QED BY <1>3, <2>1, <2>2, <2>3 DEF OpenTemporary, Goto, DismissalsTypeOK
<1>4. CASE WriteList(h)
  <2>1. PICK content \in Written(h) : data' = [data EXCEPT ![handle[h]] = content]
    BY <1>4 DEF WriteList
  <2>2. content \in Content
    BY DEF Written, List, Torn, Content, DismissalsTypeOK
  <2> QED BY <1>4, <2>1, <2>2 DEF WriteList, Goto, DismissalsTypeOK
<1>5. CASE Replace(h)
  BY <1>5 DEF Replace, Goto, DismissalsTypeOK
<1>6. CASE Respond(h)
  BY <1>6 DEF Respond, Goto, DismissalsTypeOK
<1>7. CASE Die(h)
  BY <1>7 DEF Die, Goto, DismissalsTypeOK
<1> QED BY <1>1, <1>2, <1>3, <1>4, <1>5, <1>6, <1>7 DEF Step

\* The type invariant, for any number of requests at the same time, cut short
\* anywhere.
THEOREM DismissalsTypesHold ==
    ASSUME DismissalsAssumption
    PROVE  DismissalsSpec => []DismissalsTypeOK
<1>1. DismissalsInit => DismissalsTypeOK
  <2> SUFFICES ASSUME DismissalsInit PROVE DismissalsTypeOK
    OBVIOUS
  <2>1. (CHOOSE q \in Questions : TRUE) \in Questions
    BY DEF DismissalsAssumption
  <2>2. {Nothing} \cup {List(S) : S \in SUBSET Questions} \subseteq Content
    BY DEF Nothing, List, Content
  <2> QED BY <2>1, <2>2 DEF DismissalsInit, DismissalsTypeOK
<1>2. DismissalsTypeOK /\ [DismissalsNext]_dismissalsVars => DismissalsTypeOK'
  BY RequestKeepsTypes DEF DismissalsNext, dismissalsVars, DismissalsTypeOK, DismissalsAssumption
<1> QED
  BY <1>1, <1>2, PTL DEF DismissalsSpec

\* `Written whole so a reader never sees half a file'.
THEOREM NeverHalfAFile ==
    ASSUME DismissalsAssumption, ~Overlap
    PROVE  DismissalsSpec => []NeverTorn
<1>1. DismissalsInv => NeverTorn
  BY DEF DismissalsInv
<1> QED
  BY <1>1, DismissalsInvHolds, PTL

\* Whoever was told that a dismissal is stored finds it in the file.
THEOREM AckedIsStored ==
    ASSUME DismissalsAssumption, ~Overlap
    PROVE  DismissalsSpec => []SettledKeepsAcked
<1>1. DismissalsInv => SettledKeepsAcked
  BY DEF DismissalsInv, SettledKeepsAcked
<1> QED
  BY <1>1, DismissalsInvHolds, PTL

\* dismissed.json, as load_dismissed reads it, implements the store: dismissals
\* are added one at a time, none is taken out, and an answered one is in it.
THEOREM StoreIsImplemented ==
    ASSUME DismissalsAssumption, ~Overlap
    PROVE  DismissalsSpec => ImplementsStore
<1>1. DismissalsInit => Store!Init
  BY DismissalsInitInv
<1>2. DismissalsInv /\ [DismissalsNext]_dismissalsVars => [Store!Next]_(Store!vars)
  BY EveryStep, DismissalsStutter
<1> QED
  BY <1>1, <1>2, DismissalsInvHolds, PTL DEF DismissalsSpec, ImplementsStore, Store!Spec
=============================================================================
