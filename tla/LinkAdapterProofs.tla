------------------------- MODULE LinkAdapterProofs -------------------------
(***************************************************************************)
(* Proofs about LinkAdapter for any number of priorities, rotations,       *)
(* datagrams, failures and any capacities: types, who listens where, and   *)
(* the order of the frames that get past the readers.                      *)
(***************************************************************************)
EXTENDS LinkAdapter, SequenceTheorems, TLAPS

(* The inductive strengthening of ListensWhereItSends, in named parts. *)

\* rotate_epoch has not reached this priority's new reader yet.
Exchanging(p) == rotation.step = "rx" /\ rotation.at = p

\* A reader no sleeping thread will stop, and not stopped so far.
Safe(r) == Running(r) /\ ~readers[r].stop /\ r \notin timers

\* Outside the exchange, the newest reader listens where its priority sends.
NewestListens ==
    ~dropped => \A p \in Prios \ broken :
        Exchanging(p) \/ (tx[p] = rx_stops[p] /\ Safe(<<p, rx_stops[p]>>))

\* What sleeps is older than the current epoch, and so is every reader that the
\* running rotation still has to replace.
OldIsOlder ==
    /\ \A r \in timers : r[2] < epoch
    /\ \A p \in Prios : rx_stops[p] <= epoch
    /\ rotation.step # "idle" =>
           \A p \in Prios : rotation.at <= p => rx_stops[p] < epoch
    /\ rotation.step = "rx" => tx[rotation.at] = epoch

ListenInv == TypeOK /\ NewestListens /\ OldIsOlder

(* The inductive strengthening of PassedOnceInOrder, in named parts. *)

Line(f, g) == f.prio = g.prio /\ f.stream = g.stream

InOrder(s) ==
    \A i, j \in 1 .. Len(s) : i < j /\ Line(s[i], s[j]) => s[i].id < s[j].id

Ahead(s, t) ==
    \A i \in 1 .. Len(s), j \in 1 .. Len(t) : Line(s[i], t[j]) => s[i].id < t[j].id

Before(x, t) == \A j \in 1 .. Len(t) : Line(x, t[j]) => x.id < t[j].id
After(s, x)  == \A i \in 1 .. Len(s) : Line(s[i], x) => s[i].id < x.id

\* Four queues, each in order and each ahead of the ones behind it.
Ordered(a, b, c, d) ==
    /\ InOrder(a) /\ InOrder(b) /\ InOrder(c) /\ InOrder(d)
    /\ Ahead(a, b) /\ Ahead(a, c) /\ Ahead(a, d)
    /\ Ahead(b, c) /\ Ahead(b, d) /\ Ahead(c, d)

\* The places a frame passes after its reader.
PlacesInOrder == \A p \in Prios : Ordered(handled, inbox, hands[p], rx_chans[p])

\* Datagrams wait in a socket in the order of sending.
Rising(s, n) ==
    \A i \in 1 .. Len(s) :
        /\ s[i].id <= n
        /\ \A j \in 1 .. Len(s) : i < j => s[i].id < s[j].id

Newer(s, n) == \A i \in 1 .. Len(s) : n < s[i].id

SocketsInOrder == \A r \in Threads : Rising(readers[r].sock, sent)

\* A frame that got past a reader was not the node's own, and is older than
\* everything in the socket of the one reader of its stream.
OlderThanSocket(f) ==
    /\ f.src # LocalNode
    /\ f.id <= sent
    /\ Newer(readers[<<f.prio, f.stream>>].sock, f.id)

Has(s, f) == \E i \in 1 .. Len(s) : s[i] = f

IsPassed(f) ==
    \/ Has(handled, f) \/ Has(inbox, f)
    \/ \E p \in Prios : Has(hands[p], f) \/ Has(rx_chans[p], f)

PassedAreOlder == \A f \in Frames : IsPassed(f) => OlderThanSocket(f)

\* The pump threads of main.rs exist only when the adapter is shared.
PumpsAttached == ~attached => inbox = <<>> /\ \A p \in Prios : hands[p] = <<>>

PassedInv ==
    /\ TypeOK
    /\ PumpsAttached
    /\ SocketsInOrder
    /\ PassedAreOlder
    /\ PlacesInOrder

---------------------------------------------------------------------------
(* Types *)

\* The bounds and capacities are numbers.
LEMMA Bounds ==
    ASSUME LinkConstants
    PROVE  /\ MaxEpoch \in Nat /\ MaxFrames \in Nat /\ MaxFails \in Nat
           /\ RxChanDepth \in Nat \ {0} /\ InboxDepth \in Nat \ {0}
           /\ SockDepth \in Nat \ {0}
  BY DEF LinkConstants

\* A record of a reader, and how a reader ends or starts.
LEMMA ReaderShapes ==
    ASSUME TypeOK, NEW r \in Threads
    PROVE  /\ readers[r].sock \in Seq(FramesOf(r[1]))
           /\ readers[r].stop \in BOOLEAN
           /\ Ended(r).stop = readers[r].stop /\ Ended(r).state = "done"
           /\ Ended(r).sock = <<>>
           /\ Ended(r) \in Readers
           /\ Fresh \in Readers
  <1>1. <<>> \in Seq(Frames)
    BY EmptySeq
  <1>2. readers[r] \in Readers /\ readers[r].sock \in Seq(FramesOf(r[1]))
    BY DEF TypeOK
  <1>3. readers[r].stop \in BOOLEAN
    BY <1>2 DEF Readers
  <1>4. Ended(r) \in Readers
    BY <1>1, <1>3 DEF Ended, Readers
  <1>5. Fresh \in Readers
    BY <1>1 DEF Fresh, Readers
  <1> QED
    BY <1>2, <1>3, <1>4, <1>5 DEF Ended

\* Taking the first element of a queue of one priority.
LEMMA HeadOfQueue ==
    ASSUME NEW p \in Prios, NEW s \in Seq(FramesOf(p)), s # <<>>
    PROVE  /\ Head(s) \in FramesOf(p) /\ Head(s) \in Frames /\ Head(s).prio = p
           /\ Tail(s) \in Seq(FramesOf(p)) /\ Tail(s) \in Seq(Frames)
           /\ Len(s) \in Nat /\ Len(Tail(s)) = Len(s) - 1
           /\ Head(s) = s[1] /\ 1 \in 1 .. Len(s)
           /\ \A i \in 1 .. Len(Tail(s)) : i + 1 \in 1 .. Len(s) /\ Tail(s)[i] = s[i + 1]
  <1>1. FramesOf(p) \subseteq Frames
    BY DEF FramesOf
  <1>2. /\ Head(s) \in FramesOf(p) /\ Tail(s) \in Seq(FramesOf(p))
        /\ Len(Tail(s)) = Len(s) - 1 /\ Len(s) \in Nat /\ Len(s) # 0
        /\ \A i \in 1 .. Len(Tail(s)) : Tail(s)[i] = s[i + 1]
    BY HeadTailProperties, EmptySeq
  <1>3. Tail(s) \in Seq(Frames)
    BY <1>1, <1>2, SeqMonotonic
  <1>4. Head(s).prio = p /\ Head(s) = s[1]
    BY <1>2 DEF FramesOf
  <1> QED
    BY <1>1, <1>2, <1>3, <1>4

\* The queues between the readers and rx_loop.
LEMMA QueueTypes ==
    ASSUME TypeOK
    PROVE  /\ rx_chans \in [Prios -> Seq(Frames)] /\ hands \in [Prios -> Seq(Frames)]
           /\ inbox \in Seq(Frames) /\ handled \in Seq(Frames) /\ Len(inbox) \in Nat
           /\ \A p \in Prios :
                  /\ rx_chans[p] \in Seq(FramesOf(p)) /\ rx_chans[p] \in Seq(Frames)
                  /\ Len(rx_chans[p]) \in Nat /\ Len(rx_chans[p]) <= RxChanDepth
                  /\ hands[p] \in Seq(FramesOf(p)) /\ hands[p] \in Seq(Frames)
                  /\ Len(hands[p]) \in Nat /\ Len(hands[p]) <= 1
  <1>1. /\ rx_chans \in [Prios -> Seq(Frames)] /\ hands \in [Prios -> Seq(Frames)]
        /\ inbox \in Seq(Frames) /\ handled \in Seq(Frames)
    BY DEF TypeOK
  <1>2. \A p \in Prios :
            /\ rx_chans[p] \in Seq(FramesOf(p)) /\ Len(rx_chans[p]) <= RxChanDepth
            /\ hands[p] \in Seq(FramesOf(p)) /\ Len(hands[p]) <= 1
    BY DEF TypeOK
  <1>3. \A p \in Prios : rx_chans[p] \in Seq(Frames) /\ hands[p] \in Seq(Frames)
    BY <1>1
  <1>4. \A q \in Seq(Frames) : Len(q) \in Nat
    OBVIOUS
  <1> QED
    BY <1>1, <1>2, <1>3, <1>4

\* Replacing the queue of one priority.
LEMMA QueueReplaced ==
    ASSUME NEW Q \in [Prios -> Seq(Frames)], NEW depth, NEW p \in Prios,
           \A q \in Prios : Q[q] \in Seq(FramesOf(q)) /\ Len(Q[q]) <= depth,
           NEW s \in Seq(FramesOf(p)), s \in Seq(Frames), Len(s) <= depth
    PROVE  /\ [Q EXCEPT ![p] = s] \in [Prios -> Seq(Frames)]
           /\ \A q \in Prios : /\ [Q EXCEPT ![p] = s][q] \in Seq(FramesOf(q))
                               /\ Len([Q EXCEPT ![p] = s][q]) <= depth
  OBVIOUS

\* A broadcast gives every open socket of the port one datagram, if it has room.
LEMMA BroadcastTyped ==
    ASSUME LinkConstants, TypeOK, NEW p \in Prios,
           NEW src \in Peers \cup {LocalNode, NoSrc}, NEW stream \in Epochs,
           Broadcast(src, p, stream)
    PROVE  /\ readers' \in [Threads -> Readers]
           /\ \A r \in Threads : /\ readers'[r].sock \in Seq(FramesOf(r[1]))
                                 /\ Len(readers'[r].sock) <= SockDepth
           /\ sent' \in 0 .. MaxFrames
           /\ \E f \in FramesOf(p) :
                  /\ f.id = sent + 1
                  /\ \A r \in Threads :
                         \/ readers'[r].sock = readers[r].sock
                         \/ r[1] = p /\ readers'[r].sock = Append(readers[r].sock, f)
  <1> DEFINE f == [id |-> sent + 1, src |-> src, prio |-> p, stream |-> stream]
             got(r) == r[1] = p /\ Running(r) /\ Len(readers[r].sock) < SockDepth
  <1>1. sent' = sent + 1 /\ sent + 1 \in 1 .. MaxFrames /\ sent' \in 0 .. MaxFrames
    <2>1. sent \in 0 .. MaxFrames
      BY DEF TypeOK
    <2>2. sent < MaxFrames /\ sent' = sent + 1
      BY DEF Broadcast
    <2> QED
      BY <2>1, <2>2, Bounds
  <1>2. f \in FramesOf(p) /\ f \in Frames /\ f.id = sent + 1
    BY <1>1 DEF FramesOf, Frames
  <1>3. readers' = [r \in Threads |->
            IF got(r) THEN [readers[r] EXCEPT !.sock = Append(@, f)] ELSE readers[r]]
    BY DEF Broadcast
  <1> HIDE DEF f
  <1>4. ASSUME NEW r \in Threads
        PROVE  /\ readers'[r] \in Readers
               /\ readers'[r].sock \in Seq(FramesOf(r[1]))
               /\ Len(readers'[r].sock) <= SockDepth
               /\ \/ readers'[r].sock = readers[r].sock
                  \/ r[1] = p /\ readers'[r].sock = Append(readers[r].sock, f)
    <2>1. /\ readers[r] \in Readers
          /\ readers[r].sock \in Seq(FramesOf(r[1]))
          /\ Len(readers[r].sock) <= SockDepth
          /\ Len(readers[r].sock) \in Nat
          /\ readers[r].sock \in Seq(Frames)
      <3>1. readers[r] \in Readers
        BY DEF TypeOK
      <3>2. readers[r].sock \in Seq(Frames)
        BY <3>1 DEF Readers
      <3> QED
        BY <3>1, <3>2 DEF TypeOK
    <2>2. CASE got(r)
      <3>1. readers'[r] = [readers[r] EXCEPT !.sock = Append(readers[r].sock, f)]
        BY <1>3, <2>2
      <3>2. readers'[r].sock = Append(readers[r].sock, f)
        BY <2>1, <3>1
      <3>3. /\ Append(readers[r].sock, f) \in Seq(Frames)
            /\ Append(readers[r].sock, f) \in Seq(FramesOf(p))
            /\ Len(Append(readers[r].sock, f)) = Len(readers[r].sock) + 1
        BY <1>2, <2>1, <2>2
      <3>4. Len(readers[r].sock) + 1 <= SockDepth
        BY <2>1, <2>2, Bounds
      <3>5. readers'[r] \in Readers
        BY <2>1, <3>1, <3>3 DEF Readers
      <3> QED
        BY <2>1, <2>2, <3>2, <3>3, <3>4, <3>5
    <2>3. CASE ~got(r)
      BY <1>3, <2>1, <2>3
    <2> QED
      BY <2>2, <2>3
  <1>5. readers' \in [Threads -> Readers]
    BY <1>3, <1>4
  <1>6. \E g \in FramesOf(p) :
            /\ g.id = sent + 1
            /\ \A r \in Threads :
                   \/ readers'[r].sock = readers[r].sock
                   \/ r[1] = p /\ readers'[r].sock = Append(readers[r].sock, g)
    BY <1>2, <1>4
  <1> QED
    BY <1>1, <1>4, <1>5, <1>6

\* One step of a reader thread that replaces its record.
LEMMA ReaderTyped ==
    ASSUME TypeOK, NEW r \in Threads,
           NEW rec \in Readers,
           rec.sock \in Seq(FramesOf(r[1])), Len(rec.sock) <= SockDepth,
           readers' = [readers EXCEPT ![r] = rec]
    PROVE  /\ readers' \in [Threads -> Readers]
           /\ \A q \in Threads : /\ readers'[q].sock \in Seq(FramesOf(q[1]))
                                 /\ Len(readers'[q].sock) <= SockDepth
  BY DEF TypeOK

\* Initially one reader per priority runs, with an empty socket.
LEMMA InitTypeOK == ASSUME LinkConstants, Init PROVE TypeOK
  <1>1. \A S : <<>> \in Seq(S) /\ Len(<<>>) = 0
    BY EmptySeq
  <1>2. 0 \in Epochs /\ 0 \in Prios /\ 0 \in 0 .. MaxFrames /\ 0 \in 0 .. MaxFails
    BY Bounds DEF Epochs, LinkConstants
  <1>3. Fresh \in Readers /\ Absent \in Readers
    BY <1>1 DEF Fresh, Absent, Readers
  <1>4. readers \in [Threads -> Readers]
    BY <1>3 DEF Init
  <1>5. \A r \in Threads :
            readers[r].sock \in Seq(FramesOf(r[1])) /\ Len(readers[r].sock) <= SockDepth
    <2> TAKE r \in Threads
    <2>1. readers[r].sock = <<>>
      BY DEF Init, Fresh, Absent
    <2> QED
      BY <1>1, <2>1, Bounds
  <1>6. /\ rx_chans \in [Prios -> Seq(Frames)] /\ hands \in [Prios -> Seq(Frames)]
        /\ inbox \in Seq(Frames) /\ handled \in Seq(Frames)
    BY <1>1 DEF Init
  <1>7. \A p \in Prios :
            /\ rx_chans[p] \in Seq(FramesOf(p)) /\ Len(rx_chans[p]) <= RxChanDepth
            /\ hands[p] \in Seq(FramesOf(p)) /\ Len(hands[p]) <= 1
    <2> TAKE p \in Prios
    <2>1. rx_chans[p] = <<>> /\ hands[p] = <<>>
      BY DEF Init
    <2> QED
      BY <1>1, <2>1, Bounds
  <1>8. Len(inbox) <= InboxDepth
    BY <1>1, Bounds DEF Init
  <1>9. rotation \in [at : Prios, step : {"idle", "tx", "rx"}]
    BY <1>2 DEF Init, Idle
  <1> QED
    BY <1>2, <1>4, <1>5, <1>6, <1>7, <1>8, <1>9 DEF Init, TypeOK

\* Datagrams sent by this node and by its peers.
LEMMA SendsBroadcast ==
    ASSUME TypeOK, NEW p \in Prios, Send(p) \/ PeerSend(p)
    PROVE  \E src \in Peers \cup {LocalNode, NoSrc}, stream \in Epochs :
               Broadcast(src, p, stream)
  <1>1. CASE Send(p)
    <2>1. tx[p] \in Epochs /\ Broadcast(LocalNode, p, tx[p])
      BY <1>1 DEF Send, TypeOK
    <2> QED
      BY <2>1
  <1>2. CASE PeerSend(p)
    BY <1>2 DEF PeerSend
  <1> QED
    BY <1>1, <1>2

\* A datagram that is sent keeps the types.
LEMMA SendsTyped ==
    ASSUME LinkConstants, TypeOK, NEW p \in Prios, Send(p) \/ PeerSend(p)
    PROVE  TypeOK'
  <1>1. \E src \in Peers \cup {LocalNode, NoSrc}, stream \in Epochs :
            Broadcast(src, p, stream)
    BY SendsBroadcast
  <1>2. /\ readers' \in [Threads -> Readers]
        /\ \A r \in Threads : /\ readers'[r].sock \in Seq(FramesOf(r[1]))
                              /\ Len(readers'[r].sock) <= SockDepth
        /\ sent' \in 0 .. MaxFrames
    BY <1>1, BroadcastTyped
  <1>3. UNCHANGED <<attached, allow_list, failures, timers, broken, queues, handle>>
    BY DEF Send, PeerSend
  <1> QED
    BY <1>2, <1>3 DEF TypeOK, queues, handle

\* The steps of reader and sleeping threads.
LEMMA ThreadsTyped ==
    ASSUME LinkConstants, TypeOK, NEW r \in Threads,
           ReaderStop(r) \/ ReaderRecv(r) \/ ReaderError(r) \/ Overlap(r)
    PROVE  TypeOK'
  <1>1. <<>> \in Seq(FramesOf(r[1])) /\ Len(<<>>) <= SockDepth
    BY EmptySeq, Bounds
  <1>2. r[1] \in Prios /\ r[2] \in Epochs
    BY DEF Threads
  <1>3. ASSUME readers' = [readers EXCEPT ![r] = Ended(r)]
        PROVE  /\ readers' \in [Threads -> Readers]
               /\ \A q \in Threads : /\ readers'[q].sock \in Seq(FramesOf(q[1]))
                                     /\ Len(readers'[q].sock) <= SockDepth
    BY <1>1, <1>3, ReaderShapes, ReaderTyped
  <1>4. CASE ReaderStop(r)
    BY <1>3, <1>4 DEF ReaderStop, TypeOK, queues, handle
  <1>5. CASE ReaderError(r)
    <2>1. failures' \in 0 .. MaxFails /\ broken' \subseteq Prios
      <3>1. failures \in 0 .. MaxFails /\ broken \subseteq Prios
        BY DEF TypeOK
      <3>2. /\ failures < MaxFails /\ failures' = failures + 1
            /\ broken' \subseteq broken \cup {r[1]}
        BY <1>5 DEF ReaderError
      <3> QED
        BY <1>2, <3>1, <3>2, Bounds
    <2> QED
      BY <1>3, <1>5, <2>1 DEF ReaderError, TypeOK, queues, handle
  <1>6. CASE Overlap(r)
    <2> DEFINE rec == [readers[r] EXCEPT !.stop = TRUE]
    <2>1. /\ readers[r] \in Readers /\ readers[r].sock \in Seq(FramesOf(r[1]))
          /\ Len(readers[r].sock) <= SockDepth
      BY DEF TypeOK
    <2>2. rec \in Readers /\ rec.sock = readers[r].sock
      BY <2>1 DEF Readers
    <2>3. readers' = [readers EXCEPT ![r] = rec]
      BY <1>6 DEF Overlap
    <2> HIDE DEF rec
    <2>4. /\ readers' \in [Threads -> Readers]
          /\ \A q \in Threads : /\ readers'[q].sock \in Seq(FramesOf(q[1]))
                                /\ Len(readers'[q].sock) <= SockDepth
      BY <2>1, <2>2, <2>3, ReaderTyped
    <2> QED
      BY <1>6, <2>4 DEF Overlap, TypeOK, queues, handle
  <1>7. CASE ReaderRecv(r)
    <2> DEFINE sock == readers[r].sock
               f == Head(sock)
               rec == [readers[r] EXCEPT !.sock = Tail(sock)]
    <2>1. /\ sock \in Seq(FramesOf(r[1])) /\ sock # <<>>
          /\ Len(sock) <= SockDepth /\ readers[r] \in Readers
      BY <1>7 DEF ReaderRecv, TypeOK
    <2>2. /\ f \in Frames /\ f \in FramesOf(r[1]) /\ f.prio = r[1]
          /\ Tail(sock) \in Seq(FramesOf(r[1])) /\ Tail(sock) \in Seq(Frames)
          /\ Len(Tail(sock)) = Len(sock) - 1 /\ Len(sock) \in Nat
      BY <1>2, <2>1, HeadOfQueue
    <2>3. rec \in Readers /\ rec.sock = Tail(sock)
      BY <2>1, <2>2 DEF Readers
    <2>4. readers' = [readers EXCEPT ![r] = Ended(r)] \/ readers' = [readers EXCEPT ![r] = rec]
      BY <1>7 DEF ReaderRecv
    <2> HIDE DEF rec
    <2>5. /\ readers' \in [Threads -> Readers]
          /\ \A q \in Threads : /\ readers'[q].sock \in Seq(FramesOf(q[1]))
                                /\ Len(readers'[q].sock) <= SockDepth
      <3>1. Len(Tail(sock)) <= SockDepth
        BY <2>1, <2>2, Bounds
      <3>2. CASE readers' = [readers EXCEPT ![r] = rec]
        BY <2>2, <2>3, <3>1, <3>2, ReaderTyped
      <3> QED
        BY <1>3, <2>4, <3>2
    <2>6. \/ UNCHANGED <<rx_chans, entered>>
          \/ TrySend(f)
      BY <1>7 DEF ReaderRecv
    <2> HIDE DEF f, sock
    <2>7. /\ rx_chans' \in [Prios -> Seq(Frames)] /\ entered' \in Nat
          /\ \A p \in Prios : rx_chans'[p] \in Seq(FramesOf(p))
                             /\ Len(rx_chans'[p]) <= RxChanDepth
      <3>1. CASE UNCHANGED <<rx_chans, entered>>
        BY <3>1 DEF TypeOK
      <3>2. CASE TrySend(f)
        <4>1. /\ rx_chans' = [rx_chans EXCEPT ![r[1]] = Append(rx_chans[r[1]], f)]
              /\ Len(rx_chans[r[1]]) < RxChanDepth /\ entered' = entered + 1
          BY <2>2, <3>2 DEF TrySend, HasRoom
        <4>2. /\ rx_chans[r[1]] \in Seq(FramesOf(r[1])) /\ rx_chans[r[1]] \in Seq(Frames)
              /\ Len(rx_chans[r[1]]) \in Nat
          BY <1>2, QueueTypes
        <4>3. /\ Append(rx_chans[r[1]], f) \in Seq(FramesOf(r[1]))
              /\ Append(rx_chans[r[1]], f) \in Seq(Frames)
              /\ Len(Append(rx_chans[r[1]], f)) = Len(rx_chans[r[1]]) + 1
          BY <2>2, <4>2, AppendProperties
        <4>4. Len(rx_chans[r[1]]) + 1 <= RxChanDepth
          BY <4>1, <4>2, Bounds
        <4>5. entered' \in Nat
          BY <4>1 DEF TypeOK
        <4> QED
          BY <1>2, <4>1, <4>3, <4>4, <4>5, QueueTypes, QueueReplaced
      <3> QED
        BY <2>6, <3>1, <3>2
    <2> QED
      BY <1>7, <2>5, <2>7 DEF ReaderRecv, TypeOK, handle
  <1> QED
    BY <1>4, <1>5, <1>6, <1>7

\* rotate_epoch, set_allow_list and Drop.
LEMMA CallsTyped ==
    ASSUME LinkConstants, TypeOK,
           Rotate \/ RotateTx \/ RotateRx \/ SetAllowList \/ Drop
    PROVE  TypeOK'
  <1>1. /\ epoch \in Epochs /\ rotation.at \in Prios /\ 0 \in Prios
        /\ Idle \in [at : Prios, step : {"idle", "tx", "rx"}]
        /\ rotation \in [at : Prios, step : {"idle", "tx", "rx"}]
    BY DEF TypeOK, LinkConstants, Idle
  <1>2. \A S : <<>> \in Seq(S) /\ Len(<<>>) = 0
    BY EmptySeq
  <1>3. CASE Rotate
    <2>1. epoch' \in Epochs
      BY <1>1, <1>3, Bounds DEF Rotate, Epochs
    <2>2. rotation' \in [at : Prios, step : {"idle", "tx", "rx"}]
      BY <1>1, <1>3 DEF Rotate
    <2> QED
      BY <1>3, <2>1, <2>2 DEF Rotate, TypeOK, threads, queues
  <1>4. GiveUp => /\ failures' \in 0 .. MaxFails
                  /\ rotation' \in [at : Prios, step : {"idle", "tx", "rx"}]
    BY <1>1, Bounds DEF GiveUp, TypeOK
  <1>5. CASE RotateTx
    <2>1. <<rotation.at, rx_stops[rotation.at]>> \in Threads
      BY <1>1 DEF TypeOK, Threads
    <2>2. tx' \in [Prios -> Epochs] /\ timers' \subseteq Threads
      <3>1. tx \in [Prios -> Epochs] /\ timers \subseteq Threads
        BY DEF TypeOK
      <3> QED
        BY <1>1, <1>5, <2>1, <3>1 DEF RotateTx
    <2>3. /\ failures' \in 0 .. MaxFails
          /\ rotation' \in [at : Prios, step : {"idle", "tx", "rx"}]
      BY <1>1, <1>4, <1>5 DEF RotateTx, TypeOK
    <2> QED
      BY <1>5, <2>2, <2>3 DEF RotateTx, TypeOK, queues
  <1>6. CASE RotateRx
    <2> DEFINE new == <<rotation.at, epoch>>
    <2>1. new \in Threads /\ NextPriority(rotation.at) \in [at : Prios, step : {"idle", "tx", "rx"}]
      BY <1>1 DEF Threads, NextPriority
    <2>2. Fresh.sock = <<>>
      BY DEF Fresh
    <2>3. /\ readers' \in [Threads -> Readers]
          /\ \A q \in Threads : /\ readers'[q].sock \in Seq(FramesOf(q[1]))
                                /\ Len(readers'[q].sock) <= SockDepth
      <3>1. CASE readers' = readers
        BY <3>1 DEF TypeOK
      <3>2. CASE readers' = [readers EXCEPT ![new] = Fresh]
        <4> HIDE DEF new
        <4>1. Fresh \in Readers /\ Fresh.sock \in Seq(FramesOf(new[1])) /\ Len(Fresh.sock) <= SockDepth
          BY <1>2, <2>1, <2>2, ReaderShapes, Bounds
        <4> QED
          BY <2>1, <3>2, <4>1, ReaderTyped
      <3> QED
        BY <1>6, <3>1, <3>2 DEF RotateRx
    <2>4. rx_stops' \in [Prios -> Epochs] /\ broken' \subseteq Prios
      <3>1. rx_stops \in [Prios -> Epochs] /\ broken \subseteq Prios
        BY DEF TypeOK
      <3>2. rx_stops' = rx_stops \/ rx_stops' = [rx_stops EXCEPT ![rotation.at] = epoch]
        BY <1>6 DEF RotateRx
      <3>3. broken' \subseteq broken \cup {rotation.at}
        BY <1>6 DEF RotateRx
      <3> QED
        BY <1>1, <3>1, <3>2, <3>3
    <2>5. /\ failures' \in 0 .. MaxFails
          /\ rotation' \in [at : Prios, step : {"idle", "tx", "rx"}]
      BY <1>4, <1>6, <2>1 DEF RotateRx, TypeOK
    <2> QED
      BY <1>6, <2>3, <2>4, <2>5 DEF RotateRx, TypeOK, queues
  <1>7. CASE SetAllowList
    <2>1. allow_list' \subseteq AnyNode
      BY <1>7 DEF SetAllowList, AnyNode
    <2> QED
      BY <1>7, <2>1 DEF SetAllowList, TypeOK, threads, queues, handle
  <1>8. CASE Drop
    <2>1. /\ rx_chans' \in [Prios -> Seq(Frames)]
          /\ \A p \in Prios : rx_chans'[p] \in Seq(FramesOf(p))
                             /\ Len(rx_chans'[p]) <= RxChanDepth
      BY <1>2, <1>8, Bounds DEF Drop
    <2>2. /\ readers' \in [Threads -> Readers]
          /\ \A q \in Threads : /\ readers'[q].sock \in Seq(FramesOf(q[1]))
                                /\ Len(readers'[q].sock) <= SockDepth
      <3>1. \A q \in Threads : [readers[q] EXCEPT !.stop = TRUE] \in Readers
        <4>1. \A rec \in Readers : [rec EXCEPT !.stop = TRUE] \in Readers
          BY DEF Readers
        <4> QED
          BY <4>1 DEF TypeOK
      <3>2. readers' \in [Threads -> Readers]
        BY <1>8, <3>1 DEF Drop, TypeOK
      <3>3. \A q \in Threads : readers'[q].sock = readers[q].sock
        BY <1>8 DEF Drop, TypeOK, Readers
      <3> QED
        BY <3>2, <3>3 DEF TypeOK
    <2> QED
      BY <1>8, <2>1, <2>2 DEF Drop, TypeOK
  <1> QED
    BY <1>3, <1>5, <1>6, <1>7, <1>8

\* The way from the channels to rx_loop or to the caller of recv.
LEMMA ReceiversTyped ==
    ASSUME LinkConstants, TypeOK,
           RxLoop \/ \E p \in Prios : Recv(p) \/ PumpRecv(p) \/ PumpSend(p)
    PROVE  TypeOK'
  <1>1. <<>> \in Seq(Frames) /\ Len(<<>>) = 0 /\ \A p : <<>> \in Seq(FramesOf(p))
    BY EmptySeq
  \* The head of a channel leaves it.
  <1>2. ASSUME NEW p \in Prios, rx_chans[p] # <<>>,
               rx_chans' = [rx_chans EXCEPT ![p] = Tail(@)]
        PROVE  /\ rx_chans' \in [Prios -> Seq(Frames)]
               /\ \A q \in Prios : rx_chans'[q] \in Seq(FramesOf(q))
                                  /\ Len(rx_chans'[q]) <= RxChanDepth
               /\ Head(rx_chans[p]) \in Frames /\ Head(rx_chans[p]) \in FramesOf(p)
    <2>1. rx_chans[p] \in Seq(FramesOf(p)) /\ Len(rx_chans[p]) <= RxChanDepth
      BY DEF TypeOK
    <2>2. /\ Head(rx_chans[p]) \in FramesOf(p) /\ Head(rx_chans[p]) \in Frames
          /\ Tail(rx_chans[p]) \in Seq(FramesOf(p)) /\ Tail(rx_chans[p]) \in Seq(Frames)
          /\ Len(rx_chans[p]) \in Nat /\ Len(Tail(rx_chans[p])) = Len(rx_chans[p]) - 1
      BY <1>2, <2>1, HeadOfQueue
    <2>3. Len(Tail(rx_chans[p])) <= RxChanDepth
      BY <2>1, <2>2, Bounds
    <2> QED
      BY <1>2, <2>2, <2>3 DEF TypeOK
  <1>3. ASSUME NEW p \in Prios, Recv(p) PROVE TypeOK'
    <2>1. /\ handled' = Append(handled, Head(rx_chans[p])) /\ rx_chans[p] # <<>>
          /\ rx_chans' = [rx_chans EXCEPT ![p] = Tail(@)]
      BY <1>3 DEF Recv
    <2>2. handled' \in Seq(Frames)
      BY <1>2, <2>1, AppendProperties DEF TypeOK
    <2> QED
      BY <1>2, <1>3, <2>1, <2>2 DEF Recv, TypeOK, threads, handle
  <1>4. ASSUME NEW p \in Prios, PumpRecv(p) PROVE TypeOK'
    <2>1. /\ hands' = [hands EXCEPT ![p] = <<Head(rx_chans[p])>>] /\ rx_chans[p] # <<>>
          /\ rx_chans' = [rx_chans EXCEPT ![p] = Tail(@)]
      BY <1>4 DEF PumpRecv
    <2>2. /\ <<Head(rx_chans[p])>> \in Seq(FramesOf(p)) /\ <<Head(rx_chans[p])>> \in Seq(Frames)
          /\ Len(<<Head(rx_chans[p])>>) = 1
      <3>1. Head(rx_chans[p]) \in FramesOf(p) /\ Head(rx_chans[p]) \in Frames
        BY <1>2, <2>1
      <3> QED
        BY <3>1
    <2>3. /\ hands' \in [Prios -> Seq(Frames)]
          /\ \A q \in Prios : hands'[q] \in Seq(FramesOf(q)) /\ Len(hands'[q]) <= 1
      <3>1. Len(<<Head(rx_chans[p])>>) <= 1
        BY <2>2
      <3> QED
        BY <2>1, <2>2, <3>1, QueueTypes, QueueReplaced
    <2> QED
      BY <1>2, <1>4, <2>1, <2>3 DEF PumpRecv, TypeOK, threads, handle
  <1>5. ASSUME NEW p \in Prios, PumpSend(p) PROVE TypeOK'
    <2>1. /\ hands[p] \in Seq(Frames) /\ inbox \in Seq(Frames) /\ Len(hands[p]) <= 1
          /\ Len(hands[p]) \in Nat /\ Len(inbox) \in Nat
      BY QueueTypes
    <2>2. inbox' \in Seq(Frames) /\ Len(inbox') = Len(inbox) + Len(hands[p])
      BY <1>5, <2>1, ConcatProperties DEF PumpSend
    <2>3. Len(inbox') <= InboxDepth
      BY <1>5, <2>1, <2>2, Bounds DEF PumpSend
    <2>4. /\ hands' \in [Prios -> Seq(Frames)]
          /\ \A q \in Prios : hands'[q] \in Seq(FramesOf(q)) /\ Len(hands'[q]) <= 1
      BY <1>1, <1>5 DEF PumpSend, TypeOK
    <2> QED
      BY <1>5, <2>2, <2>3, <2>4 DEF PumpSend, TypeOK, threads, handle
  <1>6. CASE RxLoop
    <2>1. /\ Head(inbox) \in Frames /\ Tail(inbox) \in Seq(Frames)
          /\ Len(Tail(inbox)) = Len(inbox) - 1 /\ Len(inbox) \in Nat
      BY <1>6, HeadTailProperties DEF RxLoop, TypeOK
    <2>2. Len(inbox') <= InboxDepth /\ inbox' \in Seq(Frames)
      BY <1>6, <2>1, Bounds DEF RxLoop, TypeOK
    <2>3. handled' \in Seq(Frames)
      BY <1>6, <2>1, AppendProperties DEF RxLoop, TypeOK
    <2> QED
      BY <1>6, <2>2, <2>3 DEF RxLoop, TypeOK, threads, handle
  <1> QED
    BY <1>3, <1>4, <1>5, <1>6

\* Every step keeps the types.
LEMMA NextTypeOK ==
    ASSUME LinkConstants, TypeOK, [Next]_vars PROVE TypeOK'
  <1>1. CASE UNCHANGED vars
    BY <1>1 DEF vars, TypeOK, threads, queues, handle
  <1> QED
    BY <1>1, SendsTyped, ThreadsTyped, CallsTyped, ReceiversTyped DEF Next, ThreadStep

\* Every variable keeps its type, and no socket, channel, pump thread or shared
\* queue holds more than it can.
THEOREM TypeCorrect == Spec => []TypeOK
  <1>1. Init => TypeOK
    BY LinkConstants, InitTypeOK
  <1>2. TypeOK /\ [Next]_vars => TypeOK'
    BY LinkConstants, NextTypeOK
  <1> QED
    BY <1>1, <1>2, PTL DEF Spec

---------------------------------------------------------------------------
(* Who listens where *)

\* A step that leaves the handle, the sleeping threads and every live reader
\* alone keeps the invariant.
LEMMA QuietKeepsListening ==
    ASSUME ListenInv, TypeOK', UNCHANGED <<handle, timers, broken>>,
           \A r \in Threads : Running(r) /\ ~readers[r].stop =>
                                 readers'[r].state = "running" /\ ~readers'[r].stop
    PROVE  ListenInv'
  <1>1. \A p \in Prios : <<p, rx_stops[p]>> \in Threads
    BY DEF ListenInv, TypeOK, Threads
  <1>2. UNCHANGED <<epoch, tx, rx_stops, rotation, dropped, timers, broken>>
    BY DEF handle
  <1>3. \A p \in Prios : Safe(<<p, rx_stops[p]>>) => Safe(<<p, rx_stops[p]>>)'
    BY <1>1, <1>2 DEF Safe, Running
  <1>4. NewestListens'
    BY <1>2, <1>3 DEF ListenInv, NewestListens, Exchanging
  <1>5. OldIsOlder'
    BY <1>2 DEF ListenInv, OldIsOlder
  <1> QED
    BY <1>4, <1>5 DEF ListenInv

\* Threads of the adapter: a reader that stops was told to, and one that fails
\* while it is the newest marks its priority.
LEMMA ThreadsKeepListening ==
    ASSUME ListenInv, TypeOK', NEW r \in Threads,
           ReaderStop(r) \/ ReaderRecv(r) \/ ReaderError(r) \/ Overlap(r)
    PROVE  ListenInv'
  <1>1. \A p \in Prios : <<p, rx_stops[p]>> \in Threads
    BY DEF ListenInv, TypeOK, Threads
  <1>2. readers \in [Threads -> Readers] /\ readers[r] \in Readers
    BY DEF ListenInv, TypeOK
  <1>3. CASE ReaderStop(r)
    BY <1>2, <1>3, QuietKeepsListening DEF ReaderStop, Running
  <1>4. CASE ReaderRecv(r)
    <2>1. \/ readers[r].stop /\ readers' = [readers EXCEPT ![r] = Ended(r)]
          \/ readers' = [readers EXCEPT ![r].sock = Tail(readers[r].sock)]
      BY <1>4 DEF ReaderRecv
    <2>2. \A q \in Threads : Running(q) /\ ~readers[q].stop =>
              readers'[q].state = "running" /\ ~readers'[q].stop
      BY <1>2, <2>1 DEF Running, Readers
    <2> QED
      BY <1>4, <2>2, QuietKeepsListening DEF ReaderRecv
  <1>5. CASE ReaderError(r)
    <2>1. /\ readers' = [readers EXCEPT ![r] = Ended(r)]
          /\ broken' = IF rx_stops[r[1]] = r[2] THEN broken \cup {r[1]} ELSE broken
          /\ UNCHANGED <<epoch, tx, rx_stops, rotation, dropped, timers>>
      BY <1>5 DEF ReaderError, handle
    <2>2. \A p \in Prios \ broken' : <<p, rx_stops[p]>> # r
      BY <2>1
    <2>3. \A p \in Prios \ broken' :
              p \notin broken /\ (Safe(<<p, rx_stops[p]>>) => Safe(<<p, rx_stops[p]>>)')
      BY <1>1, <1>2, <2>1, <2>2 DEF Safe, Running
    <2>4. NewestListens'
      BY <2>1, <2>3 DEF ListenInv, NewestListens, Exchanging
    <2>5. OldIsOlder'
      BY <2>1 DEF ListenInv, OldIsOlder
    <2> QED
      BY <2>4, <2>5 DEF ListenInv
  <1>6. CASE Overlap(r)
    <2>1. /\ r \in timers /\ timers' = timers \ {r}
          /\ readers' = [readers EXCEPT ![r].stop = TRUE]
          /\ UNCHANGED <<epoch, tx, rx_stops, rotation, dropped, broken>>
      BY <1>6 DEF Overlap, handle
    <2>2. \A p \in Prios : Safe(<<p, rx_stops[p]>>) => Safe(<<p, rx_stops[p]>>)'
      BY <1>1, <1>2, <2>1 DEF Safe, Running
    <2>3. NewestListens'
      BY <2>1, <2>2 DEF ListenInv, NewestListens, Exchanging
    <2>4. OldIsOlder'
      BY <2>1 DEF ListenInv, OldIsOlder
    <2> QED
      BY <2>3, <2>4 DEF ListenInv
  <1> QED
    BY <1>3, <1>4, <1>5, <1>6

\* rotate_epoch, priority by priority, whether it succeeds or gives up.
LEMMA RotationKeepsListening ==
    ASSUME LinkConstants, ListenInv, TypeOK', Rotate \/ RotateTx \/ RotateRx
    PROVE  ListenInv'
  <1>1. /\ \A p \in Prios : /\ <<p, rx_stops[p]>> \in Threads
                           /\ p \in Nat /\ rx_stops[p] \in Nat /\ rx_stops[p] \in Epochs
        /\ epoch \in Nat /\ epoch \in Epochs /\ rotation.at \in Prios
        /\ \A r \in timers : r[2] \in Nat
    <2>1. /\ epoch \in Epochs /\ rotation.at \in Prios /\ timers \subseteq Threads
          /\ rx_stops \in [Prios -> Epochs]
      BY DEF ListenInv, TypeOK
    <2>2. Epochs \subseteq Nat /\ Prios \subseteq Nat
      BY Bounds DEF Epochs, LinkConstants
    <2> QED
      BY <2>1, <2>2 DEF Threads
  <1>2. /\ readers \in [Threads -> Readers] /\ tx \in [Prios -> Epochs]
        /\ rx_stops \in [Prios -> Epochs]
        /\ rotation \in [at : Prios, step : {"idle", "tx", "rx"}]
    BY DEF ListenInv, TypeOK
  <1>3. CASE Rotate
    <2>1. /\ epoch' = epoch + 1 /\ rotation' = [at |-> 0, step |-> "tx"]
          /\ UNCHANGED <<tx, rx_stops, dropped, readers, timers, broken>>
          /\ rotation.step = "idle"
      BY <1>3 DEF Rotate, threads, Available, Idle
    <2>2. NewestListens'
      BY <2>1 DEF ListenInv, NewestListens, Exchanging, Safe, Running
    <2>3. /\ \A r \in timers : r[2] < epoch + 1
          /\ \A p \in Prios : rx_stops[p] <= epoch + 1 /\ rx_stops[p] < epoch + 1
      <3>1. /\ \A r \in timers : r[2] < epoch
            /\ \A p \in Prios : rx_stops[p] <= epoch
        BY DEF ListenInv, OldIsOlder
      <3>2. \A n \in Nat : (n < epoch => n < epoch + 1)
                         /\ (n <= epoch => n <= epoch + 1 /\ n < epoch + 1)
        BY <1>1
      <3>3. (\A r \in timers : r[2] \in Nat) /\ (\A p \in Prios : rx_stops[p] \in Nat)
        BY <1>1
      <3> QED
        BY <3>1, <3>2, <3>3
    <2>4. OldIsOlder'
      BY <2>1, <2>3 DEF OldIsOlder
    <2> QED
      BY <2>2, <2>4 DEF ListenInv
  <1>p. PICK p \in Prios : p = rotation.at
    BY <1>1
  <1>4. CASE RotateTx
    <2>1. /\ UNCHANGED <<epoch, rx_stops, dropped, readers, broken>>
          /\ rotation.step = "tx"
      BY <1>4 DEF RotateTx
    <2>2. CASE GiveUp /\ UNCHANGED <<tx, timers>>
      <3>1. rotation'.step = "idle"
        BY <2>2 DEF GiveUp, Idle
      <3>2. NewestListens'
        BY <2>1, <2>2, <3>1 DEF ListenInv, NewestListens, Exchanging, Safe, Running
      <3>3. OldIsOlder'
        BY <2>1, <2>2, <3>1 DEF ListenInv, OldIsOlder
      <3> QED
        BY <3>2, <3>3 DEF ListenInv
    <2>3. CASE /\ tx' = [tx EXCEPT ![p] = epoch]
               /\ timers' = timers \cup {<<p, rx_stops[p]>>}
               /\ rotation' = [rotation EXCEPT !.step = "rx"]
      <3>1. rotation'.step = "rx" /\ rotation'.at = p
        BY <1>2, <1>p, <2>3
      <3>2. ASSUME NEW q \in Prios \ broken, ~dropped, q # p
            PROVE  tx'[q] = rx_stops[q] /\ Safe(<<q, rx_stops[q]>>)'
        <4>1. tx[q] = rx_stops[q] /\ Safe(<<q, rx_stops[q]>>)
          BY <2>1, <3>2 DEF ListenInv, NewestListens, Exchanging
        <4> QED
          BY <1>2, <2>1, <2>3, <3>2, <4>1 DEF Safe, Running
      <3>3. NewestListens'
        BY <2>1, <3>1, <3>2 DEF NewestListens, Exchanging
      <3>4. rx_stops[p] < epoch
        <4>1. p \in Nat
          BY <1>1
        <4>2. p <= p
          BY <4>1
        <4> QED
          BY <1>p, <2>1, <4>2 DEF ListenInv, OldIsOlder
      <3>5. tx'[p] = epoch /\ \A r \in timers' : r[2] < epoch
        BY <1>2, <2>3, <3>4 DEF ListenInv, OldIsOlder
      <3>6. OldIsOlder'
        BY <1>p, <2>1, <3>1, <3>5 DEF ListenInv, OldIsOlder
      <3> QED
        BY <3>3, <3>6 DEF ListenInv
    <2> QED
      BY <1>4, <1>p, <2>2, <2>3 DEF RotateTx
  <1>5. CASE RotateRx
    <2>1. /\ UNCHANGED <<epoch, tx, dropped, timers>>
          /\ rotation.step = "rx" /\ tx[p] = epoch
      BY <1>5, <1>p DEF RotateRx, ListenInv, OldIsOlder
    <2>2. CASE GiveUp /\ broken' = broken \cup {p} /\ UNCHANGED <<readers, rx_stops>>
      <3>1. rotation'.step = "idle"
        BY <2>2 DEF GiveUp, Idle
      <3>2. NewestListens'
        BY <1>p, <2>1, <2>2, <3>1 DEF ListenInv, NewestListens, Exchanging, Safe, Running
      <3>3. OldIsOlder'
        BY <2>1, <2>2, <3>1 DEF ListenInv, OldIsOlder
      <3> QED
        BY <3>2, <3>3 DEF ListenInv
    <2>3. CASE /\ readers' = [readers EXCEPT ![<<p, epoch>>] = Fresh]
               /\ rx_stops' = [rx_stops EXCEPT ![p] = epoch]
               /\ broken' = broken \ {p}
               /\ rotation' = NextPriority(p)
      <3> DEFINE SafeNow(r) == /\ readers'[r].state = "running"
                               /\ ~readers'[r].stop /\ r \notin timers'
      <3>1. <<p, epoch>> \in Threads /\ <<p, epoch>> \notin timers
        BY <1>1 DEF Threads, ListenInv, OldIsOlder
      <3>2. /\ rotation'.step # "rx"
            /\ rotation'.step # "idle" => rotation'.at = p + 1
        BY <2>3 DEF NextPriority, Idle
      <3>3. SafeNow(<<p, epoch>>)
        BY <1>2, <2>1, <2>3, <3>1 DEF Fresh
      <3>4. ASSUME NEW q \in Prios \ broken', ~dropped
            PROVE  tx[q] = rx_stops'[q] /\ SafeNow(<<q, rx_stops'[q]>>)
        <4>1. CASE q = p
          <5>1. rx_stops'[q] = epoch
            BY <1>2, <2>3, <4>1
          <5> QED
            BY <2>1, <3>3, <4>1, <5>1
        <4>2. CASE q # p
          <5>1. rx_stops'[q] = rx_stops[q] /\ q \notin broken
            BY <1>2, <2>3, <4>2
          <5>2. tx[q] = rx_stops[q] /\ Safe(<<q, rx_stops[q]>>)
            BY <1>p, <3>4, <4>2, <5>1 DEF ListenInv, NewestListens, Exchanging
          <5>3. readers'[<<q, rx_stops[q]>>] = readers[<<q, rx_stops[q]>>]
            BY <1>1, <1>2, <2>3, <4>2
          <5> QED
            BY <2>1, <5>1, <5>2, <5>3 DEF Safe, Running
        <4> QED
          BY <4>1, <4>2
      <3>5. NewestListens'
        BY <2>1, <3>4 DEF NewestListens, Safe, Running
      <3>6. \A q \in Prios : /\ rx_stops'[q] <= epoch
                             /\ p + 1 <= q => rx_stops'[q] < epoch
        <4> TAKE q \in Prios
        <4>1. CASE q = p
          BY <1>1, <1>2, <2>3, <4>1
        <4>2. CASE q # p
          <5>1. rx_stops'[q] = rx_stops[q]
            BY <1>2, <2>3, <4>2
          <5>2. p + 1 <= q => p <= q
            BY <1>1
          <5> QED
            BY <1>p, <2>1, <5>1, <5>2 DEF ListenInv, OldIsOlder
        <4> QED
          BY <4>1, <4>2
      <3>7. OldIsOlder'
        BY <2>1, <3>2, <3>6 DEF ListenInv, OldIsOlder
      <3> QED
        BY <3>5, <3>7 DEF ListenInv
    <2> QED
      BY <1>5, <1>p, <2>2, <2>3 DEF RotateRx
  <1> QED
    BY <1>3, <1>4, <1>5

\* After every rotation, whether it succeeded, failed half way or followed one
\* that failed, the node listens on each priority in the epoch it sends in, with
\* a reader that nobody is going to stop, unless that very reader failed.
THEOREM ListensToItsPeers == Spec => []ListensWhereItSends
  <1>1. Init => ListenInv
    <2> SUFFICES ASSUME Init PROVE ListenInv
      OBVIOUS
    <2>1. TypeOK
      BY LinkConstants, InitTypeOK
    <2>2. \A p \in Prios : <<p, 0>> \in Threads /\ readers[<<p, 0>>] = Fresh
      <3>1. 0 \in Epochs
        BY LinkConstants, Bounds DEF Epochs
      <3> QED
        BY <3>1 DEF Init, Threads
    <2>3. NewestListens
      BY <2>2 DEF Init, NewestListens, Safe, Running, Fresh
    <2>4. OldIsOlder
      BY DEF Init, OldIsOlder, Idle
    <2> QED
      BY <2>1, <2>3, <2>4 DEF ListenInv
  <1>2. ListenInv /\ [Next]_vars => ListenInv'
    <2> SUFFICES ASSUME ListenInv, [Next]_vars PROVE ListenInv'
      OBVIOUS
    <2>1. TypeOK'
      BY LinkConstants, NextTypeOK DEF ListenInv
    <2>2. ASSUME NEW r \in Threads,
                 ReaderStop(r) \/ ReaderRecv(r) \/ ReaderError(r) \/ Overlap(r)
          PROVE  ListenInv'
      BY <2>1, <2>2, ThreadsKeepListening
    <2>3. CASE Rotate \/ RotateTx \/ RotateRx
      BY <2>1, <2>3, LinkConstants, RotationKeepsListening
    <2>4. CASE Drop
      <3>1. dropped' /\ UNCHANGED <<epoch, tx, rx_stops, rotation, timers>>
        BY <2>4 DEF Drop
      <3> QED
        BY <2>1, <3>1 DEF ListenInv, NewestListens, OldIsOlder
    <2>5. ASSUME NEW p \in Prios, Send(p) \/ PeerSend(p) PROVE ListenInv'
      <3>1. UNCHANGED <<handle, timers, broken>>
        BY <2>5 DEF Send, PeerSend
      <3>2. \E src, stream : Broadcast(src, p, stream)
        BY <2>5 DEF Send, PeerSend
      <3>3. \A r \in Threads : readers[r] \in Readers
        BY DEF ListenInv, TypeOK
      <3>4. \A r \in Threads : /\ readers'[r].state = readers[r].state
                               /\ readers'[r].stop = readers[r].stop
        BY <3>2, <3>3 DEF Broadcast, Readers
      <3> QED
        BY <2>1, <3>1, <3>4, QuietKeepsListening DEF Running
    <2>6. CASE UNCHANGED <<handle, threads>>
      BY <2>1, <2>6, QuietKeepsListening DEF threads, Running
    <2> QED
      BY <2>2, <2>3, <2>4, <2>5, <2>6
      DEF Next, ThreadStep, PumpRecv, PumpSend, RxLoop, Recv, SetAllowList, vars
  <1>3. ListenInv => ListensWhereItSends
    <2> SUFFICES ASSUME ListenInv, Available, NEW p \in Prios \ broken
                 PROVE  Safe(<<p, tx[p]>>)
      BY DEF ListensWhereItSends, Safe
    <2>1. rotation.step = "idle" /\ ~dropped
      BY DEF Available, Idle
    <2>2. tx[p] = rx_stops[p] /\ Safe(<<p, rx_stops[p]>>)
      BY <2>1 DEF ListenInv, NewestListens, Exchanging
    <2> QED
      BY <2>2
  <1> QED
    BY <1>1, <1>2, <1>3, PTL DEF Spec

---------------------------------------------------------------------------
(* The order of the frames *)

\* A frame put behind a queue, or taken from its front.
LEMMA AppendOrder ==
    ASSUME NEW s \in Seq(Frames), NEW x \in Frames
    PROVE  /\ InOrder(s) /\ After(s, x) => InOrder(Append(s, x))
           /\ \A t \in Seq(Frames) :
                  /\ Ahead(s, t) /\ Before(x, t) => Ahead(Append(s, x), t)
                  /\ Ahead(t, s) /\ After(t, x) => Ahead(t, Append(s, x))
           /\ \A f : Has(Append(s, x), f) => Has(s, f) \/ f = x
  <1>1. /\ Len(s) \in Nat /\ Len(Append(s, x)) = Len(s) + 1
        /\ \A i \in 1 .. Len(s) : Append(s, x)[i] = s[i]
        /\ Append(s, x)[Len(s) + 1] = x
    BY AppendProperties, LenProperties
  <1>2. \A i \in 1 .. Len(s) + 1 : i \in 1 .. Len(s) \/ i = Len(s) + 1
    BY <1>1
  <1>3. ASSUME InOrder(s), After(s, x) PROVE InOrder(Append(s, x))
    <2> SUFFICES ASSUME NEW i \in 1 .. Len(s) + 1, NEW j \in 1 .. Len(s) + 1, i < j,
                        Line(Append(s, x)[i], Append(s, x)[j])
                 PROVE  Append(s, x)[i].id < Append(s, x)[j].id
      BY <1>1 DEF InOrder
    <2>1. i \in 1 .. Len(s)
      BY <1>1
    <2> QED
      BY <1>1, <1>2, <1>3, <2>1 DEF InOrder, After
  <1>4. ASSUME NEW t \in Seq(Frames), Ahead(s, t), Before(x, t)
        PROVE  Ahead(Append(s, x), t)
    BY <1>1, <1>2, <1>4 DEF Ahead, Before
  <1>5. ASSUME NEW t \in Seq(Frames), Ahead(t, s), After(t, x)
        PROVE  Ahead(t, Append(s, x))
    BY <1>1, <1>2, <1>5 DEF Ahead, After
  <1>6. ASSUME NEW f, Has(Append(s, x), f) PROVE Has(s, f) \/ f = x
    BY <1>1, <1>2, <1>6 DEF Has
  <1> QED
    BY <1>3, <1>4, <1>5, <1>6

\* Order survives taking the first element.
LEMMA TailOrder ==
    ASSUME NEW s \in Seq(Frames), s # <<>>
    PROVE  /\ InOrder(s) => InOrder(Tail(s)) /\ Before(Head(s), Tail(s))
           /\ \A t \in Seq(Frames) :
                  /\ Ahead(s, t) => Ahead(Tail(s), t) /\ Before(Head(s), t)
                  /\ Ahead(t, s) => Ahead(t, Tail(s)) /\ After(t, Head(s))
           /\ \A f : Has(Tail(s), f) => Has(s, f)
           /\ Has(s, Head(s)) /\ Head(s) \in Frames /\ Tail(s) \in Seq(Frames)
  <1>1. /\ Head(s) \in Frames /\ Tail(s) \in Seq(Frames)
        /\ Len(Tail(s)) = Len(s) - 1 /\ Len(s) \in Nat /\ Len(s) # 0
        /\ \A i \in 1 .. Len(Tail(s)) : Tail(s)[i] = s[i + 1]
    BY HeadTailProperties, EmptySeq
  <1>2. Head(s) = s[1] /\ 1 \in 1 .. Len(s)
    BY <1>1
  <1>3. \A i \in 1 .. Len(Tail(s)) : i + 1 \in 1 .. Len(s) /\ 1 < i + 1
    BY <1>1
  <1>4. ASSUME InOrder(s) PROVE InOrder(Tail(s)) /\ Before(Head(s), Tail(s))
    <2>1. \A i, j \in 1 .. Len(Tail(s)) : i < j => i + 1 < j + 1
      BY <1>1
    <2>2. InOrder(Tail(s))
      BY <1>1, <1>3, <1>4, <2>1 DEF InOrder
    <2>3. Before(Head(s), Tail(s))
      BY <1>1, <1>2, <1>3, <1>4 DEF InOrder, Before
    <2> QED
      BY <2>2, <2>3
  <1>5. ASSUME NEW t \in Seq(Frames), Ahead(s, t)
        PROVE  Ahead(Tail(s), t) /\ Before(Head(s), t)
    BY <1>1, <1>2, <1>3, <1>5 DEF Ahead, Before
  <1>6. ASSUME NEW t \in Seq(Frames), Ahead(t, s)
        PROVE  Ahead(t, Tail(s)) /\ After(t, Head(s))
    BY <1>1, <1>2, <1>3, <1>6 DEF Ahead, After
  <1>7. ASSUME NEW f, Has(Tail(s), f) PROVE Has(s, f)
    BY <1>1, <1>3, <1>7 DEF Has
  <1> QED
    BY <1>1, <1>2, <1>4, <1>5, <1>6, <1>7 DEF Has

\* A queue of one frame, and an empty one.
LEMMA SingleOrder ==
    ASSUME NEW x \in Frames
    PROVE  /\ InOrder(<<x>>) /\ InOrder(<<>>)
           /\ \A t \in Seq(Frames) : /\ Ahead(<<x>>, t) <=> Before(x, t)
                                     /\ Ahead(t, <<x>>) <=> After(t, x)
                                     /\ Ahead(<<>>, t) /\ Ahead(t, <<>>)
           /\ \A f : Has(<<x>>, f) <=> f = x
           /\ \A f : ~Has(<<>>, f)
  <1>1. Len(<<x>>) = 1 /\ <<x>>[1] = x /\ Len(<<>>) = 0
    OBVIOUS
  <1>2. \A i \in 1 .. 1 : i = 1
    OBVIOUS
  <1>3. 1 .. 0 = {} /\ 1 \in 1 .. 1
    OBVIOUS
  <1>4. \A i, j \in 1 .. 1 : ~(i < j)
    OBVIOUS
  <1>5. InOrder(<<x>>) /\ InOrder(<<>>)
    BY <1>1, <1>3, <1>4 DEF InOrder
  <1>6. ASSUME NEW t \in Seq(Frames)
        PROVE  /\ Ahead(<<x>>, t) <=> Before(x, t)
               /\ Ahead(t, <<x>>) <=> After(t, x)
               /\ Ahead(<<>>, t) /\ Ahead(t, <<>>)
    BY <1>1, <1>2, <1>3 DEF Ahead, Before, After
  <1>7. (\A f : Has(<<x>>, f) <=> f = x) /\ (\A f : ~Has(<<>>, f))
    BY <1>1, <1>2, <1>3 DEF Has
  <1> QED
    BY <1>5, <1>6, <1>7

\* Two queues, one behind the other.
LEMMA ConcatOrder ==
    ASSUME NEW s \in Seq(Frames), NEW t \in Seq(Frames)
    PROVE  /\ s \o t \in Seq(Frames)
           /\ InOrder(s) /\ InOrder(t) /\ Ahead(s, t) => InOrder(s \o t)
           /\ \A u \in Seq(Frames) : Ahead(s, u) /\ Ahead(t, u) => Ahead(s \o t, u)
           /\ \A i \in 1 .. Len(s \o t) : Has(s, (s \o t)[i]) \/ Has(t, (s \o t)[i])
  <1>1. /\ s \o t \in Seq(Frames) /\ Len(s) \in Nat /\ Len(t) \in Nat
        /\ Len(s \o t) = Len(s) + Len(t)
        /\ \A i \in 1 .. Len(s) + Len(t) :
               (s \o t)[i] = IF i <= Len(s) THEN s[i] ELSE t[i - Len(s)]
    BY ConcatProperties, LenProperties
  <1>2. \A i \in 1 .. Len(s) + Len(t) :
            \/ i \in 1 .. Len(s) /\ (s \o t)[i] = s[i]
            \/ ~(i <= Len(s)) /\ i - Len(s) \in 1 .. Len(t) /\ (s \o t)[i] = t[i - Len(s)]
    BY <1>1
  <1>3. ASSUME InOrder(s), InOrder(t), Ahead(s, t) PROVE InOrder(s \o t)
    <2> SUFFICES ASSUME NEW i \in 1 .. Len(s) + Len(t), NEW j \in 1 .. Len(s) + Len(t),
                        i < j, Line((s \o t)[i], (s \o t)[j])
                 PROVE  (s \o t)[i].id < (s \o t)[j].id
      BY <1>1 DEF InOrder
    <2>1. CASE i \in 1 .. Len(s) /\ (s \o t)[i] = s[i]
      <3>1. CASE j \in 1 .. Len(s) /\ (s \o t)[j] = s[j]
        BY <1>3, <2>1, <3>1 DEF InOrder
      <3>2. CASE j - Len(s) \in 1 .. Len(t) /\ (s \o t)[j] = t[j - Len(s)]
        BY <1>3, <2>1, <3>2 DEF Ahead
      <3> QED
        BY <1>2, <3>1, <3>2
    <2>2. CASE /\ ~(i <= Len(s)) /\ i - Len(s) \in 1 .. Len(t)
               /\ (s \o t)[i] = t[i - Len(s)]
      <3>1. ~(j <= Len(s)) /\ i - Len(s) < j - Len(s)
        BY <1>1, <2>2
      <3>2. j - Len(s) \in 1 .. Len(t) /\ (s \o t)[j] = t[j - Len(s)]
        BY <1>1, <1>2, <3>1
      <3> QED
        BY <1>3, <2>2, <3>1, <3>2 DEF InOrder
    <2> QED
      BY <1>2, <2>1, <2>2
  <1>4. ASSUME NEW u \in Seq(Frames), Ahead(s, u), Ahead(t, u) PROVE Ahead(s \o t, u)
    BY <1>1, <1>2, <1>4 DEF Ahead
  <1>5. \A i \in 1 .. Len(s \o t) : Has(s, (s \o t)[i]) \/ Has(t, (s \o t)[i])
    BY <1>1, <1>2 DEF Has
  <1> QED
    BY <1>1, <1>3, <1>4, <1>5

\* Frames of different priorities are on different lines.
LEMMA OtherPriority ==
    ASSUME NEW p \in Prios, NEW q \in Prios, p # q,
           NEW x \in FramesOf(p), NEW s \in Seq(FramesOf(q))
    PROVE  Before(x, s)
  <1>1. \A i \in 1 .. Len(s) : s[i] \in FramesOf(q)
    BY ElementOfSeq
  <1> QED
    BY <1>1 DEF Before, Line, FramesOf

\* The types of the queues, as the proofs below use them.
LEMMA Queues ==
    ASSUME TypeOK
    PROVE  /\ handled \in Seq(Frames) /\ inbox \in Seq(Frames)
           /\ \A p \in Prios : /\ hands[p] \in Seq(FramesOf(p))
                               /\ rx_chans[p] \in Seq(FramesOf(p))
                               /\ hands[p] \in Seq(Frames) /\ rx_chans[p] \in Seq(Frames)
                               /\ Len(hands[p]) <= 1
           /\ hands \in [Prios -> Seq(Frames)] /\ rx_chans \in [Prios -> Seq(Frames)]
  BY DEF TypeOK

\* A step that moves frames from place to place and brings in no new one.
LEMMA MovingKeepsOlder ==
    ASSUME PassedAreOlder, SocketsInOrder, UNCHANGED <<readers, sent>>,
           \A f \in Frames : IsPassed(f)' => IsPassed(f)
    PROVE  PassedAreOlder' /\ SocketsInOrder'
  BY DEF PassedAreOlder, SocketsInOrder, OlderThanSocket

\* The receiving side: recv, the pump threads, and rx_loop.
LEMMA ReceivingKeepsOrder ==
    ASSUME PassedInv, TypeOK', NEW p \in Prios,
           Recv(p) \/ PumpRecv(p) \/ PumpSend(p) \/ RxLoop
    PROVE  PassedInv'
  <1>1. TypeOK
    BY DEF PassedInv
  <1>2. \A q \in Prios : Ordered(handled, inbox, hands[q], rx_chans[q])
    BY DEF PassedInv, PlacesInOrder
  <1>3. UNCHANGED <<attached, readers, sent>>
    BY DEF Recv, PumpRecv, PumpSend, RxLoop, threads
  <1>4. <<>> \in Seq(Frames)
    BY EmptySeq
  <1>5. ASSUME PumpsAttached', PlacesInOrder', \A f \in Frames : IsPassed(f)' => IsPassed(f)
        PROVE  PassedInv'
    BY <1>3, <1>5, MovingKeepsOlder DEF PassedInv
  <1>6. CASE RxLoop
    <2>1. /\ inbox # <<>> /\ handled' = Append(handled, Head(inbox)) /\ inbox' = Tail(inbox)
          /\ UNCHANGED <<rx_chans, hands, attached>>
      BY <1>6 DEF RxLoop
    <2>2. PICK h \in Frames : h = Head(inbox)
      BY <1>1, <2>1, Queues, TailOrder
    <2>3. \A f \in Frames : IsPassed(f)' => IsPassed(f)
      BY <1>1, <2>1, <2>2, Queues, TailOrder, AppendOrder DEF IsPassed
    <2>4. PumpsAttached'
      BY <2>1 DEF PassedInv, PumpsAttached
    <2>5. ASSUME NEW q \in Prios
          PROVE  Ordered(Append(handled, h), Tail(inbox), hands[q], rx_chans[q])
      <3>1. /\ After(handled, h) /\ Before(h, Tail(inbox)) /\ Ahead(handled, Tail(inbox))
            /\ Before(h, hands[q]) /\ Before(h, rx_chans[q]) /\ InOrder(Tail(inbox))
            /\ Ahead(Tail(inbox), hands[q]) /\ Ahead(Tail(inbox), rx_chans[q])
        BY <1>1, <1>2, <2>1, <2>2, Queues, TailOrder DEF Ordered
      <3>2. Tail(inbox) \in Seq(Frames)
        BY <1>1, <2>1, Queues, TailOrder
      <3> QED
        BY <1>1, <1>2, <3>1, <3>2, Queues, AppendOrder DEF Ordered
    <2>6. PlacesInOrder'
      BY <2>1, <2>2, <2>5 DEF PlacesInOrder
    <2> QED
      BY <1>5, <2>3, <2>4, <2>6
  <1>7. CASE Recv(p)
    <2>1. /\ ~attached /\ rx_chans[p] # <<>>
          /\ handled' = Append(handled, Head(rx_chans[p]))
          /\ rx_chans' = [rx_chans EXCEPT ![p] = Tail(rx_chans[p])]
          /\ UNCHANGED <<hands, inbox, attached>>
      BY <1>7 DEF Recv
    <2>2. PICK h \in FramesOf(p) : h = Head(rx_chans[p]) /\ h \in Frames
      BY <1>1, <2>1, Queues, HeadOfQueue
    <2>3. /\ rx_chans'[p] = Tail(rx_chans[p])
          /\ \A q \in Prios : q # p => rx_chans'[q] = rx_chans[q]
      BY <1>1, <2>1, Queues
    <2>4. \A f \in Frames : IsPassed(f)' => IsPassed(f)
      <3> SUFFICES ASSUME NEW f \in Frames, IsPassed(f)' PROVE IsPassed(f)
        OBVIOUS
      <3>1. Has(Append(handled, h), f) => Has(handled, f) \/ f = h
        BY <1>1, <2>2, Queues, AppendOrder
      <3>2. Has(rx_chans[p], h) /\ (Has(Tail(rx_chans[p]), f) => Has(rx_chans[p], f))
        BY <1>1, <2>1, <2>2, Queues, TailOrder
      <3> QED
        BY <2>1, <2>2, <2>3, <3>1, <3>2 DEF IsPassed
    <2>5. PumpsAttached'
      BY <2>1 DEF PassedInv, PumpsAttached
    <2>6. inbox = <<>> /\ \A q \in Prios : hands[q] = <<>>
      BY <2>1 DEF PassedInv, PumpsAttached
    <2>7. ASSUME NEW q \in Prios, NEW d \in Seq(Frames), InOrder(d), Ahead(handled, d),
                 Before(h, d)
          PROVE  Ordered(Append(handled, h), inbox, hands[q], d)
      <3>1. After(handled, h) /\ InOrder(handled)
        BY <1>1, <1>2, <2>1, <2>2, Queues, TailOrder DEF Ordered
      <3>2. Append(handled, h) \in Seq(Frames)
        BY <1>1, <2>2, Queues, AppendProperties
      <3>3. InOrder(Append(handled, h)) /\ Ahead(Append(handled, h), d)
        BY <1>1, <2>2, <2>7, <3>1, Queues, AppendOrder
      <3>4. /\ InOrder(<<>>) /\ Ahead(Append(handled, h), <<>>)
            /\ Ahead(<<>>, <<>>) /\ Ahead(<<>>, d)
        BY <1>4, <2>2, <3>2, SingleOrder
      <3> QED
        BY <2>6, <2>7, <3>3, <3>4 DEF Ordered
    <2>8. ASSUME NEW q \in Prios
          PROVE  Ordered(Append(handled, h), inbox, hands[q], rx_chans'[q])
      <3>1. CASE q = p
        <4>1. /\ Tail(rx_chans[p]) \in Seq(Frames) /\ InOrder(Tail(rx_chans[p]))
              /\ Ahead(handled, Tail(rx_chans[p])) /\ Before(h, Tail(rx_chans[p]))
          BY <1>1, <1>2, <2>1, <2>2, Queues, TailOrder DEF Ordered
        <4> QED
          BY <2>3, <2>7, <3>1, <4>1
      <3>2. CASE q # p
        <4>1. Before(h, rx_chans[q])
          BY <1>1, <3>2, Queues, OtherPriority
        <4>2. /\ rx_chans[q] \in Seq(Frames) /\ InOrder(rx_chans[q])
              /\ Ahead(handled, rx_chans[q])
          BY <1>1, <1>2, Queues DEF Ordered
        <4> QED
          BY <2>3, <2>7, <3>2, <4>1, <4>2
      <3> QED
        BY <3>1, <3>2
    <2>9. PlacesInOrder'
      BY <2>1, <2>2, <2>8 DEF PlacesInOrder
    <2> QED
      BY <1>5, <2>4, <2>5, <2>9
  <1>8. CASE PumpRecv(p)
    <2>1. /\ attached /\ hands[p] = <<>> /\ rx_chans[p] # <<>>
          /\ hands' = [hands EXCEPT ![p] = <<Head(rx_chans[p])>>]
          /\ rx_chans' = [rx_chans EXCEPT ![p] = Tail(rx_chans[p])]
          /\ UNCHANGED <<handled, inbox, attached>>
      BY <1>8 DEF PumpRecv
    <2>2. PICK h \in Frames : h = Head(rx_chans[p])
      BY <1>1, <2>1, Queues, HeadOfQueue
    <2>3. /\ hands'[p] = <<h>> /\ rx_chans'[p] = Tail(rx_chans[p])
          /\ \A q \in Prios : q # p => hands'[q] = hands[q] /\ rx_chans'[q] = rx_chans[q]
      BY <1>1, <2>1, <2>2, Queues
    <2>4. \A f \in Frames : IsPassed(f)' => IsPassed(f)
      <3> SUFFICES ASSUME NEW f \in Frames, IsPassed(f)' PROVE IsPassed(f)
        OBVIOUS
      <3>1. Has(<<h>>, f) <=> f = h
        BY <2>2, SingleOrder
      <3>2. Has(rx_chans[p], h) /\ (Has(Tail(rx_chans[p]), f) => Has(rx_chans[p], f))
        BY <1>1, <2>1, <2>2, Queues, TailOrder
      <3> QED
        BY <2>1, <2>3, <3>1, <3>2 DEF IsPassed
    <2>5. PumpsAttached'
      BY <2>1 DEF PumpsAttached
    <2>6. Ordered(handled, inbox, <<h>>, Tail(rx_chans[p]))
      <3>1. /\ InOrder(Tail(rx_chans[p])) /\ Before(h, Tail(rx_chans[p]))
            /\ Ahead(handled, Tail(rx_chans[p])) /\ Ahead(inbox, Tail(rx_chans[p]))
            /\ After(handled, h) /\ After(inbox, h) /\ Tail(rx_chans[p]) \in Seq(Frames)
        BY <1>1, <1>2, <2>1, <2>2, Queues, TailOrder DEF Ordered
      <3> QED
        BY <1>1, <1>2, <2>2, <3>1, Queues, SingleOrder DEF Ordered
    <2>7. \A q \in Prios : Ordered(handled, inbox, hands'[q], rx_chans'[q])
      BY <1>2, <2>3, <2>6
    <2>8. PlacesInOrder'
      BY <2>1, <2>7 DEF PlacesInOrder
    <2> QED
      BY <1>5, <2>4, <2>5, <2>8
  <1>9. CASE PumpSend(p)
    <2>1. /\ hands[p] # <<>> /\ inbox' = inbox \o hands[p]
          /\ hands' = [hands EXCEPT ![p] = <<>>]
          /\ UNCHANGED <<handled, rx_chans, attached>>
      BY <1>9 DEF PumpSend
    <2>2. PICK h \in FramesOf(p) : hands[p] = <<h>> /\ h \in Frames
      <3>1. hands[p] \in Seq(FramesOf(p)) /\ Len(hands[p]) <= 1
        BY <1>1, Queues
      <3>2. Len(hands[p]) \in Nat /\ Len(hands[p]) # 0
        BY <2>1, <3>1, EmptySeq, LenProperties
      <3>4. \A n \in Nat : n # 0 /\ n <= 1 => n = 1
        OBVIOUS
      <3>5. Len(hands[p]) = 1
        BY <3>1, <3>2, <3>4
      <3>3. hands[p] = <<hands[p][1]>> /\ hands[p][1] \in FramesOf(p)
        BY <3>1, <3>5
      <3> QED
        BY <3>3 DEF FramesOf
    <2>3. /\ hands'[p] = <<>>
          /\ \A q \in Prios : q # p => hands'[q] = hands[q]
      BY <1>1, <2>1, Queues
    <2>4. inbox' = Append(inbox, h)
      BY <1>1, <2>1, <2>2, Queues, AppendIsConcat
    <2>5. \A f \in Frames : IsPassed(f)' => IsPassed(f)
      <3> SUFFICES ASSUME NEW f \in Frames, IsPassed(f)' PROVE IsPassed(f)
        OBVIOUS
      <3>1. Has(Append(inbox, h), f) => Has(inbox, f) \/ f = h
        BY <1>1, <2>2, Queues, AppendOrder
      <3>2. Has(hands[p], h) /\ ~Has(<<>>, f)
        BY <2>2, SingleOrder
      <3> QED
        BY <2>1, <2>3, <2>4, <3>1, <3>2 DEF IsPassed
    <2>6. PumpsAttached'
      BY <1>9, <2>1 DEF PassedInv, PumpsAttached
    <2>7. /\ After(handled, h) /\ After(inbox, h) /\ Before(h, rx_chans[p])
      <3>1. /\ Ahead(handled, <<h>>) /\ Ahead(inbox, <<h>>) /\ Ahead(<<h>>, rx_chans[p])
        BY <1>2, <2>2 DEF Ordered
      <3> QED
        BY <1>1, <2>2, <3>1, Queues, SingleOrder
    <2>8. ASSUME NEW q \in Prios, NEW c \in Seq(Frames), InOrder(c), Ahead(handled, c),
                 Ahead(inbox, c), Ahead(c, rx_chans[q]), Before(h, c), Before(h, rx_chans[q])
          PROVE  Ordered(handled, Append(inbox, h), c, rx_chans[q])
      BY <1>1, <1>2, <2>2, <2>7, <2>8, Queues, AppendOrder DEF Ordered
    <2>9. ASSUME NEW q \in Prios
          PROVE  Ordered(handled, Append(inbox, h), hands'[q], rx_chans[q])
      <3>1. CASE q = p
        <4>1. /\ InOrder(<<>>) /\ Ahead(handled, <<>>) /\ Ahead(inbox, <<>>)
              /\ Ahead(<<>>, rx_chans[p]) /\ Before(h, <<>>)
          BY <1>1, <1>4, <2>2, Queues, SingleOrder
        <4> QED
          BY <1>4, <2>3, <2>7, <2>8, <3>1, <4>1
      <3>2. CASE q # p
        <4>1. Before(h, rx_chans[q]) /\ Before(h, hands[q])
          BY <1>1, <3>2, Queues, OtherPriority
        <4> QED
          BY <1>1, <1>2, <2>3, <2>8, <3>2, <4>1, Queues DEF Ordered
      <3> QED
        BY <3>1, <3>2
    <2>10. PlacesInOrder'
      BY <2>1, <2>4, <2>9 DEF PlacesInOrder
    <2> QED
      BY <1>5, <2>5, <2>6, <2>10
  <1> QED
    BY <1>6, <1>7, <1>8, <1>9

\* A socket from which a datagram is taken.
LEMMA SocketTail ==
    ASSUME NEW p \in Prios, NEW s \in Seq(FramesOf(p)), s # <<>>, NEW n \in Nat
    PROVE  /\ Rising(s, n) =>
                  Rising(Tail(s), n) /\ Head(s).id <= n /\ Newer(Tail(s), Head(s).id)
           /\ \A m \in Nat : Newer(s, m) => Newer(Tail(s), m) /\ m < Head(s).id
  <1>1. /\ Len(s) \in Nat /\ Len(Tail(s)) = Len(s) - 1
        /\ Head(s) = s[1] /\ 1 \in 1 .. Len(s)
        /\ \A i \in 1 .. Len(Tail(s)) : i + 1 \in 1 .. Len(s) /\ Tail(s)[i] = s[i + 1]
    BY HeadOfQueue
  <1>2. \A i \in 1 .. Len(Tail(s)) : 1 < i + 1
    BY <1>1
  <1>3. \A i, j \in 1 .. Len(Tail(s)) : i < j => i + 1 < j + 1
    BY <1>1
  <1>4. Rising(s, n) => Rising(Tail(s), n)
    BY <1>1, <1>3 DEF Rising
  <1>5. Rising(s, n) => Head(s).id <= n /\ Newer(Tail(s), Head(s).id)
    BY <1>1, <1>2 DEF Rising, Newer
  <1>6. \A m \in Nat : Newer(s, m) => Newer(Tail(s), m) /\ m < Head(s).id
    BY <1>1 DEF Newer
  <1> QED
    BY <1>4, <1>5, <1>6

\* A socket that is closed, and one that receives the newest datagram of all.
LEMMA SocketSteps ==
    ASSUME LinkConstants, NEW p \in Prios, NEW s \in Seq(FramesOf(p)), NEW n \in Nat
    PROVE  /\ Rising(<<>>, n) /\ \A m \in Nat : Newer(<<>>, m)
           /\ Rising(s, n) => Rising(s, n + 1)
           /\ \A x \in FramesOf(p) : x.id = n + 1 =>
                  /\ Rising(s, n) => Rising(Append(s, x), n + 1)
                  /\ \A m \in Nat : m <= n /\ Newer(s, m) => Newer(Append(s, x), m)
  <1>1. Rising(<<>>, n) /\ \A m \in Nat : Newer(<<>>, m)
    BY DEF Rising, Newer
  <1>3. ASSUME NEW x \in FramesOf(p), x.id = n + 1
        PROVE  /\ Rising(s, n) => Rising(Append(s, x), n + 1)
               /\ \A m \in Nat : m <= n /\ Newer(s, m) => Newer(Append(s, x), m)
    <2>1. /\ Len(s) \in Nat /\ Len(Append(s, x)) = Len(s) + 1
          /\ \A i \in 1 .. Len(s) : Append(s, x)[i] = s[i]
          /\ Append(s, x)[Len(s) + 1] = x
      BY AppendProperties, LenProperties
    <2>2. \A i \in 1 .. Len(s) + 1 : i \in 1 .. Len(s) \/ i = Len(s) + 1
      BY <2>1
    <2>3. \A i \in 1 .. Len(s) : s[i].id \in Nat
      <3>1. \A i \in 1 .. Len(s) : s[i] \in FramesOf(p)
        BY ElementOfSeq
      <3> QED
        BY <3>1, Bounds DEF FramesOf, Frames
    <2>4. ASSUME Rising(s, n) PROVE Rising(Append(s, x), n + 1)
      <3> SUFFICES ASSUME NEW i \in 1 .. Len(s) + 1
                   PROVE  /\ Append(s, x)[i].id <= n + 1
                          /\ \A j \in 1 .. Len(s) + 1 : i < j =>
                                 Append(s, x)[i].id < Append(s, x)[j].id
        BY <2>1 DEF Rising
      <3>1. CASE i = Len(s) + 1
        <4>1. \A j \in 1 .. Len(s) + 1 : ~(i < j)
          BY <2>1, <3>1
        <4> QED
          BY <1>3, <2>1, <3>1, <4>1
      <3>2. CASE i \in 1 .. Len(s)
        <4>1. s[i].id \in Nat /\ s[i].id <= n
          BY <2>3, <2>4, <3>2 DEF Rising
        <4>2. s[i].id <= n + 1 /\ s[i].id < n + 1
          BY <4>1
        <4> QED
          BY <1>3, <2>1, <2>2, <2>4, <3>2, <4>2 DEF Rising
      <3> QED
        BY <2>2, <3>1, <3>2
    <2>5. ASSUME NEW m \in Nat, m <= n, Newer(s, m) PROVE Newer(Append(s, x), m)
      <3>1. m < n + 1
        BY <2>5
      <3> QED
        BY <1>3, <2>1, <2>2, <2>5, <3>1 DEF Newer
    <2> QED
      BY <2>4, <2>5
  <1>4. Rising(s, n) => Rising(s, n + 1)
    <2>1. \A i \in 1 .. Len(s) : s[i] \in FramesOf(p)
      BY ElementOfSeq
    <2>2. \A i \in 1 .. Len(s) : s[i].id \in Nat
      BY <2>1, Bounds DEF FramesOf, Frames
    <2>3. \A m \in Nat : m <= n => m <= n + 1
      OBVIOUS
    <2> QED
      BY <2>2, <2>3 DEF Rising
  <1> QED
    BY <1>1, <1>3, <1>4

\* What the sockets and the number of sent datagrams are, as numbers and queues.
LEMMA Sockets ==
    ASSUME LinkConstants, TypeOK
    PROVE  /\ sent \in Nat
           /\ \A r \in Threads : r[1] \in Prios /\ readers[r].sock \in Seq(FramesOf(r[1]))
           /\ \A f \in Frames : <<f.prio, f.stream>> \in Threads /\ f.id \in Nat
  <1>1. sent \in Nat
    BY Bounds DEF TypeOK
  <1>2. \A r \in Threads : r[1] \in Prios /\ readers[r].sock \in Seq(FramesOf(r[1]))
    BY DEF TypeOK, Threads
  <1>3. \A f \in Frames : <<f.prio, f.stream>> \in Threads /\ f.id \in Nat
    BY Bounds DEF Frames, Threads
  <1> QED
    BY <1>1, <1>2, <1>3

\* Sockets that only lose datagrams stay in order and newer than what passed.
LEMMA ShrinkingSockets ==
    ASSUME LinkConstants, TypeOK, SocketsInOrder, UNCHANGED sent,
           \A r \in Threads :
               \/ readers'[r].sock = readers[r].sock
               \/ readers'[r].sock = <<>>
               \/ readers[r].sock # <<>> /\ readers'[r].sock = Tail(readers[r].sock)
    PROVE  /\ SocketsInOrder'
           /\ \A f \in Frames : OlderThanSocket(f) => OlderThanSocket(f)'
  <1>1. \A r \in Threads :
            /\ Rising(readers'[r].sock, sent)
            /\ \A m \in Nat : Newer(readers[r].sock, m) => Newer(readers'[r].sock, m)
    <2> TAKE r \in Threads
    <2>1. /\ r[1] \in Prios /\ readers[r].sock \in Seq(FramesOf(r[1]))
          /\ sent \in Nat /\ Rising(readers[r].sock, sent)
      BY Sockets DEF SocketsInOrder
    <2>s. PICK s \in Seq(FramesOf(r[1])) : s = readers[r].sock
      BY <2>1
    <2>2. CASE readers'[r].sock = s
      BY <2>1, <2>2, <2>s
    <2>3. CASE readers'[r].sock = <<>>
      <3>1. Rising(<<>>, sent) /\ \A m \in Nat : Newer(<<>>, m)
        BY <2>1, SocketSteps
      <3> QED
        BY <2>3, <3>1
    <2>4. CASE s # <<>> /\ readers'[r].sock = Tail(s)
      <3>1. Rising(Tail(s), sent) /\ \A m \in Nat : Newer(s, m) => Newer(Tail(s), m)
        BY <2>1, <2>4, <2>s, SocketTail
      <3> QED
        BY <2>4, <2>s, <3>1
    <2> QED
      BY <2>2, <2>3, <2>4, <2>s
  <1> QED
    BY <1>1, Sockets DEF SocketsInOrder, OlderThanSocket

\* A datagram that is sent is newer than all others.
LEMMA SendingKeepsOrder ==
    ASSUME LinkConstants, PassedInv, TypeOK', NEW p \in Prios, Send(p) \/ PeerSend(p)
    PROVE  PassedInv'
  <1>1. UNCHANGED <<attached, rx_chans, hands, inbox, handled>>
    BY DEF Send, PeerSend, queues
  <1>2. TypeOK
    BY DEF PassedInv
  <1>3. PICK src \in Peers \cup {LocalNode, NoSrc}, stream \in Epochs :
            Broadcast(src, p, stream)
    BY <1>2, SendsBroadcast
  <1>4. sent' = sent + 1 /\ sent \in Nat
    BY <1>2, <1>3, Sockets DEF Broadcast
  <1>5. PICK x \in FramesOf(p) :
            /\ x.id = sent + 1
            /\ \A r \in Threads :
                   \/ readers'[r].sock = readers[r].sock
                   \/ r[1] = p /\ readers'[r].sock = Append(readers[r].sock, x)
    BY <1>2, <1>3, BroadcastTyped
  <1>6. ASSUME NEW r \in Threads
        PROVE  /\ Rising(readers'[r].sock, sent + 1)
               /\ \A m \in Nat : m <= sent /\ Newer(readers[r].sock, m) =>
                      Newer(readers'[r].sock, m)
    <2>1. /\ Rising(readers[r].sock, sent) /\ readers[r].sock \in Seq(FramesOf(r[1]))
          /\ r[1] \in Prios
      BY <1>2, Sockets DEF PassedInv, SocketsInOrder
    <2>2. CASE readers'[r].sock = readers[r].sock
      BY <1>4, <2>1, <2>2, SocketSteps
    <2>3. CASE r[1] = p /\ readers'[r].sock = Append(readers[r].sock, x)
      <3>1. readers[r].sock \in Seq(FramesOf(p))
        BY <2>1, <2>3
      <3>2. /\ Rising(Append(readers[r].sock, x), sent + 1)
            /\ \A m \in Nat : m <= sent /\ Newer(readers[r].sock, m) =>
                   Newer(Append(readers[r].sock, x), m)
        BY <1>4, <1>5, <2>1, <3>1, SocketSteps
      <3> QED
        BY <2>3, <3>2
    <2> QED
      BY <1>5, <2>2, <2>3
  <1>7. ASSUME NEW f \in Frames, OlderThanSocket(f) PROVE OlderThanSocket(f)'
    <2>1. <<f.prio, f.stream>> \in Threads /\ f.id \in Nat
      BY <1>2, Sockets
    <2>2. f.id <= sent /\ f.id <= sent + 1
      BY <1>4, <1>7, <2>1 DEF OlderThanSocket
    <2> QED
      BY <1>4, <1>6, <1>7, <2>1, <2>2 DEF OlderThanSocket
  <1>8. PassedAreOlder'
    BY <1>1, <1>7 DEF PassedInv, PassedAreOlder, IsPassed
  <1>9. SocketsInOrder'
    BY <1>4, <1>6 DEF SocketsInOrder
  <1> QED
    BY <1>1, <1>8, <1>9 DEF PassedInv, PumpsAttached, PlacesInOrder

\* A reader that gets a frame into its channel: the frame is newer than all of
\* its line that got past before, and older than what is left in the socket.
LEMMA ReadingKeepsOrder ==
    ASSUME LinkConstants, PassedInv, TypeOK', NEW r \in Threads, ReaderRecv(r)
    PROVE  PassedInv'
  <1>1. /\ TypeOK /\ r[1] \in Prios /\ r = <<r[1], r[2]>>
        /\ readers \in [Threads -> Readers]
        /\ readers[r].sock \in Seq(FramesOf(r[1])) /\ readers[r].sock # <<>>
        /\ UNCHANGED <<attached, sent, hands, inbox, handled>>
    <2>1. TypeOK /\ r[1] \in Prios /\ r = <<r[1], r[2]>>
      BY DEF PassedInv, Threads
    <2>2. readers[r].sock # <<>> /\ UNCHANGED <<attached, sent, hands, inbox, handled>>
      BY DEF ReaderRecv
    <2>3. readers \in [Threads -> Readers] /\ readers[r].sock \in Seq(FramesOf(r[1]))
      BY <2>1 DEF TypeOK
    <2> QED
      BY <2>1, <2>2, <2>3
  <1>2. PICK f \in FramesOf(r[1]) : f = Head(readers[r].sock)
    BY <1>1, HeadOfQueue
  <1>3. /\ readers'[r].sock = <<>> \/ readers'[r].sock = Tail(readers[r].sock)
        /\ \A q \in Threads : q # r => readers'[q] = readers[q]
    <2>1. CASE readers' = [readers EXCEPT ![r] = Ended(r)]
      BY <1>1, <2>1 DEF Ended
    <2>2. CASE readers' = [readers EXCEPT ![r].sock = Tail(readers[r].sock)]
      <3>1. readers[r] \in Readers
        BY <1>1
      <3>2. readers'[r] = [readers[r] EXCEPT !.sock = Tail(readers[r].sock)]
        BY <1>1, <2>2
      <3>3. readers'[r].sock = Tail(readers[r].sock)
        BY <3>1, <3>2 DEF Readers
      <3> QED
        BY <1>1, <2>2, <3>3
    <2> QED
      BY <2>1, <2>2 DEF ReaderRecv
  <1>4. /\ SocketsInOrder'
        /\ \A g \in Frames : OlderThanSocket(g) => OlderThanSocket(g)'
    BY <1>1, <1>3, ShrinkingSockets DEF PassedInv
  <1>5. CASE UNCHANGED rx_chans
    <2>1. PassedAreOlder'
      BY <1>1, <1>4, <1>5 DEF PassedInv, PassedAreOlder, IsPassed
    <2> QED
      BY <1>1, <1>4, <1>5, <2>1 DEF PassedInv, PumpsAttached, PlacesInOrder
  <1>6. CASE OwnStream(r, f) /\ Accepted(f) /\ TrySend(f)
    <2>1. f \in Frames /\ f.prio = r[1] /\ f.stream = r[2] /\ f.src # LocalNode
      BY <1>2, <1>6 DEF FramesOf, OwnStream, Accepted, LinkConstants
    <2>2. /\ rx_chans' = [rx_chans EXCEPT ![r[1]] = Append(rx_chans[r[1]], f)]
          /\ rx_chans'[r[1]] = Append(rx_chans[r[1]], f)
          /\ \A q \in Prios : q # r[1] => rx_chans'[q] = rx_chans[q]
      BY <1>1, <1>6, <2>1, Queues DEF TrySend
    <2>3. \A g \in Frames : IsPassed(g) /\ Line(g, f) => g.id < f.id
      <3>1. f = readers[r].sock[1] /\ 1 \in 1 .. Len(readers[r].sock)
        BY <1>1, <1>2, HeadOfQueue
      <3>2. \A g \in Frames : IsPassed(g) => OlderThanSocket(g)
        BY DEF PassedInv, PassedAreOlder
      <3> QED
        BY <1>1, <2>1, <3>1, <3>2 DEF Line, OlderThanSocket, Newer
    <2>4. OlderThanSocket(f)'
      <3>1. Rising(readers[r].sock, sent) /\ sent \in Nat
        BY <1>1, Sockets DEF PassedInv, SocketsInOrder
      <3>2. Newer(readers'[r].sock, f.id) /\ f.id <= sent
        <4>1. Newer(Tail(readers[r].sock), f.id) /\ f.id <= sent
          BY <1>1, <1>2, <3>1, SocketTail
        <4>2. Newer(<<>>, f.id)
          BY DEF Newer
        <4> QED
          BY <1>3, <4>1, <4>2
      <3>3. <<f.prio, f.stream>> = r
        BY <1>1, <2>1
      <3> QED
        BY <1>1, <2>1, <3>2, <3>3 DEF OlderThanSocket
    <2>5. PassedAreOlder'
      <3> SUFFICES ASSUME NEW g \in Frames, IsPassed(g)' PROVE OlderThanSocket(g)'
        BY DEF PassedAreOlder
      <3>1. Has(Append(rx_chans[r[1]], f), g) => Has(rx_chans[r[1]], g) \/ g = f
        BY <1>1, <2>1, Queues, AppendOrder
      <3>2. IsPassed(g) \/ g = f
        BY <1>1, <2>2, <3>1 DEF IsPassed
      <3> QED
        BY <1>4, <2>4, <3>2 DEF PassedInv, PassedAreOlder
    <2>6. \A s \in Seq(Frames) : (\A g : Has(s, g) => IsPassed(g)) => After(s, f)
      BY <2>3, ElementOfSeq DEF After, Has
    <2>7. /\ After(handled, f) /\ After(inbox, f) /\ After(hands[r[1]], f)
          /\ After(rx_chans[r[1]], f)
      BY <1>1, <2>6, Queues DEF IsPassed
    <2>8. Ordered(handled, inbox, hands[r[1]], Append(rx_chans[r[1]], f))
      <3>1. Ordered(handled, inbox, hands[r[1]], rx_chans[r[1]])
        BY <1>1 DEF PassedInv, PlacesInOrder
      <3> QED
        BY <1>1, <2>1, <2>7, <3>1, Queues, AppendOrder DEF Ordered
    <2>9. \A q \in Prios : Ordered(handled, inbox, hands[q], rx_chans'[q])
      BY <2>2, <2>8 DEF PassedInv, PlacesInOrder
    <2>10. PlacesInOrder' /\ PumpsAttached'
      BY <1>1, <2>9 DEF PassedInv, PlacesInOrder, PumpsAttached
    <2> QED
      BY <1>4, <2>5, <2>10 DEF PassedInv
  <1> QED
    BY <1>2, <1>5, <1>6 DEF ReaderRecv

\* rotate_epoch, the end of a thread, and Drop: sockets and channels are closed
\* or opened empty, and nothing new gets past a reader.
LEMMA ClosingKeepsOrder ==
    ASSUME LinkConstants, PassedInv, TypeOK', UNCHANGED <<attached, sent, hands, inbox, handled>>,
           \A r \in Threads : readers'[r].sock = readers[r].sock \/ readers'[r].sock = <<>>,
           \A p \in Prios : rx_chans'[p] = rx_chans[p] \/ rx_chans'[p] = <<>>
    PROVE  PassedInv'
  <1>1. /\ SocketsInOrder'
        /\ \A g \in Frames : OlderThanSocket(g) => OlderThanSocket(g)'
    BY ShrinkingSockets DEF PassedInv
  <1>2. \A g \in Frames : IsPassed(g)' => IsPassed(g)
    <2>1. \A g \in Frames : ~Has(<<>>, g)
      BY SingleOrder
    <2> QED
      BY <2>1 DEF IsPassed
  <1>3. PassedAreOlder'
    BY <1>1, <1>2 DEF PassedInv, PassedAreOlder
  <1>4. ASSUME NEW p \in Prios PROVE Ordered(handled, inbox, hands[p], rx_chans'[p])
    <2>1. Ordered(handled, inbox, hands[p], rx_chans[p])
      BY DEF PassedInv, PlacesInOrder
    <2>2. Ordered(handled, inbox, hands[p], <<>>)
      <3>1. \A s \in Seq(Frames) : Ahead(s, <<>>)
        BY DEF Ahead
      <3>2. InOrder(<<>>)
        BY DEF InOrder
      <3> QED
        BY <2>1, <3>1, <3>2, Queues DEF Ordered, PassedInv
    <2> QED
      BY <2>1, <2>2
  <1>5. PlacesInOrder'
    BY <1>4 DEF PlacesInOrder
  <1> QED
    BY <1>1, <1>3, <1>5 DEF PassedInv, PumpsAttached

\* What has got past the readers, in one piece.
LEMMA PassedInOnePiece ==
    ASSUME PassedInv PROVE PassedOnceInOrder
  <1> SUFFICES ASSUME NEW p \in Prios
               PROVE  /\ \A i \in DOMAIN Passed(p) : Passed(p)[i].src # LocalNode
                      /\ InOrder(Passed(p)) /\ DOMAIN Passed(p) = 1 .. Len(Passed(p))
    BY DEF PassedOnceInOrder, InOrder, Line
  <1>1. /\ handled \in Seq(Frames) /\ inbox \in Seq(Frames)
        /\ hands[p] \in Seq(Frames) /\ rx_chans[p] \in Seq(Frames)
    BY Queues DEF PassedInv
  <1>2. Ordered(handled, inbox, hands[p], rx_chans[p])
    BY DEF PassedInv, PlacesInOrder
  <1> DEFINE a == handled \o inbox
             b == a \o hands[p]
             c == b \o rx_chans[p]
  <1>3. /\ a \in Seq(Frames) /\ InOrder(a)
        /\ Ahead(a, hands[p]) /\ Ahead(a, rx_chans[p])
    BY <1>1, <1>2, ConcatOrder DEF Ordered
  <1>4. \A i \in 1 .. Len(a) : Has(handled, a[i]) \/ Has(inbox, a[i])
    BY <1>1, ConcatOrder
  <1> HIDE DEF a
  <1>5. b \in Seq(Frames) /\ InOrder(b) /\ Ahead(b, rx_chans[p])
    BY <1>1, <1>2, <1>3, ConcatOrder DEF Ordered
  <1>6. \A i \in 1 .. Len(b) : Has(a, b[i]) \/ Has(hands[p], b[i])
    BY <1>1, <1>3, ConcatOrder
  <1> HIDE DEF b
  <1>7. c \in Seq(Frames) /\ InOrder(c)
    BY <1>1, <1>2, <1>5, ConcatOrder DEF Ordered
  <1>8. \A i \in 1 .. Len(c) : Has(b, c[i]) \/ Has(rx_chans[p], c[i])
    BY <1>1, <1>5, ConcatOrder
  <1> HIDE DEF c
  <1>9. \A i \in 1 .. Len(c) : IsPassed(c[i]) /\ c[i] \in Frames
    <2>1. \A f : Has(a, f) => Has(handled, f) \/ Has(inbox, f)
      BY <1>4 DEF Has
    <2>2. \A f : Has(b, f) => Has(a, f) \/ Has(hands[p], f)
      BY <1>6 DEF Has
    <2>3. \A i \in 1 .. Len(c) : c[i] \in Frames
      BY <1>7, ElementOfSeq
    <2> QED
      BY <1>8, <2>1, <2>2, <2>3 DEF IsPassed
  <1>10. Passed(p) = c
    BY DEF Passed, a, b, c
  <1>11. DOMAIN c = 1 .. Len(c)
    BY <1>7, LenProperties
  <1> QED
    BY <1>7, <1>9, <1>10, <1>11 DEF PassedInv, PassedAreOlder, OlderThanSocket

\* However sends, rotations, overlapping readers, pump threads and rx_loop are
\* interleaved, and wherever frames are lost on the way, a frame gets past the
\* readers at most once, never back to its sender, and the frames of a stream
\* reach rx_loop in the order in which they were sent.
THEOREM FramesPassOnceInOrder == Spec => []PassedOnceInOrder
  <1>1. Init => PassedInv
    <2> SUFFICES ASSUME Init PROVE PassedInv
      OBVIOUS
    <2>1. TypeOK
      BY LinkConstants, InitTypeOK
    <2>2. PumpsAttached
      BY DEF Init, PumpsAttached
    <2>3. SocketsInOrder
      BY DEF Init, SocketsInOrder, Rising, Fresh, Absent
    <2>4. PassedAreOlder
      <3>1. \A f : ~Has(<<>>, f)
        BY DEF Has
      <3> QED
        BY <3>1 DEF Init, PassedAreOlder, IsPassed
    <2>5. PlacesInOrder
      <3>1. InOrder(<<>>) /\ Ahead(<<>>, <<>>)
        BY DEF InOrder, Ahead
      <3>2. \A p \in Prios : hands[p] = <<>> /\ rx_chans[p] = <<>>
        BY DEF Init
      <3>3. handled = <<>> /\ inbox = <<>>
        BY DEF Init
      <3> QED
        BY <3>1, <3>2, <3>3 DEF PlacesInOrder, Ordered
    <2> QED
      BY <2>1, <2>2, <2>3, <2>4, <2>5 DEF PassedInv
  <1>2. PassedInv /\ [Next]_vars => PassedInv'
    <2> SUFFICES ASSUME PassedInv, [Next]_vars PROVE PassedInv'
      OBVIOUS
    <2>1. TypeOK'
      BY LinkConstants, NextTypeOK DEF PassedInv
    <2>2. /\ readers \in [Threads -> Readers]
          /\ rotation.at \in Prios /\ epoch \in Epochs
      BY DEF PassedInv, TypeOK
    <2>3. ASSUME NEW p \in Prios, Recv(p) \/ PumpRecv(p) \/ PumpSend(p) PROVE PassedInv'
      BY <2>1, <2>3, ReceivingKeepsOrder
    <2>4. CASE RxLoop
      BY <2>1, <2>2, <2>4, ReceivingKeepsOrder
    <2>5. ASSUME NEW p \in Prios, Send(p) \/ PeerSend(p) PROVE PassedInv'
      BY <2>1, <2>5, LinkConstants, SendingKeepsOrder
    <2>6. ASSUME NEW r \in Threads, ReaderRecv(r) PROVE PassedInv'
      BY <2>1, <2>6, LinkConstants, ReadingKeepsOrder
    <2>7. ASSUME NEW r \in Threads, ReaderStop(r) \/ ReaderError(r) PROVE PassedInv'
      <3>1. readers' = [readers EXCEPT ![r] = Ended(r)] /\ Ended(r).sock = <<>>
        BY <2>7 DEF ReaderStop, ReaderError, Ended
      <3>2. \A q \in Threads : readers'[q].sock = readers[q].sock \/ readers'[q].sock = <<>>
        BY <2>2, <3>1
      <3>3. UNCHANGED <<attached, sent, hands, inbox, handled, rx_chans>>
        BY <2>7 DEF ReaderStop, ReaderError, queues
      <3> QED
        BY <2>1, <3>2, <3>3, LinkConstants, ClosingKeepsOrder
    <2>8. ASSUME NEW r \in Threads, Overlap(r) PROVE PassedInv'
      <3>1. \A q \in Threads : readers'[q].sock = readers[q].sock
        BY <2>2, <2>8 DEF Overlap, Readers
      <3>2. UNCHANGED <<attached, sent, hands, inbox, handled, rx_chans>>
        BY <2>8 DEF Overlap, queues
      <3> QED
        BY <2>1, <3>1, <3>2, LinkConstants, ClosingKeepsOrder
    <2>9. CASE RotateRx
      <3>1. \A q \in Threads : readers'[q].sock = readers[q].sock \/ readers'[q].sock = <<>>
        BY <2>2, <2>9 DEF RotateRx, Fresh, GiveUp
      <3>2. UNCHANGED <<attached, sent, hands, inbox, handled, rx_chans>>
        BY <2>9 DEF RotateRx, queues
      <3> QED
        BY <2>1, <3>1, <3>2, LinkConstants, ClosingKeepsOrder
    <2>10. CASE Drop
      <3>1. \A q \in Threads : readers'[q].sock = readers[q].sock
        BY <2>2, <2>10 DEF Drop, Readers
      <3>2. UNCHANGED <<attached, sent, hands, inbox, handled>>
        BY <2>10 DEF Drop
      <3>3. \A p \in Prios : rx_chans'[p] = <<>>
        BY <2>10 DEF Drop
      <3> QED
        BY <2>1, <3>1, <3>2, <3>3, LinkConstants, ClosingKeepsOrder
    <2>11. CASE UNCHANGED <<attached, sent, queues, readers>>
      BY <2>1, <2>11, LinkConstants, ClosingKeepsOrder DEF queues
    <2> QED
      BY <2>3, <2>4, <2>5, <2>6, <2>7, <2>8, <2>9, <2>10, <2>11
      DEF Next, ThreadStep, Rotate, RotateTx, SetAllowList, threads, vars
  <1> QED
    BY <1>1, <1>2, PassedInOnePiece, PTL DEF Spec
============================================================================
