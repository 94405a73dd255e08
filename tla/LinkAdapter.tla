---------------------------- MODULE LinkAdapter ----------------------------
(***************************************************************************)
(* The link adapter (link lib.rs) with its UDP radio: one Tx handle and    *)
(* one reader thread per priority, the bounded channel a reader fills,     *)
(* rotate_epoch with the old readers' overlap, the allow list, and Drop.   *)
(* Every socket bound to a priority's port receives a copy of every        *)
(* datagram sent to that port; a reader keeps those of its own stream.     *)
(*                                                                         *)
(* rotate_epoch and Drop need the adapter exclusively.  In the binary it   *)
(* is shared with the pump threads of main.rs, which move received frames  *)
(* into one queue read by rx_loop: `attached` tells the two uses apart.    *)
(***************************************************************************)
EXTENDS Naturals, Sequences

CONSTANTS
    Prios,        \* PRIORITIES by index, 0 .. 3 in the code
    LocalNode,    \* node_id
    Peers,        \* the other nodes in radio range
    NoSrc,        \* stands for the sender of a frame too short to name one
    RxChanDepth,  \* RX_CHAN_DEPTH
    InboxDepth,   \* capacity of main.rs' frame channel
    SockDepth,    \* datagrams a socket's receive buffer holds
    MaxEpoch,     \* bound: rotations
    MaxFrames,    \* bound: datagrams sent
    MaxEvents,    \* bound: rotations and datagrams together
    Busy,         \* bound: priorities with traffic when the adapter is not shared
    MaxFails      \* bound: failing radio calls

ASSUME LinkConstants ==
    /\ 0 \in Prios /\ Prios \subseteq Nat /\ \A p \in Prios : 0 .. p \subseteq Prios
    /\ Busy \subseteq Prios
    /\ LocalNode \notin Peers /\ NoSrc \notin Peers \cup {LocalNode}
    /\ {RxChanDepth, InboxDepth, SockDepth} \subseteq Nat \ {0}
    /\ {MaxEpoch, MaxFrames, MaxEvents, MaxFails} \subseteq Nat

VARIABLES
    attached,    \* the adapter is shared with the pump threads
    epoch,       \* self.epoch
    tx,          \* epoch of each priority's Tx handle
    readers,     \* reader thread of each <<priority, epoch>>
    rx_stops,    \* epoch of the reader whose stop flag rx_stops[i] is
    timers,      \* readers that a sleeping thread will tell to stop
    rotation,    \* where rotate_epoch is
    dropped,     \* Drop has run
    allow_list,  \* nodes listened to; None is every node
    rx_chans,    \* frames waiting in each priority's channel
    hands,       \* the frame a pump thread holds, at most one each
    inbox,       \* main.rs' frame channel
    entered,     \* history: frames a reader got into a channel
    handled,     \* history: frames given to rx_loop or to the caller of recv
    sent,        \* datagrams sent so far
    failures,    \* radio calls that failed so far
    broken       \* history: priorities whose newest reader died or never started

threads == <<readers, timers, broken>>
queues  == <<rx_chans, entered, hands, inbox, handled>>
handle  == <<epoch, tx, rx_stops, rotation, dropped>>
vars    == <<attached, allow_list, sent, failures, threads, queues, handle>>

Epochs    == 0 .. MaxEpoch
Threads   == Prios \X Epochs
Frames    == [id : 1 .. MaxFrames, src : Peers \cup {LocalNode, NoSrc},
              prio : Prios, stream : Epochs]
FramesOf(p) == {f \in Frames : f.prio = p}
Readers   == [state : {"absent", "running", "done"}, stop : BOOLEAN, sock : Seq(Frames)]
Idle      == [at |-> 0, step |-> "idle"]
Absent    == [state |-> "absent", stop |-> FALSE, sock |-> <<>>]
Fresh     == [state |-> "running", stop |-> FALSE, sock |-> <<>>]
AnyNode   == Peers \cup {LocalNode}
Running(r) == readers[r].state = "running"
Ended(r)  == [state |-> "done", stop |-> readers[r].stop, sock |-> <<>>]

\* LinkAdapter::new: epoch 0, one Tx and one reader per priority, no filter.
Init ==
    /\ attached \in BOOLEAN
    /\ epoch = 0
    /\ tx = [p \in Prios |-> 0]
    /\ readers = [r \in Threads |-> IF r[2] = 0 THEN Fresh ELSE Absent]
    /\ rx_stops = [p \in Prios |-> 0]
    /\ timers = {}
    /\ rotation = Idle
    /\ dropped = FALSE
    /\ allow_list = AnyNode
    /\ rx_chans = [p \in Prios |-> <<>>]
    /\ hands = [p \in Prios |-> <<>>]
    /\ inbox = <<>>
    /\ entered = 0
    /\ handled = <<>>
    /\ sent = 0
    /\ failures = 0
    /\ broken = {}

---------------------------------------------------------------------------
(* Datagrams *)

\* A broadcast reaches every open socket of the priority's port whose buffer
\* has room, those of old epochs and the sender's own included.
Broadcast(src, p, stream) ==
    /\ sent < MaxFrames /\ sent + epoch < MaxEvents
    /\ attached \/ p \in Busy
    /\ sent' = sent + 1
    /\ readers' = [r \in Threads |->
           IF r[1] = p /\ Running(r) /\ Len(readers[r].sock) < SockDepth
           THEN [readers[r] EXCEPT !.sock = Append(@,
                    [id |-> sent + 1, src |-> src, prio |-> p, stream |-> stream])]
           ELSE readers[r]]

\* The adapter is free for a call: no rotate_epoch holds it, it still exists.
Available == rotation = Idle /\ ~dropped

\* send: on the stream of the current handle.  An error of the socket is
\* returned and sends nothing, which is the same as not calling it.
Send(p) ==
    /\ Available
    /\ Broadcast(LocalNode, p, tx[p])
    /\ UNCHANGED <<attached, allow_list, failures, timers, broken, queues, handle>>

\* Another node sends, in its own epoch, which may be behind or one ahead; a
\* frame of at most four bytes has no sender the adapter can read.  (Bound:
\* what is sent after Drop can only be thrown away and is left out.)
PeerSend(p) ==
    /\ ~dropped
    /\ \E src \in Peers \cup {NoSrc}, stream \in Epochs \cap (0 .. epoch + 1) :
           Broadcast(src, p, stream)
    /\ UNCHANGED <<attached, allow_list, failures, timers, broken, queues, handle>>

---------------------------------------------------------------------------
(* Reader threads *)

\* The stop flag is read between two calls of recv_timeout.
ReaderStop(r) ==
    /\ Running(r)
    /\ readers[r].stop
    /\ readers' = [readers EXCEPT ![r] = Ended(r)]
    /\ UNCHANGED <<attached, allow_list, sent, failures, timers, broken, queues, handle>>

\* Deviation: recv_timeout does not compare the stream id.
AnyStream(r, f) == TRUE

\* recv_timeout skips the datagrams of other streams.
OwnStream(r, f) == f.stream = r[2]

\* A frame too short to name its sender passes both tests.
Accepted(f) == f.src = NoSrc \/ (f.src # LocalNode /\ f.src \in allow_list)

\* Deviation: off by one.
HasRoomForOneMore(f) == ~dropped /\ Len(rx_chans[f.prio]) <= RxChanDepth

\* try_send: a full channel, or one whose receiver is gone, loses the frame.
HasRoom(f) == ~dropped /\ Len(rx_chans[f.prio]) < RxChanDepth

TrySend(f) ==
    /\ HasRoom(f)
    /\ rx_chans' = [rx_chans EXCEPT ![f.prio] = Append(@, f)]
    /\ entered' = entered + 1

\* One call of recv_timeout that returns a frame, or one datagram it skips.
\* A thread that was waiting when its flag was set still takes one frame; a
\* call that times out changes nothing.
ReaderRecv(r) ==
    /\ Running(r)
    /\ readers[r].sock # <<>>
    /\ LET f == Head(readers[r].sock) IN
       /\ readers' = IF OwnStream(r, f) /\ readers[r].stop
                     THEN [readers EXCEPT ![r] = Ended(r)]
                     ELSE [readers EXCEPT ![r].sock = Tail(@)]
       /\ \/ OwnStream(r, f) /\ Accepted(f) /\ TrySend(f)
          \/ ~(OwnStream(r, f) /\ Accepted(f) /\ HasRoom(f)) /\ UNCHANGED <<rx_chans, entered>>
    /\ UNCHANGED <<attached, allow_list, sent, failures, timers, broken,
                   hands, inbox, handled, handle>>

\* Any other socket error ends the thread; nothing starts it again.
ReaderError(r) ==
    /\ Running(r)
    /\ failures < MaxFails
    /\ failures' = failures + 1
    /\ readers' = [readers EXCEPT ![r] = Ended(r)]
    /\ broken' = IF rx_stops[r[1]] = r[2] THEN broken \cup {r[1]} ELSE broken
    /\ UNCHANGED <<attached, allow_list, sent, timers, queues, handle>>

\* The thread rotate_epoch left behind wakes up after OVERLAP_MS.
Overlap(r) ==
    /\ r \in timers
    /\ timers' = timers \ {r}
    /\ readers' = [readers EXCEPT ![r].stop = TRUE]
    /\ UNCHANGED <<attached, allow_list, sent, failures, broken, queues, handle>>

---------------------------------------------------------------------------
(* rotate_epoch, set_allow_list, Drop *)

Rotate ==
    /\ ~attached /\ Available
    /\ epoch < MaxEpoch /\ sent + epoch < MaxEvents
    /\ epoch' = epoch + 1
    /\ rotation' = [at |-> 0, step |-> "tx"]
    /\ UNCHANGED <<attached, allow_list, sent, failures, threads, queues,
                   tx, rx_stops, dropped>>

\* `?`: a failing call returns at once and leaves the later priorities as they are.
GiveUp ==
    /\ failures < MaxFails
    /\ failures' = failures + 1
    /\ rotation' = Idle

\* Deviation: the sleeping thread is given the flag of the new reader.
RotateTxNewFlag ==
    LET p == rotation.at IN
    /\ rotation.step = "tx"
    /\ \/ /\ tx' = [tx EXCEPT ![p] = epoch]
          /\ timers' = timers \cup {<<p, epoch>>}
          /\ rotation' = [rotation EXCEPT !.step = "rx"]
          /\ UNCHANGED failures
       \/ GiveUp /\ UNCHANGED <<tx, timers>>
    /\ UNCHANGED <<attached, allow_list, sent, readers, broken, queues,
                   epoch, rx_stops, dropped>>

\* Tx::new; then the old reader is scheduled to stop.
RotateTx ==
    LET p == rotation.at IN
    /\ rotation.step = "tx"
    /\ \/ /\ tx' = [tx EXCEPT ![p] = epoch]
          /\ timers' = timers \cup {<<p, rx_stops[p]>>}
          /\ rotation' = [rotation EXCEPT !.step = "rx"]
          /\ UNCHANGED failures
       \/ GiveUp /\ UNCHANGED <<tx, timers>>
    /\ UNCHANGED <<attached, allow_list, sent, readers, broken, queues,
                   epoch, rx_stops, dropped>>

NextPriority(p) == IF p + 1 \in Prios THEN [at |-> p + 1, step |-> "tx"] ELSE Idle

\* Rx::new and spawn_reader on the new stream, with the same sender.
RotateRx ==
    LET p == rotation.at IN
    /\ rotation.step = "rx"
    /\ \/ /\ readers' = [readers EXCEPT ![<<p, epoch>>] = Fresh]
          /\ rx_stops' = [rx_stops EXCEPT ![p] = epoch]
          /\ broken' = broken \ {p}
          /\ rotation' = NextPriority(p)
          /\ UNCHANGED failures
       \/ GiveUp /\ broken' = broken \cup {p} /\ UNCHANGED <<readers, rx_stops>>
    /\ UNCHANGED <<attached, allow_list, sent, timers, queues, epoch, tx, dropped>>

\* Key `b` of the console silences every other node, or lifts that again.
SetAllowList ==
    /\ Available
    /\ allow_list' \in {AnyNode, {LocalNode}}
    /\ UNCHANGED <<attached, sent, failures, threads, queues, handle>>

\* Deviation: only the readers that `new` started are told to stop.
DropFirstReaders ==
    /\ ~attached /\ Available
    /\ dropped' = TRUE
    /\ readers' = [r \in Threads |->
           IF r[2] = 0 THEN [readers[r] EXCEPT !.stop = TRUE] ELSE readers[r]]
    /\ rx_chans' = [p \in Prios |-> <<>>]
    /\ UNCHANGED <<attached, allow_list, sent, failures, timers, broken,
                   entered, hands, inbox, handled, epoch, tx, rx_stops, rotation>>

\* Drop: the pump threads of the binary hold the adapter and never end.
Drop ==
    /\ ~attached /\ Available
    /\ dropped' = TRUE
    /\ readers' = [r \in Threads |->
           IF rx_stops[r[1]] = r[2] THEN [readers[r] EXCEPT !.stop = TRUE] ELSE readers[r]]
    /\ rx_chans' = [p \in Prios |-> <<>>]
    /\ UNCHANGED <<attached, allow_list, sent, failures, timers, broken,
                   entered, hands, inbox, handled, epoch, tx, rx_stops, rotation>>

---------------------------------------------------------------------------
(* The receiving side *)

\* recv, called by the owner of an adapter that is not shared.
Recv(p) ==
    /\ ~attached /\ Available
    /\ rx_chans[p] # <<>>
    /\ handled' = Append(handled, Head(rx_chans[p]))
    /\ rx_chans' = [rx_chans EXCEPT ![p] = Tail(@)]
    /\ UNCHANGED <<attached, allow_list, sent, failures, threads, entered, hands, inbox, handle>>

\* A pump thread's link.recv(prio) ...
PumpRecv(p) ==
    /\ attached
    /\ hands[p] = <<>> /\ rx_chans[p] # <<>>
    /\ hands' = [hands EXCEPT ![p] = <<Head(rx_chans[p])>>]
    /\ rx_chans' = [rx_chans EXCEPT ![p] = Tail(@)]
    /\ UNCHANGED <<attached, allow_list, sent, failures, threads, entered, inbox, handled, handle>>

\* Deviation: try_send, which gives the frame up when the queue is full.
PumpTrySend(p) ==
    /\ hands[p] # <<>>
    /\ inbox' = IF Len(inbox) < InboxDepth THEN inbox \o hands[p] ELSE inbox
    /\ hands' = [hands EXCEPT ![p] = <<>>]
    /\ UNCHANGED <<attached, allow_list, sent, failures, threads, rx_chans, entered, handled, handle>>

\* ... and its blocking_send.
PumpSend(p) ==
    /\ hands[p] # <<>>
    /\ Len(inbox) < InboxDepth
    /\ inbox' = inbox \o hands[p]
    /\ hands' = [hands EXCEPT ![p] = <<>>]
    /\ UNCHANGED <<attached, allow_list, sent, failures, threads, rx_chans, entered, handled, handle>>

\* rx_loop takes the next frame, whatever its priority.
RxLoop ==
    /\ inbox # <<>>
    /\ handled' = Append(handled, Head(inbox))
    /\ inbox' = Tail(inbox)
    /\ UNCHANGED <<attached, allow_list, sent, failures, threads, rx_chans, entered, hands, handle>>

---------------------------------------------------------------------------
\* The steps of the threads: readers, sleeping threads, pumps and rx_loop.
ThreadStep ==
    \/ \E r \in Threads : ReaderStop(r) \/ ReaderRecv(r) \/ Overlap(r)
    \/ \E p \in Prios : PumpRecv(p) \/ PumpSend(p)
    \/ RxLoop

Next ==
    \/ ThreadStep
    \/ \E p \in Prios : Send(p) \/ PeerSend(p) \/ Recv(p)
    \/ \E r \in Threads : ReaderError(r)
    \/ Rotate \/ RotateTx \/ RotateRx
    \/ SetAllowList \/ Drop

\* Some thread that can run does run: less than the operating system gives,
\* and enough, since every such step uses up a datagram, a frame or a thread.
\* Nobody is obliged to send, to call recv, to rotate or to drop the adapter.
Fairness == WF_vars(ThreadStep)

Spec == Init /\ [][Next]_vars /\ Fairness

---------------------------------------------------------------------------
(* Properties *)

\* Every variable keeps the shape of the code's data; no channel of the adapter
\* or of main.rs holds more than its depth.
TypeOK ==
    /\ attached \in BOOLEAN /\ dropped \in BOOLEAN
    /\ epoch \in Epochs
    /\ tx \in [Prios -> Epochs] /\ rx_stops \in [Prios -> Epochs]
    /\ timers \subseteq Threads /\ broken \subseteq Prios
    /\ rotation \in [at : Prios, step : {"idle", "tx", "rx"}]
    /\ allow_list \subseteq AnyNode
    /\ readers \in [Threads -> Readers]
    /\ \A r \in Threads :
           readers[r].sock \in Seq(FramesOf(r[1])) /\ Len(readers[r].sock) <= SockDepth
    /\ rx_chans \in [Prios -> Seq(Frames)] /\ hands \in [Prios -> Seq(Frames)]
    /\ \A p \in Prios :
           /\ rx_chans[p] \in Seq(FramesOf(p)) /\ Len(rx_chans[p]) <= RxChanDepth
           /\ hands[p] \in Seq(FramesOf(p)) /\ Len(hands[p]) <= 1
    /\ inbox \in Seq(Frames) /\ Len(inbox) <= InboxDepth
    /\ handled \in Seq(Frames) /\ entered \in Nat
    /\ sent \in 0 .. MaxFrames /\ failures \in 0 .. MaxFails

\* What has got past the readers of p so far, oldest first; the part that is
\* beyond the pump threads holds the frames of the other priorities too.
Passed(p) == handled \o inbox \o hands[p] \o rx_chans[p]

\* A frame gets past the readers at most once, even while the old and the new
\* reader of a priority both receive a copy of it, and never back to its sender;
\* and the frames of one stream stay in the order in which they were sent,
\* through the socket, the channel, the pump thread and the shared queue
\* (spawn_reader, Rx::recv_timeout, the pump threads of main.rs).
PassedOnceInOrder ==
    \A p \in Prios :
        /\ \A i \in DOMAIN Passed(p) : Passed(p)[i].src # LocalNode
        /\ \A i, j \in DOMAIN Passed(p) :
               /\ i < j
               /\ Passed(p)[i].prio = Passed(p)[j].prio
               /\ Passed(p)[i].stream = Passed(p)[j].stream
               => Passed(p)[i].id < Passed(p)[j].id

\* Between two calls, whatever rotations succeeded or stopped half way, every
\* priority is listened to in the epoch it is sent in, by a reader nobody will
\* stop: the node keeps hearing the peers it talks to.  A priority whose newest
\* reader could not be opened, or died, is the exception, and only that one.
ListensWhereItSends ==
    Available => \A p \in Prios \ broken :
        LET r == <<p, tx[p]>> IN Running(r) /\ ~readers[r].stop /\ r \notin timers

\* Once the adapter is dropped every reader thread ends, whichever epoch it
\* was started in (Drop, the sleeping threads of rotate_epoch).
AllReadersEnd == dropped ~> \A r \in Threads : ~Running(r)

\* Every frame a reader got into a channel reaches rx_loop once the traffic
\* ends: a full shared queue delays the pump threads of main.rs and loses
\* nothing.
ChannelIsDrained ==
    <>[](attached => Len(handled) = entered /\ \A p \in Prios : rx_chans[p] = <<>>)
============================================================================
