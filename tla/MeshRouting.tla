---------------------------- MODULE MeshRouting ----------------------------
(***************************************************************************)
(* Several nodes running rx_loop (bin rx.rs): the routing decision for     *)
(* every received frame, with the loops that originate traffic and the     *)
(* link that carries it.  A forwarded frame is rebuilt by the forwarder    *)
(* with a nonce of its own, so the replay check never recognises it; what  *)
(* ends a flood is the hop count, the TC duplicate check and the kind.     *)
(*                                                                         *)
(* A transmission is heard by every node in range, whoever it is for.      *)
(* Copies wait in the receivers' bounded channels, arrive in any order     *)
(* (the OLSR loops bypass the TX scheduler) and may be lost.               *)
(***************************************************************************)
EXTENDS OlsrRoutes, Bags

CONSTANTS
    Nodes,
    BROADCAST,       \* the address of everybody
    Hears,           \* Hears[n]: the nodes in range of n
    HasRoute,        \* HasRoute[n]: destinations n has a route to
    Traffic,         \* the <<node, kind, destination>> that may be originated
    MAX_HOPS,        \* wire constants.rs (2)
    DupWindow,       \* olsr process_tc (100)
    RX_CHAN_DEPTH,   \* capacity of a receiver's channel per priority
    MaxMsgs,         \* bound: messages originated
    Restarting,      \* bound: the nodes that may restart
    MaxRestarts      \* bound: restarts

\* Of the five kinds of MsgKind nothing in the program sends Ack or
\* SessionKeyRotation, which rx_loop would rebroadcast and otherwise only count.
Kinds == {"OlsrHello", "OlsrTc", "Data"}

ASSUME MeshConstants ==
    /\ BROADCAST \notin Nodes
    /\ Traffic \subseteq Nodes \X Kinds \X (Nodes \cup {BROADCAST})
    /\ \A n \in Nodes : Hears[n] \subseteq Nodes \ {n}
    /\ \A n \in Nodes : HasRoute[n] \subseteq Nodes \ {n}
    /\ Restarting \subseteq Nodes
    /\ MAX_HOPS \in Nat /\ DupWindow \in Nat \ {0} /\ RX_CHAN_DEPTH \in Nat \ {0}
    /\ MaxMsgs \in Nat /\ MaxRestarts \in Nat

VARIABLES
    rx,           \* bag of frames in the receivers' channels
    neighbors,    \* neighbors[n]: keys of n's neighbour table
    last_tc_seq,  \* last_tc_seq[n][sender], 0 when absent
    tcSeq,        \* the counter of each node's tc_loop
    originated,   \* history: messages originated so far
    restarts,
    floods,       \* history: floods[n][m], times n took TC m for new and so
                  \* started a flood of its own, with hop count 0
    delivered     \* history: delivered[n][m], times n handed Data m to the app

vars == <<rx, neighbors, last_tc_seq, tcSeq, originated, restarts, floods,
          delivered>>

\* A message is identified by the order of origination.
Counts == [Nodes -> [1 .. MaxMsgs -> 0 .. 2]]

Init ==
    /\ rx = EmptyBag
    /\ neighbors = [n \in Nodes |-> {}]
    /\ last_tc_seq = [n \in Nodes |-> [s \in Nodes |-> 0]]
    /\ tcSeq = [n \in Nodes |-> 0]
    /\ originated = 0
    /\ restarts = 0
    /\ floods = [n \in Nodes |-> [m \in 1 .. MaxMsgs |-> 0]]
    /\ delivered = [n \in Nodes |-> [m \in 1 .. MaxMsgs |-> 0]]

\* Histories count once, twice, and more as twice.
CountUp(h, n, m) == [h EXCEPT ![n][m] = IF @ < 2 THEN @ + 1 ELSE 2]

---------------------------------------------------------------------------
(* The link *)

\* Control frames are sent at High, Data here at any other priority: each has
\* a stream, and so a channel, of its own.
Stream(f) == IF f.msg.kind = "Data" THEN "Data" ELSE "High"

Queued(chans, f) ==
    LET same == {g \in DOMAIN chans : g.to = f.to /\ Stream(g) = Stream(f)}
    IN  BagCardinality([g \in same |-> chans[g]])

\* A frame built by n: every node in range gets a copy unless its channel for
\* that priority is full.
Sent(chans, n, dst, hops, msg) ==
    LET copies == {[to |-> m, dst |-> dst, hops |-> hops, msg |-> msg] : m \in Hears[n]}
    IN  chans (+) SetToBag({f \in copies : Queued(chans, f) < RX_CHAN_DEPTH})

Taken(f) == rx (-) SetToBag({f})

Lose(f) ==
    /\ rx' = Taken(f)
    /\ UNCHANGED <<neighbors, last_tc_seq, tcSeq, originated, restarts, floods, delivered>>

---------------------------------------------------------------------------
(* Originating traffic *)

Message(n, kind, seq) ==
    [kind |-> kind, origin |-> n, seq |-> seq, num |-> originated + 1]

\* hello_loop, and outbound_loop for a broadcast
SendBroadcast(n, kind) ==
    /\ kind # "OlsrTc"
    /\ originated < MaxMsgs
    /\ originated' = originated + 1
    /\ rx' = Sent(rx, n, BROADCAST, 0, Message(n, kind, 0))
    /\ UNCHANGED <<neighbors, last_tc_seq, tcSeq, restarts, floods, delivered>>

\* tc_loop
SendTc(n) ==
    /\ originated < MaxMsgs
    /\ originated' = originated + 1
    /\ tcSeq' = [tcSeq EXCEPT ![n] = @ + 1]
    /\ rx' = Sent(rx, n, BROADCAST, 0, Message(n, "OlsrTc", tcSeq[n] + 1))
    /\ UNCHANGED <<neighbors, last_tc_seq, restarts, floods, delivered>>

\* outbound_loop and the shards of handle_request_image: sent if there is a
\* route.
SendUnicast(n, dst) ==
    /\ originated < MaxMsgs
    /\ originated' = originated + 1
    /\ rx' = IF dst \in HasRoute[n]
             THEN Sent(rx, n, dst, 0, Message(n, "Data", 0)) ELSE rx
    /\ UNCHANGED <<neighbors, last_tc_seq, tcSeq, restarts, floods, delivered>>

Originate ==
    \E t \in Traffic :
        \/ t[2] = "OlsrTc" /\ SendTc(t[1])
        \/ t[3] = BROADCAST /\ SendBroadcast(t[1], t[2])
        \/ t[3] # BROADCAST /\ SendUnicast(t[1], t[3])

\* A process is killed and started again with empty tables.
Restart(n) ==
    /\ restarts < MaxRestarts
    /\ restarts' = restarts + 1
    /\ neighbors' = [neighbors EXCEPT ![n] = {}]
    /\ last_tc_seq' = [last_tc_seq EXCEPT ![n] = [s \in Nodes |-> 0]]
    /\ tcSeq' = [tcSeq EXCEPT ![n] = 0]
    /\ floods' = [floods EXCEPT ![n] = [m \in 1 .. MaxMsgs |-> 0]]
    /\ UNCHANGED <<rx, originated, delivered>>

---------------------------------------------------------------------------
(* rx_loop *)

\* Deviation: the hop limit is inclusive.
RebroadcastsLate(f) ==
    f.dst = BROADCAST /\ f.hops <= MAX_HOPS /\ f.msg.kind # "Data"

\* Deviation: Data is rebroadcast as well.
RebroadcastsData(f) == f.dst = BROADCAST /\ f.hops < MAX_HOPS

Rebroadcasts(f) ==
    f.dst = BROADCAST /\ f.hops < MAX_HOPS /\ f.msg.kind # "Data"

\* Deviation: the hop count of the received frame is kept.
AfterRebroadcastSameHops(f) ==
    IF Rebroadcasts(f) THEN Sent(Taken(f), f.to, BROADCAST, f.hops, f.msg) ELSE Taken(f)

\* The channels once f has been taken out and, if so decided, rebroadcast.
AfterRebroadcast(f) ==
    IF Rebroadcasts(f) THEN Sent(Taken(f), f.to, BROADCAST, f.hops + 1, f.msg) ELSE Taken(f)

RxHello(f) ==
    /\ f.msg.kind = "OlsrHello"
    /\ rx' = AfterRebroadcast(f)
    /\ neighbors' = [neighbors EXCEPT ![f.to] = @ \cup ({f.msg.origin} \ {f.to})]
    /\ UNCHANGED <<last_tc_seq, tcSeq, originated, restarts, floods, delivered>>

\* Deviation: only the very number accepted last is recognised.
IsOldTcExact(f) ==
    \/ f.msg.origin = f.to
    \/ f.msg.seq = last_tc_seq[f.to][f.msg.origin]

IsOldTc(f) ==
    \/ f.msg.origin = f.to
    \/ IsOldSeq(f.msg.seq, last_tc_seq[f.to][f.msg.origin], DupWindow)

RxTcOld(f) ==
    /\ f.msg.kind = "OlsrTc"
    /\ IsOldTc(f)
    /\ rx' = AfterRebroadcast(f)
    /\ UNCHANGED <<neighbors, last_tc_seq, tcSeq, originated, restarts, floods, delivered>>

\* A new TC goes out twice: rebroadcast, and built afresh with hop count 0.
RxTcNew(f) ==
    /\ f.msg.kind = "OlsrTc"
    /\ ~IsOldTc(f)
    /\ rx' = Sent(AfterRebroadcast(f), f.to, BROADCAST, 0, f.msg)
    /\ last_tc_seq' = [last_tc_seq EXCEPT ![f.to][f.msg.origin] = f.msg.seq]
    /\ floods' = CountUp(floods, f.to, f.msg.num)
    /\ UNCHANGED <<neighbors, tcSeq, originated, restarts, delivered>>

RxDataLocal(f) ==
    /\ f.msg.kind = "Data"
    /\ f.dst \in {f.to, BROADCAST}
    /\ rx' = AfterRebroadcast(f)
    /\ delivered' = CountUp(delivered, f.to, f.msg.num)
    /\ UNCHANGED <<neighbors, last_tc_seq, tcSeq, originated, restarts, floods>>

\* Whoever hears a unicast frame for somebody else floods it if it has a
\* route: the next hop written into the frame is not compared with the hearer.
RxDataTransit(f) ==
    /\ f.msg.kind = "Data"
    /\ f.dst \notin {f.to, BROADCAST}
    /\ rx' = IF f.dst \in HasRoute[f.to]
             THEN Sent(Taken(f), f.to, f.dst, 0, f.msg) ELSE Taken(f)
    /\ UNCHANGED <<neighbors, last_tc_seq, tcSeq, originated, restarts, floods, delivered>>

Receive(f) ==
    \/ RxHello(f)
    \/ RxTcOld(f)
    \/ RxTcNew(f)
    \/ RxDataLocal(f)
    \/ RxDataTransit(f)

RxLoop(n) == \E f \in {g \in BagToSet(rx) : g.to = n} : Receive(f)

Next ==
    \/ Originate
    \/ \E n \in Restarting : Restart(n)
    \/ \E f \in BagToSet(rx) : Lose(f)
    \/ \E n \in Nodes : RxLoop(n)

\* rx_loop is a task of its own that never waits for anything but a frame.
Spec == Init /\ [][Next]_vars /\ \A n \in Nodes : WF_vars(RxLoop(n))

---------------------------------------------------------------------------
(* Properties *)

\* Frames carry at most MAX_HOPS hops and tables name other nodes only.
TypeOK ==
    /\ \A f \in BagToSet(rx) :
           /\ f.to \in Nodes /\ f.dst \in Nodes \cup {BROADCAST}
           /\ f.hops \in 0 .. MAX_HOPS
           /\ f.msg.kind \in Kinds /\ f.msg.num \in 1 .. originated
    /\ originated \in 0 .. MaxMsgs /\ tcSeq \in [Nodes -> Nat]
    /\ neighbors \in [Nodes -> SUBSET Nodes] /\ \A n \in Nodes : n \notin neighbors[n]
    /\ last_tc_seq \in [Nodes -> [Nodes -> Nat]] /\ \A n \in Nodes : last_tc_seq[n][n] = 0
    /\ floods \in Counts /\ delivered \in Counts

\* "Flooding Data would cause receivers to see the same message multiple
\* times": no Data message is handed to the application of a node twice.
DataOnce == \A n \in Nodes, m \in 1 .. MaxMsgs : delivered[n][m] <= 1

\* process_tc takes a TC for "new (unseen)" at most once per run of a process,
\* whatever copies come back at whatever hop count.  So a node starts at most
\* one flood with hop count 0 of a TC, which is what the hop limit does not
\* bound.  (Copies sent by the rebroadcast before it are not counted.)
TcFloodedOnce == \A n \in Nodes, m \in 1 .. MaxMsgs : floods[n][m] <= 1

\* "1-hop neighbors discovered via HELLO": the neighbour table names only nodes
\* in whose range the node is.
NeighborsInRange == \A n, m \in Nodes : m \in neighbors[n] => n \in Hears[m]

\* Traffic that is no longer originated dies out: floods of HELLOs, TCs and
\* broadcast Data end although every forwarder rebuilds the frame.
FloodsEnd == <>[](rx = EmptyBag)
=============================================================================
